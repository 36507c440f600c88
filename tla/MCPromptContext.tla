-------------------------- MODULE MCPromptContext --------------------------
(***************************************************************************)
(* A small instance of PromptContext for TLC.                              *)
(***************************************************************************)
EXTENDS PromptContext

CONSTANTS p1, p2, d1, d2

TwoProviders == {p1, p2}
OneDoc == {d1}
=============================================================================
