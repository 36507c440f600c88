--------------------------- MODULE MCRendererPool ---------------------------
(***************************************************************************)
(* Small instances of RendererPool for TLC.                                *)
(***************************************************************************)
EXTENDS RendererPool, TLC

CONSTANTS j1, j2, j3

ThreeJobs == {j1, j2, j3}
NoneInvalid == {}
LastInvalid == {j3}

JobSymmetry == Permutations(Jobs)
=============================================================================
