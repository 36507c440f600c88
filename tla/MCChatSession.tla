--------------------------- MODULE MCChatSession ----------------------------
(***************************************************************************)
(* Small instances of ChatSession for TLC.                                 *)
(***************************************************************************)
EXTENDS ChatSession

CONSTANTS s1, s2

None == {}
First == {s1}
Second == {s2}
Both == {s1, s2}
=============================================================================
