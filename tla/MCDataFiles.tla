---------------------------- MODULE MCDataFiles ----------------------------
(* Room for one raster of size two or two of size one. *)
EXTENDS DataFiles, TLC

CONSTANTS f1, f2

MCRank == (f1 :> 1) @@ (f2 :> 2)
MCSymmetry == Permutations(Sessions) \cup Permutations(Calls)
=============================================================================
