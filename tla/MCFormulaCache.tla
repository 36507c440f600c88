--------------------------- MODULE MCFormulaCache ---------------------------
(***************************************************************************)
(* A small instance of FormulaCache for TLC: two calls for one formula,    *)
(* one each for a second, lighter formula and for one that never fits.     *)
(***************************************************************************)
EXTENDS FormulaCache

CONSTANTS c1, c2, c3, c4, k1, k2, k3

FourCalls == {c1, c2, c3, c4}
ThreeKeys == {k1, k2, k3}
MostlyOne == [c \in FourCalls |-> IF c = c3 THEN k2 ELSE IF c = c4 THEN k3 ELSE k1]
Weights == [k \in ThreeKeys |-> IF k = k1 THEN 2 ELSE IF k = k2 THEN 1 ELSE 3]
=============================================================================
