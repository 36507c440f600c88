------------------------- MODULE MCGraphicsRuntime -------------------------
(* Two formulas, one under the other, in a terminal of three rows; and what *)
(* is written of an image, over small images and payloads. *)
EXTENDS GraphicsRuntime, ImageProtocols

CONSTANTS k1, k2

MCBaseRow == (k1 :> 0) @@ (k2 :> 1)

\* Images of two rows, of one, and of more rows than a band has; shades that are
\* near each other or not; room for two planes.
Shades == {Clear, 0, 3, 9}
SmallImages == [1..2 -> [1..2 -> Shades]] \cup [1..1 -> [1..6 -> {Clear, 3, 9}]]
                   \cup [1..8 -> {<<3, Clear>>, <<Clear, Clear>>}]

ASSUME Sixels ==
    \A image \in SmallImages, background \in {<<>>, <<4>>} :
        SixelsDrawTheImage(image, background, 2, 3)

ASSUME KittyChunks ==
    \A n \in 1..9 : KittyShowsThePayload([i \in 1..n |-> i], 4)
=============================================================================
