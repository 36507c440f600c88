----------------------------- MODULE MCComposer ------------------------------
(***************************************************************************)
(* A small instance of Composer for TLC; and the layout of a text in rows  *)
(* and pages, over all short texts.                                        *)
(***************************************************************************)
EXTENDS Composer, DisplayLayout

F(at, source) == [at |-> at, source |-> source]

\* An answer whose first formula grows while a second one appears: "$a$" is
\* "$a$$b$$" a moment later, and the display formula keeps the offset.
Streamed == << <<>>, <<F(0, "p")>>, <<F(0, "q"), F(4, "p")>> >>

OneLetter == {"a"}

Segments == {"a", "wide", "mark", "tab", "nl"}

\* Two checkpoints for up to six rows; rows that are shorter than a tab and
\* rows that hold one.
ASSUME Pages ==
    \A value \in BoundedSeq(Segments, 5), width \in {3, 9} :
        NothingIsCut(value, width) /\ PagesAgree(value, width, 2)
=============================================================================
