-------------------------------- MODULE Scroll --------------------------------
(***************************************************************************)
(* Scrolling the conversation (packages/cli/src/tui/components/            *)
(* Conversation.tsx, the scroll actions of reducer.ts, the keys of         *)
(* App.tsx).                                                               *)
(*                                                                         *)
(* The component measures how many rows of its content lie above the       *)
(* viewport when the tail is shown, and reports that number from an effect *)
(* when it differs from the last one reported; the reducer keeps it, and   *)
(* counts the reader's place from the tail.  An overlay takes the place of *)
(* the component, which forgets what it last reported.                     *)
(***************************************************************************)
EXTENDS Integers

VARIABLES
    rows,     \* measured height of the content
    page,     \* measured height of the viewport
    mounted,  \* is the conversation on the screen?
    reported, \* lastMaxScroll of the component: what it last reported
    scrollMax,    \* state.scrollMax
    scrollOffset, \* state.scrollOffset: rows from the tail
    loadedInPlace \* history: since the last report, the session was replaced
                  \* while the conversation was on the screen

vars == <<rows, page, mounted, reported, scrollMax, scrollOffset,
          loadedInPlace>>

Nothing == -1

AtLeast0(n) == IF n < 0 THEN 0 ELSE n

\* clampScrollOffset
Clamp(n, max) == IF n < 0 THEN 0 ELSE IF n > max THEN max ELSE n

\* What the component measures, and the row of the content it shows first.
maxScroll == AtLeast0(rows - page)
TopRow == maxScroll - Clamp(scrollOffset, maxScroll)

Init ==
    /\ rows \in Nat /\ page \in Nat \ {0}
    /\ mounted \in BOOLEAN
    /\ reported = Nothing /\ scrollMax = 0 /\ scrollOffset = 0
    /\ loadedInPlace = FALSE

\* Text streams in, formulas take their height, the terminal is resized.
Layout ==
    /\ rows' \in Nat /\ page' \in Nat \ {0}
    /\ UNCHANGED <<mounted, reported, scrollMax, scrollOffset, loadedInPlace>>

\* conversation/append
Appended ==
    /\ rows' \in Nat /\ scrollOffset' = 0
    /\ UNCHANGED <<page, mounted, reported, scrollMax, loadedInPlace>>

\* scroll/range: who is not at the tail stays where they are.
RangeOffset ==
    IF scrollOffset = 0 THEN 0
    ELSE Clamp(scrollOffset + maxScroll - scrollMax, maxScroll)

\* The effect of the component.
RangeReported ==
    /\ mounted /\ reported # maxScroll
    /\ reported' = maxScroll
    /\ scrollMax' = maxScroll
    /\ scrollOffset' = RangeOffset
    /\ loadedInPlace' = FALSE
    /\ UNCHANGED <<rows, page, mounted>>

\* scroll/by
Scrolled(lines) == Clamp(scrollOffset + lines, scrollMax)

\* The wheel, PageUp and PageDown.
ScrollBy ==
    /\ mounted
    /\ \E lines \in Int : scrollOffset' = Scrolled(lines)
    /\ UNCHANGED <<rows, page, mounted, reported, scrollMax, loadedInPlace>>

\* Home, and End or Escape.
ScrollToEnd ==
    /\ mounted
    /\ scrollOffset' \in {0, scrollMax}
    /\ UNCHANGED <<rows, page, mounted, reported, scrollMax, loadedInPlace>>

\* An overlay, the home screen or a tiny terminal takes the place.
Unmount ==
    /\ mounted
    /\ mounted' = FALSE /\ reported' = Nothing /\ loadedInPlace' = FALSE
    /\ UNCHANGED <<rows, page, scrollMax, scrollOffset>>

Mount ==
    /\ ~mounted
    /\ mounted' = TRUE
    /\ UNCHANGED <<rows, page, reported, scrollMax, scrollOffset, loadedInPlace>>

\* session/load, session/create and conversation/clear start from the tail;
\* what an overlay hides until then is closed with the same update.
Replaced ==
    /\ rows' \in Nat
    /\ scrollMax' = 0 /\ scrollOffset' = 0
    /\ mounted' = TRUE
    /\ loadedInPlace' = (mounted \/ loadedInPlace)
    /\ UNCHANGED <<page, reported>>

Next ==
    \/ Layout \/ Appended \/ RangeReported \/ ScrollBy \/ ScrollToEnd
    \/ Unmount \/ Mount \/ Replaced

Spec == Init /\ [][Next]_vars

-----------------------------------------------------------------------------
TypeOK ==
    /\ rows \in Nat /\ page \in Nat \ {0}
    /\ mounted \in BOOLEAN /\ loadedInPlace \in BOOLEAN
    /\ reported \in Nat \cup {Nothing}
    /\ scrollMax \in Nat /\ scrollOffset \in Nat

\* The component has nothing left to report.
Settled == mounted /\ reported = maxScroll

\* Once the layout has settled every row can be reached: the reducer knows how
\* far the content goes, and the reader is somewhere in it ("the oldest message
\* stays reachable", docs/HANDOFF.md:819).  The exception is a session that
\* replaced another on the screen, without an overlay, and has its height: the
\* component sees no difference, and the reducer keeps the 0 it starts with.
Reachable ==
    /\ scrollOffset <= scrollMax
    /\ Settled /\ ~loadedInPlace => scrollMax = maxScroll

\* When the content grows or shrinks below the reader, the report of it leaves
\* the row at the top of the viewport where it was before the layout changed:
\* the place counted from the head is kept as far as it exists.
Place == scrollMax - scrollOffset

PlaceKept ==
    RangeReported /\ scrollOffset > 0 =>
        Place' = Clamp(Place, maxScroll)

\* From the report on, what is shown is the place the reducer keeps.
ShownAsKept ==
    Settled /\ ~loadedInPlace => TopRow = Place
===============================================================================
