--------------------------- MODULE RasterService ----------------------------
(***************************************************************************)
(* What FormulaRasterCache promises its callers, with no operations, no    *)
(* disk and no order among the rasters it keeps: see FormulaCache for the  *)
(* code.                                                                   *)
(***************************************************************************)
CONSTANTS
    Calls,   \* the calls of render()
    Key      \* the formula, style and version each call asks for

Verdicts == {"ok", "failed"}
Outcomes == Verdicts \cup {"unmade", "waiting", "aborted"}

VARIABLES
    outcome, \* of each call
    left,    \* the calls whose own signal was aborted while they waited
    have     \* the keys with a raster ready

vars == <<outcome, left, have>>

Waiting(k) == {c \in Calls : outcome[c] = "waiting" /\ Key[c] = k}

Init ==
    /\ outcome = [c \in Calls |-> "unmade"]
    /\ left = {}
    /\ have = {}

\* A call is answered at once or waits.
Ask(c) ==
    /\ outcome[c] = "unmade"
    /\ outcome' = [outcome EXCEPT
           ![c] = IF Key[c] \in have THEN "ok" ELSE "waiting"]
    /\ UNCHANGED <<left, have>>

\* A caller that gives up is the only one to notice.
Leave(c) ==
    /\ outcome[c] = "waiting"
    /\ outcome' = [outcome EXCEPT ![c] = "aborted"]
    /\ left' = left \cup {c}
    /\ UNCHANGED have

\* A raster is kept, maybe at the expense of others, only while somebody
\* waits for it.
Keep(k) ==
    /\ Waiting(k) # {}
    /\ k \in have'
    /\ have' \subseteq have \cup {k}
    /\ UNCHANGED <<outcome, left>>

\* All that wait for a key get the same verdict in the same step, which is
\* never "aborted".
Answer(k) ==
    /\ Waiting(k) # {}
    /\ \E verdict \in Verdicts :
           /\ outcome' = [c \in Calls |->
                  IF c \in Waiting(k) THEN verdict ELSE outcome[c]]
           /\ \/ UNCHANGED have
              \/ verdict = "ok" /\ k \in have' /\ have' \subseteq have \cup {k}
    /\ UNCHANGED left

\* clear(): everybody is sent away and nothing is kept.
Forget ==
    /\ outcome' = [c \in Calls |->
           IF outcome[c] = "waiting" THEN "aborted" ELSE outcome[c]]
    /\ have' = {}
    /\ UNCHANGED left

Next ==
    \/ \E c \in Calls : Ask(c) \/ Leave(c)
    \/ \E c \in Calls : Keep(Key[c]) \/ Answer(Key[c])
    \/ Forget

Spec == Init /\ [][Next]_vars
=============================================================================
