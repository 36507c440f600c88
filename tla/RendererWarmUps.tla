--------------------------- MODULE RendererWarmUps ---------------------------
(***************************************************************************)
(* RendererPool with a history variable: how many warm-ups of each slot    *)
(* failed in a row, whether the thread could not be started or it did not  *)
(* complete the handshake.                                                 *)
(***************************************************************************)
EXTENDS RendererPool

VARIABLE failedWarmUps

WarmUpFailed(s) ==
    \/ slots[s].ready = "pending" /\ slots'[s].ready = "failed"
    \/ slots'[s].warmFailures > slots[s].warmFailures

CountWarmUps ==
    failedWarmUps' = [s \in Slots |->
        IF WarmUpFailed(s) THEN failedWarmUps[s] + 1
        ELSE IF slots'[s].ready = "ok" THEN 0
        ELSE failedWarmUps[s]]

WarmUpSpec ==
    /\ Init /\ failedWarmUps = [s \in Slots |-> 0]
    /\ [][Next /\ CountWarmUps]_<<vars, failedWarmUps>>

\* "After this many consecutive failed warm-ups the slot stops retrying on its
\* own and only fails the jobs actually addressed to it": a slot at the cap
\* holds no thread that is warming up.
WarmRetryCap ==
    \A s \in Slots : failedWarmUps[s] >= MaxWarmRetries => slots[s].ready # "pending"
=============================================================================
