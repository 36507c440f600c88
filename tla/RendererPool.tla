---------------------------- MODULE RendererPool ----------------------------
(***************************************************************************)
(* The bounded, pre-warmed worker pool of packages/latex-renderer: the     *)
(* class ManagedLatexRenderer, the budget one response charges, and the    *)
(* worker threads as the pool sees them.                                   *)
(*                                                                         *)
(* A step is one synchronous stretch of the main thread (a call, or the    *)
(* callback of one event with the microtasks it queues), or one step of a  *)
(* worker thread.  Promises that wait for a macrotask (slot.ready, the     *)
(* answer of a worker, worker.terminate()) separate steps.                 *)
(***************************************************************************)
EXTENDS Naturals, Sequences, FiniteSets

CONSTANTS
    Jobs,            \* calls of render(), each with a TeX source of its own
    InvalidJobs,     \* the calls normalizePublicRequest or the byte limit refuses
    NoJob,           \* no call
    Concurrency,     \* #concurrency
    MaxWarmRetries,  \* maximumWarmRetries
    MaxRequestId,    \* maximumRequestId
    MaxExpressions,  \* maximumExpressionsPerResponse
    MaxRenderTime,   \* maximumCumulativeRenderMs, in units of the model
    MaxCost,         \* bound: the most units one render takes
    MaxSpawns,       \* bound: worker threads ever started
    MaxOutbox        \* bound: events of a worker that wait when it adds one

ASSUME PoolAssumption ==
    /\ InvalidJobs \subseteq Jobs
    /\ NoJob \notin Jobs
    /\ Concurrency \in Nat \ {0}
    /\ MaxWarmRetries \in Nat \ {0}
    /\ MaxRequestId \in Nat \ {0}
    /\ MaxExpressions \in Nat
    /\ MaxRenderTime \in Nat
    /\ MaxCost \in Nat
    /\ MaxSpawns \in Nat
    /\ Concurrency <= MaxSpawns
    /\ MaxOutbox \in Nat \ {0}

VARIABLES
    closed,    \* #closed
    closing,   \* how far close() is: "open", "first", "second" or "done"
    queue,     \* #queue
    promise,   \* what became of the promise render() returned for each job
    answer,    \* for a resolved job, the job whose TeX the result renders
    aborted,   \* the jobs whose AbortSignal is aborted
    slots,     \* #slots
    workers,   \* the worker threads
    spawned,   \* worker threads started so far
    nextId,    \* #nextId
    budget,    \* LatexRenderBudget of the one response all jobs belong to
    hostDown   \* an 'error' event met no listener: the process is gone

vars == <<closed, closing, queue, promise, answer, aborted, slots, workers,
          spawned, nextId, budget, hostDown>>

Slots == 1..Concurrency
Workers == 1..MaxSpawns
Ids == 1..MaxRequestId

Reasons == {"cancelled", "timeout", "worker_failed", "render_failed",
            "output_limit", "refused"}
Settled == {"resolved"} \cup Reasons
Promises == {"idle", "pending"} \cup Settled

Requests == [id : Ids, job : Jobs]
NoRequest == [id |-> 0, job |-> NoJob]

\* What a worker thread makes the main thread see, in order: messages, the
\* 'error' event of a crash and the 'exit' event.
Event(kind, request) == [kind |-> kind, id |-> request.id, job |-> request.job]
Events ==
    [kind : {"ready", "junk", "error", "exit"}, id : {0}, job : {NoJob}]
        \cup [kind : {"result", "failure"}, id : Ids, job : Jobs]

SlotFields ==
    [worker : Workers,
     phase : {"free", "handshake", "rendering", "retiring"},
     job : Jobs \cup {NoJob},
     id : Ids \cup {0},
     ready : {"pending", "ok", "failed"},
     warmFailures : Nat,
     disabled : BOOLEAN]

Busy(slot) == slot.phase \in {"handshake", "rendering"}

\* A slot has a job while #run is busy with it.
Slot == {slot \in SlotFields : slot.job \in Jobs <=> Busy(slot)}

Worker ==
    [state : {"unborn", "starting", "up", "dead"},
     request : Requests \cup {NoRequest},
     outbox : Seq(Events)]

Active == {slots[s].job : s \in {t \in Slots : Busy(slots[t])}}

(***************************************************************************)
(* Worker threads.  The packaged worker posts "ready" once and answers one *)
(* request at a time; a broken one may speak out of turn, repeat itself,   *)
(* crash, exit or never answer.                                            *)
(***************************************************************************)
Emit(w, events) ==
    [workers EXCEPT ![w].outbox = @ \o events]

Room(w, n) == Len(workers[w].outbox) + n <= MaxOutbox

\* worker.terminate(): the thread is gone, its 'exit' event is still to come.
Terminate(ws, ks) ==
    [w \in Workers |->
        IF w \in ks /\ ws[w].state \in {"starting", "up"}
        THEN [ws[w] EXCEPT !.state = "dead", !.request = NoRequest,
                           !.outbox = Append(@, Event("exit", NoRequest))]
        ELSE ws[w]]

Live(w) == ~hostDown /\ workers[w].state \in {"starting", "up"}

WorkerStarts(w) ==
    /\ Live(w) /\ workers[w].state = "starting" /\ Room(w, 1)
    /\ \E kind \in {"ready", "junk"} :
         workers' = [Emit(w, <<Event(kind, NoRequest)>>) EXCEPT ![w].state = "up"]
    /\ UNCHANGED <<closed, closing, queue, promise, answer, aborted, slots,
                   spawned, nextId, budget, hostDown>>

\* The answer to the request in hand; "again" leaves it in hand, so that the
\* worker may send a second answer to it.
WorkerAnswers(w) ==
    /\ Live(w) /\ workers[w].request # NoRequest /\ Room(w, 1)
    /\ \E kind \in {"result", "failure"}, again \in BOOLEAN :
         workers' = [Emit(w, <<Event(kind, workers[w].request)>>)
                        EXCEPT ![w].request = IF again THEN @ ELSE NoRequest]
    /\ UNCHANGED <<closed, closing, queue, promise, answer, aborted, slots,
                   spawned, nextId, budget, hostDown>>

WorkerBabbles(w) ==
    /\ Live(w) /\ workers[w].state = "up" /\ Room(w, 1)
    /\ workers' = Emit(w, <<Event("junk", NoRequest)>>)
    /\ UNCHANGED <<closed, closing, queue, promise, answer, aborted, slots,
                   spawned, nextId, budget, hostDown>>

WorkerDies(w) ==
    /\ Live(w)
    /\ \E events \in {<<Event("exit", NoRequest)>>,
                      <<Event("error", NoRequest), Event("exit", NoRequest)>>} :
         /\ Room(w, 1)
         /\ workers' = [Emit(w, events)
                          EXCEPT ![w].state = "dead", ![w].request = NoRequest]
    /\ UNCHANGED <<closed, closing, queue, promise, answer, aborted, slots,
                   spawned, nextId, budget, hostDown>>

(***************************************************************************)
(* The pool.                                                               *)
(***************************************************************************)
Settle(p, j, verdict) ==
    IF p[j] = "pending" THEN [p EXCEPT ![j] = verdict] ELSE p

FreeSlots(sl) == {s \in Slots : sl[s].phase = "free"}
Rank(sl, s) == Cardinality({t \in FreeSlots(sl) : t <= s})

\* dispatch(): the free slots take the head of the queue in slot order; one
\* that meets an aborted job rejects it and stays free.
Takes(q, sl, s) == s \in FreeSlots(sl) /\ Rank(sl, s) <= Len(q)

DispatchQueue(q, sl) ==
    SubSeq(q, Cardinality({s \in Slots : Takes(q, sl, s)}) + 1, Len(q))

DispatchSlots(q, sl) ==
    [s \in Slots |->
        IF Takes(q, sl, s) /\ q[Rank(sl, s)] \notin aborted
        THEN [sl[s] EXCEPT !.phase = "handshake", !.job = q[Rank(sl, s)]]
        ELSE sl[s]]

DispatchPromise(q, sl, p) ==
    [j \in Jobs |->
        IF j \in aborted /\ p[j] = "pending"
             /\ \E s \in Slots : Takes(q, sl, s) /\ q[Rank(sl, s)] = j
        THEN "cancelled" ELSE p[j]]

Dispatch(q, sl, p) ==
    IF closed
    THEN queue' = q /\ slots' = sl /\ promise' = p
    ELSE /\ queue' = DispatchQueue(q, sl)
         /\ slots' = DispatchSlots(q, sl)
         /\ promise' = DispatchPromise(q, sl, p)

FreeAfterReplace(sl) == Dispatch(queue, sl, promise)

(***************************************************************************)
(* render(): the refusals, then budget.claim(), then the queue.            *)
(***************************************************************************)
RenderRefusal(j) ==
    IF closed THEN "worker_failed"
    ELSE IF j \in aborted THEN "cancelled"
    ELSE "refused"

RefuseRender(j) ==
    /\ ~hostDown /\ promise[j] = "idle"
    /\ closed \/ j \in aborted \/ j \in InvalidJobs
    /\ promise' = [promise EXCEPT ![j] = RenderRefusal(j)]
    /\ UNCHANGED <<closed, closing, queue, answer, aborted, slots, workers,
                   spawned, nextId, budget, hostDown>>

\* claim() counts the expression before it looks at either limit.
Claimable(b) == b.expressions + 1 <= MaxExpressions /\ b.spent < MaxRenderTime

Render(j) ==
    /\ ~hostDown /\ promise[j] = "idle"
    /\ ~closed /\ j \notin aborted /\ j \notin InvalidJobs
    /\ budget' = [budget EXCEPT !.expressions = @ + 1]
    /\ IF Claimable(budget)
       THEN Dispatch(Append(queue, j), slots, [promise EXCEPT ![j] = "pending"])
       ELSE /\ promise' = [promise EXCEPT ![j] = "refused"]
            /\ UNCHANGED <<queue, slots>>
    /\ UNCHANGED <<closed, closing, answer, aborted, workers, spawned, nextId, hostDown>>

(***************************************************************************)
(* The end of #run: the promise is settled, the time is charged to the     *)
(* budget, and the slot is either freed or, when its worker is poisoned,   *)
(* kept busy while #replace terminates that worker.                        *)
(***************************************************************************)
ChargedTo(b, s, cost) ==
    IF slots[s].phase = "rendering" THEN [b EXCEPT !.spent = @ + cost] ELSE b

Freed(slot) == [slot EXCEPT !.phase = "free", !.job = NoJob, !.id = 0]
Retiring(slot) == [slot EXCEPT !.phase = "retiring", !.job = NoJob, !.id = 0]

EndRun(s, sl, p, ws, poisoned) ==
    /\ \E cost \in 0..MaxCost : budget' = ChargedTo(budget, s, cost)
    /\ IF poisoned /\ ~closed
       THEN /\ slots' = [sl EXCEPT ![s] = Retiring(@)]
            /\ workers' = Terminate(ws, {sl[s].worker})
            /\ promise' = p /\ UNCHANGED queue
       ELSE /\ Dispatch(queue, [sl EXCEPT ![s] = Freed(@)], p)
            /\ workers' = ws
    /\ UNCHANGED <<closed, closing, spawned, nextId, hostDown>>

\* Mutant: a cancelled job hands its worker to the next one.
FailRunBug(s, sl, ws, verdict) ==
    EndRun(s, sl, Settle(promise, slots[s].job, verdict), ws, verdict # "cancelled")

\* The catch block: every failure of #run rejects the job and poisons the slot.
FailRun(s, sl, ws, verdict) ==
    EndRun(s, sl, Settle(promise, slots[s].job, verdict), ws, TRUE)

(***************************************************************************)
(* #run after "await slot.ready", in a microtask: no event and no timer    *)
(* gets in between, but the code that called render() may still go on.     *)
(***************************************************************************)
Resumes(s) == slots[s].phase = "handshake" /\ slots[s].ready # "pending"
NextTask == ~hostDown /\ \A s \in Slots : ~Resumes(s)

WrapId(id) == IF id >= MaxRequestId THEN 1 ELSE id + 1

Post(ws, w, request) ==
    IF ws[w].state = "dead" THEN ws ELSE [ws EXCEPT ![w].request = request]

StartRender(s) ==
    /\ ~hostDown /\ Resumes(s) /\ slots[s].ready = "ok"
    /\ slots[s].job \notin aborted
    /\ slots' = [slots EXCEPT ![s].warmFailures = 0, ![s].phase = "rendering",
                              ![s].id = nextId]
    /\ nextId' = WrapId(nextId)
    /\ workers' = Post(workers, slots[s].worker, [id |-> nextId, job |-> slots[s].job])
    /\ UNCHANGED <<closed, closing, queue, promise, answer, aborted, spawned,
                   budget, hostDown>>

\* The job was cancelled while its slot warmed up.
CancelBeforeRender(s) ==
    /\ ~hostDown /\ Resumes(s) /\ slots[s].ready = "ok"
    /\ slots[s].job \in aborted
    /\ FailRun(s, [slots EXCEPT ![s].warmFailures = 0], workers, "cancelled")
    /\ UNCHANGED <<answer, aborted>>

FailHandshake(s) ==
    /\ ~hostDown /\ Resumes(s) /\ slots[s].ready = "failed"
    /\ FailRun(s, slots, workers, "worker_failed")
    /\ UNCHANGED <<answer, aborted>>

(***************************************************************************)
(* Events of the worker a slot holds.  The handshake listens while ready   *)
(* is pending and the job listens while it renders; at any other time a    *)
(* message or an 'exit' is dropped, and an 'error' brings the process down.*)
(***************************************************************************)
FirstEvent(s) == Head(workers[slots[s].worker].outbox)
Consumed(s) == [workers EXCEPT ![slots[s].worker].outbox = Tail(@)]

Deliverable(s) == NextTask /\ workers[slots[s].worker].outbox # <<>>
Shaking(s) == slots[s].ready = "pending"
Listening(s) == slots[s].phase = "rendering"

HandshakeEvent(s) ==
    /\ Deliverable(s) /\ Shaking(s)
    /\ slots' = [slots EXCEPT ![s].ready =
                    IF FirstEvent(s).kind = "ready" THEN "ok" ELSE "failed"]
    /\ workers' = IF FirstEvent(s).kind \in {"ready", "error", "exit"}
                  THEN Consumed(s)
                  ELSE Terminate(Consumed(s), {slots[s].worker})
    /\ UNCHANGED <<closed, closing, queue, promise, answer, aborted, spawned,
                   nextId, budget, hostDown>>

HandshakeTimeout(s) ==
    /\ NextTask /\ Shaking(s)
    /\ slots' = [slots EXCEPT ![s].ready = "failed"]
    /\ workers' = Terminate(workers, {slots[s].worker})
    /\ UNCHANGED <<closed, closing, queue, promise, answer, aborted, spawned,
                   nextId, budget, hostDown>>

\* Mutant: an answer is taken whatever its id.
IsResponseBug(event, slot) ==
    /\ event.kind \in {"result", "failure"}
    /\ event.kind = "result" => event.job = slot.job

\* parseWorkerResponse: an answer carries the id in flight, and a result
\* echoes the TeX in flight as well.
IsResponse(event, slot) ==
    /\ event.kind \in {"result", "failure"}
    /\ event.id = slot.id
    /\ event.kind = "result" => event.job = slot.job

Answered(s) ==
    answer' = IF promise[slots[s].job] = "pending"
              THEN [answer EXCEPT ![slots[s].job] = FirstEvent(s).job]
              ELSE answer

AcceptResult(s) ==
    /\ Deliverable(s) /\ Listening(s)
    /\ IsResponse(FirstEvent(s), slots[s]) /\ FirstEvent(s).kind = "result"
    /\ Answered(s)
    /\ EndRun(s, slots, Settle(promise, slots[s].job, "resolved"), Consumed(s), FALSE)
    /\ UNCHANGED aborted

\* A result in contract whose SVG or PNG turns out to exceed the byte limit.
OversizeResult(s) ==
    /\ Deliverable(s) /\ Listening(s)
    /\ IsResponse(FirstEvent(s), slots[s]) /\ FirstEvent(s).kind = "result"
    /\ FailRun(s, slots, Consumed(s), "output_limit")
    /\ UNCHANGED <<answer, aborted>>

AcceptFailure(s) ==
    /\ Deliverable(s) /\ Listening(s)
    /\ IsResponse(FirstEvent(s), slots[s]) /\ FirstEvent(s).kind = "failure"
    /\ Answered(s)
    /\ FailRun(s, slots, Consumed(s), "render_failed")
    /\ UNCHANGED aborted

\* A message that is not a response, an 'error' or an 'exit'.
WorkerFailed(s) ==
    /\ Deliverable(s) /\ Listening(s)
    /\ ~IsResponse(FirstEvent(s), slots[s])
    /\ FailRun(s, slots, Consumed(s), "worker_failed")
    /\ UNCHANGED <<answer, aborted>>

\* Mutant: the render timer is never armed.
RenderTimeoutBug(s) == FALSE /\ UNCHANGED vars

RenderTimeout(s) ==
    /\ NextTask /\ Listening(s)
    /\ FailRun(s, slots, workers, "timeout")
    /\ UNCHANGED <<answer, aborted>>

DropEvent(s) ==
    /\ Deliverable(s) /\ ~Shaking(s) /\ ~Listening(s)
    /\ workers' = Consumed(s)
    /\ hostDown' = (FirstEvent(s).kind = "error")
    /\ UNCHANGED <<closed, closing, queue, promise, answer, aborted, slots,
                   spawned, nextId, budget>>

(***************************************************************************)
(* The caller's AbortSignal: a queued job leaves the queue, a rendering    *)
(* one poisons its worker, one that waits for a handshake goes on waiting. *)
(***************************************************************************)
Queued(j) == {i \in 1..Len(queue) : queue[i] = j}
InQueue(j) == Queued(j) # {}

\* Mutant: the promise is rejected and the job stays queued.
UnqueuedBug(j) == queue

\* queue.splice(queue.indexOf(job), 1)
Unqueued(j) ==
    IF ~InQueue(j) THEN queue
    ELSE LET i == CHOOSE i \in Queued(j) : \A k \in Queued(j) : i <= k
         IN SubSeq(queue, 1, i - 1) \o SubSeq(queue, i + 1, Len(queue))

Abort(j) ==
    /\ ~hostDown /\ j \notin aborted
    /\ promise[j] \in {"idle", "pending"} \/ j \in Active
    /\ aborted' = aborted \cup {j}
    /\ UNCHANGED answer
    /\ \/ /\ \E s \in Slots : /\ Listening(s) /\ slots[s].job = j
                              /\ FailRun(s, slots, workers, "cancelled")
       \/ /\ \A s \in Slots : ~(Listening(s) /\ slots[s].job = j)
          /\ queue' = Unqueued(j)
          /\ promise' = IF InQueue(j)
                        THEN Settle(promise, j, "cancelled") ELSE promise
          /\ UNCHANGED <<closed, closing, slots, workers, spawned, nextId,
                         budget, hostDown>>

(***************************************************************************)
(* #replace after "await slot.worker.terminate()", then the rest of #run.  *)
(***************************************************************************)
Terminated(w) == workers[w].state = "dead" /\ workers[w].outbox = <<>>

Retired(s) == NextTask /\ slots[s].phase = "retiring" /\ Terminated(slots[s].worker)

\* Mutant: the closed state is not looked at again after the await.
MayRespawnBug(s) == TRUE

MayRespawn(s) == ~closed /\ ~slots[s].disabled

\* The slot is freed with a worker that is gone: closed, or the retry cap.
RetireWithoutWorker(s) ==
    /\ Retired(s) /\ ~MayRespawn(s)
    /\ FreeAfterReplace([slots EXCEPT ![s] = Freed(@)])
    /\ UNCHANGED <<closed, closing, answer, aborted, workers, spawned, nextId,
                   budget, hostDown>>

\* #createSlot: a new thread, whose handshake is pending.
Respawn(s) ==
    /\ Retired(s) /\ MayRespawn(s)
    /\ spawned < MaxSpawns
    /\ spawned' = spawned + 1
    /\ workers' = [workers EXCEPT ![spawned + 1].state = "starting"]
    /\ FreeAfterReplace([slots EXCEPT ![s] = [Freed(@) EXCEPT !.worker = spawned + 1,
                                                                !.ready = "pending"]])
    /\ UNCHANGED <<closed, closing, answer, aborted, nextId, budget, hostDown>>

SpawnFailed(slot) ==
    [Freed(slot) EXCEPT !.warmFailures = slot.warmFailures + 1,
                        !.disabled = (slot.warmFailures + 1 >= MaxWarmRetries),
                        !.ready = "failed"]

\* #createSlot threw: the failure waits for the next job in slot.ready.
RespawnFails(s) ==
    /\ Retired(s) /\ MayRespawn(s)
    /\ FreeAfterReplace([slots EXCEPT ![s] = SpawnFailed(@)])
    /\ UNCHANGED <<closed, closing, answer, aborted, workers, spawned, nextId,
                   budget, hostDown>>

(***************************************************************************)
(* close(), up to each of its two awaits.                                  *)
(***************************************************************************)
SlotWorkers == {slots[s].worker : s \in Slots}

\* The queue and #active.
RejectedByClose(j) == InQueue(j) \/ j \in Active

ClosedWorkers == Terminate(workers, SlotWorkers)

Close ==
    /\ ~hostDown /\ closing = "open"
    /\ closed' = TRUE /\ closing' = "first"
    /\ queue' = <<>>
    /\ promise' = [j \in Jobs |->
                     IF promise[j] = "pending" /\ RejectedByClose(j)
                     THEN "cancelled" ELSE promise[j]]
    /\ slots' = [s \in Slots |-> [slots[s] EXCEPT !.disabled = TRUE]]
    /\ workers' = ClosedWorkers
    /\ UNCHANGED <<answer, aborted, spawned, nextId, budget, hostDown>>

CloseAgain ==
    /\ NextTask /\ closing = "first"
    /\ \A w \in SlotWorkers : Terminated(w)
    /\ closing' = "second"
    /\ workers' = ClosedWorkers
    /\ UNCHANGED <<closed, queue, promise, answer, aborted, slots, spawned,
                   nextId, budget, hostDown>>

CloseReturns ==
    /\ NextTask /\ closing = "second"
    /\ \A w \in SlotWorkers : Terminated(w)
    /\ closing' = "done"
    /\ UNCHANGED <<closed, queue, promise, answer, aborted, slots, workers,
                   spawned, nextId, budget, hostDown>>

(***************************************************************************)
(* The constructor warms one worker per slot.                              *)
(***************************************************************************)
Init ==
    /\ closed = FALSE /\ closing = "open"
    /\ queue = <<>>
    /\ promise = [j \in Jobs |-> "idle"]
    /\ answer = [j \in Jobs |-> NoJob]
    /\ aborted = {}
    /\ slots = [s \in Slots |->
                  [worker |-> s, phase |-> "free", job |-> NoJob, id |-> 0,
                   ready |-> "pending", warmFailures |-> 0, disabled |-> FALSE]]
    /\ workers = [w \in Workers |->
                    [state |-> IF w \in Slots THEN "starting" ELSE "unborn",
                     request |-> NoRequest, outbox |-> <<>>]]
    /\ spawned = Concurrency
    /\ nextId = 1
    /\ budget = [expressions |-> 0, spent |-> 0]
    /\ hostDown = FALSE

Caller == \/ \E j \in Jobs : RefuseRender(j) \/ Render(j) \/ Abort(j)
          \/ Close

Thread == \E w \in Workers : WorkerStarts(w) \/ WorkerAnswers(w)
                              \/ WorkerBabbles(w) \/ WorkerDies(w)

Microtask(s) == StartRender(s) \/ CancelBeforeRender(s) \/ FailHandshake(s)

DeliverEvent(s) ==
    \/ HandshakeEvent(s) \/ AcceptResult(s) \/ OversizeResult(s)
    \/ AcceptFailure(s) \/ WorkerFailed(s) \/ DropEvent(s)

Timer(s) == HandshakeTimeout(s) \/ RenderTimeout(s)

Retire(s) == RetireWithoutWorker(s) \/ Respawn(s) \/ RespawnFails(s)

Pool == \/ \E s \in Slots : Microtask(s) \/ DeliverEvent(s) \/ Timer(s) \/ Retire(s)
        \/ CloseAgain \/ CloseReturns

Next == Caller \/ Thread \/ Pool

Spec == Init /\ [][Next]_vars

(***************************************************************************)
(* The event loop runs what is queued, and a timer that is set fires; no   *)
(* caller and no worker owes the pool anything.                            *)
(***************************************************************************)
Fairness ==
    /\ \A s \in Slots : /\ WF_vars(Microtask(s))
                        /\ WF_vars(DeliverEvent(s))
                        /\ WF_vars(Timer(s))
                        /\ WF_vars(Retire(s))
    /\ WF_vars(CloseAgain) /\ WF_vars(CloseReturns)

FairSpec == Spec /\ Fairness

(***************************************************************************)
(* Properties.                                                             *)
(***************************************************************************)
TypeOK ==
    /\ closed \in BOOLEAN
    /\ closing \in {"open", "first", "second", "done"}
    /\ queue \in Seq(Jobs)
    /\ promise \in [Jobs -> Promises]
    /\ answer \in [Jobs -> Jobs \cup {NoJob}]
    /\ aborted \in SUBSET Jobs
    /\ slots \in [Slots -> Slot]
    /\ workers \in [Workers -> Worker]
    /\ spawned \in Concurrency..MaxSpawns
    /\ nextId \in Ids
    /\ budget \in [expressions : Nat, spent : Nat]
    /\ hostDown \in BOOLEAN

Holders(j) == {s \in Slots : Busy(slots[s]) /\ slots[s].job = j}

\* A call that still waits is in the queue or on one slot, in one place only,
\* and whatever waits in the queue still waits for an answer nobody cancelled.
OnePlace ==
    \A j \in Jobs :
        /\ promise[j] = "pending" => Cardinality(Queued(j)) + Cardinality(Holders(j)) = 1
        /\ Queued(j) # {} => promise[j] = "pending" /\ j \notin aborted
        /\ Cardinality(Holders(j)) <= 1

\* Whatever a worker said twice or too late, a call gets the verdict its own
\* request drew: the id and the TeX of the answer are checked against it.
RightAnswer ==
    \A j \in Jobs :
        promise[j] \in {"resolved", "render_failed"} => answer[j] = j

\* "A failed, cancelled, or timed-out worker is never reused": the worker of a
\* job that leaves its slot unresolved is dead by the end of that step.
PoisonedWorkerRetired ==
    [][\A s \in Slots :
          /\ Busy(slots[s])
          /\ slots'[s].job # slots[s].job
          /\ promise'[slots[s].job] # "resolved"
          => workers'[slots[s].worker].state = "dead"]_vars

\* A thread that runs belongs to a slot that is not waiting for its end, so at
\* most #concurrency threads run; and once close() returned, none does.
Running == {w \in Workers : workers[w].state \in {"starting", "up"}}

NoOrphanThread ==
    /\ \A w \in Running : \E s \in Slots : slots[s].worker = w /\ slots[s].phase # "retiring"
    /\ closing = "done" => Running = {}

\* Every call that was queued is answered, whatever the workers do, as long as
\* the process lives.
EveryRenderSettles ==
    \A j \in Jobs : promise[j] = "pending" ~> promise[j] # "pending" \/ hostDown

\* Docs: a crash of a renderer worker "is contained [...] and the interactive
\* session continues".
HostSurvives == ~hostDown

=============================================================================
