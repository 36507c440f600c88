------------------------- MODULE RendererPoolProofs -------------------------
(***************************************************************************)
(* Theorems about RendererPool for every number of jobs, slots, threads    *)
(* and retries.                                                            *)
(***************************************************************************)
EXTENDS RendererPool, BasicLemmas, FiniteSetTheorems, SequenceTheorems, TLAPS

(***************************************************************************)
(* Types of the operators the actions are built from.                      *)
(***************************************************************************)
LEMMA EventTypes ==
    /\ \A kind \in {"ready", "junk", "error", "exit"} : Event(kind, NoRequest) \in Events
    /\ \A kind \in {"result", "failure"}, request \in Requests :
          Event(kind, request) \in Events
  BY DEF Event, Events, NoRequest, Requests

LEMMA ExitAppended ==
    ASSUME NEW worker \in Worker
    PROVE  [worker EXCEPT !.state = "dead", !.request = NoRequest,
                          !.outbox = Append(@, Event("exit", NoRequest))] \in Worker
<1>1. Append(worker.outbox, Event("exit", NoRequest)) \in Seq(Events)
  <2>1. worker.outbox \in Seq(Events)
    BY DEF Worker
  <2>2. QED
    BY <2>1, EventTypes, AppendProperties
<1>2. QED
  BY <1>1 DEF Worker

LEMMA TerminateType ==
    ASSUME NEW ws \in [Workers -> Worker], NEW ks
    PROVE  Terminate(ws, ks) \in [Workers -> Worker]
<1>1. \A w \in Workers : ws[w] \in Worker
  OBVIOUS
<1>2. QED
  BY <1>1, ExitAppended DEF Terminate

LEMMA SlotsFinite == IsFiniteSet(Slots)
  BY PoolAssumption, FS_Interval DEF Slots

LEMMA RankType ==
    ASSUME NEW sl \in [Slots -> Slot], NEW s \in FreeSlots(sl)
    PROVE  Rank(sl, s) \in Nat /\ Rank(sl, s) >= 1
<1> DEFINE Below == {t \in FreeSlots(sl) : t <= s}
<1>1. IsFiniteSet(Below)
  <2>1. Below \subseteq Slots
    BY DEF FreeSlots
  <2>2. QED
    BY <2>1, SlotsFinite, FS_Subset
<1>2. s \in Below
  BY DEF FreeSlots, Slots
<1>3. Cardinality(Below) \in Nat /\ Cardinality(Below) # 0
  BY <1>1, <1>2, FS_CardinalityType, FS_EmptySet
<1>4. QED
  BY <1>3 DEF Rank

LEMMA TakenJob ==
    ASSUME NEW q \in Seq(Jobs), NEW sl \in [Slots -> Slot], NEW s \in Slots,
           Takes(q, sl, s)
    PROVE  q[Rank(sl, s)] \in Jobs
  BY RankType, ElementOfSeq DEF Takes

LEMMA DispatchType ==
    ASSUME NEW q \in Seq(Jobs), NEW sl \in [Slots -> Slot],
           NEW p \in [Jobs -> Promises], Dispatch(q, sl, p)
    PROVE  /\ queue' \in Seq(Jobs)
           /\ slots' \in [Slots -> Slot]
           /\ promise' \in [Jobs -> Promises]
<1>1. CASE closed
  BY <1>1 DEF Dispatch
<1>2. CASE ~closed
  <2>1. queue' = DispatchQueue(q, sl) /\ slots' = DispatchSlots(q, sl)
        /\ promise' = DispatchPromise(q, sl, p)
    BY <1>2 DEF Dispatch
  <2>2. DispatchQueue(q, sl) \in Seq(Jobs)
    <3> DEFINE Taking == {s \in Slots : Takes(q, sl, s)}
    <3>1. Cardinality(Taking) \in Nat
      <4>1. Taking \subseteq Slots
        OBVIOUS
      <4>2. QED
        BY <4>1, SlotsFinite, FS_Subset, FS_CardinalityType
    <3>2. Len(q) \in Nat
      BY LenProperties
    <3>3. SubSeq(q, Cardinality(Taking) + 1, Len(q)) \in Seq(Jobs)
      <4> DEFINE first == Cardinality(Taking) + 1
      <4>1. first \in Int /\ first >= 1
        BY <3>1
      <4> HIDE DEF first
      <4>2. \A i \in first..Len(q) : q[i] \in Jobs
        BY <3>2, <4>1, ElementOfSeq
      <4>3. SubSeq(q, first, Len(q)) \in Seq(Jobs)
        BY <3>2, <4>1, <4>2, SubSeqProperties
      <4>4. QED
        BY <4>3 DEF first
    <3>4. QED
      BY <3>3 DEF DispatchQueue
  <2>3. DispatchSlots(q, sl) \in [Slots -> Slot]
    <3>1. ASSUME NEW s \in Slots, Takes(q, sl, s)
          PROVE  [sl[s] EXCEPT !.phase = "handshake", !.job = q[Rank(sl, s)]] \in Slot
      BY <3>1, TakenJob DEF Slot, SlotFields, Busy
    <3>2. QED
      BY <3>1 DEF DispatchSlots
  <2>4. DispatchPromise(q, sl, p) \in [Jobs -> Promises]
    BY DEF DispatchPromise, Promises, Settled, Reasons
  <2>5. QED
    BY <2>1, <2>2, <2>3, <2>4
<1>3. QED
  BY <1>1, <1>2

LEMMA SettleType ==
    ASSUME NEW p \in [Jobs -> Promises], NEW j, NEW verdict \in Settled
    PROVE  Settle(p, j, verdict) \in [Jobs -> Promises]
  BY DEF Settle, Promises

LEMMA SlotStates ==
    ASSUME NEW slot \in Slot
    PROVE  Freed(slot) \in Slot /\ Retiring(slot) \in Slot
  BY PoolAssumption DEF Freed, Retiring, Slot, SlotFields, Busy

LEMMA EndRunType ==
    ASSUME TypeOK, NEW s \in Slots, NEW sl \in [Slots -> Slot],
           NEW p \in [Jobs -> Promises], NEW ws \in [Workers -> Worker],
           NEW poisoned \in BOOLEAN, EndRun(s, sl, p, ws, poisoned)
    PROVE  /\ closed' \in BOOLEAN
           /\ closing' \in {"open", "first", "second", "done"}
           /\ queue' \in Seq(Jobs)
           /\ promise' \in [Jobs -> Promises]
           /\ slots' \in [Slots -> Slot]
           /\ workers' \in [Workers -> Worker]
           /\ spawned' \in Concurrency..MaxSpawns
           /\ nextId' \in Ids
           /\ budget' \in [expressions : Nat, spent : Nat]
           /\ hostDown' \in BOOLEAN
<1>1. /\ closed' \in BOOLEAN /\ closing' \in {"open", "first", "second", "done"}
      /\ spawned' \in Concurrency..MaxSpawns /\ nextId' \in Ids /\ hostDown' \in BOOLEAN
  BY DEF EndRun, TypeOK
<1>2. budget' \in [expressions : Nat, spent : Nat]
  <2>1. PICK cost \in 0..MaxCost : budget' = ChargedTo(budget, s, cost)
    BY DEF EndRun
  <2>2. QED
    BY <2>1, PoolAssumption, SMTT(20) DEF ChargedTo, TypeOK
<1>3. /\ queue' \in Seq(Jobs) /\ promise' \in [Jobs -> Promises]
      /\ slots' \in [Slots -> Slot] /\ workers' \in [Workers -> Worker]
  <2>1. CASE poisoned /\ ~closed
    <3>1. [sl EXCEPT ![s] = Retiring(@)] \in [Slots -> Slot]
      BY SlotStates
    <3>2. QED
      BY <2>1, <3>1, TerminateType DEF EndRun, TypeOK
  <2>2. CASE ~(poisoned /\ ~closed)
    <3> DEFINE freed == [sl EXCEPT ![s] = Freed(@)]
    <3>1. freed \in [Slots -> Slot]
      BY SlotStates
    <3>2. Dispatch(queue, freed, p) /\ workers' = ws
      BY <2>2 DEF EndRun
    <3>3. queue \in Seq(Jobs)
      BY DEF TypeOK
    <3> HIDE DEF freed
    <3>4. QED
      BY <3>1, <3>2, <3>3, DispatchType
  <2>3. QED
    BY <2>1, <2>2
<1>4. QED
  BY <1>1, <1>2, <1>3

LEMMA FailRunType ==
    ASSUME TypeOK, NEW s \in Slots, NEW sl \in [Slots -> Slot],
           NEW ws \in [Workers -> Worker], NEW verdict \in Settled,
           FailRun(s, sl, ws, verdict), answer' \in [Jobs -> Jobs \cup {NoJob}],
           aborted' \in SUBSET Jobs
    PROVE  TypeOK'
<1> DEFINE p == Settle(promise, slots[s].job, verdict)
<1>1. p \in [Jobs -> Promises]
  BY SettleType DEF TypeOK
<1>2. EndRun(s, sl, p, ws, TRUE)
  BY DEF FailRun
<1> HIDE DEF p
<1>3. QED
  BY <1>1, <1>2, EndRunType DEF TypeOK

LEMMA ConsumedType ==
    ASSUME TypeOK, NEW s \in Slots, Deliverable(s)
    PROVE  /\ Consumed(s) \in [Workers -> Worker]
           /\ FirstEvent(s) \in Events
           /\ slots[s].worker \in Workers
<1>1. slots[s].worker \in Workers /\ workers[slots[s].worker] \in Worker
  BY DEF TypeOK, Slot, SlotFields, Busy
<1>2. /\ workers[slots[s].worker].outbox \in Seq(Events)
      /\ workers[slots[s].worker].outbox # <<>>
  BY <1>1 DEF Worker, Deliverable
<1>3. FirstEvent(s) \in Events /\ Tail(workers[slots[s].worker].outbox) \in Seq(Events)
  BY <1>2, HeadTailProperties DEF FirstEvent
<1>4. Consumed(s) \in [Workers -> Worker]
  BY <1>1, <1>3 DEF Consumed, TypeOK, Worker
<1>5. QED
  BY <1>1, <1>3, <1>4

LEMMA UpdateTypes ==
    ASSUME NEW ws \in [Workers -> Worker], NEW w \in Workers
    PROVE  /\ \A state \in {"starting", "up"} :
                [ws EXCEPT ![w].state = state] \in [Workers -> Worker]
           /\ \A request \in Requests \cup {NoRequest} :
                [ws EXCEPT ![w].request = request] \in [Workers -> Worker]
           /\ [ws EXCEPT ![w].state = "dead", ![w].request = NoRequest]
                \in [Workers -> Worker]
<1>1. ws[w] \in Worker
  OBVIOUS
<1>2. QED
  BY <1>1 DEF Worker

LEMMA EmitType ==
    ASSUME TypeOK, NEW w \in Workers, NEW events \in Seq(Events)
    PROVE  Emit(w, events) \in [Workers -> Worker]
<1>1. workers[w] \in Worker /\ workers[w].outbox \in Seq(Events)
  BY DEF TypeOK, Worker
<1>2. workers[w].outbox \o events \in Seq(Events)
  BY <1>1, ConcatProperties
<1>3. QED
  BY <1>1, <1>2 DEF Emit, TypeOK, Worker

LEMMA UnqueuedType ==
    ASSUME TypeOK, NEW j \in Jobs
    PROVE  Unqueued(j) \in Seq(Jobs)
<1>1. CASE ~InQueue(j)
  BY <1>1 DEF Unqueued, TypeOK
<1>2. CASE InQueue(j)
  <2> DEFINE i == CHOOSE i \in Queued(j) : \A k \in Queued(j) : i <= k
  <2>1. queue \in Seq(Jobs) /\ Len(queue) \in Nat /\ Queued(j) \subseteq 1..Len(queue)
    BY LenProperties DEF TypeOK, Queued
  <2>2. i \in 1..Len(queue)
    <3>1. \E m \in Queued(j) : \A k \in Queued(j) : m <= k
      BY <1>2, <2>1, LeastElement DEF InQueue
    <3>2. i \in Queued(j)
      BY <3>1
    <3>3. QED
      BY <2>1, <3>2
  <2>3. Unqueued(j) = SubSeq(queue, 1, i - 1) \o SubSeq(queue, i + 1, Len(queue))
    BY <1>2 DEF Unqueued
  <2> HIDE DEF i
  <2>4. /\ \A k \in 1..(i - 1) : queue[k] \in Jobs
        /\ \A k \in (i + 1)..Len(queue) : queue[k] \in Jobs
    BY <2>1, <2>2, ElementOfSeq
  <2>5. SubSeq(queue, 1, i - 1) \in Seq(Jobs)
    BY <2>1, <2>2, <2>4, SubSeqProperties
  <2>6. SubSeq(queue, i + 1, Len(queue)) \in Seq(Jobs)
    BY <2>1, <2>2, <2>4, SubSeqProperties
  <2>7. QED
    BY <2>3, <2>5, <2>6, ConcatProperties
<1>3. QED
  BY <1>1, <1>2

LEMMA EventsOf ==
    \A w \in Workers : TypeOK => workers[w].request \in Requests \cup {NoRequest}
  BY DEF TypeOK, Worker

(***************************************************************************)
(* Type correctness.                                                       *)
(***************************************************************************)
LEMMA InitType == Init => TypeOK
<1> SUFFICES ASSUME Init PROVE TypeOK
  OBVIOUS
<1>1. slots \in [Slots -> Slot]
  BY PoolAssumption DEF Init, Slots, Slot, SlotFields, Busy, Workers
<1>2. workers \in [Workers -> Worker]
  BY EmptySeq DEF Init, Worker
<1>3. queue \in Seq(Jobs)
  BY EmptySeq DEF Init
<1>4. spawned \in Concurrency..MaxSpawns /\ nextId \in Ids
  BY PoolAssumption DEF Init, Ids
<1>5. QED
  BY <1>1, <1>2, <1>3, <1>4 DEF Init, TypeOK, Promises

LEMMA ThreadType == TypeOK /\ Thread => TypeOK'
<1> SUFFICES ASSUME TypeOK, NEW w \in Workers,
                    WorkerStarts(w) \/ WorkerAnswers(w) \/ WorkerBabbles(w) \/ WorkerDies(w)
             PROVE  TypeOK'
  BY DEF Thread
<1>1. CASE WorkerStarts(w)
  <2>1. PICK kind \in {"ready", "junk"} :
          workers' = [Emit(w, <<Event(kind, NoRequest)>>) EXCEPT ![w].state = "up"]
    BY <1>1 DEF WorkerStarts
  <2>2. <<Event(kind, NoRequest)>> \in Seq(Events)
    BY EventTypes
  <2>3. Emit(w, <<Event(kind, NoRequest)>>) \in [Workers -> Worker]
    BY <2>2, EmitType
  <2>4. workers' \in [Workers -> Worker]
    BY <2>1, <2>3, UpdateTypes
  <2>5. QED
    BY <1>1, <2>4 DEF WorkerStarts, TypeOK
<1>2. CASE WorkerAnswers(w)
  <2>1. workers[w].request \in Requests
    BY <1>2, EventsOf DEF WorkerAnswers
  <2>2. PICK kind \in {"result", "failure"}, again \in BOOLEAN :
          workers' = [Emit(w, <<Event(kind, workers[w].request)>>)
                         EXCEPT ![w].request = IF again THEN @ ELSE NoRequest]
    BY <1>2 DEF WorkerAnswers
  <2>3. <<Event(kind, workers[w].request)>> \in Seq(Events)
    BY <2>1, EventTypes
  <2> DEFINE emitted == Emit(w, <<Event(kind, workers[w].request)>>)
  <2>4. emitted \in [Workers -> Worker]
    BY <2>3, EmitType
  <2>5. workers' = [emitted EXCEPT ![w].request = IF again THEN @ ELSE NoRequest]
    BY <2>2
  <2> HIDE DEF emitted
  <2>6. emitted[w].request \in Requests \cup {NoRequest}
    BY <2>4 DEF Worker
  <2>7. workers' \in [Workers -> Worker]
    BY <2>4, <2>5, <2>6, UpdateTypes
  <2>8. QED
    BY <1>2, <2>7 DEF WorkerAnswers, TypeOK
<1>3. CASE WorkerBabbles(w)
  <2>1. <<Event("junk", NoRequest)>> \in Seq(Events)
    BY EventTypes
  <2>2. workers' \in [Workers -> Worker]
    BY <1>3, <2>1, EmitType DEF WorkerBabbles
  <2>3. QED
    BY <1>3, <2>2 DEF WorkerBabbles, TypeOK
<1>4. CASE WorkerDies(w)
  <2>1. PICK events \in {<<Event("exit", NoRequest)>>,
                         <<Event("error", NoRequest), Event("exit", NoRequest)>>} :
          workers' = [Emit(w, events) EXCEPT ![w].state = "dead", ![w].request = NoRequest]
    BY <1>4 DEF WorkerDies
  <2>2. Event("exit", NoRequest) \in Events /\ Event("error", NoRequest) \in Events
    BY EventTypes
  <2>3. events \in Seq(Events)
    <3>1. /\ <<Event("exit", NoRequest)>> \in Seq(Events)
          /\ <<Event("error", NoRequest), Event("exit", NoRequest)>> \in Seq(Events)
      BY <2>2
    <3>2. QED
      BY <3>1
  <2>4. Emit(w, events) \in [Workers -> Worker]
    BY <2>3, EmitType
  <2>5. workers' \in [Workers -> Worker]
    BY <2>1, <2>4, UpdateTypes
  <2>6. QED
    BY <1>4, <2>5 DEF WorkerDies, TypeOK
<1>5. QED
  BY <1>1, <1>2, <1>3, <1>4

LEMMA CallerType == TypeOK /\ Caller => TypeOK'
<1> SUFFICES ASSUME TypeOK, Caller PROVE TypeOK'
  OBVIOUS
<1>1. ASSUME NEW j \in Jobs, RefuseRender(j) PROVE TypeOK'
  <2>1. promise' \in [Jobs -> Promises]
    BY <1>1 DEF RefuseRender, RenderRefusal, TypeOK, Promises, Settled, Reasons
  <2>2. QED
    BY <1>1, <2>1 DEF RefuseRender, TypeOK
<1>2. ASSUME NEW j \in Jobs, Render(j) PROVE TypeOK'
  <2>1. budget' \in [expressions : Nat, spent : Nat]
    BY <1>2 DEF Render, TypeOK
  <2>2. /\ queue' \in Seq(Jobs) /\ slots' \in [Slots -> Slot]
        /\ promise' \in [Jobs -> Promises]
    <3>1. CASE Claimable(budget)
      <4>1. Append(queue, j) \in Seq(Jobs)
        BY AppendProperties DEF TypeOK
      <4>2. [promise EXCEPT ![j] = "pending"] \in [Jobs -> Promises]
        BY DEF TypeOK, Promises
      <4>3. Dispatch(Append(queue, j), slots, [promise EXCEPT ![j] = "pending"])
        BY <1>2, <3>1 DEF Render
      <4>4. slots \in [Slots -> Slot]
        BY DEF TypeOK
      <4>5. QED
        BY <4>1, <4>2, <4>3, <4>4, DispatchType
    <3>2. CASE ~Claimable(budget)
      BY <1>2, <3>2 DEF Render, TypeOK, Promises, Settled, Reasons
    <3>3. QED
      BY <3>1, <3>2
  <2>3. QED
    BY <1>2, <2>1, <2>2 DEF Render, TypeOK
<1>3. ASSUME NEW j \in Jobs, Abort(j) PROVE TypeOK'
  <2>1. answer' \in [Jobs -> Jobs \cup {NoJob}] /\ aborted' \in SUBSET Jobs
    BY <1>3 DEF Abort, TypeOK
  <2>2. CASE \E s \in Slots : Listening(s) /\ slots[s].job = j /\ FailRun(s, slots, workers, "cancelled")
    <3>1. PICK s \in Slots : FailRun(s, slots, workers, "cancelled")
      BY <2>2
    <3>2. /\ slots \in [Slots -> Slot] /\ workers \in [Workers -> Worker]
          /\ "cancelled" \in Settled
      BY DEF TypeOK, Settled, Reasons
    <3>3. QED
      BY <2>1, <3>1, <3>2, FailRunType
  <2>3. CASE /\ queue' = Unqueued(j)
             /\ promise' = IF InQueue(j) THEN Settle(promise, j, "cancelled") ELSE promise
             /\ UNCHANGED <<closed, closing, slots, workers, spawned, nextId,
                            budget, hostDown>>
    <3>1. queue' \in Seq(Jobs)
      BY <2>3, UnqueuedType
    <3>2. promise' \in [Jobs -> Promises]
      BY <2>3, SettleType DEF TypeOK, Settled, Reasons
    <3>3. QED
      BY <2>1, <2>3, <3>1, <3>2 DEF TypeOK
  <2>4. QED
    BY <1>3, <2>2, <2>3 DEF Abort
<1>4. ASSUME Close PROVE TypeOK'
  <2>1. queue' \in Seq(Jobs)
    BY <1>4, EmptySeq DEF Close
  <2>2. promise' \in [Jobs -> Promises]
    BY <1>4 DEF Close, TypeOK, Promises, Settled, Reasons
  <2>3. slots' \in [Slots -> Slot]
    <3>1. \A s \in Slots : [slots[s] EXCEPT !.disabled = TRUE] \in Slot
      BY ZenonT(60) DEF TypeOK, Slot, SlotFields, Busy
    <3>2. slots' = [s \in Slots |-> [slots[s] EXCEPT !.disabled = TRUE]]
      BY <1>4 DEF Close
    <3>3. QED
      BY <3>1, <3>2
  <2>4. workers' \in [Workers -> Worker]
    BY <1>4, TerminateType DEF Close, ClosedWorkers, TypeOK
  <2>5. answer' = answer /\ aborted' = aborted /\ spawned' = spawned /\ nextId' = nextId
        /\ budget' = budget /\ hostDown' = hostDown /\ closed' = TRUE /\ closing' = "first"
    BY <1>4 DEF Close
  <2>6. QED
    BY <2>1, <2>2, <2>3, <2>4, <2>5 DEF TypeOK
<1>5. QED
  BY <1>1, <1>2, <1>3, <1>4 DEF Caller

LEMMA SlotUpdates ==
    ASSUME TypeOK, NEW s \in Slots
    PROVE  /\ \A outcome \in {"ok", "failed"} :
                 [slots EXCEPT ![s].ready = outcome] \in [Slots -> Slot]
           /\ [slots EXCEPT ![s].warmFailures = 0] \in [Slots -> Slot]
           /\ Resumes(s) =>
                 [slots EXCEPT ![s].warmFailures = 0, ![s].phase = "rendering",
                               ![s].id = nextId] \in [Slots -> Slot]
<1>1. slots \in [Slots -> Slot] /\ slots[s] \in Slot /\ nextId \in Ids
  BY DEF TypeOK
<1>2. /\ \A outcome \in {"ok", "failed"} : [slots[s] EXCEPT !.ready = outcome] \in Slot
      /\ [slots[s] EXCEPT !.warmFailures = 0] \in Slot
  BY <1>1 DEF Slot, SlotFields, Busy
<1>3. Resumes(s) =>
        [slots[s] EXCEPT !.warmFailures = 0, !.phase = "rendering", !.id = nextId] \in Slot
  BY <1>1 DEF Slot, SlotFields, Busy, Resumes
<1>4. QED
  BY <1>1, <1>2, <1>3

LEMMA MicrotaskType ==
    ASSUME TypeOK, NEW s \in Slots, Microtask(s)
    PROVE  TypeOK'
<1>1. /\ slots \in [Slots -> Slot] /\ workers \in [Workers -> Worker]
      /\ answer \in [Jobs -> Jobs \cup {NoJob}] /\ aborted \in SUBSET Jobs
      /\ "cancelled" \in Settled /\ "worker_failed" \in Settled
  BY DEF TypeOK, Settled, Reasons
<1>2. CASE StartRender(s)
  <2>1. slots' \in [Slots -> Slot]
    BY <1>2, SlotUpdates DEF StartRender
  <2>2. nextId' \in Ids
    BY <1>2, PoolAssumption DEF StartRender, WrapId, TypeOK, Ids
  <2>3. workers' \in [Workers -> Worker]
    <3> DEFINE request == [id |-> nextId, job |-> slots[s].job]
    <3>1. slots[s].worker \in Workers /\ slots[s].job \in Jobs \cup {NoJob}
      BY <1>1 DEF Slot, SlotFields, Busy
    <3>2. slots[s].job \in Jobs
      BY <1>1, <1>2 DEF StartRender, Resumes, Slot, Busy
    <3>3. request \in Requests \cup {NoRequest}
      BY <3>2 DEF Requests, TypeOK
    <3>4. workers' = Post(workers, slots[s].worker, request)
      BY <1>2 DEF StartRender
    <3> HIDE DEF request
    <3>5. QED
      BY <1>1, <3>1, <3>3, <3>4, UpdateTypes DEF Post
  <2>4. QED
    BY <1>2, <2>1, <2>2, <2>3 DEF StartRender, TypeOK
<1>3. CASE CancelBeforeRender(s)
  <2>1. answer' \in [Jobs -> Jobs \cup {NoJob}] /\ aborted' \in SUBSET Jobs
    BY <1>1, <1>3 DEF CancelBeforeRender
  <2>2. FailRun(s, [slots EXCEPT ![s].warmFailures = 0], workers, "cancelled")
    BY <1>3 DEF CancelBeforeRender
  <2>3. QED
    BY <1>1, <2>1, <2>2, SlotUpdates, FailRunType
<1>4. CASE FailHandshake(s)
  <2>1. answer' \in [Jobs -> Jobs \cup {NoJob}] /\ aborted' \in SUBSET Jobs
    BY <1>1, <1>4 DEF FailHandshake
  <2>2. FailRun(s, slots, workers, "worker_failed")
    BY <1>4 DEF FailHandshake
  <2>3. QED
    BY <1>1, <2>1, <2>2, FailRunType
<1>5. QED
  BY <1>2, <1>3, <1>4 DEF Microtask

LEMMA EventType ==
    ASSUME TypeOK, NEW s \in Slots, DeliverEvent(s)
    PROVE  TypeOK'
<1>1. /\ slots \in [Slots -> Slot] /\ workers \in [Workers -> Worker]
      /\ answer \in [Jobs -> Jobs \cup {NoJob}] /\ aborted \in SUBSET Jobs
      /\ {"output_limit", "render_failed", "worker_failed", "resolved"} \subseteq Settled
  BY DEF TypeOK, Settled, Reasons
<1>2. Deliverable(s)
  BY DEF DeliverEvent, HandshakeEvent, AcceptResult, OversizeResult, AcceptFailure,
         WorkerFailed, DropEvent
<1>3. Consumed(s) \in [Workers -> Worker] /\ FirstEvent(s) \in Events
  BY <1>2, ConsumedType
<1>4. Answered(s) => answer' \in [Jobs -> Jobs \cup {NoJob}]
  BY <1>1, <1>3 DEF Answered, Events
<1>5. CASE HandshakeEvent(s)
  <2>1. slots' \in [Slots -> Slot]
    BY <1>5, SlotUpdates DEF HandshakeEvent
  <2>2. workers' \in [Workers -> Worker]
    BY <1>3, <1>5, TerminateType DEF HandshakeEvent
  <2>3. QED
    BY <1>5, <2>1, <2>2 DEF HandshakeEvent, TypeOK
<1>6. CASE AcceptResult(s)
  <2> DEFINE p == Settle(promise, slots[s].job, "resolved")
  <2>1. p \in [Jobs -> Promises]
    BY <1>1, SettleType DEF TypeOK
  <2>2. EndRun(s, slots, p, Consumed(s), FALSE)
    BY <1>6 DEF AcceptResult
  <2>3. answer' \in [Jobs -> Jobs \cup {NoJob}] /\ aborted' \in SUBSET Jobs
    BY <1>1, <1>4, <1>6 DEF AcceptResult
  <2> HIDE DEF p
  <2>4. QED
    BY <1>1, <1>3, <2>1, <2>2, <2>3, EndRunType DEF TypeOK
<1>7. CASE OversizeResult(s)
  <2>1. /\ FailRun(s, slots, Consumed(s), "output_limit")
        /\ answer' \in [Jobs -> Jobs \cup {NoJob}] /\ aborted' \in SUBSET Jobs
    BY <1>1, <1>7 DEF OversizeResult
  <2>2. QED
    BY <1>1, <1>3, <2>1, FailRunType
<1>8. CASE AcceptFailure(s)
  <2>1. /\ FailRun(s, slots, Consumed(s), "render_failed")
        /\ answer' \in [Jobs -> Jobs \cup {NoJob}] /\ aborted' \in SUBSET Jobs
    BY <1>1, <1>4, <1>8 DEF AcceptFailure
  <2>2. QED
    BY <1>1, <1>3, <2>1, FailRunType
<1>9. CASE WorkerFailed(s)
  <2>1. /\ FailRun(s, slots, Consumed(s), "worker_failed")
        /\ answer' \in [Jobs -> Jobs \cup {NoJob}] /\ aborted' \in SUBSET Jobs
    BY <1>1, <1>9 DEF WorkerFailed
  <2>2. QED
    BY <1>1, <1>3, <2>1, FailRunType
<1>10. CASE DropEvent(s)
  BY <1>3, <1>10 DEF DropEvent, TypeOK
<1>11. QED
  BY <1>5, <1>6, <1>7, <1>8, <1>9, <1>10 DEF DeliverEvent

LEMMA TimerType ==
    ASSUME TypeOK, NEW s \in Slots, Timer(s)
    PROVE  TypeOK'
<1>1. /\ slots \in [Slots -> Slot] /\ workers \in [Workers -> Worker]
      /\ answer \in [Jobs -> Jobs \cup {NoJob}] /\ aborted \in SUBSET Jobs
      /\ "timeout" \in Settled
  BY DEF TypeOK, Settled, Reasons
<1>2. CASE HandshakeTimeout(s)
  <2>1. slots' \in [Slots -> Slot] /\ workers' \in [Workers -> Worker]
    BY <1>1, <1>2, SlotUpdates, TerminateType DEF HandshakeTimeout
  <2>2. QED
    BY <1>2, <2>1 DEF HandshakeTimeout, TypeOK
<1>3. CASE RenderTimeout(s)
  <2>1. /\ FailRun(s, slots, workers, "timeout")
        /\ answer' \in [Jobs -> Jobs \cup {NoJob}] /\ aborted' \in SUBSET Jobs
    BY <1>1, <1>3 DEF RenderTimeout
  <2>2. QED
    BY <1>1, <2>1, FailRunType
<1>4. QED
  BY <1>2, <1>3 DEF Timer

LEMMA SpawnFailedType ==
    ASSUME TypeOK, NEW s \in Slots
    PROVE  SpawnFailed(slots[s]) \in Slot
<1> DEFINE capped == slots[s].warmFailures + 1 >= MaxWarmRetries
           freed == Freed(slots[s])
<1>1. SpawnFailed(slots[s]) =
        [freed EXCEPT !.warmFailures = slots[s].warmFailures + 1,
                      !.disabled = capped, !.ready = "failed"]
  BY DEF SpawnFailed
<1>2. capped \in BOOLEAN
  OBVIOUS
<1>3. slots[s].warmFailures + 1 \in Nat
  BY DEF TypeOK, Slot, SlotFields
<1>4. freed \in Slot /\ ~Busy(freed) /\ freed.job \notin Jobs
  BY SlotStates, PoolAssumption, ZenonT(30) DEF TypeOK, Freed, Busy, Slot, SlotFields
<1> HIDE DEF capped, freed
<1>5. QED
  BY <1>1, <1>2, <1>3, <1>4 DEF Slot, SlotFields, Busy

LEMMA RetireType ==
    ASSUME TypeOK, NEW s \in Slots, Retire(s)
    PROVE  TypeOK'
<1>1. /\ slots \in [Slots -> Slot] /\ slots[s] \in Slot /\ queue \in Seq(Jobs)
      /\ promise \in [Jobs -> Promises]
      /\ Freed(slots[s]) \in Slot /\ ~Busy(Freed(slots[s])) /\ Freed(slots[s]).job \notin Jobs
  BY SlotStates, PoolAssumption, ZenonT(30) DEF TypeOK, Freed, Busy, Slot, SlotFields
<1>2. ASSUME NEW slot \in Slot, FreeAfterReplace([slots EXCEPT ![s] = slot])
      PROVE  /\ queue' \in Seq(Jobs) /\ slots' \in [Slots -> Slot]
             /\ promise' \in [Jobs -> Promises]
  <2> DEFINE sl == [slots EXCEPT ![s] = slot]
  <2>1. sl \in [Slots -> Slot]
    BY <1>1
  <2>2. Dispatch(queue, sl, promise)
    BY <1>2 DEF FreeAfterReplace
  <2> HIDE DEF sl
  <2>3. QED
    BY <1>1, <2>1, <2>2, DispatchType
<1>3. CASE RetireWithoutWorker(s)
  <2>1. FreeAfterReplace([slots EXCEPT ![s] = Freed(slots[s])])
    BY <1>3 DEF RetireWithoutWorker
  <2>2. QED
    BY <1>1, <1>2, <1>3, <2>1 DEF RetireWithoutWorker, TypeOK
<1>4. CASE Respawn(s)
  <2> DEFINE slot == [Freed(slots[s]) EXCEPT !.worker = spawned + 1, !.ready = "pending"]
  <2>1. /\ spawned' \in Concurrency..MaxSpawns /\ spawned + 1 \in Workers
        /\ workers' = [workers EXCEPT ![spawned + 1].state = "starting"]
    BY <1>4, PoolAssumption DEF Respawn, TypeOK, Workers
  <2>2. slot \in Slot
    BY <1>1, <2>1 DEF Slot, SlotFields, Busy
  <2>3. FreeAfterReplace([slots EXCEPT ![s] = slot])
    BY <1>4 DEF Respawn
  <2> HIDE DEF slot
  <2>4. workers' \in [Workers -> Worker]
    BY <2>1, UpdateTypes DEF TypeOK
  <2>5. QED
    BY <1>2, <1>4, <2>1, <2>2, <2>3, <2>4 DEF Respawn, TypeOK
<1>5. CASE RespawnFails(s)
  <2>1. SpawnFailed(slots[s]) \in Slot
    BY SpawnFailedType
  <2>2. FreeAfterReplace([slots EXCEPT ![s] = SpawnFailed(slots[s])])
    BY <1>5 DEF RespawnFails
  <2>3. QED
    BY <1>2, <1>5, <2>1, <2>2 DEF RespawnFails, TypeOK
<1>6. QED
  BY <1>3, <1>4, <1>5 DEF Retire

LEMMA CloseType ==
    ASSUME TypeOK, CloseAgain \/ CloseReturns
    PROVE  TypeOK'
<1>1. workers' \in [Workers -> Worker]
  BY TerminateType DEF CloseAgain, CloseReturns, ClosedWorkers, TypeOK
<1>2. QED
  BY <1>1 DEF CloseAgain, CloseReturns, TypeOK

LEMMA NextType == TypeOK /\ [Next]_vars => TypeOK'
<1>1. ASSUME TypeOK, UNCHANGED vars PROVE TypeOK'
  BY <1>1 DEF vars, TypeOK
<1>2. ASSUME TypeOK, Pool PROVE TypeOK'
  BY <1>2, MicrotaskType, EventType, TimerType, RetireType, CloseType DEF Pool
<1>3. QED
  BY <1>1, <1>2, CallerType, ThreadType DEF Next

\* Every reachable state of the pool is one of the states TypeOK describes: a
\* slot has a job exactly while #run is busy with it, ids and worker threads
\* stay in their ranges.
THEOREM TypeCorrect == Spec => []TypeOK
<1>1. QED
  BY InitType, NextType, PTL DEF Spec

(***************************************************************************)
(* No thread without a slot.  NoOrphanThread is not inductive: that the    *)
(* worker of a retiring slot is gone, and that close() left none, has to   *)
(* be known before #replace installs another one.                          *)
(***************************************************************************)
Runs(worker) == worker.state \in {"starting", "up"}

ThreadInv ==
    /\ \A w \in Workers : Runs(workers[w]) => \E s \in Slots : slots[s].worker = w
    /\ \A s \in Slots : /\ slots[s].worker <= spawned
                        /\ slots[s].phase = "retiring" => ~Runs(workers[slots[s].worker])
    /\ closed => \A w \in Workers : ~Runs(workers[w])
    /\ closing # "open" => closed

LEMMA ThreadInvImplies == ThreadInv => NoOrphanThread
  BY DEF ThreadInv, NoOrphanThread, Running, Runs

LEMMA InitThreads == Init => ThreadInv
<1> SUFFICES ASSUME Init PROVE ThreadInv
  OBVIOUS
<1>1. \A w \in Workers : Runs(workers[w]) => w \in Slots
  BY DEF Init, Runs
<1>2. \A s \in Slots : slots[s].worker = s /\ slots[s].phase = "free"
  BY DEF Init
<1>3. \A s \in Slots : s <= spawned
  BY PoolAssumption DEF Init, Slots
<1>4. QED
  BY <1>1, <1>2, <1>3 DEF ThreadInv, Init

LEMMA TerminateRuns ==
    ASSUME NEW ws \in [Workers -> Worker], NEW ks, NEW w \in Workers
    PROVE  Runs(Terminate(ws, ks)[w]) <=> Runs(ws[w]) /\ w \notin ks
<1>1. CASE w \in ks /\ Runs(ws[w])
  <2>1. Terminate(ws, ks)[w].state = "dead"
    BY <1>1 DEF Terminate, Runs, Worker
  <2>2. QED
    BY <1>1, <2>1 DEF Runs
<1>2. CASE ~(w \in ks /\ Runs(ws[w]))
  BY <1>2 DEF Terminate, Runs
<1>3. QED
  BY <1>1, <1>2

LEMMA DispatchKeepsThreads ==
    ASSUME NEW q, NEW sl \in [Slots -> Slot], NEW p, Dispatch(q, sl, p), NEW s \in Slots
    PROVE  /\ slots'[s].worker = sl[s].worker
           /\ slots'[s].phase = "retiring" <=> sl[s].phase = "retiring"
<1>1. CASE slots'[s] = sl[s]
  BY <1>1
<1>2. CASE slots'[s] # sl[s]
  <2>1. /\ Takes(q, sl, s)
        /\ slots'[s] = [sl[s] EXCEPT !.phase = "handshake", !.job = q[Rank(sl, s)]]
    BY <1>2 DEF Dispatch, DispatchSlots
  <2>2. sl[s].phase = "free"
    BY <2>1 DEF Takes, FreeSlots
  <2>3. QED
    BY <2>1, <2>2 DEF Slot, SlotFields
<1>3. QED
  BY <1>1, <1>2

LEMMA EndRunThreads ==
    ASSUME TypeOK, ThreadInv, NEW s \in Slots, NEW sl \in [Slots -> Slot],
           \A t \in Slots : sl[t].worker = slots[t].worker /\ sl[t].phase = slots[t].phase,
           NEW ws \in [Workers -> Worker],
           \A w \in Workers : ws[w].state = workers[w].state,
           NEW p, NEW poisoned \in BOOLEAN, EndRun(s, sl, p, ws, poisoned)
    PROVE  ThreadInv'
<1>1. /\ closed' = closed /\ closing' = closing /\ spawned' = spawned
      /\ \A w \in Workers : Runs(ws[w]) <=> Runs(workers[w])
      /\ \A t \in Slots : slots[t].worker \in Workers
  BY DEF EndRun, Runs, TypeOK, Slot, SlotFields
<1>2. CASE poisoned /\ ~closed
  <2>1. /\ slots' = [sl EXCEPT ![s] = Retiring(@)]
        /\ workers' = Terminate(ws, {sl[s].worker})
    BY <1>2 DEF EndRun
  <2>2. \A w \in Workers : Runs(workers'[w]) <=> Runs(workers[w]) /\ w # slots[s].worker
    BY <1>1, <2>1, TerminateRuns
  <2>3. \A t \in Slots : /\ slots'[t].worker = slots[t].worker
                         /\ t # s => slots'[t].phase = slots[t].phase
    BY <2>1 DEF Retiring, Slot, SlotFields
  <2>4. QED
    BY <1>1, <1>2, <2>2, <2>3 DEF ThreadInv
<1>3. CASE ~(poisoned /\ ~closed)
  <2> DEFINE freed == [sl EXCEPT ![s] = Freed(@)]
  <2>1. Dispatch(queue, freed, p) /\ workers' = ws
    BY <1>3 DEF EndRun
  <2>2. freed \in [Slots -> Slot]
    BY SlotStates
  <2>3. \A t \in Slots : /\ freed[t].worker = slots[t].worker
                         /\ freed[t].phase = "retiring" => slots[t].phase = "retiring"
    BY DEF Freed, Slot, SlotFields
  <2> HIDE DEF freed
  <2>4. \A t \in Slots : /\ slots'[t].worker = slots[t].worker
                         /\ slots'[t].phase = "retiring" => slots[t].phase = "retiring"
    BY <2>1, <2>2, <2>3, DispatchKeepsThreads
  <2>5. \A w \in Workers : Runs(workers'[w]) <=> Runs(workers[w])
    BY <1>1, <2>1
  <2>6. QED
    BY <1>1, <2>4, <2>5 DEF ThreadInv
<1>4. QED
  BY <1>2, <1>3

\* A step that moves no worker between slots and starts none.
LEMMA QuietThreads ==
    ASSUME TypeOK, ThreadInv,
           closed' = closed, closing' = "open" => closing = "open", closed \/ closing' = closing,
           spawned' = spawned,
           \A s \in Slots : /\ slots'[s].worker = slots[s].worker
                            /\ slots'[s].phase = "retiring" => slots[s].phase = "retiring",
           \A w \in Workers : Runs(workers'[w]) => Runs(workers[w])
    PROVE  ThreadInv'
<1>1. \A t \in Slots : slots[t].worker \in Workers
  BY DEF TypeOK, Slot, SlotFields
<1>2. QED
  BY <1>1 DEF ThreadInv

LEMMA FailRunThreads ==
    ASSUME TypeOK, ThreadInv, NEW s \in Slots, NEW sl \in [Slots -> Slot],
           \A t \in Slots : sl[t].worker = slots[t].worker /\ sl[t].phase = slots[t].phase,
           NEW ws \in [Workers -> Worker],
           \A w \in Workers : ws[w].state = workers[w].state,
           NEW verdict, FailRun(s, sl, ws, verdict)
    PROVE  ThreadInv'
<1> DEFINE p == Settle(promise, slots[s].job, verdict)
<1>1. EndRun(s, sl, p, ws, TRUE)
  BY DEF FailRun
<1> HIDE DEF p
<1>2. QED
  BY <1>1, EndRunThreads

LEMMA ConsumedThreads ==
    ASSUME TypeOK, NEW s \in Slots, Deliverable(s)
    PROVE  /\ Consumed(s) \in [Workers -> Worker]
           /\ \A w \in Workers : Consumed(s)[w].state = workers[w].state
<1>1. \A w \in Workers : Consumed(s)[w].state = workers[w].state
  BY DEF Consumed, TypeOK, Worker
<1>2. QED
  BY <1>1, ConsumedType

LEMMA CallerThreads ==
    ASSUME TypeOK, ThreadInv, Caller
    PROVE  ThreadInv'
<1>1. slots \in [Slots -> Slot] /\ workers \in [Workers -> Worker]
  BY DEF TypeOK
<1>2. ASSUME NEW j \in Jobs, RefuseRender(j) PROVE ThreadInv'
  BY <1>2, QuietThreads DEF RefuseRender
<1>3. ASSUME NEW j \in Jobs, Render(j) PROVE ThreadInv'
  <2>1. \A s \in Slots : /\ slots'[s].worker = slots[s].worker
                         /\ slots'[s].phase = "retiring" => slots[s].phase = "retiring"
    <3>1. CASE Claimable(budget)
      <4> DEFINE q == Append(queue, j)
                 p == [promise EXCEPT ![j] = "pending"]
      <4>1. Dispatch(q, slots, p)
        BY <1>3, <3>1 DEF Render
      <4> HIDE DEF q, p
      <4>2. QED
        BY <1>1, <4>1, DispatchKeepsThreads
    <3>2. CASE ~Claimable(budget)
      BY <1>3, <3>2 DEF Render
    <3>3. QED
      BY <3>1, <3>2
  <2>2. QED
    BY <1>3, <2>1, QuietThreads DEF Render
<1>4. ASSUME NEW j \in Jobs, Abort(j) PROVE ThreadInv'
  <2>1. ASSUME NEW s \in Slots, FailRun(s, slots, workers, "cancelled") PROVE ThreadInv'
    BY <1>1, <2>1, FailRunThreads
  <2>2. CASE UNCHANGED <<closed, closing, slots, workers, spawned, nextId, budget, hostDown>>
    BY <2>2, QuietThreads
  <2>3. QED
    BY <1>4, <2>1, <2>2 DEF Abort
<1>5. ASSUME Close PROVE ThreadInv'
  <2>1. /\ workers' = Terminate(workers, SlotWorkers) /\ spawned' = spawned
        /\ closed' = TRUE /\ closing' = "first"
    BY <1>5 DEF Close, ClosedWorkers
  <2>2. \A w \in Workers : ~Runs(workers'[w])
    BY <1>1, <2>1, TerminateRuns DEF ThreadInv, SlotWorkers
  <2>3. \A s \in Slots : slots'[s].worker = slots[s].worker
    BY <1>1, <1>5 DEF Close, Slot, SlotFields
  <2>4. \A s \in Slots : slots[s].worker \in Workers
    BY <1>1 DEF Slot, SlotFields
  <2>5. QED
    BY <2>1, <2>2, <2>3, <2>4 DEF ThreadInv
<1>6. QED
  BY <1>2, <1>3, <1>4, <1>5 DEF Caller

LEMMA WorkerThreads ==
    ASSUME TypeOK, ThreadInv, Thread
    PROVE  ThreadInv'
<1>1. PICK w \in Workers : WorkerStarts(w) \/ WorkerAnswers(w) \/ WorkerBabbles(w) \/ WorkerDies(w)
  BY DEF Thread
<1>2. /\ UNCHANGED <<closed, closing, slots, spawned>>
      /\ Runs(workers[w])
      /\ \A v \in Workers : v # w => workers'[v] = workers[v]
  <2>1. \A events : \A v \in Workers : v # w => Emit(w, events)[v] = workers[v]
    BY DEF Emit, TypeOK
  <2>2. QED
    BY <1>1, <2>1 DEF WorkerStarts, WorkerAnswers, WorkerBabbles, WorkerDies, Live, Runs, Emit, TypeOK
<1>3. QED
  BY <1>2, QuietThreads

LEMMA SlotThreads ==
    ASSUME TypeOK, ThreadInv, NEW s \in Slots, Microtask(s) \/ DeliverEvent(s) \/ Timer(s)
    PROVE  ThreadInv'
<1>1. slots \in [Slots -> Slot] /\ workers \in [Workers -> Worker]
  BY DEF TypeOK
<1>2. CASE StartRender(s)
  <2>1. /\ \A t \in Slots : /\ slots'[t].worker = slots[t].worker
                            /\ slots'[t].phase = "retiring" => slots[t].phase = "retiring"
    BY <1>1, <1>2 DEF StartRender, Slot, SlotFields
  <2>2. \A w \in Workers : Runs(workers'[w]) => Runs(workers[w])
    BY <1>1, <1>2 DEF StartRender, Post, Runs, Worker
  <2>3. QED
    BY <1>2, <2>1, <2>2, QuietThreads DEF StartRender
<1>3. CASE CancelBeforeRender(s)
  <2> DEFINE sl == [slots EXCEPT ![s].warmFailures = 0]
  <2>1. \A t \in Slots : sl[t].worker = slots[t].worker /\ sl[t].phase = slots[t].phase
    BY <1>1 DEF Slot, SlotFields
  <2>2. sl \in [Slots -> Slot]
    BY SlotUpdates
  <2>3. FailRun(s, sl, workers, "cancelled")
    BY <1>3 DEF CancelBeforeRender
  <2> HIDE DEF sl
  <2>4. QED
    BY <1>1, <2>1, <2>2, <2>3, FailRunThreads
<1>4. CASE FailHandshake(s)
  BY <1>1, <1>4, FailRunThreads DEF FailHandshake
<1>5. CASE HandshakeEvent(s)
  <2>1. Deliverable(s) /\ UNCHANGED <<closed, closing, spawned>>
    BY <1>5 DEF HandshakeEvent
  <2>2. \A t \in Slots : slots'[t].worker = slots[t].worker /\ slots'[t].phase = slots[t].phase
    BY <1>1, <1>5 DEF HandshakeEvent, Slot, SlotFields
  <2>3. \A w \in Workers : Runs(workers'[w]) => Runs(workers[w])
    BY <1>5, <2>1, ConsumedThreads, TerminateRuns DEF HandshakeEvent, Runs
  <2>4. QED
    BY <2>1, <2>2, <2>3, QuietThreads
<1>6. CASE AcceptResult(s)
  <2> DEFINE p == Settle(promise, slots[s].job, "resolved")
  <2>1. Deliverable(s) /\ EndRun(s, slots, p, Consumed(s), FALSE)
    BY <1>6 DEF AcceptResult
  <2> HIDE DEF p
  <2>2. QED
    BY <1>1, <2>1, ConsumedThreads, EndRunThreads
<1>7. CASE \E verdict : Deliverable(s) /\ FailRun(s, slots, Consumed(s), verdict)
  BY <1>1, <1>7, ConsumedThreads, FailRunThreads
<1>8. CASE DropEvent(s)
  <2>1. Deliverable(s) /\ workers' = Consumed(s) /\ UNCHANGED <<closed, closing, slots, spawned>>
    BY <1>8 DEF DropEvent
  <2>2. QED
    BY <2>1, ConsumedThreads, QuietThreads DEF Runs
<1>9. CASE HandshakeTimeout(s)
  <2>1. \A t \in Slots : slots'[t].worker = slots[t].worker /\ slots'[t].phase = slots[t].phase
    BY <1>1, <1>9 DEF HandshakeTimeout, Slot, SlotFields
  <2>2. \A w \in Workers : Runs(workers'[w]) => Runs(workers[w])
    BY <1>1, <1>9, TerminateRuns DEF HandshakeTimeout
  <2>3. QED
    BY <1>9, <2>1, <2>2, QuietThreads DEF HandshakeTimeout
<1>10. CASE RenderTimeout(s)
  BY <1>1, <1>10, FailRunThreads DEF RenderTimeout
<1>11. QED
  BY <1>2, <1>3, <1>4, <1>5, <1>6, <1>7, <1>8, <1>9, <1>10
     DEF Microtask, DeliverEvent, Timer, OversizeResult, AcceptFailure, WorkerFailed

LEMMA RetireThreads ==
    ASSUME TypeOK, ThreadInv, NEW s \in Slots, Retire(s)
    PROVE  ThreadInv'
<1>1. /\ slots \in [Slots -> Slot] /\ workers \in [Workers -> Worker]
      /\ slots[s] \in Slot /\ UNCHANGED <<closed, closing>>
      /\ slots[s].worker \in Workers /\ ~Runs(workers[slots[s].worker])
  BY DEF TypeOK, Retire, RetireWithoutWorker, Respawn, RespawnFails, Retired, Terminated,
         Runs, Slot, SlotFields
<1>2. ASSUME NEW slot \in Slot, slot.phase = "free", FreeAfterReplace([slots EXCEPT ![s] = slot])
      PROVE  \A t \in Slots : /\ slots'[t].worker = IF t = s THEN slot.worker ELSE slots[t].worker
                              /\ slots'[t].phase = "retiring" => slots[t].phase = "retiring" /\ t # s
  <2> DEFINE sl == [slots EXCEPT ![s] = slot]
  <2>1. sl \in [Slots -> Slot] /\ Dispatch(queue, sl, promise)
    BY <1>1, <1>2 DEF FreeAfterReplace
  <2>2. \A t \in Slots : /\ sl[t].worker = IF t = s THEN slot.worker ELSE slots[t].worker
                         /\ sl[t].phase = "retiring" => slots[t].phase = "retiring" /\ t # s
    BY <1>1, <1>2
  <2> HIDE DEF sl
  <2>3. QED
    BY <2>1, <2>2, DispatchKeepsThreads
<1>3. CASE RetireWithoutWorker(s)
  <2>1. FreeAfterReplace([slots EXCEPT ![s] = Freed(slots[s])])
    BY <1>3 DEF RetireWithoutWorker
  <2>2. Freed(slots[s]) \in Slot /\ Freed(slots[s]).phase = "free"
        /\ Freed(slots[s]).worker = slots[s].worker
    BY <1>1, SlotStates DEF Freed, Slot, SlotFields
  <2>3. QED
    BY <1>2, <1>3, <2>1, <2>2, QuietThreads DEF RetireWithoutWorker
<1>4. CASE RespawnFails(s)
  <2>1. FreeAfterReplace([slots EXCEPT ![s] = SpawnFailed(slots[s])])
    BY <1>4 DEF RespawnFails
  <2>2. SpawnFailed(slots[s]).phase = "free" /\ SpawnFailed(slots[s]).worker = slots[s].worker
    BY <1>1 DEF SpawnFailed, Freed, Slot, SlotFields
  <2>3. SpawnFailed(slots[s]) \in Slot
    BY SpawnFailedType
  <2>4. QED
    BY <1>2, <1>4, <2>1, <2>2, <2>3, QuietThreads DEF RespawnFails
<1>5. CASE Respawn(s)
  <2> DEFINE slot == [Freed(slots[s]) EXCEPT !.worker = spawned + 1, !.ready = "pending"]
  <2>1. /\ ~closed /\ spawned' = spawned + 1 /\ spawned \in Nat /\ spawned + 1 \in Workers
        /\ workers' = [workers EXCEPT ![spawned + 1].state = "starting"]
    BY <1>5, PoolAssumption DEF Respawn, MayRespawn, TypeOK, Workers
  <2>2. slot \in Slot /\ slot.phase = "free" /\ slot.worker = spawned + 1
    BY <1>1, <2>1, PoolAssumption DEF Freed, Slot, SlotFields, Busy
  <2>3. FreeAfterReplace([slots EXCEPT ![s] = slot])
    BY <1>5 DEF Respawn
  <2> HIDE DEF slot
  <2>4. \A t \in Slots :
          /\ slots'[t].worker = IF t = s THEN spawned + 1 ELSE slots[t].worker
          /\ slots'[t].phase = "retiring" => slots[t].phase = "retiring" /\ t # s
    BY <1>2, <2>2, <2>3
  <2>5. \A w \in Workers : w # spawned + 1 => workers'[w] = workers[w]
    BY <1>1, <2>1
  <2>6. \A t \in Slots : slots[t].worker \in Workers /\ slots[t].worker \in Nat
    BY <1>1 DEF Slot, SlotFields, Workers
  <2>7. \A w \in Workers : Runs(workers'[w]) => \E t \in Slots : slots'[t].worker = w
    BY <1>1, <2>4, <2>5 DEF ThreadInv
  <2>8. \A t \in Slots : /\ slots'[t].worker <= spawned'
                         /\ slots'[t].phase = "retiring" => ~Runs(workers'[slots'[t].worker])
    BY <2>1, <2>4, <2>5, <2>6 DEF ThreadInv
  <2>9. QED
    BY <1>1, <2>1, <2>7, <2>8 DEF ThreadInv
<1>6. QED
  BY <1>3, <1>4, <1>5 DEF Retire

LEMMA CloseThreads ==
    ASSUME TypeOK, ThreadInv, CloseAgain \/ CloseReturns
    PROVE  ThreadInv'
<1>1. workers \in [Workers -> Worker] /\ closed
  BY DEF TypeOK, ThreadInv, CloseAgain, CloseReturns
<1>2. \A w \in Workers : Runs(workers'[w]) => Runs(workers[w])
  BY <1>1, TerminateRuns DEF CloseAgain, CloseReturns, ClosedWorkers
<1>3. UNCHANGED <<closed, slots, spawned>> /\ closing' # "open"
  BY DEF CloseAgain, CloseReturns
<1>4. QED
  BY <1>1, <1>2, <1>3, QuietThreads

LEMMA NextThreads == TypeOK /\ ThreadInv /\ [Next]_vars => ThreadInv'
<1>1. ASSUME TypeOK, ThreadInv, UNCHANGED vars PROVE ThreadInv'
  BY <1>1, QuietThreads DEF vars
<1>2. ASSUME TypeOK, ThreadInv, Pool PROVE ThreadInv'
  BY <1>2, SlotThreads, RetireThreads, CloseThreads DEF Pool
<1>3. QED
  BY <1>1, <1>2, CallerThreads, WorkerThreads DEF Next

\* However jobs fail and however close() interleaves with a replacement, every
\* running thread belongs to a slot, and none runs once close() has returned.
THEOREM NoOrphan == Spec => []NoOrphanThread
<1>1. Spec => []ThreadInv
  BY InitThreads, InitType, NextType, NextThreads, PTL DEF Spec
<1>2. QED
  BY <1>1, ThreadInvImplies, PTL

(***************************************************************************)
(* Every call in one place.  OnePlace says what its counts come to; Place  *)
(* says it of the places themselves, for any queue, slots and promises,    *)
(* since a dispatch goes on from those the action has prepared.            *)
(***************************************************************************)
Place(q, sl, p, gone) ==
    /\ \A i, k \in 1..Len(q) : q[i] = q[k] => i = k
    /\ \A s, t \in Slots : Busy(sl[s]) /\ Busy(sl[t]) /\ sl[s].job = sl[t].job => s = t
    /\ \A i \in 1..Len(q), s \in Slots : Busy(sl[s]) => sl[s].job # q[i]
    /\ \A i \in 1..Len(q) : p[q[i]] = "pending" /\ q[i] \notin gone
    /\ \A s \in Slots : Busy(sl[s]) => p[sl[s].job] # "idle"
    /\ \A j \in Jobs : p[j] = "pending" =>
          \/ \E i \in 1..Len(q) : q[i] = j
          \/ \E s \in Slots : Busy(sl[s]) /\ sl[s].job = j
    /\ ~closed => \A s \in Slots : Busy(sl[s]) => p[sl[s].job] = "pending"

PlaceInv == Place(queue, slots, promise, aborted)

LEMMA FreeFinite ==
    ASSUME NEW sl
    PROVE  /\ IsFiniteSet(FreeSlots(sl))
           /\ \A s : /\ IsFiniteSet({t \in FreeSlots(sl) : t <= s})
                     /\ Cardinality({t \in FreeSlots(sl) : t <= s}) \in Nat
                     /\ Cardinality({t \in FreeSlots(sl) : t <= s}) <= Cardinality(FreeSlots(sl))
<1>1. IsFiniteSet(FreeSlots(sl))
  <2>1. FreeSlots(sl) \subseteq Slots
    BY DEF FreeSlots
  <2>2. QED
    BY <2>1, SlotsFinite, FS_Subset
<1>2. ASSUME NEW s
      PROVE  /\ IsFiniteSet({t \in FreeSlots(sl) : t <= s})
             /\ Cardinality({t \in FreeSlots(sl) : t <= s}) \in Nat
             /\ Cardinality({t \in FreeSlots(sl) : t <= s}) <= Cardinality(FreeSlots(sl))
  <2> DEFINE Below == {t \in FreeSlots(sl) : t <= s}
  <2>1. Below \in SUBSET FreeSlots(sl)
    OBVIOUS
  <2> HIDE DEF Below
  <2>2. IsFiniteSet(Below) /\ Cardinality(Below) <= Cardinality(FreeSlots(sl))
    BY <1>1, <2>1, FS_Subset
  <2>3. Cardinality(Below) \in Nat
    BY <2>2, FS_CardinalityType
  <2>4. QED
    BY <2>2, <2>3 DEF Below
<1>3. QED
  BY <1>1, <1>2

\* The ranks of the free slots are 1, 2, ... in slot order.
LEMMA RankBijection ==
    ASSUME NEW sl
    PROVE  /\ Cardinality(FreeSlots(sl)) \in Nat
           /\ \A s, t \in FreeSlots(sl) : Rank(sl, s) = Rank(sl, t) => s = t
           /\ \A s \in FreeSlots(sl) : Rank(sl, s) \in 1..Cardinality(FreeSlots(sl))
           /\ \A k \in 1..Cardinality(FreeSlots(sl)) :
                 \E s \in FreeSlots(sl) : Rank(sl, s) = k
<1> DEFINE F == FreeSlots(sl)
           n == Cardinality(F)
<1>1. IsFiniteSet(F) /\ n \in Nat
  BY FreeFinite, FS_CardinalityType
<1>2. ASSUME NEW s \in F, NEW t \in F, s < t PROVE Rank(sl, s) # Rank(sl, t)
  <2> DEFINE S == {u \in F : u <= s}
             T == {u \in F : u <= t}
  <2>1. s \in Nat /\ t \in Nat /\ \A u \in F : u \in Nat
    BY DEF FreeSlots, Slots
  <2>2. S \in SUBSET T
    <3>1. ASSUME NEW u \in F, u <= s PROVE u <= t
      BY <1>2, <2>1, <3>1
    <3>2. QED
      BY <3>1
  <2>3. t \in T /\ t \notin S
    BY <1>2, <2>1
  <2>4. IsFiniteSet(T)
    BY FreeFinite
  <2> HIDE DEF S, T
  <2>5. Cardinality(S) # Cardinality(T)
    BY <2>2, <2>3, <2>4, FS_Subset
  <2>6. QED
    BY <2>5 DEF Rank, S, T
<1>3. ASSUME NEW s \in F, NEW t \in F, Rank(sl, s) = Rank(sl, t) PROVE s = t
  <2>1. s \in Nat /\ t \in Nat
    BY DEF FreeSlots, Slots
  <2>2. ~(s < t) /\ ~(t < s)
    BY <1>2, <1>3
  <2>3. QED
    BY <2>1, <2>2
<1>4. ASSUME NEW s \in F PROVE Rank(sl, s) \in 1..n
  <2> DEFINE S == {u \in F : u <= s}
  <2>1. s \in S
    BY DEF FreeSlots, Slots
  <2>2. IsFiniteSet(S) /\ Cardinality(S) \in Nat /\ Cardinality(S) <= n
    BY FreeFinite
  <2> HIDE DEF S
  <2>3. Cardinality(S) # 0
    BY <2>1, <2>2, FS_EmptySet
  <2>4. QED
    BY <1>1, <2>2, <2>3 DEF Rank, S
<1> DEFINE r == [s \in F |-> Rank(sl, s)]
<1> HIDE DEF F, n
<1>5. r \in Injection(F, 1..n)
  BY <1>3, <1>4 DEF Injection, IsInjective
<1>6. IsFiniteSet(1..n) /\ Cardinality(1..n) = n
  BY <1>1, FS_Interval
<1>7. r \in Surjection(F, 1..n)
  BY <1>5, <1>6, FS_Injection DEF n
<1>8. ASSUME NEW k \in 1..n PROVE \E s \in F : Rank(sl, s) = k
  BY <1>7, <1>8 DEF Surjection
<1>9. QED
  BY <1>1, <1>3, <1>4, <1>8 DEF F, n

\* The slots that take a job take exactly the head of the queue.
LEMMA TakesHead ==
    ASSUME NEW q \in Seq(Jobs), NEW sl
    PROVE  LET m == Cardinality({s \in Slots : Takes(q, sl, s)})
           IN  /\ m \in 0..Len(q)
               /\ \A s \in Slots : Takes(q, sl, s) => Rank(sl, s) \in 1..m
               /\ \A k \in 1..m : \E s \in Slots : Takes(q, sl, s) /\ Rank(sl, s) = k
<1> DEFINE T == {s \in Slots : Takes(q, sl, s)}
           n == Cardinality(FreeSlots(sl))
           b == IF n <= Len(q) THEN n ELSE Len(q)
           f == [s \in T |-> Rank(sl, s)]
<1>1. n \in Nat /\ Len(q) \in Nat /\ b \in Nat /\ b <= n /\ b <= Len(q)
  BY RankBijection, LenProperties
<1>2. \A s \in T : s \in FreeSlots(sl) /\ Rank(sl, s) \in 1..b
  BY <1>1, RankBijection DEF Takes
<1>3. \A s, t \in T : Rank(sl, s) = Rank(sl, t) => s = t
  BY <1>2, RankBijection
<1>4. \A k \in 1..b : \E s \in T : Rank(sl, s) = k
  <2>1. SUFFICES ASSUME NEW k \in 1..b PROVE \E s \in T : Rank(sl, s) = k
    OBVIOUS
  <2>2. PICK s \in FreeSlots(sl) : Rank(sl, s) = k
    BY <1>1, RankBijection
  <2>3. s \in T
    BY <1>1, <2>2 DEF Takes, FreeSlots
  <2>4. QED
    BY <2>2, <2>3
<1> HIDE DEF b, T
<1>5. IsFiniteSet(1..b) /\ Cardinality(1..b) = b
  BY <1>1, FS_Interval
<1>6. f \in Injection(T, 1..b)
  BY <1>2, <1>3 DEF Injection, IsInjective
<1>7. f \in Surjection(T, 1..b)
  BY <1>2, <1>4 DEF Surjection
<1>8. Cardinality(T) = b
  BY <1>5, <1>6, <1>7, FS_Injection
<1>9. /\ Cardinality(T) \in 0..Len(q)
      /\ \A s \in T : Rank(sl, s) \in 1..Cardinality(T)
      /\ \A k \in 1..Cardinality(T) : \E s \in T : Rank(sl, s) = k
  BY <1>1, <1>2, <1>4, <1>8
<1>10. QED
  BY <1>9 DEF T

\* A dispatch keeps every call in its place: nothing in the queue is aborted,
\* so it only moves the head of the queue to the free slots.
LEMMA DispatchPlace ==
    ASSUME NEW q \in Seq(Jobs), NEW sl \in [Slots -> Slot], NEW p \in [Jobs -> Promises],
           Place(q, sl, p, aborted), Dispatch(q, sl, p)
    PROVE  /\ Place(queue', slots', promise', aborted)
           /\ promise' = p
           /\ \A s \in Slots : sl[s].phase # "free" => slots'[s] = sl[s]
           /\ \A s \in Slots : slots'[s].phase \in {sl[s].phase, "handshake"}
           /\ \A i \in 1..Len(queue') : \E k \in 1..Len(q) : queue'[i] = q[k]
           /\ \A s \in Slots : slots'[s].phase = "handshake" =>
                 sl[s] = slots'[s] \/ \E k \in 1..Len(q) : slots'[s].job = q[k]
<1>1. CASE closed
  BY <1>1 DEF Dispatch
<1>2. CASE ~closed
  <2> DEFINE m == Cardinality({s \in Slots : Takes(q, sl, s)})
  <2>1. /\ queue' = SubSeq(q, m + 1, Len(q))
        /\ slots' = DispatchSlots(q, sl)
        /\ promise' = DispatchPromise(q, sl, p)
    BY <1>2 DEF Dispatch, DispatchQueue
  <2>2. /\ m \in 0..Len(q) /\ Len(q) \in Nat
        /\ \A s \in Slots : Takes(q, sl, s) => Rank(sl, s) \in 1..m
        /\ \A k \in 1..m : \E s \in Slots : Takes(q, sl, s) /\ Rank(sl, s) = k
    BY TakesHead, LenProperties, ZenonT(60)
  <2> HIDE DEF m
  <2>3. Len(queue') = Len(q) - m /\ \A i \in 1..Len(queue') : queue'[i] = q[i + m]
    BY <2>1, <2>2, SubSeqProperties
  <2>4. \A i \in 1..Len(queue') : i + m \in 1..Len(q) /\ i + m > m
    BY <2>2, <2>3
  <2>5. \A i \in 1..Len(q) : q[i] \in Jobs /\ q[i] \notin aborted /\ p[q[i]] = "pending"
    BY ElementOfSeq DEF Place
  <2>6. ASSUME NEW s \in Slots, Takes(q, sl, s)
        PROVE  /\ Rank(sl, s) \in 1..m /\ Rank(sl, s) \in 1..Len(q)
               /\ sl[s].phase = "free" /\ ~Busy(sl[s])
               /\ slots'[s].phase = "handshake" /\ Busy(slots'[s])
               /\ slots'[s].job = q[Rank(sl, s)]
    <3>1. Rank(sl, s) \in 1..m /\ Rank(sl, s) \in 1..Len(q) /\ sl[s].phase = "free"
      BY <2>2, <2>6 DEF Takes, FreeSlots
    <3>2. slots'[s] = [sl[s] EXCEPT !.phase = "handshake", !.job = q[Rank(sl, s)]]
      BY <2>1, <2>5, <2>6, <3>1 DEF DispatchSlots
    <3>3. QED
      BY <3>1, <3>2 DEF Slot, SlotFields, Busy
  <2>7. ASSUME NEW s \in Slots, ~Takes(q, sl, s) PROVE slots'[s] = sl[s]
    BY <2>1, <2>7 DEF DispatchSlots
  <2>8. promise' = p
    <3>1. \A s \in Slots : Takes(q, sl, s) => q[Rank(sl, s)] \notin aborted
      BY <2>5, <2>6
    <3>2. QED
      BY <2>1, <3>1 DEF DispatchPromise
  <2>9. \A s, t \in Slots : Takes(q, sl, s) /\ Takes(q, sl, t) /\ Rank(sl, s) = Rank(sl, t) => s = t
    BY RankBijection DEF Takes
  <2>10. \A i, k \in 1..Len(queue') : queue'[i] = queue'[k] => i = k
    <3>1. ASSUME NEW i \in 1..Len(queue'), NEW k \in 1..Len(queue'), queue'[i] = queue'[k]
          PROVE  i = k
      <4>1. i + m = k + m
        BY <2>3, <2>4, <3>1 DEF Place
      <4>2. QED
        BY <2>2, <4>1
    <3>2. QED
      BY <3>1
  <2>11. \A s, t \in Slots :
            Busy(slots'[s]) /\ Busy(slots'[t]) /\ slots'[s].job = slots'[t].job => s = t
    <3>1. SUFFICES ASSUME NEW s \in Slots, NEW t \in Slots, Busy(slots'[s]), Busy(slots'[t]),
                          slots'[s].job = slots'[t].job
                   PROVE  s = t
      OBVIOUS
    <3>2. CASE Takes(q, sl, s) /\ Takes(q, sl, t)
      <4>1. Rank(sl, s) = Rank(sl, t)
        BY <2>6, <3>1, <3>2 DEF Place
      <4>2. QED
        BY <2>9, <3>2, <4>1
    <3>3. CASE Takes(q, sl, s) /\ ~Takes(q, sl, t)
      BY <2>6, <2>7, <3>1, <3>3 DEF Place
    <3>4. CASE ~Takes(q, sl, s) /\ Takes(q, sl, t)
      BY <2>6, <2>7, <3>1, <3>4 DEF Place
    <3>5. CASE ~Takes(q, sl, s) /\ ~Takes(q, sl, t)
      BY <2>7, <3>1, <3>5 DEF Place
    <3>6. QED
      BY <3>2, <3>3, <3>4, <3>5
  <2>12. \A i \in 1..Len(queue'), s \in Slots : Busy(slots'[s]) => slots'[s].job # queue'[i]
    <3>1. SUFFICES ASSUME NEW i \in 1..Len(queue'), NEW s \in Slots, Busy(slots'[s])
                   PROVE  slots'[s].job # queue'[i]
      OBVIOUS
    <3>2. queue'[i] = q[i + m] /\ i + m \in 1..Len(q) /\ i + m > m
      BY <2>3, <2>4
    <3>3. CASE Takes(q, sl, s)
      <4>1. Rank(sl, s) # i + m /\ Rank(sl, s) \in 1..Len(q)
        BY <2>2, <2>6, <3>2, <3>3
      <4>2. QED
        BY <2>6, <3>2, <3>3, <4>1 DEF Place
    <3>4. CASE ~Takes(q, sl, s)
      BY <2>7, <3>1, <3>2, <3>4 DEF Place
    <3>5. QED
      BY <3>3, <3>4
  <2>13. \A i \in 1..Len(queue') : promise'[queue'[i]] = "pending" /\ queue'[i] \notin aborted
    BY <2>3, <2>4, <2>5, <2>8
  <2>14. \A s \in Slots : Busy(slots'[s]) => /\ promise'[slots'[s].job] # "idle"
                                             /\ ~closed => promise'[slots'[s].job] = "pending"
    <3>1. SUFFICES ASSUME NEW s \in Slots, Busy(slots'[s])
                   PROVE  /\ promise'[slots'[s].job] # "idle"
                          /\ ~closed => promise'[slots'[s].job] = "pending"
      OBVIOUS
    <3>2. CASE Takes(q, sl, s)
      BY <2>5, <2>6, <2>8, <3>2
    <3>3. CASE ~Takes(q, sl, s)
      BY <2>7, <2>8, <3>1, <3>3 DEF Place
    <3>4. QED
      BY <3>2, <3>3
  <2>15. ASSUME NEW j \in Jobs, promise'[j] = "pending"
         PROVE  \/ \E i \in 1..Len(queue') : queue'[i] = j
                \/ \E s \in Slots : Busy(slots'[s]) /\ slots'[s].job = j
    <3>1. CASE \E s \in Slots : Busy(sl[s]) /\ sl[s].job = j
      <4>1. PICK s \in Slots : Busy(sl[s]) /\ sl[s].job = j
        BY <3>1
      <4>2. slots'[s] = sl[s]
        BY <2>6, <2>7, <4>1
      <4>3. QED
        BY <4>1, <4>2
    <3>2. ASSUME NEW k \in 1..Len(q), q[k] = j, k <= m
          PROVE  \E s \in Slots : Busy(slots'[s]) /\ slots'[s].job = j
      <4>1. PICK s \in Slots : Takes(q, sl, s) /\ Rank(sl, s) = k
        BY <2>2, <3>2
      <4>2. QED
        BY <2>6, <3>2, <4>1
    <3>3. ASSUME NEW k \in 1..Len(q), q[k] = j, k > m
          PROVE  \E i \in 1..Len(queue') : queue'[i] = j
      <4>1. k - m \in 1..Len(queue') /\ (k - m) + m = k
        BY <2>2, <2>3, <3>3
      <4>2. QED
        BY <2>3, <3>3, <4>1
    <3>4. (\E k \in 1..Len(q) : q[k] = j) \/ \E s \in Slots : Busy(sl[s]) /\ sl[s].job = j
      BY <2>8, <2>15 DEF Place
    <3>5. \A k \in 1..Len(q) : k <= m \/ k > m
      BY <2>2
    <3>6. QED
      BY <3>1, <3>2, <3>3, <3>4, <3>5
  <2>16. Place(queue', slots', promise', aborted)
    BY <2>10, <2>11, <2>12, <2>13, <2>14, <2>15 DEF Place
  <2>17. \A s \in Slots : sl[s].phase # "free" => slots'[s] = sl[s]
    BY <2>6, <2>7
  <2>18. \A s \in Slots : /\ slots'[s].phase \in {sl[s].phase, "handshake"}
                          /\ slots'[s].phase = "handshake" =>
                                sl[s] = slots'[s] \/ \E k \in 1..Len(q) : slots'[s].job = q[k]
    <3>1. SUFFICES ASSUME NEW s \in Slots
                   PROVE  /\ slots'[s].phase \in {sl[s].phase, "handshake"}
                          /\ slots'[s].phase = "handshake" =>
                                sl[s] = slots'[s] \/ \E k \in 1..Len(q) : slots'[s].job = q[k]
      OBVIOUS
    <3>2. QED
      BY <2>6, <2>7
  <2>19. QED
    BY <2>3, <2>4, <2>8, <2>16, <2>17, <2>18
<1>3. QED
  BY <1>1, <1>2

\* A slot whose job has left it.
LEMMA SlotLeft ==
    ASSUME NEW q, NEW sl \in [Slots -> Slot], NEW p \in [Jobs -> Promises], NEW s \in Slots,
           NEW slot \in Slot, ~Busy(slot),
           NEW gone, NEW verdict \in Settled,
           Place(q, sl, p, gone)
    PROVE  /\ Busy(sl[s]) => Place(q, [sl EXCEPT ![s] = slot], Settle(p, sl[s].job, verdict), gone)
           /\ ~Busy(sl[s]) => Place(q, [sl EXCEPT ![s] = slot], p, gone)
<1> DEFINE left == [sl EXCEPT ![s] = slot]
           settled == Settle(p, sl[s].job, verdict)
<1>1. /\ ~Busy(left[s]) /\ \A t \in Slots : t # s => left[t] = sl[t]
  OBVIOUS
<1>2. ~Busy(sl[s]) => Place(q, left, p, gone)
  BY <1>1 DEF Place
<1>3. CASE Busy(sl[s])
  <2>1. sl[s].job \in Jobs
    BY <1>3 DEF Slot
  <2>2. /\ settled[sl[s].job] # "pending" /\ settled[sl[s].job] # "idle"
        /\ \A j \in Jobs : j # sl[s].job => settled[j] = p[j]
    BY <1>3, <2>1 DEF Settle, Settled, Reasons, Place
  <2>3. \A t \in Slots : Busy(left[t]) =>
            t # s /\ Busy(sl[t]) /\ left[t] = sl[t] /\ sl[t].job \in Jobs /\ sl[t].job # sl[s].job
    BY <1>1, <1>3 DEF Place, Slot
  <2> HIDE DEF left, settled
  <2>4. \A i \in 1..Len(q) : settled[q[i]] = "pending" /\ q[i] \notin gone
    <3>1. SUFFICES ASSUME NEW i \in 1..Len(q) PROVE settled[q[i]] = "pending" /\ q[i] \notin gone
      OBVIOUS
    <3>2. q[i] # sl[s].job /\ p[q[i]] = "pending" /\ q[i] \notin gone
      BY <1>3 DEF Place
    <3>3. settled[q[i]] = p[q[i]]
      BY <3>2 DEF settled, Settle
    <3>4. QED
      BY <3>2, <3>3
  <2>5. \A j \in Jobs : settled[j] = "pending" =>
          \/ \E i \in 1..Len(q) : q[i] = j
          \/ \E t \in Slots : Busy(left[t]) /\ left[t].job = j
    BY <1>1, <2>2 DEF Place, left
  <2>6. QED
    BY <2>2, <2>3, <2>4, <2>5 DEF Place, left, settled
<1>4. QED
  BY <1>2, <1>3

\* The end of #run: the job leaves its slot and is not pending any more.
LEMMA EndRunPlace ==
    ASSUME TypeOK, NEW s \in Slots, Busy(slots[s]), NEW sl \in [Slots -> Slot],
           sl[s].job = slots[s].job, Busy(sl[s]), Place(queue, sl, promise, aborted),
           NEW verdict \in Settled, NEW ws, NEW poisoned \in BOOLEAN,
           EndRun(s, sl, Settle(promise, slots[s].job, verdict), ws, poisoned)
    PROVE  /\ Place(queue', slots', promise', aborted)
           /\ promise' = Settle(promise, slots[s].job, verdict)
           /\ closed' = closed
           /\ \A t \in Slots : slots'[t].phase = "rendering" => t # s /\ slots'[t] = sl[t]
           /\ \A i \in 1..Len(queue') : \E k \in 1..Len(queue) : queue'[i] = queue[k]
           /\ \A t \in Slots : slots'[t].phase = "handshake" =>
                 (t # s /\ sl[t] = slots'[t]) \/ \E k \in 1..Len(queue) : slots'[t].job = queue[k]
           /\ \A t \in Slots : t # s /\ Busy(sl[t]) => slots'[t] = sl[t]
<1> DEFINE p == Settle(promise, slots[s].job, verdict)
<1>1. /\ slots \in [Slots -> Slot] /\ promise \in [Jobs -> Promises] /\ queue \in Seq(Jobs)
      /\ p \in [Jobs -> Promises]
  BY SettleType DEF TypeOK
<1>2. ASSUME NEW slot \in Slot, ~Busy(slot)
      PROVE  Place(queue, [sl EXCEPT ![s] = slot], p, aborted)
  BY <1>1, <1>2, SlotLeft
<1>3. /\ Freed(sl[s]) \in Slot /\ ~Busy(Freed(sl[s])) /\ Freed(sl[s]).phase = "free"
      /\ Retiring(sl[s]) \in Slot /\ ~Busy(Retiring(sl[s])) /\ Retiring(sl[s]).phase = "retiring"
  BY SlotStates, ZenonT(30) DEF Freed, Retiring, Busy, Slot, SlotFields
<1>4. closed' = closed
  BY DEF EndRun
<1> HIDE DEF p
<1>5. CASE poisoned /\ ~closed
  <2>1. slots' = [sl EXCEPT ![s] = Retiring(sl[s])] /\ promise' = p /\ queue' = queue
    BY <1>5 DEF EndRun, p
  <2>2. Place(queue', slots', promise', aborted)
    BY <1>2, <1>3, <2>1
  <2>3. \A t \in Slots : slots'[t].phase \in {"rendering", "handshake"} => t # s /\ slots'[t] = sl[t]
    BY <1>3, <2>1
  <2>4. \A t \in Slots : t # s => slots'[t] = sl[t]
    BY <2>1
  <2>5. QED
    BY <1>4, <2>1, <2>2, <2>3, <2>4 DEF p
<1>6. CASE ~(poisoned /\ ~closed)
  <2> DEFINE freed == [sl EXCEPT ![s] = Freed(sl[s])]
  <2>1. Dispatch(queue, freed, p)
    BY <1>6 DEF EndRun, p
  <2>2. freed \in [Slots -> Slot] /\ Place(queue, freed, p, aborted)
    BY <1>2, <1>3
  <2>3. freed[s].phase = "free" /\ \A t \in Slots : t # s => freed[t] = sl[t]
    BY <1>3
  <2> HIDE DEF freed
  <2>4. /\ Place(queue', slots', promise', aborted)
        /\ promise' = p
        /\ \A t \in Slots : freed[t].phase # "free" => slots'[t] = freed[t]
        /\ \A t \in Slots : slots'[t].phase \in {freed[t].phase, "handshake"}
        /\ \A i \in 1..Len(queue') : \E k \in 1..Len(queue) : queue'[i] = queue[k]
        /\ \A t \in Slots : slots'[t].phase = "handshake" =>
              freed[t] = slots'[t] \/ \E k \in 1..Len(queue) : slots'[t].job = queue[k]
    BY <1>1, <2>1, <2>2, DispatchPlace
  <2>5. \A t \in Slots : slots'[t].phase = "rendering" => t # s /\ slots'[t] = sl[t]
    BY <2>3, <2>4
  <2>6. \A t \in Slots : slots'[t].phase = "handshake" =>
           (t # s /\ sl[t] = slots'[t]) \/ \E k \in 1..Len(queue) : slots'[t].job = queue[k]
    BY <2>3, <2>4
  <2>7. \A t \in Slots : t # s /\ Busy(sl[t]) => slots'[t] = sl[t]
    BY <2>3, <2>4 DEF Busy
  <2>8. QED
    BY <1>4, <2>4, <2>5, <2>6, <2>7 DEF p
<1>7. QED
  BY <1>5, <1>6

LEMMA InitPlace == Init => PlaceInv
<1> SUFFICES ASSUME Init PROVE PlaceInv
  OBVIOUS
<1>1. Len(queue) = 0 /\ \A s \in Slots : ~Busy(slots[s])
  BY DEF Init, Busy
<1>2. \A j \in Jobs : promise[j] # "pending"
  BY DEF Init
<1>3. QED
  BY <1>1, <1>2 DEF PlaceInv, Place

\* A step that moves no job.
LEMMA QuietPlace ==
    ASSUME PlaceInv, queue' = queue, promise' = promise, aborted' = aborted, closed' = closed,
           \A s \in Slots : /\ Busy(slots'[s]) <=> Busy(slots[s])
                            /\ Busy(slots[s]) => slots'[s].job = slots[s].job
    PROVE  PlaceInv'
  BY DEF PlaceInv, Place

\* A job that #run has is on a slot whose phase is "handshake" or "rendering".
LEMMA RunPlace ==
    ASSUME TypeOK, PlaceInv, NEW s \in Slots, Busy(slots[s]), NEW sl \in [Slots -> Slot],
           \A t \in Slots : sl[t].phase = slots[t].phase /\ sl[t].job = slots[t].job,
           NEW verdict \in Settled, NEW ws, NEW poisoned \in BOOLEAN,
           EndRun(s, sl, Settle(promise, slots[s].job, verdict), ws, poisoned),
           aborted' = aborted
    PROVE  PlaceInv'
<1>1. /\ Place(queue, sl, promise, aborted) /\ Busy(sl[s]) /\ sl[s].job = slots[s].job
  BY DEF PlaceInv, Place, Busy
<1>2. Place(queue', slots', promise', aborted) /\ closed' = closed
  BY <1>1, EndRunPlace
<1>3. QED
  BY <1>2 DEF PlaceInv, Place

LEMMA SlotPlace ==
    ASSUME TypeOK, PlaceInv, NEW s \in Slots, Microtask(s) \/ DeliverEvent(s) \/ Timer(s)
    PROVE  PlaceInv'
<1>1. /\ slots \in [Slots -> Slot]
      /\ {"cancelled", "worker_failed", "output_limit", "render_failed", "timeout", "resolved"}
            \subseteq Settled
  BY DEF TypeOK, Settled, Reasons
<1>2. CASE StartRender(s)
  <2>1. \A t \in Slots : /\ Busy(slots'[t]) <=> Busy(slots[t])
                         /\ slots'[t].job = slots[t].job
    BY <1>1, <1>2 DEF StartRender, Resumes, Busy, Slot, SlotFields
  <2>2. QED
    BY <1>2, <2>1, QuietPlace DEF StartRender
<1>3. CASE CancelBeforeRender(s)
  <2> DEFINE sl == [slots EXCEPT ![s].warmFailures = 0]
  <2>1. \A t \in Slots : sl[t].phase = slots[t].phase /\ sl[t].job = slots[t].job
    BY <1>1 DEF Slot, SlotFields
  <2>2. sl \in [Slots -> Slot]
    BY SlotUpdates
  <2>3. /\ FailRun(s, sl, workers, "cancelled") /\ aborted' = aborted /\ Busy(slots[s])
    BY <1>3 DEF CancelBeforeRender, Resumes, Busy
  <2> HIDE DEF sl
  <2>4. QED
    BY <1>1, <2>1, <2>2, <2>3, RunPlace DEF FailRun
<1>4. CASE \E verdict \in Settled : \E ws : /\ Busy(slots[s]) /\ aborted' = aborted
                                            /\ FailRun(s, slots, ws, verdict)
  BY <1>1, <1>4, RunPlace DEF FailRun
<1>5. CASE AcceptResult(s)
  <2>1. /\ EndRun(s, slots, Settle(promise, slots[s].job, "resolved"), Consumed(s), FALSE)
        /\ aborted' = aborted /\ Busy(slots[s])
    BY <1>5 DEF AcceptResult, Listening, Busy
  <2>2. QED
    BY <1>1, <2>1, RunPlace
<1>6. CASE HandshakeEvent(s) \/ HandshakeTimeout(s)
  <2>1. \A t \in Slots : /\ Busy(slots'[t]) <=> Busy(slots[t])
                         /\ slots'[t].job = slots[t].job
    BY <1>1, <1>6 DEF HandshakeEvent, HandshakeTimeout, Busy, Slot, SlotFields
  <2>2. QED
    BY <1>6, <2>1, QuietPlace DEF HandshakeEvent, HandshakeTimeout
<1>7. CASE DropEvent(s)
  BY <1>7, QuietPlace DEF DropEvent
<1>8. CASE FailHandshake(s)
  <2>1. Busy(slots[s]) /\ aborted' = aborted /\ FailRun(s, slots, workers, "worker_failed")
    BY <1>8 DEF FailHandshake, Resumes, Busy
  <2>2. QED
    BY <1>1, <1>4, <2>1
<1>9. CASE OversizeResult(s) \/ AcceptFailure(s) \/ WorkerFailed(s) \/ RenderTimeout(s)
  <2>1. Busy(slots[s]) /\ aborted' = aborted
    BY <1>9 DEF OversizeResult, AcceptFailure, WorkerFailed, RenderTimeout, Listening, Busy
  <2>2. \E verdict \in Settled : \E ws : FailRun(s, slots, ws, verdict)
    BY <1>1, <1>9 DEF OversizeResult, AcceptFailure, WorkerFailed, RenderTimeout
  <2>3. QED
    BY <1>4, <2>1, <2>2
<1>10. QED
  BY <1>2, <1>3, <1>5, <1>6, <1>7, <1>8, <1>9 DEF Microtask, DeliverEvent, Timer

LEMMA RetirePlace ==
    ASSUME TypeOK, PlaceInv, NEW s \in Slots, Retire(s)
    PROVE  /\ PlaceInv'
           /\ UNCHANGED <<promise, aborted, closed>>
           /\ \A t \in Slots : Busy(slots[t]) => slots'[t] = slots[t]
           /\ \A t \in Slots : slots'[t].phase = "rendering" => slots'[t] = slots[t]
           /\ \A i \in 1..Len(queue') : \E k \in 1..Len(queue) : queue'[i] = queue[k]
           /\ \A t \in Slots : slots'[t].phase = "handshake" =>
                 slots'[t] = slots[t] \/ \E k \in 1..Len(queue) : slots'[t].job = queue[k]
<1>1. /\ slots \in [Slots -> Slot] /\ slots[s] \in Slot /\ queue \in Seq(Jobs)
      /\ promise \in [Jobs -> Promises] /\ "cancelled" \in Settled
      /\ slots[s].phase = "retiring" /\ UNCHANGED <<aborted, closed>>
  BY DEF TypeOK, Retire, RetireWithoutWorker, Respawn, RespawnFails, Retired, Settled, Reasons
<1>2. ~Busy(slots[s])
  BY <1>1 DEF Busy
<1>3. PICK slot \in Slot : slot.phase = "free" /\ FreeAfterReplace([slots EXCEPT ![s] = slot])
  <2>1. /\ Freed(slots[s]) \in Slot /\ Freed(slots[s]).phase = "free"
        /\ ~Busy(Freed(slots[s])) /\ Freed(slots[s]).job \notin Jobs
    BY <1>1, SlotStates, PoolAssumption DEF Freed, Slot, SlotFields, Busy
  <2>2. SpawnFailed(slots[s]) \in Slot /\ SpawnFailed(slots[s]).phase = "free"
    BY <1>1, SpawnFailedType DEF SpawnFailed, Freed, Slot, SlotFields
  <2>3. CASE RetireWithoutWorker(s)
    BY <2>1, <2>3 DEF RetireWithoutWorker
  <2>4. CASE RespawnFails(s)
    BY <2>2, <2>4 DEF RespawnFails
  <2>5. CASE Respawn(s)
    <3> DEFINE fresh == [Freed(slots[s]) EXCEPT !.worker = spawned + 1, !.ready = "pending"]
    <3>1. spawned + 1 \in Workers
      BY <2>5, PoolAssumption DEF Respawn, TypeOK, Workers
    <3>2. fresh \in Slot /\ fresh.phase = "free"
      BY <2>1, <3>1 DEF Slot, SlotFields, Busy
    <3>3. FreeAfterReplace([slots EXCEPT ![s] = fresh])
      BY <2>5 DEF Respawn
    <3> HIDE DEF fresh
    <3>4. QED
      BY <3>2, <3>3
  <2>6. QED
    BY <2>3, <2>4, <2>5 DEF Retire
<1>4. ~Busy(slot)
  BY <1>3 DEF Busy
<1> DEFINE sl == [slots EXCEPT ![s] = slot]
<1>5. Place(queue, sl, promise, aborted)
  BY <1>1, <1>2, <1>4, SlotLeft DEF PlaceInv
<1>6. sl \in [Slots -> Slot] /\ sl[s].phase = "free" /\ \A t \in Slots : t # s => sl[t] = slots[t]
  BY <1>1, <1>3
<1>7. Dispatch(queue, sl, promise)
  BY <1>3 DEF FreeAfterReplace
<1> HIDE DEF sl
<1>8. /\ Place(queue', slots', promise', aborted)
      /\ promise' = promise
      /\ \A t \in Slots : sl[t].phase # "free" => slots'[t] = sl[t]
      /\ \A t \in Slots : slots'[t].phase \in {sl[t].phase, "handshake"}
      /\ \A i \in 1..Len(queue') : \E k \in 1..Len(queue) : queue'[i] = queue[k]
      /\ \A t \in Slots : slots'[t].phase = "handshake" =>
            sl[t] = slots'[t] \/ \E k \in 1..Len(queue) : slots'[t].job = queue[k]
  BY <1>1, <1>5, <1>6, <1>7, DispatchPlace
<1>9. PlaceInv'
  BY <1>1, <1>8 DEF PlaceInv, Place
<1>10. \A t \in Slots : Busy(slots[t]) => slots'[t] = slots[t]
  BY <1>2, <1>6, <1>8 DEF Busy
<1>11. \A t \in Slots : /\ slots'[t].phase = "rendering" => slots'[t] = slots[t]
                        /\ slots'[t].phase = "handshake" =>
                              slots'[t] = slots[t] \/ \E k \in 1..Len(queue) : slots'[t].job = queue[k]
  BY <1>6, <1>8
<1>12. QED
  BY <1>1, <1>8, <1>9, <1>10, <1>11

\* An aborted call leaves the queue; the others keep their order.
LEMMA UnqueuedPlaces ==
    ASSUME TypeOK, NEW j \in Jobs, \A i, k \in 1..Len(queue) : queue[i] = queue[k] => i = k
    PROVE  \/ ~InQueue(j) /\ Unqueued(j) = queue
           \/ \E i \in 1..Len(queue) :
                 /\ queue[i] = j /\ Len(Unqueued(j)) = Len(queue) - 1
                 /\ \A k \in 1..(Len(queue) - 1) :
                       Unqueued(j)[k] = IF k < i THEN queue[k] ELSE queue[k + 1]
<1>1. CASE ~InQueue(j)
  BY <1>1 DEF Unqueued
<1>2. CASE InQueue(j)
  <2> DEFINE i == CHOOSE i \in Queued(j) : \A k \in Queued(j) : i <= k
  <2>1. queue \in Seq(Jobs) /\ Len(queue) \in Nat /\ Queued(j) \subseteq 1..Len(queue)
    BY LenProperties DEF TypeOK, Queued
  <2>2. i \in Queued(j)
    <3>1. \E m \in Queued(j) : \A k \in Queued(j) : m <= k
      BY <1>2, <2>1, LeastElement DEF InQueue
    <3>2. QED
      BY <3>1
  <2>3. Unqueued(j) = RemoveAt(queue, i)
    BY <1>2 DEF Unqueued, RemoveAt
  <2> HIDE DEF i
  <2>4. i \in 1..Len(queue) /\ queue[i] = j
    BY <2>2 DEF Queued
  <2>5. /\ Len(RemoveAt(queue, i)) = Len(queue) - 1
        /\ \A k \in 1..(Len(queue) - 1) :
               RemoveAt(queue, i)[k] = IF k < i THEN queue[k] ELSE queue[k + 1]
    BY <2>1, <2>4, RemoveAtPlaces
  <2>6. QED
    BY <2>3, <2>4, <2>5
<1>3. QED
  BY <1>1, <1>2

LEMMA AbortPlace ==
    ASSUME TypeOK, PlaceInv, NEW j \in Jobs, Abort(j)
    PROVE  PlaceInv'
<1>1. /\ slots \in [Slots -> Slot] /\ promise \in [Jobs -> Promises] /\ "cancelled" \in Settled
      /\ aborted' = aborted \cup {j} /\ Place(queue, slots, promise, aborted)
  BY DEF TypeOK, Settled, Reasons, Abort, PlaceInv
<1>2. ASSUME NEW s \in Slots, Listening(s), slots[s].job = j, FailRun(s, slots, workers, "cancelled")
      PROVE  PlaceInv'
  <2>1. Busy(slots[s])
    BY <1>2 DEF Listening, Busy
  <2>2. /\ Place(queue', slots', promise', aborted)
        /\ promise' = Settle(promise, j, "cancelled")
        /\ closed' = closed
        /\ \A i \in 1..Len(queue') : \E k \in 1..Len(queue) : queue'[i] = queue[k]
    BY <1>1, <1>2, <2>1, EndRunPlace DEF FailRun
  <2>3. \A i \in 1..Len(queue') : queue'[i] # j
    BY <1>1, <1>2, <2>1, <2>2 DEF Place
  <2>4. QED
    BY <1>1, <2>2, <2>3 DEF PlaceInv, Place
<1>3. CASE /\ \A s \in Slots : ~(Listening(s) /\ slots[s].job = j)
           /\ queue' = Unqueued(j)
           /\ promise' = IF InQueue(j) THEN Settle(promise, j, "cancelled") ELSE promise
           /\ UNCHANGED <<closed, slots>>
  <2>1. CASE ~InQueue(j)
    <3>1. queue' = queue /\ promise' = promise /\ closed' = closed /\ slots' = slots
      BY <1>3, <2>1 DEF Unqueued
    <3>2. \A i \in 1..Len(queue) : queue[i] # j
      BY <2>1 DEF InQueue, Queued
    <3>3. QED
      BY <1>1, <3>1, <3>2 DEF PlaceInv, Place
  <2>2. CASE InQueue(j)
    <3>1. PICK i \in 1..Len(queue) :
                 /\ queue[i] = j /\ Len(queue') = Len(queue) - 1
                 /\ \A k \in 1..(Len(queue) - 1) :
                       queue'[k] = IF k < i THEN queue[k] ELSE queue[k + 1]
      BY <1>1, <1>3, <2>2, UnqueuedPlaces DEF Place
    <3>2. promise' = [promise EXCEPT ![j] = "cancelled"]
      BY <1>1, <1>3, <2>2, <3>1 DEF Settle, Place
    <3> DEFINE old(k) == IF k < i THEN k ELSE k + 1
    <3>3. Len(queue) \in Nat
      BY LenProperties DEF TypeOK
    <3>4. \A k \in 1..Len(queue') : /\ old(k) \in 1..Len(queue) /\ old(k) # i
                                    /\ queue'[k] = queue[old(k)]
      BY <3>1, <3>3
    <3>5. \A k, l \in 1..Len(queue') : old(k) = old(l) => k = l
      BY <3>1, <3>3
    <3>6. \A k \in 1..Len(queue) : k # i => \E l \in 1..Len(queue') : old(l) = k
      <4>1. SUFFICES ASSUME NEW k \in 1..Len(queue), k # i
                     PROVE  \E l \in 1..Len(queue') : old(l) = k
        OBVIOUS
      <4>2. CASE k < i
        <5>1. k \in 1..Len(queue') /\ old(k) = k
          BY <3>1, <3>3, <4>2
        <5>2. QED
          BY <5>1
      <4>3. CASE k > i
        <5>1. k - 1 \in 1..Len(queue') /\ old(k - 1) = k
          BY <3>1, <3>3, <4>3
        <5>2. QED
          BY <5>1
      <4>4. QED
        BY <4>1, <4>2, <4>3
    <3> HIDE DEF old
    <3>7. \A k \in 1..Len(queue') : queue'[k] # j
      BY <1>1, <3>1, <3>4 DEF Place
    <3>8. \A k, l \in 1..Len(queue') : queue'[k] = queue'[l] => k = l
      <4>1. SUFFICES ASSUME NEW k \in 1..Len(queue'), NEW l \in 1..Len(queue'), queue'[k] = queue'[l]
                     PROVE  k = l
        OBVIOUS
      <4>2. old(k) = old(l)
        BY <1>1, <3>4, <4>1 DEF Place
      <4>3. QED
        BY <3>5, <4>2
    <3>9. \A k \in 1..Len(queue') : promise'[queue'[k]] = "pending" /\ queue'[k] \notin aborted'
      <4>1. SUFFICES ASSUME NEW k \in 1..Len(queue')
                     PROVE  promise'[queue'[k]] = "pending" /\ queue'[k] \notin aborted'
        OBVIOUS
      <4>2. promise[queue'[k]] = "pending" /\ queue'[k] \notin aborted
        BY <1>1, <3>4 DEF Place
      <4>3. queue'[k] # j
        BY <3>7
      <4>4. QED
        BY <1>1, <3>2, <4>2, <4>3
    <3>10. \A s \in Slots : Busy(slots[s]) => slots[s].job # j /\ slots[s].job \in Jobs
      BY <1>1, <3>1 DEF Place, Slot
    <3>11. ASSUME NEW c \in Jobs, promise'[c] = "pending"
           PROVE  \/ \E k \in 1..Len(queue') : queue'[k] = c
                  \/ \E s \in Slots : Busy(slots[s]) /\ slots[s].job = c
      <4>1. c # j /\ promise[c] = "pending"
        BY <1>1, <3>2, <3>11
      <4>2. ASSUME NEW k \in 1..Len(queue), queue[k] = c
            PROVE  \E l \in 1..Len(queue') : queue'[l] = c
        <5>1. PICK l \in 1..Len(queue') : old(l) = k
          BY <3>1, <3>6, <4>1, <4>2
        <5>2. QED
          BY <3>4, <4>2, <5>1
      <4>3. QED
        BY <1>1, <4>1, <4>2 DEF Place
    <3>12. \A k \in 1..Len(queue'), s \in Slots : Busy(slots[s]) => slots[s].job # queue'[k]
      BY <1>1, <3>4 DEF Place
    <3>13. \A s \in Slots : Busy(slots[s]) => promise'[slots[s].job] = promise[slots[s].job]
      BY <1>1, <3>2, <3>10
    <3>14. slots' = slots /\ closed' = closed
      BY <1>3
    <3>15. QED
      BY <1>1, <3>8, <3>9, <3>11, <3>12, <3>13, <3>14 DEF PlaceInv, Place
  <2>3. QED
    BY <2>1, <2>2
<1>4. QED
  BY <1>2, <1>3 DEF Abort

LEMMA RenderPlace ==
    ASSUME TypeOK, PlaceInv, NEW j \in Jobs, Render(j)
    PROVE  /\ PlaceInv'
           /\ promise[j] = "idle"
           /\ \E state \in {"pending", "refused"} : promise' = [promise EXCEPT ![j] = state]
           /\ \A t \in Slots : Busy(slots[t]) => slots'[t] = slots[t]
           /\ \A t \in Slots : slots'[t].phase = "rendering" => slots'[t] = slots[t]
           /\ \A i \in 1..Len(queue') :
                 queue'[i] = j \/ \E k \in 1..Len(queue) : queue'[i] = queue[k]
           /\ \A t \in Slots : slots'[t].phase = "handshake" =>
                 \/ slots'[t] = slots[t] \/ slots'[t].job = j
                 \/ \E k \in 1..Len(queue) : slots'[t].job = queue[k]
<1>1. /\ slots \in [Slots -> Slot] /\ promise \in [Jobs -> Promises] /\ queue \in Seq(Jobs)
      /\ promise[j] = "idle" /\ j \notin aborted /\ UNCHANGED <<aborted, closed>>
      /\ Place(queue, slots, promise, aborted)
  BY DEF TypeOK, Render, PlaceInv
<1>2. /\ \A i \in 1..Len(queue) : queue[i] # j /\ queue[i] \in Jobs
      /\ \A s \in Slots : Busy(slots[s]) => slots[s].job # j /\ slots[s].job \in Jobs
  BY <1>1, ElementOfSeq DEF Place, Slot
<1>3. CASE Claimable(budget)
  <2> DEFINE q == Append(queue, j)
             p == [promise EXCEPT ![j] = "pending"]
  <2>1. Dispatch(q, slots, p)
    BY <1>3 DEF Render
  <2>2. /\ q \in Seq(Jobs) /\ Len(q) = Len(queue) + 1 /\ q[Len(queue) + 1] = j
        /\ Len(queue) \in Nat /\ \A i \in 1..Len(queue) : q[i] = queue[i]
    BY <1>1, AppendProperties, LenProperties
  <2>3. p \in [Jobs -> Promises] /\ p[j] = "pending" /\ \A c \in Jobs : c # j => p[c] = promise[c]
    BY <1>1 DEF Promises
  <2> HIDE DEF q, p
  <2>4. \A i \in 1..Len(q) : i \in 1..Len(queue) \/ i = Len(queue) + 1
    BY <2>2
  <2>5. \A i, k \in 1..Len(q) : q[i] = q[k] => i = k
    BY <1>1, <1>2, <2>2, <2>4 DEF Place
  <2>6. \A i \in 1..Len(q) : p[q[i]] = "pending" /\ q[i] \notin aborted
    BY <1>1, <1>2, <2>2, <2>3, <2>4 DEF Place
  <2>7. \A i \in 1..Len(q), s \in Slots : Busy(slots[s]) => slots[s].job # q[i]
    BY <1>1, <1>2, <2>2, <2>4 DEF Place
  <2>8. ASSUME NEW c \in Jobs, p[c] = "pending"
        PROVE  (\E i \in 1..Len(q) : q[i] = c) \/ \E s \in Slots : Busy(slots[s]) /\ slots[s].job = c
    <3>1. CASE c = j
      <4>1. Len(queue) + 1 \in 1..Len(q)
        BY <2>2
      <4>2. QED
        BY <2>2, <3>1, <4>1
    <3>2. CASE c # j
      <4>1. \A i \in 1..Len(queue) : i \in 1..Len(q)
        BY <2>2
      <4>2. QED
        BY <1>1, <2>2, <2>3, <2>8, <3>2, <4>1, SMTT(45) DEF Place
    <3>3. QED
      BY <3>1, <3>2
  <2>9. Place(q, slots, p, aborted)
    BY <1>1, <1>2, <2>3, <2>5, <2>6, <2>7, <2>8 DEF Place
  <2>10. /\ Place(queue', slots', promise', aborted)
         /\ promise' = p
         /\ \A t \in Slots : slots[t].phase # "free" => slots'[t] = slots[t]
         /\ \A t \in Slots : slots'[t].phase \in {slots[t].phase, "handshake"}
         /\ \A i \in 1..Len(queue') : \E k \in 1..Len(q) : queue'[i] = q[k]
         /\ \A t \in Slots : slots'[t].phase = "handshake" =>
               slots[t] = slots'[t] \/ \E k \in 1..Len(q) : slots'[t].job = q[k]
    BY <1>1, <2>1, <2>2, <2>3, <2>9, DispatchPlace
  <2>11. \A k \in 1..Len(q) : q[k] = j \/ \E l \in 1..Len(queue) : q[k] = queue[l]
    BY <2>2, <2>4
  <2>12. PlaceInv'
    BY <1>1, <2>10 DEF PlaceInv, Place
  <2>13. /\ \A t \in Slots : Busy(slots[t]) => slots'[t] = slots[t]
         /\ \A t \in Slots : slots'[t].phase = "rendering" => slots'[t] = slots[t]
    BY <2>10 DEF Busy
  <2>14. \E state \in {"pending", "refused"} : promise' = [promise EXCEPT ![j] = state]
    BY <2>10 DEF p
  <2>15. /\ \A i \in 1..Len(queue') :
               queue'[i] = j \/ \E k \in 1..Len(queue) : queue'[i] = queue[k]
         /\ \A t \in Slots : slots'[t].phase = "handshake" =>
               \/ slots'[t] = slots[t] \/ slots'[t].job = j
               \/ \E k \in 1..Len(queue) : slots'[t].job = queue[k]
    BY <2>10, <2>11
  <2>16. QED
    BY <1>1, <2>12, <2>13, <2>14, <2>15
<1>4. CASE ~Claimable(budget)
  <2>1. /\ promise' = [promise EXCEPT ![j] = "refused"] /\ queue' = queue /\ slots' = slots
    BY <1>4 DEF Render
  <2>2. /\ \A i \in 1..Len(queue) : promise'[queue[i]] = promise[queue[i]]
        /\ \A s \in Slots : Busy(slots[s]) => promise'[slots[s].job] = promise[slots[s].job]
        /\ \A c \in Jobs : promise'[c] = "pending" => promise[c] = "pending"
    BY <1>1, <1>2, <2>1
  <2>3. PlaceInv'
    BY <1>1, <2>1, <2>2 DEF PlaceInv, Place
  <2>4. QED
    BY <1>1, <2>1, <2>3
<1>5. QED
  BY <1>3, <1>4

LEMMA CallerPlace ==
    ASSUME TypeOK, PlaceInv, Caller
    PROVE  PlaceInv'
<1>1. /\ slots \in [Slots -> Slot] /\ promise \in [Jobs -> Promises] /\ queue \in Seq(Jobs)
      /\ Place(queue, slots, promise, aborted)
  BY DEF TypeOK, PlaceInv
<1>2. ASSUME NEW j \in Jobs, RefuseRender(j) PROVE PlaceInv'
  <2>1. /\ promise' = [promise EXCEPT ![j] = RenderRefusal(j)] /\ promise[j] = "idle"
        /\ UNCHANGED <<queue, slots, aborted, closed>>
        /\ RenderRefusal(j) \notin {"idle", "pending"}
    BY <1>2 DEF RefuseRender, RenderRefusal
  <2>2. /\ \A i \in 1..Len(queue) : queue[i] # j /\ queue[i] \in Jobs
        /\ \A s \in Slots : Busy(slots[s]) => slots[s].job # j /\ slots[s].job \in Jobs
    BY <1>1, <2>1, ElementOfSeq DEF Place, Slot
  <2>3. /\ \A i \in 1..Len(queue) : promise'[queue[i]] = promise[queue[i]]
        /\ \A s \in Slots : Busy(slots[s]) => promise'[slots[s].job] = promise[slots[s].job]
        /\ \A c \in Jobs : promise'[c] = "pending" => promise[c] = "pending"
    BY <1>1, <2>1, <2>2
  <2>4. QED
    BY <1>1, <2>1, <2>3 DEF PlaceInv, Place
<1>3. ASSUME Close PROVE PlaceInv'
  <2>1. /\ queue' = <<>> /\ closed' = TRUE /\ aborted' = aborted
        /\ promise' = [j \in Jobs |-> IF promise[j] = "pending" /\ RejectedByClose(j)
                                      THEN "cancelled" ELSE promise[j]]
        /\ slots' = [s \in Slots |-> [slots[s] EXCEPT !.disabled = TRUE]]
    BY <1>3 DEF Close
  <2>2. Len(queue') = 0
    BY <2>1
  <2>3. \A s \in Slots : Busy(slots'[s]) = Busy(slots[s]) /\ slots'[s].job = slots[s].job
    BY <1>1, <2>1 DEF Busy, Slot, SlotFields
  <2>4. \A j \in Jobs : promise'[j] # "pending"
    <3>1. SUFFICES ASSUME NEW j \in Jobs, promise[j] = "pending" PROVE RejectedByClose(j)
      BY <2>1
    <3>2. QED
      BY <1>1, <3>1 DEF Place, RejectedByClose, InQueue, Queued, Active
  <2>5. \A s \in Slots : Busy(slots[s]) => promise'[slots[s].job] # "idle"
    BY <1>1, <2>1 DEF Place, Slot
  <2>6. QED
    BY <1>1, <2>1, <2>2, <2>3, <2>4, <2>5 DEF PlaceInv, Place
<1>4. QED
  BY <1>2, <1>3, AbortPlace, RenderPlace DEF Caller

LEMMA NextPlace == TypeOK /\ PlaceInv /\ [Next]_vars => PlaceInv'
<1>1. ASSUME PlaceInv, UNCHANGED vars PROVE PlaceInv'
  BY <1>1, QuietPlace DEF vars
<1>2. ASSUME PlaceInv, Thread PROVE PlaceInv'
  <2>1. UNCHANGED <<queue, promise, aborted, closed, slots>>
    BY <1>2 DEF Thread, WorkerStarts, WorkerAnswers, WorkerBabbles, WorkerDies
  <2>2. QED
    BY <1>2, <2>1, QuietPlace
<1>3. ASSUME PlaceInv, CloseAgain \/ CloseReturns PROVE PlaceInv'
  <2>1. UNCHANGED <<queue, promise, aborted, closed, slots>>
    BY <1>3 DEF CloseAgain, CloseReturns
  <2>2. QED
    BY <1>3, <2>1, QuietPlace
<1>4. ASSUME TypeOK, PlaceInv, Pool PROVE PlaceInv'
  BY <1>3, <1>4, SlotPlace, RetirePlace DEF Pool
<1>5. QED
  BY <1>1, <1>2, <1>4, CallerPlace DEF Next

LEMMA PlaceInvImplies == TypeOK /\ PlaceInv => OnePlace
<1> SUFFICES ASSUME TypeOK, PlaceInv, NEW j \in Jobs
             PROVE  /\ promise[j] = "pending" => Cardinality(Queued(j)) + Cardinality(Holders(j)) = 1
                    /\ Queued(j) # {} => promise[j] = "pending" /\ j \notin aborted
                    /\ Cardinality(Holders(j)) <= 1
  BY DEF OnePlace
<1>1. Place(queue, slots, promise, aborted)
  BY DEF PlaceInv
<1>2. /\ \A i, k \in Queued(j) : i = k
      /\ \A s, t \in Holders(j) : s = t
      /\ Queued(j) = {} \/ Holders(j) = {}
      /\ promise[j] = "pending" => Queued(j) # {} \/ Holders(j) # {}
  BY <1>1 DEF Place, Queued, Holders
<1>3. /\ Queued(j) = {} \/ \E i : Queued(j) = {i}
      /\ Holders(j) = {} \/ \E s : Holders(j) = {s}
  BY <1>2
<1>4. /\ Cardinality(Queued(j)) = IF Queued(j) = {} THEN 0 ELSE 1
      /\ Cardinality(Holders(j)) = IF Holders(j) = {} THEN 0 ELSE 1
  BY <1>3, FS_EmptySet, FS_Singleton
<1>5. Queued(j) # {} => promise[j] = "pending" /\ j \notin aborted
  BY <1>1 DEF Place, Queued
<1>6. QED
  BY <1>2, <1>4, <1>5

\* Wherever dispatch, abort, close() and the end of a run interleave, a call
\* that waits is in the queue once or on one slot, and nowhere else; nothing
\* that was cancelled is left in the queue for a worker to take.
THEOREM CallsInOnePlace == Spec => []OnePlace
<1>1. Spec => []PlaceInv
  BY InitPlace, InitType, NextType, NextPlace, PTL DEF Spec
<1>2. QED
  BY <1>1, TypeCorrect, PlaceInvImplies, PTL

(***************************************************************************)
(* How a run ends: eight actions end one, all through EndRun.              *)
(***************************************************************************)
\* The requests a worker has in hand or has answered in its outbox.
Known(worker) ==
    {[id |-> worker.outbox[i].id, job |-> worker.outbox[i].job] :
        i \in {k \in 1..Len(worker.outbox) : worker.outbox[k].kind \in {"result", "failure"}}}
    \cup {r \in {worker.request} : r # NoRequest}

SameRun(slot, other) ==
    /\ slot.phase = other.phase /\ slot.job = other.job
    /\ slot.id = other.id /\ slot.worker = other.worker

RunEnds(s, verdict) ==
    /\ Busy(slots[s])
    /\ \E sl \in [Slots -> Slot], ws \in [Workers -> Worker], poisoned \in BOOLEAN :
          /\ \A t \in Slots : SameRun(sl[t], slots[t])
          /\ \A w \in Workers : /\ ws[w].state = workers[w].state
                                /\ Known(ws[w]) \subseteq Known(workers[w])
          /\ poisoned \/ verdict = "resolved"
          /\ EndRun(s, sl, Settle(promise, slots[s].job, verdict), ws, poisoned)

\* What a worker still has to say after its first event was delivered.
LEMMA TailKnown ==
    ASSUME NEW worker \in Worker, worker.outbox # <<>>
    PROVE  /\ [worker EXCEPT !.outbox = Tail(@)] \in Worker
           /\ Known([worker EXCEPT !.outbox = Tail(@)]) \subseteq Known(worker)
<1> DEFINE rest == [worker EXCEPT !.outbox = Tail(@)]
<1>1. worker.outbox \in Seq(Events) /\ Len(worker.outbox) \in Nat
  BY LenProperties DEF Worker
<1>2. /\ Tail(worker.outbox) \in Seq(Events)
      /\ Len(Tail(worker.outbox)) = Len(worker.outbox) - 1
      /\ \A i \in 1..Len(Tail(worker.outbox)) : Tail(worker.outbox)[i] = worker.outbox[i + 1]
  BY <1>1, HeadTailProperties
<1>3. rest \in Worker /\ rest.outbox = Tail(worker.outbox) /\ rest.request = worker.request
  BY <1>2 DEF Worker
<1> HIDE DEF rest
<1>4. \A i \in 1..Len(rest.outbox) : i + 1 \in 1..Len(worker.outbox)
                                     /\ rest.outbox[i] = worker.outbox[i + 1]
  BY <1>1, <1>2, <1>3
<1>5. Known(rest) \subseteq Known(worker)
  <2>1. SUFFICES ASSUME NEW r \in Known(rest) PROVE r \in Known(worker)
    OBVIOUS
  <2>2. CASE r = rest.request /\ r # NoRequest
    BY <1>3, <2>2 DEF Known
  <2>3. CASE \E i \in 1..Len(rest.outbox) :
                /\ rest.outbox[i].kind \in {"result", "failure"}
                /\ r = [id |-> rest.outbox[i].id, job |-> rest.outbox[i].job]
    <3>1. PICK i \in 1..Len(rest.outbox) :
                /\ rest.outbox[i].kind \in {"result", "failure"}
                /\ r = [id |-> rest.outbox[i].id, job |-> rest.outbox[i].job]
      BY <2>3
    <3>2. /\ i + 1 \in 1..Len(worker.outbox)
          /\ worker.outbox[i + 1].kind \in {"result", "failure"}
          /\ r = [id |-> worker.outbox[i + 1].id, job |-> worker.outbox[i + 1].job]
      BY <1>4, <3>1
    <3>3. QED
      BY <3>2 DEF Known
  <2>4. QED
    BY <2>1, <2>2, <2>3 DEF Known
<1>6. QED
  BY <1>3, <1>5 DEF rest

LEMMA ConsumedKnown ==
    ASSUME TypeOK, NEW s \in Slots, Deliverable(s)
    PROVE  /\ Consumed(s) \in [Workers -> Worker]
           /\ \A w \in Workers : /\ Consumed(s)[w].state = workers[w].state
                                 /\ Known(Consumed(s)[w]) \subseteq Known(workers[w])
<1>1. /\ workers \in [Workers -> Worker] /\ slots[s].worker \in Workers
      /\ workers[slots[s].worker].outbox # <<>>
  BY DEF TypeOK, Slot, SlotFields, Deliverable
<1>2. \A w \in Workers :
        Consumed(s)[w] = IF w = slots[s].worker
                         THEN [workers[w] EXCEPT !.outbox = Tail(@)] ELSE workers[w]
  BY <1>1 DEF Consumed
<1>3. QED
  BY <1>1, <1>2, TailKnown, ConsumedThreads

\* Each of the eight actions, with the verdict it gives.
LEMMA EndingRuns ==
    ASSUME TypeOK, NEW s \in Slots
    PROVE  /\ CancelBeforeRender(s) => RunEnds(s, "cancelled")
           /\ FailHandshake(s) => RunEnds(s, "worker_failed")
           /\ AcceptResult(s) => RunEnds(s, "resolved")
           /\ OversizeResult(s) => RunEnds(s, "output_limit")
           /\ AcceptFailure(s) => RunEnds(s, "render_failed")
           /\ WorkerFailed(s) => RunEnds(s, "worker_failed")
           /\ RenderTimeout(s) => RunEnds(s, "timeout")
           /\ Listening(s) /\ FailRun(s, slots, workers, "cancelled") => RunEnds(s, "cancelled")
<1>1. /\ slots \in [Slots -> Slot] /\ workers \in [Workers -> Worker]
      /\ \A t \in Slots : SameRun(slots[t], slots[t])
      /\ \A w \in Workers : Known(workers[w]) \subseteq Known(workers[w])
  BY DEF TypeOK, SameRun
<1>2. ASSUME NEW verdict, Busy(slots[s]), FailRun(s, slots, workers, verdict)
      PROVE  RunEnds(s, verdict)
  BY <1>1, <1>2 DEF RunEnds, FailRun
<1>3. ASSUME NEW verdict, Listening(s), Deliverable(s), FailRun(s, slots, Consumed(s), verdict)
      PROVE  RunEnds(s, verdict)
  BY <1>1, <1>3, ConsumedKnown DEF RunEnds, FailRun, Listening, Busy
<1>4. CancelBeforeRender(s) => RunEnds(s, "cancelled")
  <2> SUFFICES ASSUME CancelBeforeRender(s) PROVE RunEnds(s, "cancelled")
    OBVIOUS
  <2> DEFINE sl == [slots EXCEPT ![s].warmFailures = 0]
  <2>1. sl \in [Slots -> Slot]
    BY SlotUpdates
  <2>2. \A t \in Slots : SameRun(sl[t], slots[t])
    BY <1>1 DEF SameRun, Slot, SlotFields
  <2>3. FailRun(s, sl, workers, "cancelled") /\ Busy(slots[s])
    BY DEF CancelBeforeRender, Resumes, Busy
  <2> HIDE DEF sl
  <2>4. QED
    BY <1>1, <2>1, <2>2, <2>3 DEF RunEnds, FailRun
<1>5. FailHandshake(s) => RunEnds(s, "worker_failed")
  BY <1>2 DEF FailHandshake, Resumes, Busy
<1>6. AcceptResult(s) => RunEnds(s, "resolved")
  BY <1>1, ConsumedKnown DEF AcceptResult, RunEnds, Listening, Busy
<1>7. /\ OversizeResult(s) => RunEnds(s, "output_limit")
      /\ AcceptFailure(s) => RunEnds(s, "render_failed")
      /\ WorkerFailed(s) => RunEnds(s, "worker_failed")
  BY <1>3 DEF OversizeResult, AcceptFailure, WorkerFailed
<1>8. RenderTimeout(s) => RunEnds(s, "timeout")
  BY <1>2 DEF RenderTimeout, Listening, Busy
<1>9. Listening(s) /\ FailRun(s, slots, workers, "cancelled") => RunEnds(s, "cancelled")
  BY <1>2 DEF Listening, Busy
<1>10. QED
  BY <1>4, <1>5, <1>6, <1>7, <1>8, <1>9

LEMMA TerminateKnown ==
    ASSUME NEW ws \in [Workers -> Worker], NEW ks, NEW w \in Workers
    PROVE  /\ Known(Terminate(ws, ks)[w]) \subseteq Known(ws[w])
           /\ Terminate(ws, ks)[w].state = "unborn" <=> ws[w].state = "unborn"
           /\ w \in ks /\ ws[w].state # "unborn" => Terminate(ws, ks)[w].state = "dead"
<1>1. CASE w \in ks /\ ws[w].state \in {"starting", "up"}
  <2> DEFINE old == ws[w]
             new == Terminate(ws, ks)[w]
  <2>1. old \in Worker /\ old.outbox \in Seq(Events) /\ Len(old.outbox) \in Nat
    BY LenProperties DEF Worker
  <2>2. /\ new.state = "dead" /\ new.request = NoRequest
        /\ new.outbox = Append(old.outbox, Event("exit", NoRequest))
    BY <1>1, <2>1 DEF Terminate, Worker
  <2> HIDE DEF old, new
  <2>3. /\ Len(new.outbox) = Len(old.outbox) + 1
        /\ \A i \in 1..Len(old.outbox) : new.outbox[i] = old.outbox[i]
        /\ new.outbox[Len(old.outbox) + 1].kind = "exit"
    BY <2>1, <2>2, EventTypes, AppendProperties DEF Event
  <2>4. \A i \in 1..Len(new.outbox) :
          new.outbox[i].kind \in {"result", "failure"} =>
             i \in 1..Len(old.outbox) /\ new.outbox[i] = old.outbox[i]
    BY <2>1, <2>3
  <2>5. Known(new) \subseteq Known(old)
    BY <2>2, <2>4 DEF Known
  <2>6. QED
    BY <1>1, <2>2, <2>5 DEF old, new
<1>2. CASE ~(w \in ks /\ ws[w].state \in {"starting", "up"})
  <2>1. Terminate(ws, ks)[w] = ws[w] /\ ws[w].state \in {"unborn", "starting", "up", "dead"}
    BY <1>2 DEF Terminate, Worker
  <2>2. QED
    BY <1>2, <2>1
<1>3. QED
  BY <1>1, <1>2

\* What the end of a run does.
LEMMA RunEnded ==
    ASSUME TypeOK, PlaceInv, NEW s \in Slots, NEW verdict \in Settled, RunEnds(s, verdict)
    PROVE  /\ promise' = Settle(promise, slots[s].job, verdict)
           /\ UNCHANGED <<closed, nextId, spawned>>
           /\ \A t \in Slots : slots'[t].worker = slots[t].worker
           /\ \A t \in Slots : slots'[t].phase = "rendering" => SameRun(slots'[t], slots[t])
           /\ \A i \in 1..Len(queue') : \E k \in 1..Len(queue) : queue'[i] = queue[k]
           /\ \A t \in Slots : slots'[t].phase = "handshake" =>
                 SameRun(slots'[t], slots[t]) \/ \E k \in 1..Len(queue) : slots'[t].job = queue[k]
           /\ \A t \in Slots : t # s /\ Busy(slots[t]) => SameRun(slots'[t], slots[t])
           /\ \A w \in Workers : /\ Known(workers'[w]) \subseteq Known(workers[w])
                                 /\ workers'[w].state = "unborn" <=> workers[w].state = "unborn"
           /\ ~closed /\ verdict # "resolved" /\ workers[slots[s].worker].state # "unborn" =>
                 workers'[slots[s].worker].state = "dead"
           /\ closed => \A w \in Workers : workers'[w].state = workers[w].state
<1>1. PICK sl \in [Slots -> Slot], ws \in [Workers -> Worker], poisoned \in BOOLEAN :
          /\ \A t \in Slots : SameRun(sl[t], slots[t])
          /\ \A w \in Workers : /\ ws[w].state = workers[w].state
                                /\ Known(ws[w]) \subseteq Known(workers[w])
          /\ poisoned \/ verdict = "resolved"
          /\ EndRun(s, sl, Settle(promise, slots[s].job, verdict), ws, poisoned)
  BY DEF RunEnds
<1>2. /\ Busy(slots[s]) /\ slots \in [Slots -> Slot] /\ \A t \in Slots : slots[t].worker \in Workers
  BY DEF RunEnds, TypeOK, Slot, SlotFields
<1>3. /\ Busy(sl[s]) /\ sl[s].job = slots[s].job /\ Place(queue, sl, promise, aborted)
      /\ \A t \in Slots : Busy(sl[t]) <=> Busy(slots[t])
  BY <1>1, <1>2 DEF PlaceInv, Place, SameRun, Busy
<1>4. /\ promise' = Settle(promise, slots[s].job, verdict)
      /\ \A t \in Slots : slots'[t].phase = "rendering" => t # s /\ slots'[t] = sl[t]
      /\ \A i \in 1..Len(queue') : \E k \in 1..Len(queue) : queue'[i] = queue[k]
      /\ \A t \in Slots : slots'[t].phase = "handshake" =>
            (t # s /\ sl[t] = slots'[t]) \/ \E k \in 1..Len(queue) : slots'[t].job = queue[k]
      /\ \A t \in Slots : t # s /\ Busy(sl[t]) => slots'[t] = sl[t]
  <2>1. EndRun(s, sl, Settle(promise, slots[s].job, verdict), ws, poisoned)
    BY <1>1
  <2>2. /\ Busy(slots[s]) /\ Busy(sl[s]) /\ sl[s].job = slots[s].job
        /\ Place(queue, sl, promise, aborted)
    BY <1>2, <1>3
  <2>3. CASE poisoned = TRUE
    <3>1. EndRun(s, sl, Settle(promise, slots[s].job, verdict), ws, TRUE)
      BY <2>1, <2>3
    <3>2. QED
      BY <2>2, <3>1, EndRunPlace, ZenonT(30)
  <2>4. CASE poisoned = FALSE
    <3>1. EndRun(s, sl, Settle(promise, slots[s].job, verdict), ws, FALSE)
      BY <2>1, <2>4
    <3>2. QED
      BY <2>2, <3>1, EndRunPlace, ZenonT(30)
  <2>5. QED
    BY <2>3, <2>4
<1>5. UNCHANGED <<closed, nextId, spawned>>
  BY <1>1 DEF EndRun
<1>6. IF poisoned /\ ~closed THEN workers' = Terminate(ws, {sl[s].worker}) ELSE workers' = ws
  <2> DEFINE p == Settle(promise, slots[s].job, verdict)
  <2>1. EndRun(s, sl, p, ws, poisoned)
    BY <1>1
  <2> HIDE DEF p
  <2>2. QED
    BY <2>1 DEF EndRun
<1>7. \A w \in Workers : /\ Known(workers'[w]) \subseteq Known(workers[w])
                         /\ workers'[w].state = "unborn" <=> workers[w].state = "unborn"
                         /\ closed => workers'[w].state = workers[w].state
  <2>1. CASE poisoned /\ ~closed
    <3>1. workers' = Terminate(ws, {sl[s].worker})
      BY <1>6, <2>1
    <3>2. \A w \in Workers : /\ Known(workers'[w]) \subseteq Known(ws[w])
                             /\ workers'[w].state = "unborn" <=> ws[w].state = "unborn"
      BY <3>1, TerminateKnown
    <3>3. QED
      BY <1>1, <2>1, <3>2
  <2>2. CASE ~(poisoned /\ ~closed)
    BY <1>1, <1>6, <2>2
  <2>3. QED
    BY <2>1, <2>2
<1>8. ~closed /\ verdict # "resolved" /\ workers[slots[s].worker].state # "unborn" =>
                 workers'[slots[s].worker].state = "dead"
  BY <1>1, <1>2, <1>6, TerminateKnown DEF SameRun
<1>9. \A t \in Slots : slots'[t].worker = slots[t].worker
  <2> DEFINE p == Settle(promise, slots[s].job, verdict)
  <2>1. CASE poisoned /\ ~closed
    <3>1. slots' = [sl EXCEPT ![s] = Retiring(@)]
      BY <1>1, <2>1 DEF EndRun
    <3>2. /\ \A t \in Slots : t # s => slots'[t] = sl[t]
          /\ slots'[s].worker = sl[s].worker
      BY <3>1 DEF Retiring, Slot, SlotFields
    <3>3. QED
      BY <1>1, <3>2 DEF SameRun
  <2>2. CASE ~(poisoned /\ ~closed)
    <3> DEFINE freed == [sl EXCEPT ![s] = Freed(@)]
    <3>1. Dispatch(queue, freed, p)
      BY <1>1, <2>2 DEF EndRun
    <3>2. freed \in [Slots -> Slot]
      BY SlotStates
    <3>3. \A t \in Slots : freed[t].worker = sl[t].worker
      BY DEF Freed, Slot, SlotFields
    <3> HIDE DEF freed, p
    <3>4. \A t \in Slots : slots'[t].worker = sl[t].worker
      BY <3>1, <3>2, <3>3, DispatchKeepsThreads
    <3>5. QED
      BY <1>1, <3>4 DEF SameRun
  <2>3. QED
    BY <2>1, <2>2
<1>10. \A t \in Slots :
          /\ slots'[t].phase = "rendering" => SameRun(slots'[t], slots[t])
          /\ slots'[t].phase = "handshake" =>
                SameRun(slots'[t], slots[t]) \/ \E k \in 1..Len(queue) : slots'[t].job = queue[k]
          /\ t # s /\ Busy(slots[t]) => SameRun(slots'[t], slots[t])
  BY <1>1, <1>3, <1>4
<1>11. QED
  BY <1>4, <1>5, <1>7, <1>8, <1>9, <1>10

(***************************************************************************)
(* A worker that failed its job.  A slot never holds a thread that was not *)
(* started, so one that does not run there is dead.                        *)
(***************************************************************************)
BornInv == \A s \in Slots : workers[slots[s].worker].state # "unborn"

LEMMA SlotWorker ==
    TypeOK => \A s \in Slots : slots[s] \in Slot /\ slots[s].worker \in Workers
  BY DEF TypeOK, Slot, SlotFields

\* A step that gives no slot another worker.
LEMMA QuietBorn ==
    ASSUME TypeOK, BornInv,
           \A s \in Slots : slots'[s].worker = slots[s].worker,
           \A w \in Workers : workers'[w].state = "unborn" => workers[w].state = "unborn"
    PROVE  BornInv'
  BY SlotWorker DEF BornInv

\* What a worker thread says and where that leaves it; an answer it gives is
\* one to the request it has in hand.
Says(w, events, request, state) ==
    /\ events \in Seq(Events)
    /\ request \in {workers[w].request, NoRequest}
    /\ state \in {workers[w].state, "up", "dead"}
    /\ workers' = [workers EXCEPT ![w].outbox = @ \o events,
                                  ![w].request = request, ![w].state = state]
    /\ \A i \in 1..Len(events) : events[i].kind \in {"result", "failure"} =>
          /\ workers[w].request # NoRequest
          /\ [id |-> events[i].id, job |-> events[i].job] = workers[w].request

LEMMA OneEvent ==
    ASSUME NEW event \in Events
    PROVE  <<event>> \in Seq(Events) /\ Len(<<event>>) = 1 /\ <<event>>[1] = event
  OBVIOUS

\* What a worker thread does, told by what the pool may hear from it.
LEMMA ThreadStep ==
    ASSUME TypeOK, Thread
    PROVE  /\ UNCHANGED <<closed, closing, queue, promise, answer, aborted, slots,
                          spawned, nextId>>
           /\ \A w \in Workers : /\ workers'[w].state = "unborn" => workers[w].state = "unborn"
                                 /\ Known(workers'[w]) \subseteq Known(workers[w])
<1>1. PICK w \in Workers : WorkerStarts(w) \/ WorkerAnswers(w) \/ WorkerBabbles(w) \/ WorkerDies(w)
  BY DEF Thread
<1>2. /\ workers \in [Workers -> Worker] /\ workers[w] \in Worker
      /\ workers[w].outbox \in Seq(Events) /\ Len(workers[w].outbox) \in Nat
  BY LenProperties DEF TypeOK, Worker
<1>3. \E events, request, state : Says(w, events, request, state)
  <2>1. CASE WorkerStarts(w)
    <3>1. PICK kind \in {"ready", "junk"} :
            workers' = [Emit(w, <<Event(kind, NoRequest)>>) EXCEPT ![w].state = "up"]
      BY <2>1 DEF WorkerStarts
    <3>2. workers' = [workers EXCEPT ![w].outbox = @ \o <<Event(kind, NoRequest)>>,
                                     ![w].request = workers[w].request, ![w].state = "up"]
      BY <1>2, <3>1 DEF Emit, Worker
    <3>3. Event(kind, NoRequest) \in Events /\ Event(kind, NoRequest).kind = kind
      BY EventTypes DEF Event
    <3> DEFINE events == <<Event(kind, NoRequest)>>
    <3>4. events \in Seq(Events) /\ Len(events) = 1 /\ events[1].kind = kind
      BY <3>3, OneEvent
    <3>5. workers' = [workers EXCEPT ![w].outbox = @ \o events,
                                     ![w].request = workers[w].request, ![w].state = "up"]
      BY <3>2
    <3> HIDE DEF events
    <3>6. Says(w, events, workers[w].request, "up")
      BY <3>4, <3>5 DEF Says
    <3>7. QED
      BY <3>6
  <2>2. CASE WorkerAnswers(w)
    <3>1. PICK kind \in {"result", "failure"}, again \in BOOLEAN :
            workers' = [Emit(w, <<Event(kind, workers[w].request)>>)
                           EXCEPT ![w].request = IF again THEN @ ELSE NoRequest]
      BY <2>2 DEF WorkerAnswers
    <3> DEFINE r == workers[w].request
               event == Event(kind, r)
               held == IF again THEN r ELSE NoRequest
    <3>2. workers' = [workers EXCEPT ![w].outbox = @ \o <<event>>,
                                     ![w].request = held, ![w].state = workers[w].state]
      BY <1>2, <3>1 DEF Emit, Worker
    <3>3. r \in Requests /\ r # NoRequest
      BY <2>2, EventsOf DEF WorkerAnswers
    <3>4. event \in Events /\ [id |-> event.id, job |-> event.job] = r
      BY <3>3, EventTypes DEF Event, Requests
    <3> DEFINE events == <<event>>
    <3> HIDE DEF event
    <3>5. events \in Seq(Events) /\ Len(events) = 1 /\ events[1] = event
      BY <3>4, OneEvent
    <3>6. workers' = [workers EXCEPT ![w].outbox = @ \o events,
                                     ![w].request = held, ![w].state = workers[w].state]
      BY <3>2
    <3> HIDE DEF events
    <3>7. Says(w, events, held, workers[w].state)
      BY <3>3, <3>4, <3>5, <3>6 DEF Says
    <3>8. QED
      BY <3>7
  <2>3. CASE WorkerBabbles(w)
    <3>1. workers' = [workers EXCEPT ![w].outbox = @ \o <<Event("junk", NoRequest)>>,
                                     ![w].request = workers[w].request,
                                     ![w].state = workers[w].state]
      BY <1>2, <2>3 DEF WorkerBabbles, Emit, Worker
    <3>2. Event("junk", NoRequest) \in Events /\ Event("junk", NoRequest).kind = "junk"
      BY EventTypes DEF Event
    <3> DEFINE events == <<Event("junk", NoRequest)>>
    <3>3. events \in Seq(Events) /\ Len(events) = 1 /\ events[1].kind = "junk"
      BY <3>2, OneEvent
    <3>4. workers' = [workers EXCEPT ![w].outbox = @ \o events,
                                     ![w].request = workers[w].request,
                                     ![w].state = workers[w].state]
      BY <3>1
    <3> HIDE DEF events
    <3>5. Says(w, events, workers[w].request, workers[w].state)
      BY <3>3, <3>4 DEF Says
    <3>6. QED
      BY <3>5
  <2>4. CASE WorkerDies(w)
    <3>1. PICK events \in {<<Event("exit", NoRequest)>>,
                           <<Event("error", NoRequest), Event("exit", NoRequest)>>} :
            workers' = [Emit(w, events) EXCEPT ![w].state = "dead", ![w].request = NoRequest]
      BY <2>4 DEF WorkerDies
    <3>2. workers' = [workers EXCEPT ![w].outbox = @ \o events,
                                     ![w].request = NoRequest, ![w].state = "dead"]
      BY <1>2, <3>1 DEF Emit, Worker
    <3>3. /\ Event("exit", NoRequest) \in Events /\ Event("exit", NoRequest).kind = "exit"
          /\ Event("error", NoRequest) \in Events /\ Event("error", NoRequest).kind = "error"
      BY EventTypes DEF Event
    <3>4. CASE events = <<Event("exit", NoRequest)>>
      <4>1. events \in Seq(Events) /\ Len(events) = 1 /\ events[1].kind = "exit"
        BY <3>3, <3>4, OneEvent
      <4>2. Says(w, events, NoRequest, "dead")
        BY <3>2, <4>1 DEF Says
      <4>3. QED
        BY <4>2
    <3>5. CASE events = <<Event("error", NoRequest), Event("exit", NoRequest)>>
      <4>1. events \in Seq(Events) /\ Len(events) = 2
        BY <3>3, <3>5
      <4>2. events[1].kind = "error" /\ events[2].kind = "exit"
        BY <3>3, <3>5
      <4>3. Says(w, events, NoRequest, "dead")
        BY <3>2, <4>1, <4>2 DEF Says
      <4>4. QED
        BY <4>3
    <3>6. QED
      BY <3>1, <3>4, <3>5
  <2>5. QED
    BY <1>1, <2>1, <2>2, <2>3, <2>4
<1>4. PICK events, request, state : Says(w, events, request, state)
  BY <1>3
<1>5. Known(workers'[w]) \subseteq Known(workers[w])
  <2> DEFINE old == workers[w]
             new == workers'[w]
  <2>1. new.outbox = old.outbox \o events /\ new.request \in {old.request, NoRequest}
    BY <1>2, <1>4 DEF Says, Worker
  <2>2. /\ Len(events) \in Nat /\ Len(new.outbox) = Len(old.outbox) + Len(events)
        /\ \A i \in 1..Len(new.outbox) :
              new.outbox[i] = IF i <= Len(old.outbox) THEN old.outbox[i]
                                                      ELSE events[i - Len(old.outbox)]
    BY <1>2, <1>4, <2>1, ConcatProperties, LenProperties DEF Says
  <2>3. \A i \in 1..Len(events) : events[i].kind \in {"result", "failure"} =>
           [id |-> events[i].id, job |-> events[i].job] \in Known(old)
    BY <1>4 DEF Says, Known
  <2> HIDE DEF old, new
  <2>4. ASSUME NEW i \in 1..Len(new.outbox), new.outbox[i].kind \in {"result", "failure"}
        PROVE  [id |-> new.outbox[i].id, job |-> new.outbox[i].job] \in Known(old)
    <3>1. CASE i <= Len(old.outbox)
      <4>1. i \in 1..Len(old.outbox) /\ new.outbox[i] = old.outbox[i]
        BY <1>2, <2>2, <2>4, <3>1 DEF old
      <4>2. QED
        BY <2>4, <4>1 DEF Known
    <3>2. CASE ~(i <= Len(old.outbox))
      <4>1. i - Len(old.outbox) \in 1..Len(events) /\ new.outbox[i] = events[i - Len(old.outbox)]
        BY <1>2, <2>2, <2>4, <3>2 DEF old
      <4>2. QED
        BY <2>3, <2>4, <4>1
    <3>3. QED
      BY <3>1, <3>2
  <2>5. new.request # NoRequest => new.request \in Known(old)
    BY <2>1 DEF Known
  <2>6. Known(new) \subseteq Known(old)
    BY <2>4, <2>5 DEF Known
  <2>7. QED
    BY <2>6 DEF old, new
<1>6. /\ \A v \in Workers : v # w => workers'[v] = workers[v]
      /\ workers'[w].state = "unborn" => workers[w].state = "unborn"
  BY <1>2, <1>4 DEF Says, Worker
<1>7. UNCHANGED <<closed, closing, queue, promise, answer, aborted, slots, spawned, nextId>>
  BY <1>1 DEF WorkerStarts, WorkerAnswers, WorkerBabbles, WorkerDies
<1>8. QED
  BY <1>5, <1>6, <1>7

\* A slot keeps its worker through a replacement, or gets one that was started.
LEMMA RetireWorkers ==
    ASSUME TypeOK, NEW s \in Slots, Retire(s)
    PROVE  /\ nextId' = nextId /\ answer' = answer
           /\ \A t \in Slots : \/ slots'[t].worker = slots[t].worker
                               \/ slots'[t].worker \in Workers
                                  /\ workers'[slots'[t].worker].state = "starting"
           /\ \A w \in Workers : /\ workers'[w].state = "unborn" => workers[w].state = "unborn"
                                 /\ Known(workers'[w]) = Known(workers[w])
<1>1. /\ slots \in [Slots -> Slot] /\ workers \in [Workers -> Worker] /\ slots[s] \in Slot
      /\ UNCHANGED <<nextId, answer>>
  BY DEF TypeOK, Retire, RetireWithoutWorker, Respawn, RespawnFails
<1>2. ASSUME NEW slot \in Slot, FreeAfterReplace([slots EXCEPT ![s] = slot])
      PROVE  \A t \in Slots : slots'[t].worker = IF t = s THEN slot.worker ELSE slots[t].worker
  <2> DEFINE sl == [slots EXCEPT ![s] = slot]
  <2>1. sl \in [Slots -> Slot] /\ Dispatch(queue, sl, promise)
    BY <1>1, <1>2 DEF FreeAfterReplace
  <2>2. \A t \in Slots : sl[t].worker = IF t = s THEN slot.worker ELSE slots[t].worker
    BY <1>1, <1>2
  <2> HIDE DEF sl
  <2>3. QED
    BY <2>1, <2>2, DispatchKeepsThreads
<1>3. CASE RetireWithoutWorker(s)
  <2>1. FreeAfterReplace([slots EXCEPT ![s] = Freed(slots[s])]) /\ workers' = workers
    BY <1>3 DEF RetireWithoutWorker
  <2>2. Freed(slots[s]) \in Slot /\ Freed(slots[s]).worker = slots[s].worker
    BY <1>1, SlotStates DEF Freed, Slot, SlotFields
  <2>3. QED
    BY <1>1, <1>2, <2>1, <2>2
<1>4. CASE RespawnFails(s)
  <2>1. FreeAfterReplace([slots EXCEPT ![s] = SpawnFailed(slots[s])]) /\ workers' = workers
    BY <1>4 DEF RespawnFails
  <2>2. SpawnFailed(slots[s]).worker = slots[s].worker
    BY <1>1 DEF SpawnFailed, Freed, Slot, SlotFields
  <2>3. SpawnFailed(slots[s]) \in Slot
    BY SpawnFailedType
  <2>4. QED
    BY <1>1, <1>2, <2>1, <2>2, <2>3
<1>5. CASE Respawn(s)
  <2> DEFINE slot == [Freed(slots[s]) EXCEPT !.worker = spawned + 1, !.ready = "pending"]
  <2>1. /\ spawned + 1 \in Workers
        /\ workers' = [workers EXCEPT ![spawned + 1].state = "starting"]
    BY <1>5, PoolAssumption DEF Respawn, TypeOK, Workers
  <2>2. slot \in Slot /\ slot.worker = spawned + 1
    BY <1>1, <2>1, PoolAssumption DEF Freed, Slot, SlotFields, Busy
  <2>3. FreeAfterReplace([slots EXCEPT ![s] = slot])
    BY <1>5 DEF Respawn
  <2> HIDE DEF slot
  <2>4. \A t \in Slots : slots'[t].worker = IF t = s THEN spawned + 1 ELSE slots[t].worker
    BY <1>2, <2>2, <2>3
  <2>5. \A w \in Workers : /\ workers'[w].outbox = workers[w].outbox
                           /\ workers'[w].request = workers[w].request
                           /\ workers'[w].state = IF w = spawned + 1 THEN "starting" ELSE workers[w].state
    BY <1>1, <2>1 DEF Worker
  <2>6. \A w \in Workers : Known(workers'[w]) = Known(workers[w])
    BY <2>5 DEF Known
  <2>7. QED
    BY <1>1, <2>1, <2>4, <2>5, <2>6
<1>6. QED
  BY <1>3, <1>4, <1>5 DEF Retire

\* Every way a run ends, of the caller's doing or of the pool's.
EndsSome(s) ==
    \/ CancelBeforeRender(s) \/ FailHandshake(s) \/ AcceptResult(s) \/ OversizeResult(s)
    \/ AcceptFailure(s) \/ WorkerFailed(s) \/ RenderTimeout(s)
    \/ Listening(s) /\ FailRun(s, slots, workers, "cancelled") /\ answer' = answer

\* A step of the pool or the caller that ends no run and fills no slot: the
\* slots keep their jobs and workers, and nothing more is heard of a request.
Quiet ==
    /\ nextId' = nextId /\ answer' = answer
    /\ \A t \in Slots : SameRun(slots'[t], slots[t])
    /\ \A w \in Workers : /\ workers'[w].state = "unborn" => workers[w].state = "unborn"
                          /\ Known(workers'[w]) \subseteq Known(workers[w])
    /\ \A i \in 1..Len(queue') : \E k \in 1..Len(queue) : queue'[i] = queue[k]
    /\ \A j \in Jobs : promise'[j] = promise[j] \/ promise'[j] \notin {"idle", "resolved", "render_failed"}

LEMMA QuietSlot ==
    ASSUME TypeOK, NEW s \in Slots
    PROVE  HandshakeEvent(s) \/ HandshakeTimeout(s) \/ DropEvent(s) => Quiet
<1>1. /\ slots \in [Slots -> Slot] /\ workers \in [Workers -> Worker] /\ promise \in [Jobs -> Promises]
      /\ \A t \in Slots : SameRun(slots[t], slots[t])
  BY DEF TypeOK, SameRun
<1>2. HandshakeEvent(s) => Quiet
  <2> SUFFICES ASSUME HandshakeEvent(s) PROVE Quiet
    OBVIOUS
  <2>1. \A t \in Slots : SameRun(slots'[t], slots[t])
    BY <1>1 DEF HandshakeEvent, SameRun, Slot, SlotFields
  <2>2. /\ Consumed(s) \in [Workers -> Worker]
        /\ \A w \in Workers : /\ Consumed(s)[w].state = workers[w].state
                              /\ Known(Consumed(s)[w]) \subseteq Known(workers[w])
    BY ConsumedKnown DEF HandshakeEvent
  <2>3. workers' = Consumed(s) \/ workers' = Terminate(Consumed(s), {slots[s].worker})
    BY DEF HandshakeEvent
  <2>4. \A w \in Workers : /\ workers'[w].state = "unborn" => workers[w].state = "unborn"
                           /\ Known(workers'[w]) \subseteq Known(workers[w])
    <3>1. ASSUME NEW w \in Workers, workers' = Terminate(Consumed(s), {slots[s].worker})
          PROVE  /\ workers'[w].state = "unborn" => Consumed(s)[w].state = "unborn"
                 /\ Known(workers'[w]) \subseteq Known(Consumed(s)[w])
      BY <2>2, <3>1, TerminateKnown
    <3>2. QED
      BY <2>2, <2>3, <3>1
  <2>5. UNCHANGED <<nextId, answer, queue, promise>>
    BY DEF HandshakeEvent
  <2>6. QED
    BY <2>1, <2>4, <2>5 DEF Quiet
<1>3. HandshakeTimeout(s) => Quiet
  <2> SUFFICES ASSUME HandshakeTimeout(s) PROVE Quiet
    OBVIOUS
  <2>1. \A t \in Slots : SameRun(slots'[t], slots[t])
    BY <1>1 DEF HandshakeTimeout, SameRun, Slot, SlotFields
  <2>2. UNCHANGED <<nextId, answer, queue, promise>> /\ workers' = Terminate(workers, {slots[s].worker})
    BY DEF HandshakeTimeout
  <2>3. \A w \in Workers : /\ workers'[w].state = "unborn" => workers[w].state = "unborn"
                           /\ Known(workers'[w]) \subseteq Known(workers[w])
    BY <1>1, <2>2, TerminateKnown
  <2>4. QED
    BY <2>1, <2>2, <2>3 DEF Quiet
<1>4. DropEvent(s) => Quiet
  BY <1>1, ConsumedKnown DEF DropEvent, Quiet
<1>5. QED
  BY <1>2, <1>3, <1>4

LEMMA QuietCall ==
    ASSUME TypeOK, PlaceInv, NEW j \in Jobs
    PROVE  /\ RefuseRender(j) => Quiet
           /\ Abort(j) => Quiet \/ \E t \in Slots : EndsSome(t)
<1>1. /\ slots \in [Slots -> Slot] /\ workers \in [Workers -> Worker] /\ promise \in [Jobs -> Promises]
      /\ \A t \in Slots : SameRun(slots[t], slots[t])
  BY DEF TypeOK, SameRun
<1>2. RefuseRender(j) => Quiet
  <2> SUFFICES ASSUME RefuseRender(j) PROVE Quiet
    OBVIOUS
  <2>1. /\ UNCHANGED <<nextId, answer, queue, slots, workers>>
        /\ promise' = [promise EXCEPT ![j] = RenderRefusal(j)]
        /\ RenderRefusal(j) \notin {"idle", "resolved", "render_failed"}
    BY DEF RefuseRender, RenderRefusal
  <2>2. QED
    BY <1>1, <2>1 DEF Quiet
<1>3. Abort(j) => Quiet \/ \E t \in Slots : EndsSome(t)
  <2> SUFFICES ASSUME Abort(j), ~\E t \in Slots : EndsSome(t) PROVE Quiet
    OBVIOUS
  <2>1. /\ queue' = Unqueued(j) /\ UNCHANGED <<slots, workers, nextId, answer>>
        /\ promise' = IF InQueue(j) THEN Settle(promise, j, "cancelled") ELSE promise
    BY DEF Abort, EndsSome
  <2>2. \A c \in Jobs : promise'[c] \in {promise[c], "cancelled"}
    BY <1>1, <2>1 DEF Settle
  <2>3. \A i \in 1..Len(queue') : \E k \in 1..Len(queue) : queue'[i] = queue[k]
    <3>1. CASE ~InQueue(j) /\ Unqueued(j) = queue
      BY <2>1, <3>1
    <3>2. CASE \E i \in 1..Len(queue) :
                 /\ queue[i] = j /\ Len(Unqueued(j)) = Len(queue) - 1
                 /\ \A k \in 1..(Len(queue) - 1) :
                       Unqueued(j)[k] = IF k < i THEN queue[k] ELSE queue[k + 1]
      <4>1. Len(queue) \in Nat
        BY LenProperties DEF TypeOK
      <4>2. \A k \in 1..(Len(queue) - 1) : k \in 1..Len(queue) /\ k + 1 \in 1..Len(queue)
        BY <4>1
      <4>3. QED
        BY <2>1, <3>2, <4>2
    <3>3. QED
      BY <3>1, <3>2, UnqueuedPlaces DEF PlaceInv, Place
  <2>4. QED
    BY <1>1, <2>1, <2>2, <2>3 DEF Quiet
<1>4. QED
  BY <1>2, <1>3

LEMMA QuietPool ==
    ASSUME TypeOK
    PROVE  Close \/ CloseAgain \/ CloseReturns \/ Thread \/ UNCHANGED vars => Quiet
<1>1. /\ slots \in [Slots -> Slot] /\ workers \in [Workers -> Worker] /\ promise \in [Jobs -> Promises]
      /\ \A t \in Slots : SameRun(slots[t], slots[t])
  BY DEF TypeOK, SameRun
<1>2. Close => Quiet
  <2> SUFFICES ASSUME Close PROVE Quiet
    OBVIOUS
  <2>1. /\ workers' = Terminate(workers, SlotWorkers) /\ UNCHANGED <<nextId, answer>>
        /\ Len(queue') = 0
        /\ promise' = [c \in Jobs |-> IF promise[c] = "pending" /\ RejectedByClose(c)
                                      THEN "cancelled" ELSE promise[c]]
    BY DEF Close, ClosedWorkers
  <2>2. \A w \in Workers : /\ workers'[w].state = "unborn" => workers[w].state = "unborn"
                           /\ Known(workers'[w]) \subseteq Known(workers[w])
    BY <1>1, <2>1, TerminateKnown
  <2>3. \A t \in Slots : SameRun(slots'[t], slots[t])
    BY <1>1 DEF Close, SameRun, Slot, SlotFields
  <2>4. QED
    BY <1>1, <2>1, <2>2, <2>3 DEF Quiet
<1>3. CloseAgain => Quiet
  <2> SUFFICES ASSUME CloseAgain PROVE Quiet
    OBVIOUS
  <2>1. workers' = Terminate(workers, SlotWorkers) /\ UNCHANGED <<nextId, answer, queue, promise, slots>>
    BY DEF CloseAgain, ClosedWorkers
  <2>2. QED
    BY <1>1, <2>1, TerminateKnown DEF Quiet
<1>4. CloseReturns => Quiet
  BY <1>1 DEF CloseReturns, Quiet
<1>5. Thread => Quiet
  BY <1>1, ThreadStep DEF Quiet
<1>6. UNCHANGED vars => Quiet
  BY <1>1 DEF vars, Quiet
<1>7. QED
  BY <1>2, <1>3, <1>4, <1>5, <1>6

\* The steps that are not quiet end a run, fill a slot, or start a render.
LEMMA StepKinds ==
    ASSUME TypeOK, PlaceInv, [Next]_vars
    PROVE  \/ Quiet
           \/ \E s \in Slots : StartRender(s) \/ EndsSome(s) \/ Retire(s)
           \/ \E j \in Jobs : Render(j)
<1>1. CASE UNCHANGED vars \/ Thread \/ Close \/ CloseAgain \/ CloseReturns
  BY <1>1, QuietPool
<1>2. ASSUME NEW j \in Jobs, RefuseRender(j) \/ Render(j) \/ Abort(j)
      PROVE  Quiet \/ Render(j) \/ \E t \in Slots : EndsSome(t)
  BY <1>2, QuietCall
<1>3. ASSUME NEW s \in Slots, Microtask(s) \/ DeliverEvent(s) \/ Timer(s) \/ Retire(s)
      PROVE  Quiet \/ StartRender(s) \/ EndsSome(s) \/ Retire(s)
  BY <1>3, QuietSlot DEF Microtask, DeliverEvent, Timer, EndsSome
<1>4. QED
  BY <1>1, <1>2, <1>3 DEF Next, Caller, Pool

LEMMA PostKnown ==
    ASSUME NEW ws \in [Workers -> Worker], NEW w \in Workers, NEW request, NEW v \in Workers
    PROVE  /\ v = w => Known(Post(ws, w, request)[v]) \subseteq Known(ws[v]) \cup {request}
           /\ v # w => Known(Post(ws, w, request)[v]) \subseteq Known(ws[v])
           /\ Post(ws, w, request)[v].state = ws[v].state
<1>1. ws[v] \in Worker
  OBVIOUS
<1>2. CASE Post(ws, w, request)[v] = ws[v]
  BY <1>2
<1>3. CASE v = w /\ Post(ws, w, request)[v] = [ws[v] EXCEPT !.request = request]
  <2> DEFINE new == Post(ws, w, request)[v]
             old == ws[v]
  <2>1. new.outbox = old.outbox /\ new.request = request /\ new.state = old.state
    BY <1>1, <1>3 DEF Worker
  <2> HIDE DEF new, old
  <2>2. Known(new) \subseteq Known(old) \cup {request}
    BY <2>1 DEF Known
  <2>3. QED
    BY <1>3, <2>1, <2>2 DEF new, old
<1>4. QED
  BY <1>2, <1>3 DEF Post

\* A slot that starts a render keeps its job and its worker.
LEMMA StartsRender ==
    ASSUME TypeOK, NEW s \in Slots, StartRender(s)
    PROVE  /\ slots[s].phase = "handshake" /\ slots[s].job \in Jobs
           /\ slots[s].worker \in Workers
           /\ UNCHANGED <<closed, queue, promise, answer>> /\ nextId' = WrapId(nextId)
           /\ \A t \in Slots :
                 /\ slots'[t].job = slots[t].job /\ slots'[t].worker = slots[t].worker
                 /\ t # s => SameRun(slots'[t], slots[t])
           /\ slots'[s].phase = "rendering" /\ slots'[s].id = nextId
           /\ \A w \in Workers :
                 /\ workers'[w].state = workers[w].state
                 /\ w # slots[s].worker => Known(workers'[w]) \subseteq Known(workers[w])
           /\ Known(workers'[slots[s].worker]) \subseteq
                 Known(workers[slots[s].worker]) \cup {[id |-> nextId, job |-> slots[s].job]}
<1> DEFINE request == [id |-> nextId, job |-> slots[s].job]
<1>1. /\ slots \in [Slots -> Slot] /\ workers \in [Workers -> Worker] /\ slots[s] \in Slot
      /\ slots[s].phase = "handshake" /\ slots[s].worker \in Workers
  BY DEF TypeOK, StartRender, Resumes, Slot, SlotFields
<1>2. slots[s].job \in Jobs
  BY <1>1 DEF Slot, Busy
<1>3. /\ UNCHANGED <<closed, queue, promise, answer>> /\ nextId' = WrapId(nextId)
      /\ slots' = [slots EXCEPT ![s].warmFailures = 0, ![s].phase = "rendering", ![s].id = nextId]
      /\ workers' = Post(workers, slots[s].worker, request)
  BY DEF StartRender
<1>4. \A t \in Slots :
        /\ slots'[t].job = slots[t].job /\ slots'[t].worker = slots[t].worker
        /\ t # s => SameRun(slots'[t], slots[t])
  BY <1>1, <1>3 DEF SameRun, Slot, SlotFields
<1>5. slots'[s].phase = "rendering" /\ slots'[s].id = nextId
  BY <1>1, <1>3 DEF Slot, SlotFields
<1> HIDE DEF request
<1>6. \A w \in Workers :
        /\ workers'[w].state = workers[w].state
        /\ w = slots[s].worker => Known(workers'[w]) \subseteq Known(workers[w]) \cup {request}
        /\ w # slots[s].worker => Known(workers'[w]) \subseteq Known(workers[w])
  <2> DEFINE own == slots[s].worker
  <2>1. own \in Workers /\ workers' = Post(workers, own, request)
    BY <1>1, <1>3
  <2> HIDE DEF own
  <2>2. ASSUME NEW w \in Workers
        PROVE  /\ workers'[w].state = workers[w].state
               /\ w = own => Known(workers'[w]) \subseteq Known(workers[w]) \cup {request}
               /\ w # own => Known(workers'[w]) \subseteq Known(workers[w])
    <3>1. Post(workers, own, request)[w].state = workers[w].state
      BY <1>1, <2>1, PostKnown
    <3>2. w = own => Known(Post(workers, own, request)[w]) \subseteq Known(workers[w]) \cup {request}
      BY <1>1, <2>1, PostKnown
    <3>3. w # own => Known(Post(workers, own, request)[w]) \subseteq Known(workers[w])
      BY <1>1, <2>1, PostKnown
    <3>4. QED
      BY <2>1, <3>1, <3>2, <3>3
  <2>3. QED
    BY <2>2 DEF own
<1>7. QED
  BY <1>1, <1>2, <1>3, <1>4, <1>5, <1>6 DEF request

LEMMA InitBorn == Init => BornInv
<1> SUFFICES ASSUME Init PROVE BornInv
  OBVIOUS
<1>1. \A s \in Slots : s \in Workers
  BY PoolAssumption DEF Slots, Workers
<1>2. QED
  BY <1>1 DEF Init, BornInv

\* The verdicts of EndingRuns are the ends of EndsSome.
LEMMA EndsWith ==
    ASSUME TypeOK, NEW s \in Slots, EndsSome(s)
    PROVE  \/ RunEnds(s, "resolved") /\ AcceptResult(s)
           \/ RunEnds(s, "render_failed") /\ AcceptFailure(s)
           \/ \E verdict \in Settled \ {"resolved", "render_failed"} :
                 RunEnds(s, verdict) /\ answer' = answer
<1>1. {"cancelled", "timeout", "worker_failed", "output_limit"} \subseteq
        Settled \ {"resolved", "render_failed"}
  BY DEF Settled, Reasons
<1>2. CASE AcceptResult(s) \/ AcceptFailure(s)
  BY <1>2, EndingRuns
<1>3. CASE \/ CancelBeforeRender(s)
           \/ Listening(s) /\ FailRun(s, slots, workers, "cancelled") /\ answer' = answer
  <2>1. RunEnds(s, "cancelled") /\ answer' = answer
    BY <1>3, EndingRuns DEF CancelBeforeRender
  <2>2. QED
    BY <1>1, <2>1
<1>4. CASE FailHandshake(s) \/ WorkerFailed(s)
  <2>1. RunEnds(s, "worker_failed") /\ answer' = answer
    BY <1>4, EndingRuns DEF FailHandshake, WorkerFailed
  <2>2. QED
    BY <1>1, <2>1
<1>5. CASE OversizeResult(s)
  <2>1. RunEnds(s, "output_limit") /\ answer' = answer
    BY <1>5, EndingRuns DEF OversizeResult
  <2>2. QED
    BY <1>1, <2>1
<1>6. CASE RenderTimeout(s)
  <2>1. RunEnds(s, "timeout") /\ answer' = answer
    BY <1>6, EndingRuns DEF RenderTimeout
  <2>2. QED
    BY <1>1, <2>1
<1>7. QED
  BY <1>2, <1>3, <1>4, <1>5, <1>6 DEF EndsSome

LEMMA EndsVerdict ==
    ASSUME TypeOK, NEW s \in Slots, EndsSome(s)
    PROVE  \E verdict \in Settled : RunEnds(s, verdict)
  BY EndsWith DEF Settled, Reasons

LEMMA NextBorn == TypeOK /\ PlaceInv /\ BornInv /\ [Next]_vars => BornInv'
<1> SUFFICES ASSUME TypeOK, PlaceInv, BornInv, [Next]_vars PROVE BornInv'
  OBVIOUS
<1>1. CASE Quiet
  BY <1>1, QuietBorn DEF Quiet, SameRun
<1>2. ASSUME NEW s \in Slots, StartRender(s) PROVE BornInv'
  BY <1>2, StartsRender, QuietBorn
<1>3. ASSUME NEW s \in Slots, EndsSome(s) PROVE BornInv'
  <2>1. PICK verdict \in Settled : RunEnds(s, verdict)
    BY <1>3, EndsVerdict
  <2>2. /\ \A t \in Slots : slots'[t].worker = slots[t].worker
        /\ \A w \in Workers : workers'[w].state = "unborn" <=> workers[w].state = "unborn"
    BY <2>1, RunEnded
  <2>3. QED
    BY <2>2, QuietBorn
<1>4. ASSUME NEW s \in Slots, Retire(s) PROVE BornInv'
  BY <1>4, RetireWorkers, SlotWorker DEF BornInv
<1>5. ASSUME NEW j \in Jobs, Render(j) PROVE BornInv'
  <2>1. \A s \in Slots : slots'[s].worker = slots[s].worker
    <3>1. CASE Claimable(budget)
      <4> DEFINE q == Append(queue, j)
                 p == [promise EXCEPT ![j] = "pending"]
      <4>1. Dispatch(q, slots, p)
        BY <1>5, <3>1 DEF Render
      <4> HIDE DEF q, p
      <4>2. slots \in [Slots -> Slot]
        BY DEF TypeOK
      <4>3. QED
        BY <4>1, <4>2, DispatchKeepsThreads
    <3>2. CASE ~Claimable(budget)
      BY <1>5, <3>2 DEF Render
    <3>3. QED
      BY <3>1, <3>2
  <2>2. QED
    BY <1>5, <2>1, QuietBorn DEF Render
<1>6. QED
  BY <1>1, <1>2, <1>3, <1>4, <1>5, StepKinds

Poisoned(s) ==
    /\ Busy(slots[s])
    /\ slots'[s].job # slots[s].job
    /\ promise'[slots[s].job] # "resolved"

\* A failed, cancelled or timed-out worker is not reused, through whichever of
\* the eight ends of #run it leaves its slot, close() included.
LEMMA PoisonedStep ==
    ASSUME TypeOK, PlaceInv, ThreadInv, BornInv, [Next]_vars, NEW s \in Slots, Poisoned(s)
    PROVE  workers'[slots[s].worker].state = "dead"
<1>1. /\ Busy(slots[s]) /\ slots'[s].job # slots[s].job /\ promise'[slots[s].job] # "resolved"
      /\ slots[s].job \in Jobs /\ slots[s].worker \in Workers
      /\ promise \in [Jobs -> Promises] /\ workers[slots[s].worker] \in Worker
  BY SlotWorker DEF Poisoned, Slot, TypeOK
<1>2. ~Quiet
  BY <1>1 DEF Quiet, SameRun
<1>3. \A t \in Slots : ~StartRender(t) /\ ~Retire(t)
  BY <1>1, StartsRender, RetirePlace
<1>4. \A j \in Jobs : ~Render(j)
  BY <1>1, RenderPlace
<1>5. PICK t \in Slots : EndsSome(t)
  BY <1>2, <1>3, <1>4, StepKinds
<1>6. PICK verdict \in Settled : RunEnds(t, verdict)
  BY <1>5, EndsVerdict
<1>7. t = s
  BY <1>1, <1>6, RunEnded DEF SameRun
<1>8. CASE closed
  <2>1. workers'[slots[s].worker].state = workers[slots[s].worker].state
    BY <1>1, <1>6, <1>8, RunEnded
  <2>2. ~Runs(workers[slots[s].worker]) /\ workers[slots[s].worker].state # "unborn"
    BY <1>1, <1>8 DEF ThreadInv, BornInv
  <2>3. QED
    BY <1>1, <2>1, <2>2 DEF Runs, Worker
<1>9. CASE ~closed
  <2>1. promise[slots[s].job] = "pending"
    BY <1>1, <1>9 DEF PlaceInv, Place
  <2>2. promise'[slots[s].job] = verdict
    BY <1>1, <1>6, <1>7, <2>1, RunEnded DEF Settle
  <2>3. workers[slots[s].worker].state # "unborn"
    BY DEF BornInv
  <2>4. QED
    BY <1>1, <1>6, <1>7, <1>9, <2>2, <2>3, RunEnded
<1>10. QED
  BY <1>8, <1>9

\* "A failed, cancelled, or timed-out worker is never reused", for every number
\* of slots, jobs and replacements, and however close() falls in between.
THEOREM PoisonedRetired == Spec => PoisonedWorkerRetired
<1> DEFINE Step == \A s \in Slots :
                     /\ Busy(slots[s])
                     /\ slots'[s].job # slots[s].job
                     /\ promise'[slots[s].job] # "resolved"
                     => workers'[slots[s].worker].state = "dead"
<1>1. TypeOK /\ PlaceInv /\ ThreadInv /\ BornInv /\ [Next]_vars => Step
  BY PoisonedStep DEF Poisoned
<1>2. TypeOK /\ PlaceInv /\ ThreadInv /\ BornInv /\ [Next]_vars => [Step]_vars
  BY <1>1
<1>3. Spec => [](TypeOK /\ PlaceInv /\ ThreadInv /\ BornInv)
  BY InitPlace, InitType, InitThreads, InitBorn, NextType, NextPlace, NextThreads, NextBorn, PTL
     DEF Spec
<1>4. PoisonedWorkerRetired <=> [][Step]_vars
  BY DEF PoisonedWorkerRetired
<1> HIDE DEF Step
<1>5. QED
  BY <1>2, <1>3, <1>4, PTL DEF Spec

(***************************************************************************)
(* The right answer.  A result names its call by the TeX it echoes; a      *)
(* failure names it by its id alone, so what a worker may still say of an  *)
(* earlier request must carry another id than the one in flight.           *)
(***************************************************************************)
IdsSuffice == IsFiniteSet(Jobs) /\ Cardinality(Jobs) <= MaxRequestId

\* The calls no worker has been sent yet.
Unstarted ==
    {j \in Jobs : \/ promise[j] = "idle"
                  \/ \E i \in 1..Len(queue) : queue[i] = j
                  \/ \E s \in Slots : slots[s].phase = "handshake" /\ slots[s].job = j}

FreshIds ==
    /\ nextId + Cardinality(Unstarted) <= Cardinality(Jobs) + 1
    /\ \A w \in Workers : \A r \in Known(workers[w]) : r.id < nextId
    /\ \A s \in Slots : slots[s].phase = "rendering" => slots[s].id < nextId

OwnIds ==
    \A s \in Slots : slots[s].phase = "rendering" =>
        \A r \in Known(workers[slots[s].worker]) : r.id = slots[s].id => r.job = slots[s].job

IdInv == IdsSuffice => OwnIds /\ (Unstarted # {} => FreshIds)

RightResult == \A j \in Jobs : promise[j] = "resolved" => answer[j] = j

LEMMA KnownTypes ==
    ASSUME NEW worker \in Worker, NEW r \in Known(worker)
    PROVE  r \in Requests
<1>1. worker.outbox \in Seq(Events) /\ worker.request \in Requests \cup {NoRequest}
  BY DEF Worker
<1>2. CASE r = worker.request /\ r # NoRequest
  BY <1>1, <1>2
<1>3. ASSUME NEW i \in 1..Len(worker.outbox), worker.outbox[i].kind \in {"result", "failure"},
             r = [id |-> worker.outbox[i].id, job |-> worker.outbox[i].job]
      PROVE  r \in Requests
  <2>1. worker.outbox[i] \in Events
    BY <1>1, <1>3, ElementOfSeq
  <2>2. QED
    BY <1>3, <2>1 DEF Events, Requests
<1>4. QED
  BY <1>2, <1>3 DEF Known

LEMMA UnstartedCount ==
    ASSUME IdsSuffice, NEW S, NEW T, T \subseteq Jobs, S \subseteq T
    PROVE  /\ IsFiniteSet(T) /\ Cardinality(S) \in Nat /\ Cardinality(T) \in Nat
           /\ Cardinality(S) <= Cardinality(T)
  BY FS_Subset, FS_CardinalityType DEF IdsSuffice

\* A step that starts no render.
LEMMA QuietIds ==
    ASSUME TypeOK, IdInv, nextId' = nextId, Unstarted' \subseteq Unstarted,
           \A w \in Workers : Known(workers'[w]) \subseteq Known(workers[w]),
           \A t \in Slots : slots'[t].phase = "rendering" => SameRun(slots'[t], slots[t])
    PROVE  IdInv'
<1> SUFFICES ASSUME IdsSuffice PROVE OwnIds' /\ (Unstarted' # {} => FreshIds')
  BY DEF IdInv, IdsSuffice
<1>1. OwnIds /\ (Unstarted # {} => FreshIds)
  BY DEF IdInv
<1>2. OwnIds'
  BY <1>1, SlotWorker DEF OwnIds, SameRun
<1>3. ASSUME Unstarted' # {} PROVE FreshIds'
  <2>1. FreshIds /\ nextId \in Nat /\ Cardinality(Jobs) \in Nat
    BY <1>1, <1>3, FS_CardinalityType DEF TypeOK, Ids, IdsSuffice
  <2>2. /\ Cardinality(Unstarted') \in Nat /\ Cardinality(Unstarted) \in Nat
        /\ Cardinality(Unstarted') <= Cardinality(Unstarted)
    <3>1. Unstarted \subseteq Jobs
      BY DEF Unstarted
    <3>2. QED
      BY <3>1, UnstartedCount
  <2>3. nextId' + Cardinality(Unstarted') <= Cardinality(Jobs) + 1
    BY <2>1, <2>2 DEF FreshIds
  <2>4. \A w \in Workers : \A r \in Known(workers'[w]) : r.id < nextId'
    BY <2>1 DEF FreshIds
  <2>5. \A s \in Slots : slots'[s].phase = "rendering" => slots'[s].id < nextId'
    BY <2>1 DEF FreshIds, SameRun
  <2>6. QED
    BY <2>3, <2>4, <2>5 DEF FreshIds
<1>4. QED
  BY <1>2, <1>3

\* Where a call no worker was sent can have come from in a step.
LEMMA UnstartedFrom ==
    ASSUME NEW j \in Jobs, NEW c \in Jobs,
           promise'[j] = "idle" => promise[j] = "idle",
           \A i \in 1..Len(queue') : queue'[i] = c \/ \E k \in 1..Len(queue) : queue'[i] = queue[k],
           \A t \in Slots : slots'[t].phase = "handshake" =>
                 \/ SameRun(slots'[t], slots[t])
                 \/ slots'[t].job = c
                 \/ \E k \in 1..Len(queue) : slots'[t].job = queue[k],
           j \in Unstarted'
    PROVE  j \in Unstarted \/ j = c
<1>1. CASE promise'[j] = "idle"
  BY <1>1 DEF Unstarted
<1>2. ASSUME NEW i \in 1..Len(queue'), queue'[i] = j PROVE j \in Unstarted \/ j = c
  BY <1>2 DEF Unstarted
<1>3. ASSUME NEW t \in Slots, slots'[t].phase = "handshake", slots'[t].job = j
      PROVE  j \in Unstarted \/ j = c
  BY <1>3 DEF Unstarted, SameRun
<1>4. QED
  BY <1>1, <1>2, <1>3 DEF Unstarted

LEMMA InitIds == Init => IdInv
<1> SUFFICES ASSUME Init, IdsSuffice PROVE OwnIds /\ (Unstarted # {} => FreshIds)
  BY DEF IdInv
<1>1. \A s \in Slots : slots[s].phase = "free"
  BY DEF Init
<1>2. \A w \in Workers : workers[w].request = NoRequest /\ Len(workers[w].outbox) = 0
  BY DEF Init
<1>3. \A w \in Workers : Known(workers[w]) = {}
  BY <1>2 DEF Known
<1>4. Unstarted = Jobs /\ nextId = 1
  BY DEF Unstarted, Init
<1>5. Cardinality(Jobs) \in Nat
  BY FS_CardinalityType DEF IdsSuffice
<1>6. QED
  BY <1>1, <1>3, <1>4, <1>5 DEF OwnIds, FreshIds

LEMMA StartIds ==
    ASSUME TypeOK, PlaceInv, IdInv, NEW s \in Slots, StartRender(s)
    PROVE  IdInv'
<1> SUFFICES ASSUME IdsSuffice PROVE OwnIds' /\ (Unstarted' # {} => FreshIds')
  BY DEF IdInv, IdsSuffice
<1> DEFINE job == slots[s].job
           own == slots[s].worker
           request == [id |-> nextId, job |-> job]
<1>1. /\ slots[s].phase = "handshake" /\ job \in Jobs /\ own \in Workers
      /\ UNCHANGED <<closed, queue, promise, answer>> /\ nextId' = WrapId(nextId)
      /\ \A t \in Slots :
            /\ slots'[t].job = slots[t].job /\ slots'[t].worker = slots[t].worker
            /\ t # s => SameRun(slots'[t], slots[t])
      /\ slots'[s].phase = "rendering" /\ slots'[s].id = nextId
      /\ \A w \in Workers : w # own => Known(workers'[w]) \subseteq Known(workers[w])
      /\ Known(workers'[own]) \subseteq Known(workers[own]) \cup {request}
  BY StartsRender
<1>2. job \in Unstarted
  BY <1>1 DEF Unstarted
<1>3. OwnIds /\ FreshIds
  BY <1>2 DEF IdInv
<1>4. /\ nextId \in Nat /\ Cardinality(Jobs) \in Nat /\ MaxRequestId \in Nat
      /\ Cardinality(Jobs) <= MaxRequestId
  BY FS_CardinalityType, PoolAssumption DEF TypeOK, Ids, IdsSuffice
<1>5. request.id = nextId /\ request.job = job
  OBVIOUS
<1> HIDE DEF job, own, request
<1>6. \A w \in Workers : \A r \in Known(workers'[w]) :
        r \in Known(workers[w]) \/ r = request
  BY <1>1
<1>7. \A t \in Slots : slots[t].worker \in Workers
  BY SlotWorker
<1>8. OwnIds'
  <2>1. SUFFICES ASSUME NEW t \in Slots, slots'[t].phase = "rendering",
                        NEW r \in Known(workers'[slots[t].worker]), r.id = slots'[t].id
                 PROVE  r.job = slots[t].job
    BY <1>1 DEF OwnIds
  <2>2. CASE t = s
    <3>1. CASE r = request
      BY <1>5, <2>2, <3>1 DEF job
    <3>2. CASE r \in Known(workers[slots[t].worker])
      <4>1. r.id < nextId
        BY <1>3, <1>7, <3>2 DEF FreshIds
      <4>2. QED
        BY <1>1, <1>4, <2>1, <2>2, <4>1
    <3>3. QED
      BY <1>6, <1>7, <2>1, <3>1, <3>2
  <2>3. CASE t # s
    <3>1. slots[t].phase = "rendering" /\ slots[t].id = r.id
      BY <1>1, <2>1, <2>3 DEF SameRun
    <3>2. slots[t].id < nextId
      BY <1>3, <3>1 DEF FreshIds
    <3>3. r # request
      BY <1>4, <1>5, <3>1, <3>2
    <3>4. r \in Known(workers[slots[t].worker])
      BY <1>6, <1>7, <2>1, <3>3
    <3>5. QED
      BY <1>3, <3>1, <3>4 DEF OwnIds
  <2>4. QED
    BY <2>2, <2>3
<1>9. job \notin Unstarted'
  <2>1. promise[job] # "idle" /\ \A i \in 1..Len(queue) : queue[i] # job
    BY <1>1 DEF PlaceInv, Place, Busy, job
  <2>2. ASSUME NEW t \in Slots, slots'[t].phase = "handshake" PROVE slots'[t].job # job
    <3>1. t # s /\ slots[t].phase = "handshake" /\ slots'[t].job = slots[t].job
      BY <1>1, <2>2 DEF SameRun
    <3>2. QED
      BY <1>1, <3>1 DEF PlaceInv, Place, Busy, job
  <2>3. QED
    BY <1>1, <2>1, <2>2 DEF Unstarted
<1>10. Unstarted' \subseteq Unstarted
  <2>1. \A t \in Slots : slots'[t].phase = "handshake" => SameRun(slots'[t], slots[t])
    BY <1>1
  <2>2. QED
    BY <1>1, <2>1 DEF Unstarted, SameRun
<1>11. ASSUME Unstarted' # {} PROVE FreshIds'
  <2>1. /\ Cardinality(Unstarted') \in Nat /\ Cardinality(Unstarted) \in Nat
        /\ Cardinality(Unstarted') + 1 <= Cardinality(Unstarted)
    <3> DEFINE rest == Unstarted \ {job}
    <3>1. Unstarted' \subseteq rest /\ rest \subseteq Unstarted /\ Unstarted \subseteq Jobs
      BY <1>9, <1>10 DEF Unstarted
    <3>2. IsFiniteSet(Unstarted) /\ Cardinality(Unstarted) \in Nat
      BY <3>1, UnstartedCount
    <3>3. Cardinality(rest) = Cardinality(Unstarted) - 1
      BY <1>2, <3>2, FS_RemoveElement
    <3> HIDE DEF rest
    <3>4. Cardinality(Unstarted') \in Nat /\ Cardinality(Unstarted') <= Cardinality(rest)
      BY <3>1, UnstartedCount
    <3>5. QED
      BY <3>2, <3>3, <3>4
  <2>2. Cardinality(Unstarted') # 0
    <3>1. IsFiniteSet(Unstarted')
      BY <1>10, UnstartedCount DEF Unstarted
    <3>2. QED
      BY <1>11, <3>1, FS_EmptySet
  <2>3. nextId + Cardinality(Unstarted) <= Cardinality(Jobs) + 1
    BY <1>3 DEF FreshIds
  <2>4. nextId < MaxRequestId
    BY <1>4, <2>1, <2>2, <2>3
  <2>5. nextId' = nextId + 1
    BY <1>1, <1>4, <2>4 DEF WrapId
  <2>6. nextId' + Cardinality(Unstarted') <= Cardinality(Jobs) + 1
    BY <1>4, <2>1, <2>3, <2>5
  <2>7. ASSUME NEW w \in Workers, NEW r \in Known(workers'[w]) PROVE r.id < nextId'
    <3>1. CASE r = request
      BY <1>4, <1>5, <2>5, <3>1
    <3>2. CASE r \in Known(workers[w])
      <4>1. r.id < nextId /\ workers[w] \in Worker
        BY <1>3, <3>2 DEF FreshIds, TypeOK
      <4>2. r.id \in Nat
        BY <3>2, <4>1, KnownTypes DEF Requests, Ids
      <4>3. QED
        BY <1>4, <2>5, <4>1, <4>2
    <3>3. QED
      BY <1>6, <2>7, <3>1, <3>2
  <2>8. ASSUME NEW t \in Slots, slots'[t].phase = "rendering" PROVE slots'[t].id < nextId'
    <3>1. CASE t = s
      BY <1>1, <1>4, <2>5, <3>1
    <3>2. CASE t # s
      <4>1. slots'[t].id = slots[t].id /\ slots[t].phase = "rendering"
        BY <1>1, <2>8, <3>2 DEF SameRun
      <4>2. slots[t].id < nextId /\ slots[t].id \in Nat
        BY <1>3, <4>1, SlotWorker DEF FreshIds, Slot, SlotFields, Ids
      <4>3. QED
        BY <1>4, <2>5, <4>1, <4>2
    <3>3. QED
      BY <3>1, <3>2
  <2>9. QED
    BY <2>6, <2>7, <2>8 DEF FreshIds
<1>12. QED
  BY <1>8, <1>11

LEMMA NextIds == TypeOK /\ PlaceInv /\ IdInv /\ [Next]_vars => IdInv'
<1> SUFFICES ASSUME TypeOK, PlaceInv, IdInv, [Next]_vars PROVE IdInv'
  OBVIOUS
<1>1. CASE Quiet
  <2>1. \A j \in Jobs : promise'[j] = "idle" => promise[j] = "idle"
    BY <1>1 DEF Quiet
  <2>2. Unstarted' \subseteq Unstarted
    <3>1. ASSUME NEW j \in Unstarted' PROVE j \in Unstarted
      <4>1. j \in Jobs
        BY DEF Unstarted
      <4>2. CASE promise'[j] = "idle"
        BY <2>1, <4>1, <4>2 DEF Unstarted
      <4>3. CASE \E i \in 1..Len(queue') : queue'[i] = j
        BY <1>1, <4>1, <4>3 DEF Quiet, Unstarted
      <4>4. CASE \E t \in Slots : slots'[t].phase = "handshake" /\ slots'[t].job = j
        BY <1>1, <4>1, <4>4 DEF Quiet, SameRun, Unstarted
      <4>5. QED
        BY <4>2, <4>3, <4>4 DEF Unstarted
    <3>2. QED
      BY <3>1
  <2>3. QED
    BY <1>1, <2>2, QuietIds DEF Quiet
<1>2. ASSUME NEW s \in Slots, EndsSome(s) PROVE IdInv'
  <2>1. PICK verdict \in Settled : RunEnds(s, verdict)
    BY <1>2, EndsVerdict
  <2>2. /\ promise' = Settle(promise, slots[s].job, verdict)
        /\ nextId' = nextId
        /\ \A t \in Slots : slots'[t].phase = "rendering" => SameRun(slots'[t], slots[t])
        /\ \A i \in 1..Len(queue') : \E k \in 1..Len(queue) : queue'[i] = queue[k]
        /\ \A t \in Slots : slots'[t].phase = "handshake" =>
              SameRun(slots'[t], slots[t]) \/ \E k \in 1..Len(queue) : slots'[t].job = queue[k]
        /\ \A w \in Workers : Known(workers'[w]) \subseteq Known(workers[w])
    BY <2>1, RunEnded
  <2>3. \A j \in Jobs : promise'[j] = "idle" => promise[j] = "idle"
    BY <2>2 DEF Settle, Settled, Reasons, TypeOK
  <2>4. Unstarted' \subseteq Unstarted
    <3>1. ASSUME NEW j \in Unstarted' PROVE j \in Unstarted
      <4>1. j \in Jobs
        BY DEF Unstarted
      <4>2. CASE promise'[j] = "idle"
        BY <2>3, <4>1, <4>2 DEF Unstarted
      <4>3. CASE \E i \in 1..Len(queue') : queue'[i] = j
        BY <2>2, <4>1, <4>3 DEF Unstarted
      <4>4. CASE \E t \in Slots : slots'[t].phase = "handshake" /\ slots'[t].job = j
        BY <2>2, <4>1, <4>4 DEF SameRun, Unstarted
      <4>5. QED
        BY <4>2, <4>3, <4>4 DEF Unstarted
    <3>2. QED
      BY <3>1
  <2>5. QED
    BY <2>2, <2>4, QuietIds
<1>3. ASSUME NEW s \in Slots, Retire(s) PROVE IdInv'
  <2>1. /\ promise' = promise /\ nextId' = nextId
        /\ \A t \in Slots : slots'[t].phase = "rendering" => slots'[t] = slots[t]
        /\ \A i \in 1..Len(queue') : \E k \in 1..Len(queue) : queue'[i] = queue[k]
        /\ \A t \in Slots : slots'[t].phase = "handshake" =>
              slots'[t] = slots[t] \/ \E k \in 1..Len(queue) : slots'[t].job = queue[k]
        /\ \A w \in Workers : Known(workers'[w]) \subseteq Known(workers[w])
    BY <1>3, RetirePlace, RetireWorkers
  <2>2. Unstarted' \subseteq Unstarted
    BY <2>1 DEF Unstarted
  <2>3. QED
    BY <2>1, <2>2, QuietIds DEF SameRun
<1>4. ASSUME NEW j \in Jobs, Render(j) PROVE IdInv'
  <2>1. /\ promise[j] = "idle"
        /\ \E state \in {"pending", "refused"} : promise' = [promise EXCEPT ![j] = state]
        /\ \A t \in Slots : slots'[t].phase = "rendering" => slots'[t] = slots[t]
        /\ \A i \in 1..Len(queue') : queue'[i] = j \/ \E k \in 1..Len(queue) : queue'[i] = queue[k]
        /\ \A t \in Slots : slots'[t].phase = "handshake" =>
              \/ slots'[t] = slots[t] \/ slots'[t].job = j
              \/ \E k \in 1..Len(queue) : slots'[t].job = queue[k]
    BY <1>4, RenderPlace
  <2>2. workers' = workers /\ nextId' = nextId
    BY <1>4 DEF Render
  <2>3. j \in Unstarted /\ \A c \in Jobs : promise'[c] = "idle" => promise[c] = "idle"
    BY <2>1 DEF Unstarted, TypeOK
  <2>4. Unstarted' \subseteq Unstarted
    <3>1. ASSUME NEW c \in Unstarted' PROVE c \in Unstarted
      <4>1. c \in Jobs
        BY DEF Unstarted
      <4>2. CASE promise'[c] = "idle"
        BY <2>3, <4>1, <4>2 DEF Unstarted
      <4>3. CASE \E i \in 1..Len(queue') : queue'[i] = c
        BY <2>1, <2>3, <4>1, <4>3 DEF Unstarted
      <4>4. CASE \E t \in Slots : slots'[t].phase = "handshake" /\ slots'[t].job = c
        BY <2>1, <2>3, <4>1, <4>4 DEF Unstarted
      <4>5. QED
        BY <4>2, <4>3, <4>4 DEF Unstarted
    <3>2. QED
      BY <3>1
  <2>5. QED
    BY <2>1, <2>2, <2>4, QuietIds DEF SameRun
<1>5. QED
  BY <1>1, <1>2, <1>3, <1>4, StartIds, StepKinds

\* An answer a call gets in a step is a result that echoes its TeX, or a
\* failure under the id in flight.
LEMMA AnswerStep ==
    ASSUME TypeOK, PlaceInv, [Next]_vars, NEW j \in Jobs,
           promise'[j] \in {"resolved", "render_failed"}
    PROVE  \/ promise[j] = promise'[j] /\ answer'[j] = answer[j]
           \/ answer'[j] = j
           \/ /\ promise'[j] = "render_failed"
              /\ \E s \in Slots : /\ Deliverable(s) /\ Listening(s) /\ slots[s].job = j
                                  /\ FirstEvent(s).kind = "failure"
                                  /\ FirstEvent(s).id = slots[s].id
                                  /\ answer'[j] = FirstEvent(s).job
<1>1. promise \in [Jobs -> Promises] /\ answer \in [Jobs -> Jobs \cup {NoJob}]
  BY DEF TypeOK
<1>2. CASE Quiet
  BY <1>2 DEF Quiet
<1>3. ASSUME NEW s \in Slots, StartRender(s) \/ Retire(s) PROVE promise' = promise /\ answer' = answer
  BY <1>3, StartsRender, RetirePlace, RetireWorkers
<1>4. ASSUME NEW c \in Jobs, Render(c)
      PROVE  promise[j] = promise'[j] /\ answer'[j] = answer[j]
  <2>1. PICK state \in {"pending", "refused"} : promise' = [promise EXCEPT ![c] = state]
    BY <1>4, RenderPlace
  <2>2. answer' = answer
    BY <1>4 DEF Render
  <2>3. QED
    BY <1>1, <2>1, <2>2
<1>5. ASSUME NEW s \in Slots, AcceptResult(s), RunEnds(s, "resolved")
      PROVE  \/ promise[j] = promise'[j] /\ answer'[j] = answer[j]
             \/ answer'[j] = j
  <2>1. promise' = Settle(promise, slots[s].job, "resolved")
    <3>1. "resolved" \in Settled
      BY DEF Settled
    <3>2. QED
      BY <1>5, <3>1, RunEnded
  <2>2. Answered(s) /\ FirstEvent(s).job = slots[s].job
    BY <1>5 DEF AcceptResult, IsResponse
  <2>3. QED
    BY <1>1, <2>1, <2>2 DEF Settle, Answered
<1>6. ASSUME NEW s \in Slots, AcceptFailure(s), RunEnds(s, "render_failed")
      PROVE  \/ promise[j] = promise'[j] /\ answer'[j] = answer[j]
             \/ /\ promise'[j] = "render_failed" /\ Deliverable(s) /\ Listening(s)
                /\ slots[s].job = j /\ FirstEvent(s).kind = "failure"
                /\ FirstEvent(s).id = slots[s].id /\ answer'[j] = FirstEvent(s).job
  <2>1. promise' = Settle(promise, slots[s].job, "render_failed")
    <3>1. "render_failed" \in Settled
      BY DEF Settled, Reasons
    <3>2. QED
      BY <1>6, <3>1, RunEnded
  <2>2. /\ Answered(s) /\ Deliverable(s) /\ Listening(s)
        /\ FirstEvent(s).kind = "failure" /\ FirstEvent(s).id = slots[s].id
    BY <1>6 DEF AcceptFailure, IsResponse
  <2>3. QED
    BY <1>1, <2>1, <2>2 DEF Settle, Answered
<1>7. ASSUME NEW s \in Slots, NEW verdict \in Settled \ {"resolved", "render_failed"},
             RunEnds(s, verdict), answer' = answer
      PROVE  promise[j] = promise'[j] /\ answer'[j] = answer[j]
  <2>1. promise' = Settle(promise, slots[s].job, verdict)
    BY <1>7, RunEnded
  <2>2. QED
    BY <1>1, <1>7, <2>1 DEF Settle
<1>8. ASSUME NEW s \in Slots, EndsSome(s)
      PROVE  \/ RunEnds(s, "resolved") /\ AcceptResult(s)
             \/ RunEnds(s, "render_failed") /\ AcceptFailure(s)
             \/ \E verdict \in Settled \ {"resolved", "render_failed"} :
                   RunEnds(s, verdict) /\ answer' = answer
  BY <1>8, EndsWith
<1>9. QED
  BY <1>2, <1>3, <1>4, <1>5, <1>6, <1>7, <1>8, StepKinds

\* A failure under the id in flight is one of the request in flight.
LEMMA OwnFailure ==
    ASSUME TypeOK, OwnIds, NEW s \in Slots, Deliverable(s), Listening(s),
           FirstEvent(s).kind = "failure", FirstEvent(s).id = slots[s].id
    PROVE  FirstEvent(s).job = slots[s].job
<1> DEFINE worker == workers[slots[s].worker]
<1>1. worker.outbox \in Seq(Events) /\ worker.outbox # <<>> /\ slots[s].phase = "rendering"
  BY SlotWorker DEF TypeOK, Worker, Deliverable, Listening
<1>2. 1 \in 1..Len(worker.outbox) /\ worker.outbox[1] = FirstEvent(s)
  BY <1>1, LenProperties, EmptySeq DEF FirstEvent
<1> DEFINE r == [id |-> FirstEvent(s).id, job |-> FirstEvent(s).job]
<1>3. r \in Known(worker)
  BY <1>2 DEF Known
<1>4. r.id = FirstEvent(s).id /\ r.job = FirstEvent(s).job
  OBVIOUS
<1> HIDE DEF r
<1>5. QED
  BY <1>1, <1>3, <1>4 DEF OwnIds

\* Whatever a worker said twice, out of turn or too late, a call that resolves
\* gets the rendering of its own TeX.
THEOREM ResultsMatch == Spec => []RightResult
<1>1. Init => RightResult
  BY DEF Init, RightResult
<1>2. TypeOK /\ PlaceInv /\ RightResult /\ [Next]_vars => RightResult'
  BY AnswerStep DEF RightResult
<1>3. QED
  BY <1>1, <1>2, InitPlace, InitType, NextType, NextPlace, PTL DEF Spec

\* As long as the ids of a pool have not come round, a call that fails to
\* render fails by an answer to its own request too.
THEOREM AnswersMatch == Spec => [](IdsSuffice => RightAnswer)
<1>1. Init => RightAnswer
  BY DEF Init, RightAnswer
<1>2. ASSUME TypeOK, PlaceInv, IdInv, [Next]_vars, IdsSuffice => RightAnswer
      PROVE  IdsSuffice' => RightAnswer'
  <2>1. SUFFICES ASSUME IdsSuffice, NEW j \in Jobs, promise'[j] \in {"resolved", "render_failed"}
                 PROVE  answer'[j] = j
    BY DEF RightAnswer, IdsSuffice
  <2>2. RightAnswer /\ OwnIds
    BY <1>2, <2>1 DEF IdInv
  <2>3. QED
    BY <1>2, <2>1, <2>2, AnswerStep, OwnFailure DEF RightAnswer
<1>3. QED
  BY <1>1, <1>2, InitPlace, InitType, InitIds, NextType, NextPlace, NextIds, PTL DEF Spec

=============================================================================
