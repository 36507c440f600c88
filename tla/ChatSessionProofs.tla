-------------------------- MODULE ChatSessionProofs --------------------------
(***************************************************************************)
(* Theorems about ChatSession for any sessions on disk and any number of   *)
(* prompts, loads, /new, failures and crashes: a run keeps the session it  *)
(* was started in, the pointer on disk names a file that exists, late      *)
(* results never take the screen or the pointer back, sessions never mix,  *)
(* and what a session's file holds is only extended.                       *)
(***************************************************************************)
EXTENDS ChatSession, BasicLemmas

(***************************************************************************)
(* A run keeps its session: what replaces the session is refused while a   *)
(* run is active, and a load that began before it finds it when it ends, so *)
(* the session and the generation stay those the run captured and its two  *)
(* messages stay the last of the conversation.                             *)
(***************************************************************************)
RunRecord == [stage : {"new", "running", "done"}, session : SessionIds \cup {NoSession},
              gen : Nat, base : Seq(Message), started : BOOLEAN, aborted : BOOLEAN]

RunOwned ==
    /\ activeRun \in Runs \cup {NoRun}
    /\ \A r \in Runs : runs[r].stage = "running" <=> activeRun = r
    /\ \A r \in Runs : runs[r].stage = "running" =>
           runs[r].gen = generation /\ runs[r].session = sessionIdRef

ExchangeShown == activeRun \in Runs => EndsWith(activeRun)

(***************************************************************************)
(* Types.  Generations and counters are natural numbers: their bounds are  *)
(* not needed.                                                             *)
(***************************************************************************)
Counters == [{"loads", "news", "clears", "failures", "crashes", "overtaken"} -> Nat]
LoadRecord == [id : SessionIds, gen : Nat, stage : {"reading", "resolving"},
               messages : Seq(Message)]
SaveRecord == [kind : {"autosave", "create"}, id : SessionIds, gen : Nat,
               messages : Seq(Message), stage : {"writing", "ok", "failed"}]

TypedRuns ==
    /\ runs \in [Runs -> RunRecord]
    /\ state \in StateType
    /\ shown \in StateType
    /\ shuttingDown \in BOOLEAN

TypedSessions ==
    /\ generation \in Nat
    /\ minted \in Nat
    /\ used \in Counters
    /\ sessionIdRef \in SessionIds \cup {NoSession}
    /\ loads \in Seq(LoadRecord)
    /\ saves \in Seq(SaveRecord)
    /\ files \in [SessionIds -> Seq(Message) \cup {NoFile}]

\* As many ids are made as there were /new and starts without a session.
IdsLeft ==
    minted + (IF sessionIdRef = NoSession THEN 1 ELSE 0) <= used.news + used.crashes + 1

UsedBounded == used.news <= MaxNews /\ used.crashes <= MaxCrashes

PointerWrite == [id : SessionIds, gen : Nat]

TypedPointer ==
    /\ pointerQueue \in Seq(PointerWrite)
    /\ pointerBusy \in BOOLEAN
    /\ pointerBusy => pointerQueue # <<>>
    /\ pointer \in [id : SessionIds \cup {NoSession}, gen : Nat]
    /\ screen \in Nat

(***************************************************************************)
(* Whatever will become the pointer names a file that exists already.      *)
(***************************************************************************)
HasSession(id) == files[id] # NoFile

NoDangling ==
    /\ pointer.id # NoSession => HasSession(pointer.id)
    /\ \A write \in ToSet(pointerQueue) : HasSession(write.id)
    /\ \A save \in ToSet(saves) : save.stage = "ok" => HasSession(save.id)
    /\ \A load \in ToSet(loads) : HasSession(load.id)

(***************************************************************************)
(* The pointer writes are in the order of the generations they are for.    *)
(***************************************************************************)
Ordered(writes, low, high) ==
    /\ \A i \in DOMAIN writes : low <= writes[i].gen /\ writes[i].gen <= high
    /\ \A i, j \in DOMAIN writes : i < j => writes[i].gen <= writes[j].gen

InOrder ==
    /\ screen <= generation
    /\ pointer.gen <= generation
    /\ Ordered(pointerQueue, pointer.gen, generation)

IInv == /\ RunOwned /\ ExchangeShown /\ TypedRuns /\ TypedSessions /\ IdsLeft
        /\ UsedBounded /\ TypedPointer /\ NoDangling /\ InOrder

(***************************************************************************)
(* Operators.                                                              *)
(***************************************************************************)
EntryType == [run : Runs \cup Stored, role : {"user", "assistant"}, streaming : BOOLEAN]
States == [conversation : Seq(EntryType),
           runStatus : {"idle", "starting", "streaming", "cancelling"}]

LEMMA DisplayType ==
    ASSUME NEW messages \in Seq(Message)
    PROVE  Display(messages) \in Seq(EntryType)
<1>1. DOMAIN messages = 1..Len(messages) /\ Len(messages) \in Nat
  OBVIOUS
<1>2. ASSUME NEW m \in Message PROVE Entry(m, FALSE) \in EntryType
  BY DEF Entry, EntryType, Message
<1>3. \A i \in 1..Len(messages) : Entry(messages[i], FALSE) \in EntryType
  <2>1. \A i \in 1..Len(messages) : messages[i] \in Message
    OBVIOUS
  <2>2. QED
    BY <1>2, <2>1, Zenon
<1>4. Display(messages) \in [1..Len(messages) -> EntryType]
  BY <1>1, <1>3 DEF Display
<1>5. QED
  BY <1>1, <1>4, FunctionIsSeq

LEMMA TranscriptType ==
    ASSUME NEW conversation \in Seq(EntryType)
    PROVE  Transcript(conversation) \in Seq(Message)
<1>1. DOMAIN conversation = 1..Len(conversation) /\ Len(conversation) \in Nat
  OBVIOUS
<1>2. ASSUME NEW e \in EntryType PROVE Say(e.run, e.role) \in Message
  BY DEF Say, EntryType, Message
<1>3. \A i \in 1..Len(conversation) :
          Say(conversation[i].run, conversation[i].role) \in Message
  BY <1>1, <1>2
<1>4. Transcript(conversation) \in [1..Len(conversation) -> Message]
  BY <1>1, <1>3 DEF Transcript
<1>5. QED
  BY <1>1, <1>4, FunctionIsSeq

LEMMA ConversationTypes ==
    ASSUME NEW r \in Runs, state.conversation \in Seq(EntryType)
    PROVE  /\ Appended(r) \in Seq(EntryType)
           /\ Finished(r) \in Seq(EntryType)
           /\ WithoutPlaceholder(r) \in Seq(EntryType)
<1> DEFINE entries == state.conversation
           prompt == <<Entry(Say(r, "user"), FALSE), Entry(Say(r, "assistant"), TRUE)>>
           At(i) == IF entries[i].run = r THEN [entries[i] EXCEPT !.streaming = FALSE]
                    ELSE entries[i]
<1>1. /\ Entry(Say(r, "user"), FALSE) \in EntryType
      /\ Entry(Say(r, "assistant"), TRUE) \in EntryType
  BY DEF Entry, Say, EntryType
<1>2. prompt \in Seq(EntryType)
  BY <1>1, PairIsSeq
<1> HIDE DEF prompt
<1>3. Appended(r) \in Seq(EntryType)
  <2>1. Appended(r) = entries \o prompt
    BY DEF Appended, prompt
  <2>2. QED
    BY <1>2, <2>1, ConcatProperties
<1>4. DOMAIN entries = 1..Len(entries) /\ Len(entries) \in Nat
  OBVIOUS
<1>5. ASSUME NEW e \in EntryType PROVE [e EXCEPT !.streaming = FALSE] \in EntryType
  BY DEF EntryType
<1>6. \A i \in 1..Len(entries) : At(i) \in EntryType
  BY <1>4, <1>5
<1>7. Finished(r) = [i \in 1..Len(entries) |-> At(i)]
  BY <1>4 DEF Finished
<1> HIDE DEF At
<1>8. Finished(r) \in [1..Len(entries) -> EntryType]
  BY <1>6, <1>7
<1>9. Finished(r) \in Seq(EntryType)
  BY <1>4, <1>8, FunctionIsSeq
<1>10. WithoutPlaceholder(r) \in Seq(EntryType)
  BY RemoveFirstElements DEF WithoutPlaceholder
<1>11. QED
  BY <1>3, <1>9, <1>10

\* While a prompt is left, NextRun is one of those that were not used.
LEMMA NextRunIsNew ==
    ASSUME \E r \in Runs : runs[r].stage = "new"
    PROVE  NextRun \in Runs /\ runs[NextRun].stage = "new"
<1> DEFINE New == {r \in Runs : runs[r].stage = "new"}
<1>1. New # {} /\ New \in SUBSET Nat
  BY DEF Runs
<1>2. PICK m \in New : \A k \in New : m <= k
  BY <1>1, LeastElement
<1>3. QED
  BY <1>2 DEF NextRun

(***************************************************************************)
(* RunOwned.                                                               *)
(***************************************************************************)
LEMMA RunOwnedStep ==
    ASSUME RunOwned, TypedRuns, [Next]_vars
    PROVE  RunOwned'
<1> USE NothingAssumption
<1>1. CASE SubmitPrompt
  <2>1. NextRun \in Runs /\ runs[NextRun].stage = "new"
    BY <1>1, NextRunIsNew DEF SubmitPrompt
  <2>2. activeRun = NoRun
    BY <1>1 DEF SubmitPrompt, MayStart
  <2>3. QED
    BY <1>1, <2>1, <2>2 DEF SubmitPrompt, RunOwned, TypedRuns
<1>2. CASE Cancel
  BY <1>2 DEF Cancel, RunOwned, TypedRuns, RunRecord
<1>3. CASE Exit
  BY <1>3 DEF Exit, RunOwned, TypedRuns, RunRecord
<1>4. ASSUME NEW r \in Runs, Delta(r) PROVE RunOwned'
  BY <1>4 DEF Delta, RunOwned, TypedRuns, RunRecord
<1>5. ASSUME NEW r \in Runs, SettleRun(r) PROVE RunOwned'
  BY <1>5 DEF SettleRun, RunOwned, TypedRuns, RunRecord, DoneRun, IdleRun
<1>6. CASE NewSession
  BY <1>6 DEF NewSession, Unblocked, run_vars, RunOwned
<1>7. ASSUME NEW id \in SessionIds, LoadSession(id) PROVE RunOwned'
  BY <1>7 DEF LoadSession, Unblocked, run_vars, RunOwned
<1>8. CASE Crash
  BY <1>8 DEF Crash, RunOwned, TypedRuns, DoneRun, IdleRun
<1>9. CASE Render \/ Clear \/ SaveStep \/ StartPointer \/ PointerLands
           \/ PointerFails \/ UNCHANGED vars
  <2>1. UNCHANGED <<activeRun, runs, generation, sessionIdRef>>
    BY <1>9 DEF Render, Clear, SaveStep, SaveLands, SaveFails, SaveReturns, StartPointer,
       PointerLands, PointerFails, vars, run_vars
  <2>2. QED
    BY <2>1 DEF RunOwned
<1>10. ASSUME NEW i \in DOMAIN loads, LoadRead(i) \/ LoadFails(i) \/ LoadResolved(i)
       PROVE  RunOwned'
  <2>1. /\ UNCHANGED <<activeRun, runs, generation>>
        /\ activeRun = NoRun \/ UNCHANGED sessionIdRef
    BY <1>10 DEF LoadRead, LoadFails, LoadResolved, KeepSession, MayApply, Unblocked, run_vars
  <2>2. QED
    BY <2>1 DEF RunOwned
<1>11. QED
  BY <1>1, <1>2, <1>3, <1>4, <1>5, <1>6, <1>7, <1>8, <1>9, <1>10 DEF Next, RunStep, LoadStep

LEMMA PairAtEnd ==
    ASSUME NEW S, NEW s \in Seq(S), NEW a \in S, NEW b \in S
    PROVE  /\ Len(s \o <<a, b>>) = Len(s) + 2
           /\ (s \o <<a, b>>)[Len(s) + 1] = a
           /\ (s \o <<a, b>>)[Len(s) + 2] = b
  OBVIOUS

\* The prompt appends the exchange; what replaces or empties the conversation
\* waits until no run is active.
LEMMA ExchangeShownStep ==
    ASSUME RunOwned, ExchangeShown, TypedRuns, [Next]_vars
    PROVE  ExchangeShown'
<1> USE NothingAssumption
<1>1. state \in States
  BY DEF TypedRuns, StateType, ConversationType, States, EntryType
<1>2. CASE SubmitPrompt
  <2>1. NextRun \in Runs
    BY <1>2, NextRunIsNew DEF SubmitPrompt
  <2> DEFINE entries == state.conversation
             one == Entry(Say(NextRun, "user"), FALSE)
             two == Entry(Say(NextRun, "assistant"), TRUE)
             whole == entries \o <<one, two>>
  <2>2. activeRun' = NextRun /\ state'.conversation = whole
    BY <1>2 DEF SubmitPrompt, Appended
  <2>3. one \in EntryType /\ two \in EntryType
    BY <2>1 DEF Entry, Say, EntryType
  <2> HIDE DEF one, two
  <2>4. entries \in Seq(EntryType) /\ Len(entries) \in Nat
    BY <1>1 DEF States
  <2> HIDE DEF entries
  <2>5. /\ Len(whole) = Len(entries) + 2
        /\ whole[Len(entries) + 1] = one /\ whole[Len(entries) + 2] = two
    BY <2>3, <2>4, PairAtEnd
  <2> HIDE DEF whole
  <2>6. /\ Len(whole) >= 2 /\ whole[Len(whole) - 1] = one /\ whole[Len(whole)] = two
    BY <2>4, <2>5
  <2>7. QED
    BY <2>2, <2>6 DEF ExchangeShown, EndsWith, one, two
<1>3. CASE UNCHANGED activeRun /\ state'.conversation = state.conversation
  BY <1>3 DEF ExchangeShown, EndsWith
<1>4. CASE activeRun' = NoRun
  BY <1>4 DEF ExchangeShown
<1>5. CASE Cancel \/ Exit \/ \E r \in Runs : Delta(r)
  <2>1. UNCHANGED activeRun /\ state'.conversation = state.conversation
    BY <1>1, <1>5 DEF Cancel, Exit, Delta, States
  <2>2. QED
    BY <1>3, <2>1
<1>6. ASSUME NEW i \in DOMAIN loads, LoadRead(i) \/ LoadFails(i) \/ LoadResolved(i)
      PROVE  ExchangeShown'
  <2>1. activeRun' = NoRun \/ UNCHANGED <<activeRun, state>>
    BY <1>6 DEF LoadRead, LoadFails, LoadResolved, KeepSession, MayApply, Unblocked, run_vars
  <2>2. QED
    BY <1>3, <1>4, <2>1
<1>7. CASE NewSession \/ Clear \/ Crash \/ \E r \in Runs : SettleRun(r)
  <2>1. activeRun' = NoRun
    BY <1>7 DEF NewSession, Clear, Crash, SettleRun, Unblocked, run_vars
  <2>2. QED
    BY <1>4, <2>1
<1>8. CASE Render \/ SaveStep \/ StartPointer \/ PointerLands \/ PointerFails
           \/ UNCHANGED vars \/ \E id \in SessionIds : LoadSession(id)
  <2>1. UNCHANGED <<activeRun, state>>
    BY <1>8 DEF Render, SaveStep, SaveLands, SaveFails, SaveReturns, StartPointer,
       PointerLands, PointerFails, LoadSession, vars, run_vars
  <2>2. QED
    BY <1>3, <2>1
<1>9. QED
  BY <1>2, <1>5, <1>6, <1>7, <1>8 DEF Next, RunStep, LoadStep

LEMMA LoadAt ==
    ASSUME TypedSessions, NEW i \in DOMAIN loads
    PROVE  /\ loads[i] \in LoadRecord /\ loads[i] \in ToSet(loads) /\ i \in 1..Len(loads)
           /\ loads[i].id \in SessionIds /\ loads[i].gen \in Nat
           /\ loads[i].messages \in Seq(Message)
<1>1. loads[i] \in LoadRecord /\ loads[i] \in ToSet(loads) /\ i \in 1..Len(loads)
  BY ElementAt DEF TypedSessions
<1>2. QED
  BY <1>1 DEF LoadRecord

LEMMA SaveAt ==
    ASSUME TypedSessions, NEW i \in DOMAIN saves
    PROVE  /\ saves[i] \in SaveRecord /\ saves[i] \in ToSet(saves) /\ i \in 1..Len(saves)
           /\ saves[i].id \in SessionIds /\ saves[i].gen \in Nat
           /\ saves[i].messages \in Seq(Message)
<1>1. saves[i] \in SaveRecord /\ saves[i] \in ToSet(saves) /\ i \in 1..Len(saves)
  BY ElementAt DEF TypedSessions
<1>2. QED
  BY <1>1 DEF SaveRecord

(***************************************************************************)
(* Types of the run and of what is on the screen.                          *)
(***************************************************************************)
LEMMA StateTypes == StateType = States
  BY DEF StateType, ConversationType, States, EntryType

LEMMA StateMake ==
    ASSUME NEW conversation \in Seq(EntryType),
           NEW runStatus \in {"idle", "starting", "streaming", "cancelling"}
    PROVE  [conversation |-> conversation, runStatus |-> runStatus] \in States
  BY DEF States

LEMMA RunMake ==
    ASSUME NEW run \in RunRecord, NEW base \in Seq(Message), generation \in Nat,
           sessionIdRef \in SessionIds \cup {NoSession}
    PROVE  /\ [stage |-> "running", session |-> sessionIdRef, gen |-> generation,
               base |-> base, started |-> FALSE, aborted |-> FALSE] \in RunRecord
           /\ [run EXCEPT !.started = TRUE] \in RunRecord
           /\ [run EXCEPT !.aborted = TRUE] \in RunRecord
           /\ DoneRun \in RunRecord
<1>1. <<>> \in Seq(Message)
  OBVIOUS
<1>2. QED
  BY <1>1 DEF RunRecord, DoneRun, IdleRun

\* What is restored when the program starts.
LEMMA RestoredType ==
    ASSUME TypedSessions, NEW id \in SessionIds \cup {NoSession},
           id # NoSession => files[id] # NoFile
    PROVE  Restored(id) \in States
<1>1. CASE id = NoSession
  <2>1. <<>> \in Seq(EntryType)
    OBVIOUS
  <2>2. QED
    BY <1>1, <2>1, StateMake DEF Restored
<1>2. CASE id # NoSession
  <2>1. files[id] \in Seq(Message)
    BY <1>2 DEF TypedSessions
  <2>2. QED
    BY <1>2, <2>1, DisplayType, StateMake DEF Restored
<1>3. QED
  BY <1>1, <1>2

LEMMA StateStep ==
    ASSUME TypedRuns, TypedSessions, TypedPointer, NoDangling, [Next]_vars
    PROVE  state' \in States
<1>1. /\ state \in States /\ shown \in States /\ Seen \in States
      /\ state.conversation \in Seq(EntryType)
  BY StateTypes DEF TypedRuns, Seen, States
<1>2. CASE SubmitPrompt
  <2>1. NextRun \in Runs
    BY <1>2, NextRunIsNew DEF SubmitPrompt
  <2>2. QED
    BY <1>1, <1>2, <2>1, ConversationTypes, StateMake DEF SubmitPrompt
<1>3. CASE Cancel \/ Clear \/ \E r \in Runs : Delta(r)
  <2>1. <<>> \in Seq(EntryType)
    OBVIOUS
  <2>2. /\ [state EXCEPT !.runStatus = "cancelling"] \in States
        /\ [state EXCEPT !.runStatus = "streaming"] \in States
        /\ [state EXCEPT !.conversation = <<>>] \in States
    BY <1>1, <2>1 DEF States
  <2>3. QED
    BY <1>3, <2>2 DEF Cancel, Clear, Delta
<1>4. ASSUME NEW r \in Runs, SettleRun(r) PROVE state' \in States
  BY <1>1, <1>4, ConversationTypes, StateMake DEF SettleRun
<1>5. CASE NewSession
  <2>1. <<>> \in Seq(EntryType)
    OBVIOUS
  <2>2. QED
    BY <1>5, <2>1, StateMake DEF NewSession, SessionCreated
<1>6. ASSUME NEW i \in DOMAIN loads, LoadRead(i) \/ LoadFails(i) \/ LoadResolved(i)
      PROVE  state' \in States
  <2>1. loads[i] \in LoadRecord /\ loads[i] \in ToSet(loads)
    BY DEF TypedSessions, ToSet
  <2>2. files[loads[i].id] \in Seq(Message) /\ loads[i].messages \in Seq(Message)
    BY <2>1 DEF LoadRecord, NoDangling, HasSession, TypedSessions
  <2>3. ASSUME NEW messages \in Seq(Message) PROVE SessionLoaded(messages) \in States
    BY <2>3, DisplayType, StateMake DEF SessionLoaded
  <2>4. QED
    BY <1>1, <1>6, <2>2, <2>3 DEF LoadRead, LoadFails, LoadResolved, ApplyLoad, KeepSession
<1>7. CASE Crash
  <2>1. PICK id \in {pointer.id, NoSession} :
            (id # NoSession => Restorable(id)) /\ state' = Restored(id)
    BY <1>7 DEF Crash
  <2>2. id \in SessionIds \cup {NoSession}
    BY DEF TypedPointer
  <2>3. QED
    BY <2>1, <2>2, RestoredType DEF Restorable
<1>8. CASE Render \/ Exit \/ SaveStep \/ StartPointer \/ PointerLands \/ PointerFails
           \/ UNCHANGED vars \/ \E id \in SessionIds : LoadSession(id)
  BY <1>1, <1>8 DEF Render, Exit, SaveStep, SaveLands, SaveFails, SaveReturns, StartPointer,
     PointerLands, PointerFails, LoadSession, vars
<1>9. QED
  BY <1>2, <1>3, <1>4, <1>5, <1>6, <1>7, <1>8 DEF Next, RunStep, LoadStep

LEMMA RunsStep ==
    ASSUME RunOwned, TypedRuns, TypedSessions, [Next]_vars
    PROVE  runs' \in [Runs -> RunRecord]
<1> USE NothingAssumption
<1>1. /\ runs \in [Runs -> RunRecord] /\ generation \in Nat /\ DoneRun \in RunRecord
      /\ sessionIdRef \in SessionIds \cup {NoSession}
  <2>1. <<>> \in Seq(Message)
    OBVIOUS
  <2>2. QED
    BY <2>1 DEF TypedRuns, TypedSessions, DoneRun, IdleRun, RunRecord
<1>2. CASE SubmitPrompt
  <2>1. NextRun \in Runs
    BY <1>2, NextRunIsNew DEF SubmitPrompt
  <2>2. Seen.conversation \in Seq(EntryType)
    BY StateTypes DEF TypedRuns, Seen, States
  <2>3. Transcript(Seen.conversation) \in Seq(Message)
    BY <2>2, TranscriptType
  <2>4. QED
    BY <1>1, <1>2, <2>1, <2>3, RunMake DEF SubmitPrompt
<1>3. \A r \in Runs : /\ [runs[r] EXCEPT !.started = TRUE] \in RunRecord
                      /\ [runs[r] EXCEPT !.aborted = TRUE] \in RunRecord
  BY <1>1 DEF RunRecord
<1>4. CASE Cancel
  <2>1. activeRun \in Runs
    BY <1>4 DEF Cancel, RunOwned
  <2>2. QED
    BY <1>1, <1>3, <1>4, <2>1 DEF Cancel
<1>5. CASE Exit
  BY <1>1, <1>3, <1>5 DEF Exit, RunOwned
<1>6. ASSUME NEW r \in Runs, Delta(r) \/ SettleRun(r) PROVE runs' \in [Runs -> RunRecord]
  BY <1>1, <1>3, <1>6 DEF Delta, SettleRun
<1>7. CASE Crash
  BY <1>1, <1>7 DEF Crash
<1>8. CASE Render \/ NewSession \/ Clear \/ LoadStep \/ SaveStep \/ StartPointer
           \/ PointerLands \/ PointerFails \/ UNCHANGED vars
           \/ \E id \in SessionIds : LoadSession(id)
  BY <1>1, <1>8 DEF Render, NewSession, Clear, LoadStep, LoadRead, LoadFails, LoadResolved,
     SaveStep, SaveLands, SaveFails, SaveReturns, StartPointer, PointerLands, PointerFails,
     LoadSession, vars, run_vars
<1>9. QED
  BY <1>2, <1>4, <1>5, <1>6, <1>7, <1>8 DEF Next, RunStep

LEMMA TypedRunsStep ==
    ASSUME RunOwned, TypedRuns, TypedSessions, TypedPointer, NoDangling, [Next]_vars
    PROVE  TypedRuns'
<1>1. state' \in States /\ runs' \in [Runs -> RunRecord]
  BY StateStep, RunsStep
<1>2. shuttingDown' \in BOOLEAN
  BY DEF TypedRuns, Next, Render, SubmitPrompt, Cancel, Exit, NewSession, Clear, LoadSession,
     RunStep, Delta, SettleRun, LoadStep, LoadRead, LoadFails, LoadResolved, SaveStep,
     SaveLands, SaveFails, SaveReturns, StartPointer, PointerLands, PointerFails, Crash, vars
<1>3. shown' \in {shown, state, state'}
  BY DEF Next, Render, SubmitPrompt, Cancel, Exit, NewSession, Clear, LoadSession,
     RunStep, Delta, SettleRun, LoadStep, LoadRead, LoadFails, LoadResolved, SaveStep,
     SaveLands, SaveFails, SaveReturns, StartPointer, PointerLands, PointerFails, Crash, vars
<1>4. QED
  BY <1>1, <1>2, <1>3, StateTypes DEF TypedRuns

(***************************************************************************)
(* Session ids: a fresh one is always one of MintedIds.                    *)
(***************************************************************************)
\* The id a session gets is one that has a place on disk.
LEMMA FreshId ==
    ASSUME TypedSessions, IdsLeft, UsedBounded, used.news < MaxNews \/ sessionIdRef = NoSession
    PROVE  minted + 1 \in MintedIds /\ minted + 1 \in SessionIds
<1>0. /\ minted \in Nat /\ used.news \in Nat /\ used.crashes \in Nat
      /\ MaxNews \in Nat /\ MaxCrashes \in Nat
  BY SessionAssumption DEF TypedSessions, Counters
<1>1. minted + 1 <= MaxNews + MaxCrashes + 1
  <2>1. CASE sessionIdRef = NoSession
    BY <1>0, <2>1 DEF IdsLeft, UsedBounded
  <2>2. CASE sessionIdRef # NoSession
    BY <1>0, <2>2 DEF IdsLeft, UsedBounded
  <2>3. QED
    BY <2>1, <2>2
<1>2. QED
  BY <1>1, SessionAssumption DEF TypedSessions, MintedIds, SessionIds

LEMMA Counting ==
    ASSUME used \in Counters, NEW counter \in DOMAIN used, Count(counter)
    PROVE  /\ used' \in Counters
           /\ used'[counter] = used[counter] + 1
           /\ \A other \in DOMAIN used \ {counter} : used'[other] = used[other]
BY DEF Counters, Count

LEMMA CountingCrash ==
    ASSUME used \in Counters, Crash
    PROVE  /\ used' \in Counters /\ used'.crashes = used.crashes + 1
           /\ used'.news = used.news
<1>1. PICK failures \in {used.failures, used.failures + 1} :
          used' = [used EXCEPT !.crashes = @ + 1, !.failures = failures]
  BY DEF Crash
<1>2. used.crashes + 1 \in Nat /\ failures \in Nat
  BY DEF Counters
<1>3. used' = [counter \in {"loads", "news", "clears", "failures", "crashes", "overtaken"} |->
                 IF counter = "failures" THEN failures
                 ELSE IF counter = "crashes" THEN used.crashes + 1 ELSE used[counter]]
  BY <1>1 DEF Counters
<1>4. QED
  BY <1>2, <1>3 DEF Counters

LEMMA IdsStep ==
    ASSUME TypedSessions, TypedPointer, IdsLeft, UsedBounded, [Next]_vars
    PROVE  /\ used' \in Counters /\ minted' \in Nat
           /\ IdsLeft' /\ UsedBounded'
<1> DEFINE Goal == used' \in Counters /\ minted' \in Nat /\ IdsLeft' /\ UsedBounded'
<1>1. /\ used \in Counters /\ minted \in Nat /\ MaxNews \in Nat /\ MaxCrashes \in Nat
      /\ used.news \in Nat /\ used.crashes \in Nat
      /\ used.news <= MaxNews /\ used.crashes <= MaxCrashes
      /\ NoSession \notin SessionIds
  BY SessionAssumption, NothingAssumption DEF TypedSessions, UsedBounded, Counters
<1>2. minted <= used.news + used.crashes + 1
  BY <1>1 DEF IdsLeft
<1>3. sessionIdRef = NoSession => minted <= used.news + used.crashes
  BY <1>1 DEF IdsLeft
<1>4. ASSUME used' \in Counters, minted' \in Nat,
             used'.news <= MaxNews, used'.crashes <= MaxCrashes,
             minted' <= used'.news + used'.crashes + 1,
             sessionIdRef' = NoSession => minted' <= used'.news + used'.crashes
      PROVE  Goal
  <2>1. used'.news \in Nat /\ used'.crashes \in Nat
    BY <1>4 DEF Counters
  <2>2. CASE sessionIdRef' = NoSession
    BY <1>1, <1>4, <2>1, <2>2 DEF IdsLeft, UsedBounded
  <2>3. CASE sessionIdRef' # NoSession
    BY <1>1, <1>4, <2>1, <2>3 DEF IdsLeft, UsedBounded
  <2>4. QED
    BY <2>2, <2>3

<1>5. CASE NewSession
  <2>1. /\ Count("news") /\ used.news < MaxNews
        /\ minted' = minted + 1 /\ sessionIdRef' = minted + 1
    BY <1>5 DEF NewSession
  <2>2. /\ used' \in Counters /\ used'.news = used.news + 1 /\ used'.crashes = used.crashes
    BY <1>1, <2>1, Counting DEF Counters
  <2>3. sessionIdRef' # NoSession
    BY <1>1, <2>1, FreshId
  <2>4. /\ minted' \in Nat /\ used'.news <= MaxNews /\ used'.crashes <= MaxCrashes
        /\ minted' <= used'.news + used'.crashes + 1
    BY <1>1, <1>2, <2>1, <2>2
  <2>5. QED
    BY <1>4, <2>2, <2>3, <2>4
<1>6. ASSUME NEW r \in Runs, SettleRun(r) PROVE Goal
  <2>1. /\ used' = used
        /\ \/ minted' = minted /\ sessionIdRef' = sessionIdRef
           \/ /\ sessionIdRef = NoSession
              /\ minted' = minted + 1 /\ sessionIdRef' = minted + 1
    BY <1>6 DEF SettleRun, NeedsId
  <2>2. CASE minted' = minted /\ sessionIdRef' = sessionIdRef
    BY <1>1, <1>2, <1>3, <1>4, <2>1, <2>2
  <2>3. CASE sessionIdRef = NoSession /\ minted' = minted + 1 /\ sessionIdRef' = minted + 1
    <3>1. sessionIdRef' # NoSession
      BY <1>1, <2>3, FreshId
    <3>2. QED
      BY <1>1, <1>3, <1>4, <2>1, <2>3, <3>1
  <2>4. QED
    BY <2>1, <2>2, <2>3
<1>7. CASE Crash
  <2>1. minted' = minted /\ used.crashes < MaxCrashes
    BY <1>7 DEF Crash
  <2>2. used' \in Counters /\ used'.crashes = used.crashes + 1 /\ used'.news = used.news
    BY <1>1, <1>7, CountingCrash
  <2>3. /\ minted' \in Nat /\ used'.news <= MaxNews /\ used'.crashes <= MaxCrashes
        /\ minted' <= used'.news + used'.crashes
    BY <1>1, <1>2, <2>1, <2>2
  <2>4. minted' <= used'.news + used'.crashes + 1
    BY <1>1, <2>2, <2>3
  <2>5. QED
    BY <1>4, <2>2, <2>3, <2>4
<1>8. ASSUME UNCHANGED minted,
             \/ UNCHANGED used
             \/ \E counter \in {"loads", "clears", "failures", "overtaken"} : Count(counter),
             sessionIdRef' = sessionIdRef \/ sessionIdRef' \in SessionIds
      PROVE  Goal
  <2>1. used' \in Counters /\ used'.news = used.news /\ used'.crashes = used.crashes
    BY <1>1, <1>8, Counting DEF Counters
  <2>2. QED
    BY <1>1, <1>2, <1>3, <1>4, <1>8, <2>1
<1>9. CASE Render \/ SubmitPrompt \/ Cancel \/ Exit \/ Clear \/ SaveStep \/ StartPointer
           \/ PointerLands \/ PointerFails \/ UNCHANGED vars
           \/ (\E r \in Runs : Delta(r)) \/ \E id \in SessionIds : LoadSession(id)
  <2>1. /\ UNCHANGED <<minted, sessionIdRef>>
        /\ UNCHANGED used \/ Count("clears") \/ Count("loads") \/ Count("failures")
    BY <1>9 DEF Render, SubmitPrompt, Cancel, Exit, Clear, SaveStep, SaveLands,
     SaveFails, SaveReturns, StartPointer, PointerLands, PointerFails, Delta, LoadSession,
     vars
  <2>2. QED
    BY <1>8, <2>1
<1>10. ASSUME NEW i \in DOMAIN loads, LoadRead(i) \/ LoadFails(i) \/ LoadResolved(i)
       PROVE  Goal
  <2>1. loads[i].id \in SessionIds
    BY LoadAt
  <2>2. QED
    BY <1>8, <1>10, <2>1 DEF LoadRead, LoadFails, LoadResolved, ApplyLoad, KeepSession
<1>11. QED
  BY <1>5, <1>6, <1>7, <1>9, <1>10 DEF Goal, Next, RunStep, LoadStep

LEMMA SessionStep ==
    ASSUME RunOwned, TypedRuns, TypedSessions, TypedPointer, IdsLeft, UsedBounded, NoDangling,
           [Next]_vars
    PROVE  TypedSessions'
<1> USE NothingAssumption
<1>1. used' \in Counters /\ minted' \in Nat
  BY IdsStep
<1>2. generation' \in Nat
  <2>1. generation' \in {0, generation, generation + 1}
    BY DEF Next, Render, SubmitPrompt, Cancel, Exit, NewSession, Clear, LoadSession, RunStep,
       Delta, SettleRun, LoadStep, LoadRead, LoadFails, LoadResolved, SaveStep, SaveLands,
       SaveFails, SaveReturns, StartPointer, PointerLands, PointerFails, Crash, vars
  <2>2. QED
    BY <2>1 DEF TypedSessions
<1>3. sessionIdRef' \in SessionIds \cup {NoSession}
  <2>1. CASE NewSession
    BY <2>1, FreshId DEF NewSession
  <2>2. ASSUME NEW r \in Runs, SettleRun(r) PROVE sessionIdRef' \in SessionIds \cup {NoSession}
    BY <2>2, FreshId DEF SettleRun, NeedsId, TypedSessions
  <2>3. ASSUME NEW i \in DOMAIN loads, LoadRead(i) \/ LoadFails(i) \/ LoadResolved(i)
        PROVE  sessionIdRef' \in SessionIds \cup {NoSession}
    <3>1. loads[i].id \in SessionIds
      BY LoadAt
    <3>2. QED
      BY <2>3, <3>1 DEF LoadRead, LoadFails, LoadResolved, ApplyLoad, KeepSession,
         TypedSessions
  <2>4. CASE Crash
    BY <2>4 DEF Crash, TypedPointer
  <2>5. QED
    BY <2>1, <2>2, <2>3, <2>4 DEF TypedSessions, Next, Render, SubmitPrompt, Cancel, Exit,
       Clear, LoadSession, RunStep, Delta, LoadStep, SaveStep, SaveLands, SaveFails,
       SaveReturns, StartPointer, PointerLands, PointerFails, vars
<1>4. loads' \in Seq(LoadRecord)
  <2>1. ASSUME NEW id \in SessionIds, LoadSession(id) PROVE loads' \in Seq(LoadRecord)
    <3>1. <<>> \in Seq(Message)
      OBVIOUS
    <3>2. [id |-> id, gen |-> generation + 1, stage |-> "reading", messages |-> <<>>]
              \in LoadRecord
      BY <3>1 DEF LoadRecord, TypedSessions
    <3>3. QED
      BY <2>1, <3>2, AppendElements DEF LoadSession, TypedSessions
  <2>2. ASSUME NEW i \in DOMAIN loads, LoadRead(i) \/ LoadFails(i) \/ LoadResolved(i)
        PROVE  loads' \in Seq(LoadRecord)
    <3>1. loads \in Seq(LoadRecord) /\ loads[i] \in LoadRecord /\ loads[i] \in ToSet(loads)
          /\ i \in 1..Len(loads)
      BY DEF TypedSessions, ToSet
    <3>2. RemoveAt(loads, i) \in Seq(LoadRecord)
      BY <3>1, RemoveAtElements
    <3>3. CASE loads' = RemoveAt(loads, i)
      BY <3>2, <3>3
    <3>4. CASE loads' = [loads EXCEPT ![i].stage = "resolving",
                                      ![i].messages = files[loads[i].id]]
      <4> DEFINE resolving == [loads[i] EXCEPT !.stage = "resolving",
                                               !.messages = files[loads[i].id]]
      <4>1. files[loads[i].id] \in Seq(Message)
        BY <3>1 DEF NoDangling, HasSession, TypedSessions, LoadRecord
      <4>2. resolving \in LoadRecord
        BY <3>1, <4>1 DEF LoadRecord
      <4>3. loads' = [loads EXCEPT ![i] = resolving]
        BY <3>4
      <4> HIDE DEF resolving
      <4>4. QED
        BY <3>1, <4>2, <4>3, ExceptElements
    <3>5. QED
      BY <2>2, <3>3, <3>4 DEF LoadRead, LoadFails, LoadResolved
  <2>3. CASE Crash
    BY <2>3 DEF Crash
  <2>4. QED
    BY <2>1, <2>2, <2>3 DEF TypedSessions, Next, Render, SubmitPrompt, Cancel, Exit, Clear,
       NewSession, SettleRun, RunStep, Delta, LoadStep, SaveStep, SaveLands, SaveFails,
       SaveReturns, StartPointer, PointerLands, PointerFails, vars
<1>5. saves' \in Seq(SaveRecord)
  <2>1. CASE NewSession
    <3>1. <<>> \in Seq(EntryType)
      OBVIOUS
    <3>2. Transcript(SessionCreated.conversation) \in Seq(Message)
      BY <3>1, TranscriptType DEF SessionCreated
    <3>3. minted + 1 \in SessionIds
      BY <2>1, FreshId DEF NewSession
    <3>4. Save("create", minted + 1, generation + 1, Transcript(SessionCreated.conversation))
              \in SaveRecord
      BY <3>2, <3>3 DEF Save, SaveRecord, TypedSessions
    <3>5. QED
      BY <2>1, <3>4, AppendElements DEF NewSession, TypedSessions
  <2>2. ASSUME NEW r \in Runs, SettleRun(r) PROVE saves' \in Seq(SaveRecord)
    <3>1. CASE saves' = saves
      BY <3>1 DEF TypedSessions
    <3>2. CASE sessionIdRef' = (IF NeedsId THEN minted + 1 ELSE sessionIdRef)
               /\ AutoSave(r, sessionIdRef')
      <4>1. sessionIdRef' \in SessionIds
        BY <3>2, FreshId DEF NeedsId, TypedSessions
      <4>2. runs[r].base \in Seq(Message) /\ runs[r].gen \in Nat
        BY DEF TypedRuns, RunRecord
      <4>3. Say(r, "user") \in Message /\ Say(r, "assistant") \in Message
        BY DEF Say, Message
      <4>4. Exchange(r) \in Seq(Message)
        BY <4>2, <4>3, PairIsSeq, ConcatProperties DEF Exchange
      <4>5. Save("autosave", sessionIdRef', runs[r].gen, Exchange(r)) \in SaveRecord
        BY <4>1, <4>2, <4>4 DEF Save, SaveRecord
      <4>6. QED
        BY <3>2, <4>5, AppendElements DEF AutoSave, TypedSessions
    <3>3. QED
      BY <2>2, <3>1, <3>2 DEF SettleRun
  <2>3. ASSUME NEW i \in DOMAIN saves, SaveLands(i) \/ SaveFails(i) \/ SaveReturns(i)
        PROVE  saves' \in Seq(SaveRecord)
    <3>1. saves \in Seq(SaveRecord) /\ saves[i] \in SaveRecord /\ i \in 1..Len(saves)
      BY DEF TypedSessions
    <3>2. RemoveAt(saves, i) \in Seq(SaveRecord)
      BY <3>1, RemoveAtElements
    <3>3. ASSUME NEW stage \in {"ok", "failed"}, saves' = [saves EXCEPT ![i].stage = stage]
          PROVE  saves' \in Seq(SaveRecord)
      <4> DEFINE save == [saves[i] EXCEPT !.stage = stage]
      <4>1. save \in SaveRecord
        BY <3>1 DEF SaveRecord
      <4>2. saves' = [saves EXCEPT ![i] = save]
        BY <3>3
      <4> HIDE DEF save
      <4>3. QED
        BY <3>1, <4>1, <4>2, ExceptElements
    <3>4. QED
      BY <2>3, <3>2, <3>3 DEF SaveLands, SaveFails, SaveReturns
  <2>4. CASE Crash
    BY <2>4 DEF Crash
  <2>5. QED
    BY <2>1, <2>2, <2>3, <2>4 DEF TypedSessions, Next, Render, SubmitPrompt, Cancel, Exit,
       Clear, LoadSession, RunStep, Delta, LoadStep, LoadRead, LoadFails, LoadResolved,
       SaveStep, StartPointer, PointerLands, PointerFails, vars, save_vars
<1>6. files' \in [SessionIds -> Seq(Message) \cup {NoFile}]
  <2>1. ASSUME NEW i \in DOMAIN saves, SaveLands(i)
        PROVE  files' \in [SessionIds -> Seq(Message) \cup {NoFile}]
    <3>1. saves[i].messages \in Seq(Message)
      BY SaveAt
    <3>2. QED
      BY <2>1, <3>1 DEF SaveLands, TypedSessions
  <2>2. QED
    BY <2>1 DEF TypedSessions, Next, Render, SubmitPrompt, Cancel, Exit, NewSession, Clear,
       LoadSession, RunStep, Delta, SettleRun, LoadStep, LoadRead, LoadFails, LoadResolved,
       SaveStep, SaveFails, SaveReturns, StartPointer, PointerLands, PointerFails, Crash,
       vars, save_vars
<1>7. QED
  BY <1>1, <1>2, <1>3, <1>4, <1>5, <1>6 DEF TypedSessions

(***************************************************************************)
(* The pointer: nothing happens to its queue, a write for the current      *)
(* generation joins it, or the first one leaves it.                        *)
(***************************************************************************)
PointerStays ==
    /\ UNCHANGED <<pointerQueue, pointer>>
    /\ pointerBusy' \in BOOLEAN /\ (pointerBusy' => pointerQueue # <<>>)
    /\ generation' \in {generation, generation + 1}
    /\ screen' \in {screen, generation'}

PointerAsked ==
    /\ \E id \in SessionIds :
           /\ HasSession(id)
           /\ pointerQueue' = Append(pointerQueue, [id |-> id, gen |-> generation])
    /\ UNCHANGED <<pointer, pointerBusy, generation>>
    /\ screen' \in {screen, generation}

PointerLeaves ==
    /\ pointerQueue # <<>>
    /\ pointerQueue' = Tail(pointerQueue)
    /\ pointer' \in {pointer, Head(pointerQueue)}
    /\ pointerBusy' = FALSE
    /\ UNCHANGED <<generation, screen>>

LEMMA PointerMoves ==
    ASSUME TypedSessions, TypedPointer, NoDangling, [Next]_vars
    PROVE  PointerStays \/ PointerAsked \/ PointerLeaves \/ Crash
<1> DEFINE Goal == PointerStays \/ PointerAsked \/ PointerLeaves \/ Crash
<1>1. CASE StartPointer \/ PointerLands \/ PointerFails
  BY <1>1 DEF StartPointer, PointerLands, PointerFails, AfterStale, PointerStays,
     PointerLeaves, TypedPointer
<1>2. ASSUME NEW i \in DOMAIN loads, LoadRead(i) \/ LoadFails(i) \/ LoadResolved(i)
      PROVE  Goal
  <2>1. loads[i].id \in SessionIds /\ HasSession(loads[i].id)
    BY LoadAt DEF NoDangling
  <2>2. QED
    BY <1>2, <2>1 DEF LoadRead, LoadFails, LoadResolved, ApplyLoad, KeepSession, MayApply,
       Fresh, PointerStays, PointerAsked, pointer_vars, TypedPointer
<1>3. ASSUME NEW i \in DOMAIN saves, SaveLands(i) \/ SaveFails(i) \/ SaveReturns(i)
      PROVE  Goal
  <2>1. saves[i].id \in SessionIds /\ (saves[i].stage = "ok" => HasSession(saves[i].id))
    BY SaveAt DEF NoDangling
  <2>2. QED
    BY <1>3, <2>1 DEF SaveLands, SaveFails, SaveReturns, Saved, Fresh, PointerStays,
       PointerAsked, pointer_vars, TypedPointer
<1>4. CASE Render \/ SubmitPrompt \/ Cancel \/ Exit \/ NewSession \/ Clear \/ RunStep
           \/ UNCHANGED vars \/ \E id \in SessionIds : LoadSession(id)
  BY <1>4 DEF Render, SubmitPrompt, Cancel, Exit, NewSession, Clear, RunStep, Delta,
     SettleRun, LoadSession, vars, pointer_vars, PointerStays, TypedPointer
<1>5. QED
  BY <1>1, <1>2, <1>3, <1>4 DEF Next, LoadStep, SaveStep

LEMMA PointerStep ==
    ASSUME TypedSessions, TypedPointer, NoDangling, [Next]_vars
    PROVE  TypedPointer'
<1>1. CASE PointerStays
  BY <1>1 DEF PointerStays, TypedPointer, TypedSessions
<1>2. CASE PointerAsked
  <2>1. PICK id \in SessionIds :
            pointerQueue' = Append(pointerQueue, [id |-> id, gen |-> generation])
    BY <1>2 DEF PointerAsked
  <2>2. [id |-> id, gen |-> generation] \in PointerWrite
    BY DEF PointerWrite, TypedSessions
  <2>3. pointerQueue' \in Seq(PointerWrite) /\ pointerQueue' # <<>>
    BY <2>1, <2>2, AppendElements DEF TypedPointer
  <2>4. QED
    BY <1>2, <2>3 DEF PointerAsked, TypedPointer, TypedSessions
<1>3. CASE PointerLeaves
  <2>1. Head(pointerQueue) \in PointerWrite /\ Tail(pointerQueue) \in Seq(PointerWrite)
    BY <1>3, TailElements DEF PointerLeaves, TypedPointer
  <2>2. PointerWrite \subseteq [id : SessionIds \cup {NoSession}, gen : Nat]
    BY DEF PointerWrite
  <2>3. QED
    BY <1>3, <2>1, <2>2 DEF PointerLeaves, TypedPointer
<1>4. CASE Crash
  <2>1. PICK id \in {pointer.id, NoSession} : pointer' = [id |-> id, gen |-> 0]
    BY <1>4 DEF Crash
  <2>2. pointer' \in [id : SessionIds \cup {NoSession}, gen : Nat]
    <3>1. pointer.id \in SessionIds \cup {NoSession}
      BY DEF TypedPointer
    <3>2. QED
      BY <2>1, <3>1
  <2>3. pointerQueue' = <<>> /\ pointerBusy' = FALSE /\ screen' = 0
    BY <1>4 DEF Crash
  <2>4. pointerBusy' \in BOOLEAN /\ (pointerBusy' => pointerQueue' # <<>>)
    BY <2>3, Zenon
  <2>5. <<>> \in Seq(PointerWrite) /\ 0 \in Nat
    OBVIOUS
  <2>6. QED
    BY <2>2, <2>3, <2>4, <2>5, Zenon DEF TypedPointer
<1>5. QED
  BY <1>1, <1>2, <1>3, <1>4, PointerMoves

LEMMA OrderedAppend ==
    ASSUME NEW writes \in Seq(PointerWrite), NEW low \in Nat, NEW high \in Nat,
           low <= high, Ordered(writes, low, high),
           NEW write \in PointerWrite, write.gen = high
    PROVE  Ordered(Append(writes, write), low, high)
<1> DEFINE longer == Append(writes, write)
<1>1. /\ DOMAIN longer = 1..(Len(writes) + 1) /\ DOMAIN writes = 1..Len(writes)
      /\ Len(writes) \in Nat
      /\ longer[Len(writes) + 1] = write
      /\ \A j \in 1..Len(writes) : longer[j] = writes[j]
  OBVIOUS
<1> HIDE DEF longer
<1>2. \A i \in DOMAIN writes : writes[i].gen \in Nat
  <2>1. \A i \in DOMAIN writes : writes[i] \in PointerWrite
    BY ElementAt
  <2>2. QED
    BY <2>1 DEF PointerWrite
<1>3. \A i \in DOMAIN longer : i \in DOMAIN writes \/ (i = Len(writes) + 1)
  BY <1>1
<1>4. QED
  BY <1>1, <1>2, <1>3 DEF Ordered, longer

LEMMA OrderedTail ==
    ASSUME NEW writes \in Seq(PointerWrite), writes # <<>>, NEW low \in Nat, NEW high \in Nat,
           Ordered(writes, low, high)
    PROVE  /\ low <= Head(writes).gen /\ Head(writes).gen <= high
           /\ Ordered(Tail(writes), low, high)
           /\ Ordered(Tail(writes), Head(writes).gen, high)
<1> DEFINE rest == Tail(writes)
<1>1. /\ DOMAIN rest = 1..(Len(writes) - 1) /\ DOMAIN writes = 1..Len(writes)
      /\ Len(writes) \in Nat /\ Len(writes) > 0
      /\ Head(writes) = writes[1]
      /\ \A j \in 1..(Len(writes) - 1) : rest[j] = writes[j + 1]
  OBVIOUS
<1> HIDE DEF rest
<1>2. \A i \in DOMAIN rest : i + 1 \in DOMAIN writes /\ rest[i] = writes[i + 1] /\ 1 < i + 1
  BY <1>1
<1>3. 1 \in DOMAIN writes
  BY <1>1
<1>4. \A i, j \in DOMAIN rest : i < j => i + 1 < j + 1
  BY <1>1
<1>5. QED
  BY <1>1, <1>2, <1>3, <1>4 DEF Ordered, rest

LEMMA OrderStep ==
    ASSUME TypedSessions, TypedPointer, NoDangling, InOrder, [Next]_vars
    PROVE  InOrder' /\ (Crash \/ (screen' >= screen /\ pointer'.gen >= pointer.gen))
<1>1. /\ generation \in Nat /\ screen \in Nat /\ pointer.gen \in Nat
      /\ pointerQueue \in Seq(PointerWrite)
  BY DEF TypedSessions, TypedPointer
<1>2. CASE PointerStays
  <2>1. \A i \in DOMAIN pointerQueue : pointerQueue[i].gen \in Nat
    <3>1. \A i \in DOMAIN pointerQueue : pointerQueue[i] \in PointerWrite
      BY <1>1, ElementAt
    <3>2. QED
      BY <3>1 DEF PointerWrite
  <2>2. generation' \in Nat /\ generation <= generation'
    BY <1>1, <1>2 DEF PointerStays
  <2>3. Ordered(pointerQueue, pointer.gen, generation')
    BY <1>1, <2>1, <2>2 DEF InOrder, Ordered
  <2>4. QED
    BY <1>1, <1>2, <2>2, <2>3 DEF PointerStays, InOrder, Ordered
<1>3. CASE PointerAsked
  <2>1. PICK id \in SessionIds :
            pointerQueue' = Append(pointerQueue, [id |-> id, gen |-> generation])
    BY <1>3 DEF PointerAsked
  <2>2. [id |-> id, gen |-> generation] \in PointerWrite
    BY <1>1 DEF PointerWrite
  <2>3. Ordered(pointerQueue', pointer.gen, generation)
    BY <1>1, <2>1, <2>2, OrderedAppend DEF InOrder
  <2>4. QED
    BY <1>1, <1>3, <2>3 DEF PointerAsked, InOrder, Ordered
<1>4. CASE PointerLeaves
  <2>1. /\ pointer.gen <= Head(pointerQueue).gen /\ Head(pointerQueue).gen <= generation
        /\ Ordered(Tail(pointerQueue), pointer.gen, generation)
        /\ Ordered(Tail(pointerQueue), Head(pointerQueue).gen, generation)
    BY <1>1, <1>4, OrderedTail DEF PointerLeaves, InOrder
  <2>2. QED
    BY <1>1, <1>4, <2>1 DEF PointerLeaves, InOrder, Ordered
<1>5. CASE Crash
  <2>1. generation' = 0 /\ pointer'.gen = 0 /\ pointerQueue' = <<>> /\ screen' = 0
    BY <1>5 DEF Crash
  <2>2. QED
    BY <1>5, <2>1 DEF InOrder, Ordered
<1>6. QED
  BY <1>2, <1>3, <1>4, <1>5, PointerMoves

(***************************************************************************)
(* What exists on disk stays there, and what is asked for existed.         *)
(***************************************************************************)
LEMMA FilesStay ==
    ASSUME TypedSessions, [Next]_vars, NEW id \in SessionIds, HasSession(id)
    PROVE  files'[id] # NoFile
<1>1. ASSUME NEW i \in DOMAIN saves, SaveLands(i) PROVE files'[id] # NoFile
  <2>1. saves[i].messages # NoFile
    BY SaveAt, NothingAssumption
  <2>2. QED
    BY <1>1, <2>1 DEF SaveLands, TypedSessions, HasSession
<1>2. QED
  BY <1>1 DEF HasSession, Next, Render, SubmitPrompt, Cancel, Exit, NewSession, Clear,
     LoadSession, RunStep, Delta, SettleRun, LoadStep, LoadRead, LoadFails, LoadResolved,
     SaveStep, SaveFails, SaveReturns, StartPointer, PointerLands, PointerFails, Crash, vars,
     save_vars

LEMMA LoadsExist ==
    ASSUME TypedSessions, NoDangling, [Next]_vars
    PROVE  \A load \in ToSet(loads') : load.id \in SessionIds /\ HasSession(load.id)
<1> DEFINE Goal == \A load \in ToSet(loads') : load.id \in SessionIds /\ HasSession(load.id)
<1>1. loads \in Seq(LoadRecord)
      /\ \A load \in ToSet(loads) : load.id \in SessionIds /\ HasSession(load.id)
  <2>1. loads \in Seq(LoadRecord)
    BY DEF TypedSessions
  <2>2. ToSet(loads) \subseteq LoadRecord
    BY <2>1, ElementAt DEF ToSet
  <2>3. QED
    BY <2>1, <2>2 DEF NoDangling, LoadRecord
<1>2. ASSUME NEW id \in SessionIds, LoadSession(id) PROVE Goal
  <2> DEFINE new == [id |-> id, gen |-> generation + 1, stage |-> "reading",
                     messages |-> <<>>]
  <2>1. new \in LoadRecord /\ new.id = id
    <3>1. <<>> \in Seq(Message)
      OBVIOUS
    <3>2. QED
      BY <3>1 DEF LoadRecord, TypedSessions
  <2>2. loads' = Append(loads, new) /\ HasSession(id)
    BY <1>2 DEF LoadSession, HasSession
  <2> HIDE DEF new
  <2>3. ToSet(loads') = ToSet(loads) \cup {new}
    BY <1>1, <2>1, <2>2, AppendElements
  <2>4. QED
    BY <1>1, <2>1, <2>2, <2>3
<1>3. ASSUME NEW i \in DOMAIN loads, LoadRead(i) \/ LoadFails(i) \/ LoadResolved(i)
      PROVE  Goal
  <2>1. loads[i] \in LoadRecord /\ loads[i] \in ToSet(loads) /\ i \in 1..Len(loads)
    BY LoadAt
  <2>2. CASE loads' = RemoveAt(loads, i)
    BY <1>1, <2>1, <2>2, RemoveAtElements
  <2>3. CASE loads' = [loads EXCEPT ![i].stage = "resolving",
                                    ![i].messages = files[loads[i].id]]
    <3> DEFINE resolving == [loads[i] EXCEPT !.stage = "resolving",
                                             !.messages = files[loads[i].id]]
    <3>1. files[loads[i].id] \in Seq(Message)
      BY <2>1 DEF NoDangling, HasSession, TypedSessions, LoadRecord
    <3>2. resolving \in LoadRecord /\ resolving.id = loads[i].id
      BY <2>1, <3>1 DEF LoadRecord
    <3>3. loads' = [loads EXCEPT ![i] = resolving]
      BY <2>3
    <3> HIDE DEF resolving
    <3>4. ToSet(loads') \subseteq ToSet(loads) \cup {resolving}
      BY <1>1, <2>1, <3>2, <3>3, ExceptElements
    <3>5. QED
      BY <1>1, <2>1, <3>2, <3>4
  <2>4. QED
    BY <1>3, <2>2, <2>3 DEF LoadRead, LoadFails, LoadResolved
<1>4. CASE Crash
  BY <1>4 DEF Crash, ToSet
<1>5. QED
  BY <1>1, <1>2, <1>3, <1>4 DEF Next, Render, SubmitPrompt, Cancel, Exit, Clear,
     NewSession, SettleRun, RunStep, Delta, LoadStep, SaveStep, SaveLands, SaveFails,
     SaveReturns, StartPointer, PointerLands, PointerFails, vars

LEMMA SavesExist ==
    ASSUME TypedSessions, TypedSessions', NoDangling, [Next]_vars
    PROVE  \A save \in ToSet(saves') : save.stage = "ok" => files'[save.id] # NoFile
<1> DEFINE Goal == \A save \in ToSet(saves') : save.stage = "ok" => files'[save.id] # NoFile
<1>1. /\ saves \in Seq(SaveRecord)
      /\ \A save \in ToSet(saves) : save \in SaveRecord /\ save.id \in SessionIds
  <2>1. saves \in Seq(SaveRecord)
    BY DEF TypedSessions
  <2>2. ToSet(saves) \subseteq SaveRecord
    BY <2>1, ElementAt DEF ToSet
  <2>3. QED
    BY <2>1, <2>2 DEF SaveRecord
<1>2. \A save \in ToSet(saves) : save.stage = "ok" => files'[save.id] # NoFile
  BY <1>1, FilesStay DEF NoDangling
<1>3. ASSUME NEW save, save.stage = "writing", saves' = Append(saves, save),
             saves' \in Seq(SaveRecord)
      PROVE  Goal
  <2>1. ToSet(saves') \subseteq ToSet(saves) \cup {save}
    BY <1>1, <1>3 DEF ToSet
  <2>2. QED
    BY <1>2, <1>3, <2>1
<1>4. ASSUME NEW i \in DOMAIN saves, SaveLands(i) \/ SaveFails(i) \/ SaveReturns(i)
      PROVE  Goal
  <2>1. saves[i] \in SaveRecord /\ saves[i] \in ToSet(saves) /\ i \in 1..Len(saves)
    BY SaveAt
  <2>2. CASE saves' = RemoveAt(saves, i)
    BY <1>1, <1>2, <2>1, <2>2, RemoveAtElements
  <2>3. ASSUME NEW stage \in {"ok", "failed"}, saves' = [saves EXCEPT ![i].stage = stage],
               stage = "ok" => files'[saves[i].id] # NoFile
        PROVE  Goal
    <3> DEFINE save == [saves[i] EXCEPT !.stage = stage]
    <3>1. save \in SaveRecord /\ save.id = saves[i].id /\ save.stage = stage
      BY <2>1 DEF SaveRecord
    <3>2. saves' = [saves EXCEPT ![i] = save]
      BY <2>3
    <3> HIDE DEF save
    <3>3. ToSet(saves') \subseteq ToSet(saves) \cup {save}
      BY <1>1, <3>1, <3>2, ExceptElements
    <3>4. QED
      BY <1>2, <2>3, <3>1, <3>3
  <2>4. CASE SaveLands(i)
    <3>1. saves[i].messages # NoFile /\ saves[i].id \in SessionIds
      BY SaveAt, NothingAssumption
    <3>2. files'[saves[i].id] # NoFile
      BY <2>4, <3>1 DEF SaveLands, TypedSessions
    <3>3. QED
      BY <2>3, <2>4, <3>2 DEF SaveLands
  <2>5. QED
    BY <1>4, <2>2, <2>3, <2>4 DEF SaveFails, SaveReturns
<1>5. CASE Crash
  BY <1>5 DEF Crash, ToSet
<1>6. CASE NewSession
  <2>1. saves' = Append(saves, Save("create", minted + 1, generation + 1,
                                    Transcript(SessionCreated.conversation)))
    BY <1>6 DEF NewSession
  <2>2. QED
    BY <1>3, <2>1 DEF Save, TypedSessions
<1>7. ASSUME NEW r \in Runs, SettleRun(r) PROVE Goal
  <2>1. saves' = saves
        \/ saves' = Append(saves, Save("autosave", sessionIdRef', runs[r].gen, Exchange(r)))
    BY <1>7 DEF SettleRun, AutoSave
  <2>2. QED
    BY <1>2, <1>3, <2>1 DEF Save, TypedSessions
<1>8. CASE Render \/ SubmitPrompt \/ Cancel \/ Exit \/ Clear \/ StartPointer
           \/ PointerLands \/ PointerFails \/ LoadStep \/ UNCHANGED vars
           \/ (\E r \in Runs : Delta(r)) \/ \E id \in SessionIds : LoadSession(id)
  <2>1. saves' = saves
    BY <1>8 DEF Render, SubmitPrompt, Cancel, Exit, Clear, StartPointer, PointerLands,
       PointerFails, LoadStep, LoadRead, LoadFails, LoadResolved, Delta, LoadSession, vars,
       save_vars
  <2>2. QED
    BY <1>2, <2>1
<1>9. QED
  BY <1>4, <1>5, <1>6, <1>7, <1>8 DEF Next, RunStep, SaveStep

LEMMA NoDanglingStep ==
    ASSUME TypedSessions, TypedSessions', TypedPointer, NoDangling, [Next]_vars
    PROVE  NoDangling'
<1>1. /\ pointer.id \in SessionIds \cup {NoSession}
      /\ pointerQueue \in Seq(PointerWrite)
      /\ \A write \in ToSet(pointerQueue) : write.id \in SessionIds
  <2>1. pointer.id \in SessionIds \cup {NoSession} /\ pointerQueue \in Seq(PointerWrite)
    BY DEF TypedPointer
  <2>2. ToSet(pointerQueue) \subseteq PointerWrite
    BY <2>1, ElementAt DEF ToSet
  <2>3. QED
    BY <2>1, <2>2 DEF PointerWrite
<1>2. pointer.id # NoSession => files'[pointer.id] # NoFile
  BY <1>1, FilesStay DEF NoDangling
<1>3. \A write \in ToSet(pointerQueue) : files'[write.id] # NoFile
  BY <1>1, FilesStay DEF NoDangling
<1>4. /\ pointer'.id # NoSession => files'[pointer'.id] # NoFile
      /\ \A write \in ToSet(pointerQueue') : files'[write.id] # NoFile
  <2>1. CASE PointerStays
    BY <1>2, <1>3, <2>1 DEF PointerStays
  <2>2. CASE PointerAsked
    <3>1. PICK id \in SessionIds :
              HasSession(id) /\ pointerQueue' = Append(pointerQueue, [id |-> id, gen |-> generation])
      BY <2>2 DEF PointerAsked
    <3>2. [id |-> id, gen |-> generation] \in PointerWrite
      BY DEF PointerWrite, TypedSessions
    <3>3. ToSet(pointerQueue') = ToSet(pointerQueue) \cup {[id |-> id, gen |-> generation]}
      BY <1>1, <3>1, <3>2, AppendElements
    <3>4. files'[id] # NoFile
      BY <3>1, FilesStay
    <3>5. QED
      BY <1>2, <1>3, <2>2, <3>3, <3>4 DEF PointerAsked
  <2>3. CASE PointerLeaves
    <3>1. Head(pointerQueue) \in ToSet(pointerQueue)
          /\ ToSet(Tail(pointerQueue)) \subseteq ToSet(pointerQueue)
      BY <1>1, <2>3, TailElements DEF PointerLeaves
    <3>2. QED
      BY <1>2, <1>3, <2>3, <3>1 DEF PointerLeaves
  <2>4. CASE Crash
    <3>1. PICK id \in {pointer.id, NoSession} : pointer' = [id |-> id, gen |-> 0]
      BY <2>4 DEF Crash
    <3>2. pointerQueue' = <<>>
      BY <2>4 DEF Crash
    <3>3. QED
      BY <1>2, <3>1, <3>2 DEF ToSet
  <2>5. QED
    BY <2>1, <2>2, <2>3, <2>4, PointerMoves
<1>5. \A load \in ToSet(loads') : files'[load.id] # NoFile
  BY LoadsExist, FilesStay
<1>6. QED
  BY <1>4, <1>5, SavesExist DEF NoDangling, HasSession

(***************************************************************************)
(* The start.                                                              *)
(***************************************************************************)
LEMMA InitIInv == Init => IInv
<1> SUFFICES ASSUME Init PROVE IInv
  OBVIOUS
<1> USE NothingAssumption
<1>1. PICK id \in Stored \cup {NoSession} :
          LET restored == IF Restorable(id) THEN id ELSE NoSession IN
          /\ pointer = [id |-> restored, gen |-> 0]
          /\ sessionIdRef = restored
          /\ state = Restored(restored)
          /\ shown = Restored(restored)
  BY DEF Init
<1> DEFINE restored == IF Restorable(id) THEN id ELSE NoSession
<1>2. /\ pointer = [id |-> restored, gen |-> 0] /\ sessionIdRef = restored
      /\ state = Restored(restored) /\ shown = Restored(restored)
      /\ restored \in SessionIds \cup {NoSession}
      /\ restored # NoSession => files[restored] # NoFile
  BY <1>1 DEF Restorable, SessionIds
<1> HIDE DEF restored
<1>3. files \in [SessionIds -> Seq(Message) \cup {NoFile}]
  <2>1. \A s \in Stored : <<Say(s, "user")>> \in Seq(Message)
    <3>1. \A s \in Stored : Say(s, "user") \in Message
      BY DEF Say, Message
    <3>2. QED
      BY <3>1
  <2>2. QED
    BY <2>1 DEF Init
<1>4. /\ activeRun = NoRun /\ generation = 0 /\ minted = 0 /\ screen = 0
      /\ loads = <<>> /\ saves = <<>> /\ pointerQueue = <<>> /\ pointerBusy = FALSE
      /\ shuttingDown = FALSE
      /\ runs = [r \in Runs |-> IdleRun]
      /\ used = [loads |-> 0, news |-> 0, clears |-> 0, failures |-> 0, crashes |-> 0,
                 overtaken |-> 0]
  BY DEF Init
<1>5. RunOwned /\ ExchangeShown
  BY <1>4 DEF RunOwned, ExchangeShown, IdleRun
<1>6. used \in Counters /\ used.news = 0 /\ used.crashes = 0
  BY <1>4 DEF Counters
<1>7. TypedSessions
  BY <1>2, <1>3, <1>4, <1>6 DEF TypedSessions
<1>8. IdsLeft /\ UsedBounded
  BY <1>4, <1>6, SessionAssumption DEF IdsLeft, UsedBounded
<1>9. TypedPointer
  <2>1. pointerBusy \in BOOLEAN /\ (pointerBusy => pointerQueue # <<>>)
    BY <1>4, Zenon
  <2>2. /\ pointerQueue \in Seq(PointerWrite) /\ screen \in Nat
        /\ pointer \in [id : SessionIds \cup {NoSession}, gen : Nat]
    BY <1>2, <1>4
  <2>3. QED
    BY <2>1, <2>2, Zenon DEF TypedPointer
<1>10. NoDangling
  BY <1>2, <1>4 DEF NoDangling, HasSession, ToSet
<1>11. InOrder
  BY <1>2, <1>4 DEF InOrder, Ordered
<1>12. TypedRuns
  <2>1. Restored(restored) \in States
    BY <1>2, <1>7, RestoredType
  <2>2. IdleRun \in RunRecord
    <3>1. <<>> \in Seq(Message)
      OBVIOUS
    <3>2. QED
      BY <3>1 DEF IdleRun, RunRecord
  <2>3. QED
    BY <1>2, <1>4, <2>1, <2>2, StateTypes DEF TypedRuns
<1>13. QED
  BY <1>5, <1>7, <1>8, <1>9, <1>10, <1>11, <1>12 DEF IInv

LEMMA Inductive == IInv /\ [Next]_vars => IInv'
<1> SUFFICES ASSUME IInv, [Next]_vars PROVE IInv'
  OBVIOUS
<1>1. /\ RunOwned /\ ExchangeShown /\ TypedRuns /\ TypedSessions /\ IdsLeft
      /\ UsedBounded /\ TypedPointer /\ NoDangling /\ InOrder
  BY DEF IInv
<1>2. RunOwned' /\ ExchangeShown' /\ TypedRuns'
  BY <1>1, RunOwnedStep, ExchangeShownStep, TypedRunsStep
<1>3. TypedSessions'
  BY <1>1, SessionStep
<1>4. IdsLeft' /\ UsedBounded'
  BY <1>1, IdsStep
<1>5. TypedPointer' /\ InOrder'
  BY <1>1, PointerStep, OrderStep
<1>6. NoDangling'
  BY <1>1, <1>3, NoDanglingStep
<1>7. QED
  BY <1>2, <1>3, <1>4, <1>5, <1>6 DEF IInv

LEMMA Invariant == Spec => []IInv
<1>1. Init => IInv
  BY InitIInv
<1>2. IInv /\ [Next]_vars => IInv'
  BY Inductive
<1>3. QED
  BY <1>1, <1>2, PTL DEF Spec

(***************************************************************************)
(* What App.tsx blocks while a run is active, it blocks in every order of  *)
(* keys, renders and late results.  A load that claimed its generation     *)
(* before the prompt and ends under the run is turned away, so the session *)
(* saved to is the one the prompt was sent in, and the exchange is still   *)
(* the end of the conversation.                                            *)
(***************************************************************************)
THEOREM RunKeeps == Spec => []RunKeepsSession
<1>1. IInv => RunKeepsSession
  BY DEF IInv, RunOwned, ExchangeShown, RunKeepsSession
<1>2. QED
  BY <1>1, Invariant, PTL

(***************************************************************************)
(* Whenever the process dies, lastSessionId names a session that is on     *)
(* disk: the pointer follows a save that succeeded or a file that was      *)
(* read, and nothing removes a file.                                       *)
(***************************************************************************)
THEOREM PointerExists == Spec => []NoDanglingPointer
<1>1. IInv => NoDanglingPointer
  BY DEF IInv, NoDangling, HasSession, NoDanglingPointer
<1>2. QED
  BY <1>1, Invariant, PTL

(***************************************************************************)
(* Loads, saves and pointer writes that end late never take the screen or  *)
(* the pointer back to a generation the user has left.                     *)
(***************************************************************************)
THEOREM LateYield == Spec => LateResultsYield
<1>1. ASSUME IInv, [Next]_vars
      PROVE  used'.crashes = used.crashes =>
                 screen' >= screen /\ pointer'.gen >= pointer.gen
  <2>1. TypedSessions /\ TypedPointer /\ NoDangling /\ InOrder
    BY <1>1 DEF IInv
  <2>2. CASE Crash
    <3>1. used'.crashes = used.crashes + 1 /\ used.crashes \in Nat
      BY <2>1, <2>2, CountingCrash DEF TypedSessions, Counters
    <3>2. QED
      BY <3>1
  <2>3. QED
    BY <1>1, <2>1, <2>2, OrderStep
<1>2. QED
  BY <1>1, Invariant, PTL DEF Spec, LateResultsYield

(***************************************************************************)
(* Sessions stay apart.  A run belongs to a session when a message of it   *)
(* is in the session's file, in a save or a load of it that is under way,  *)
(* or on the screen while the session is the one shown; what no session    *)
(* has yet belongs to none.  With the render in step with the state, a run *)
(* belongs to one session only and a run not yet started to none.          *)
(***************************************************************************)
Mentions(messages, run) == \E m \in ToSet(messages) : m.run = run

InFile(run, id) == id \in SessionIds /\ HasSession(id) /\ Mentions(files[id], run)
InSave(run, id) == \E save \in ToSet(saves) : save.id = id /\ Mentions(save.messages, run)
InLoad(run, id) == \E load \in ToSet(loads) : load.id = id /\ Mentions(load.messages, run)
OnScreen(run) ==
    \/ Mentions(state.conversation, run)
    \/ activeRun \in Runs /\ (run = activeRun \/ Mentions(runs[activeRun].base, run))

Belongs(run, id) ==
    InFile(run, id) \/ InSave(run, id) \/ InLoad(run, id) \/ (sessionIdRef = id /\ OnScreen(run))

OneOwner ==
    \A run \in Runs \cup Stored : \A one, other \in SessionIds \cup {NoSession} :
        Belongs(run, one) /\ Belongs(run, other) => one = other

NewRunsFree ==
    \A run \in Runs : \A id \in SessionIds \cup {NoSession} :
        runs[run].stage = "new" => ~Belongs(run, id)

LEMMA MentionsDisplay ==
    ASSUME NEW messages, NEW run
    PROVE  Mentions(Display(messages), run) => Mentions(messages, run)
BY DEF Mentions, Display, Entry, ToSet

LEMMA MentionsTranscript ==
    ASSUME NEW conversation, NEW run
    PROVE  Mentions(Transcript(conversation), run) => Mentions(conversation, run)
BY DEF Mentions, Transcript, Say, ToSet

LEMMA MentionsPair ==
    ASSUME NEW S, NEW s \in Seq(S), NEW one \in S, NEW two \in S, NEW run,
           Mentions(s \o <<one, two>>, run)
    PROVE  Mentions(s, run) \/ run = one.run \/ run = two.run
<1>1. PICK i \in DOMAIN (s \o <<one, two>>) : (s \o <<one, two>>)[i].run = run
  BY DEF Mentions, ToSet
<1> DEFINE pair == <<one, two>>
<1>2. pair \in Seq(S) /\ Len(pair) = 2 /\ pair[1] = one /\ pair[2] = two
  BY PairIsSeq
<1> HIDE DEF pair
<1>3. i \in 1..(Len(s) + 2) /\ (s \o pair)[i].run = run
      /\ (s \o pair)[i] = IF i <= Len(s) THEN s[i] ELSE pair[i - Len(s)]
  BY <1>1, <1>2 DEF pair
<1>4. CASE i <= Len(s)
  <2>1. i \in DOMAIN s /\ s[i].run = run
    BY <1>3, <1>4
  <2>2. QED
    BY <2>1 DEF Mentions, ToSet
<1>5. CASE i = Len(s) + 1
  BY <1>2, <1>3, <1>5
<1>6. CASE i = Len(s) + 2
  BY <1>2, <1>3, <1>6
<1>7. QED
  BY <1>3, <1>4, <1>5, <1>6

LEMMA MentionsRun ==
    ASSUME NEW r \in Runs, NEW run, TypedRuns
    PROVE  /\ Mentions(Appended(r), run) => Mentions(state.conversation, run) \/ run = r
           /\ Mentions(Finished(r), run) => Mentions(state.conversation, run)
           /\ Mentions(WithoutPlaceholder(r), run) => Mentions(state.conversation, run)
           /\ Mentions(Exchange(r), run) => Mentions(runs[r].base, run) \/ run = r
<1>1. state.conversation \in Seq(EntryType) /\ runs[r].base \in Seq(Message)
  BY StateTypes DEF TypedRuns, States, RunRecord
<1>2. Mentions(Appended(r), run) => Mentions(state.conversation, run) \/ run = r
  <2> DEFINE one == Entry(Say(r, "user"), FALSE)
             two == Entry(Say(r, "assistant"), TRUE)
  <2>1. one \in EntryType /\ two \in EntryType /\ one.run = r /\ two.run = r
    BY DEF Entry, Say, EntryType
  <2>2. Appended(r) = state.conversation \o <<one, two>>
    BY DEF Appended
  <2> HIDE DEF one, two
  <2>3. QED
    BY <1>1, <2>1, <2>2, MentionsPair
<1>3. Mentions(Exchange(r), run) => Mentions(runs[r].base, run) \/ run = r
  <2> DEFINE one == Say(r, "user")
             two == Say(r, "assistant")
  <2>1. one \in Message /\ two \in Message /\ one.run = r /\ two.run = r
    BY DEF Say, Message
  <2>2. Exchange(r) = runs[r].base \o <<one, two>>
    BY DEF Exchange
  <2> HIDE DEF one, two
  <2>3. QED
    BY <1>1, <2>1, <2>2, MentionsPair
<1>4. Mentions(Finished(r), run) => Mentions(state.conversation, run)
  <2>1. ASSUME NEW i \in DOMAIN state.conversation
        PROVE  Finished(r)[i].run = state.conversation[i].run
    <3>1. state.conversation[i] \in EntryType
      BY <1>1, ElementAt
    <3>2. QED
      BY <3>1 DEF Finished, EntryType
  <2>2. DOMAIN Finished(r) = DOMAIN state.conversation
    BY DEF Finished
  <2>3. QED
    BY <2>1, <2>2 DEF Mentions, ToSet
<1>5. Mentions(WithoutPlaceholder(r), run) => Mentions(state.conversation, run)
  <2>1. ToSet(WithoutPlaceholder(r)) \subseteq ToSet(state.conversation)
    BY <1>1, RemoveFirstElements DEF WithoutPlaceholder
  <2>2. QED
    BY <2>1 DEF Mentions
<1>6. QED
  BY <1>2, <1>3, <1>4, <1>5

LEMMA MentionsNothing ==
    ASSUME NEW run
    PROVE  ~Mentions(<<>>, run) /\ ~Mentions(Transcript(<<>>), run)
BY DEF Mentions, Transcript, ToSet

\* A message in a file was there or was being saved.
LEMMA InFileStep ==
    ASSUME TypedSessions, [Next]_vars, NEW run, NEW id, InFile(run, id)'
    PROVE  InFile(run, id) \/ InSave(run, id)
<1>1. id \in SessionIds /\ files'[id] # NoFile /\ Mentions(files'[id], run)
  BY DEF InFile, HasSession, SessionIds
<1>2. ASSUME NEW i \in DOMAIN saves, SaveLands(i)
      PROVE  InFile(run, id) \/ InSave(run, id)
  <2>1. saves[i] \in ToSet(saves) /\ saves[i].id \in SessionIds
    BY SaveAt
  <2>2. files' = [files EXCEPT ![saves[i].id] = saves[i].messages]
    BY <1>2 DEF SaveLands
  <2>3. CASE id = saves[i].id
    <3>1. Mentions(saves[i].messages, run)
      BY <1>1, <2>1, <2>2, <2>3 DEF TypedSessions
    <3>2. QED
      BY <2>1, <2>3, <3>1 DEF InSave
  <2>4. CASE id # saves[i].id
    BY <1>1, <2>2, <2>4 DEF TypedSessions, InFile, HasSession
  <2>5. QED
    BY <2>3, <2>4
<1>3. CASE UNCHANGED files
  BY <1>1, <1>3 DEF InFile, HasSession
<1>4. QED
  BY <1>2, <1>3 DEF Next, Render, SubmitPrompt, Cancel, Exit, NewSession, Clear,
     LoadSession, RunStep, Delta, SettleRun, LoadStep, LoadRead, LoadFails, LoadResolved,
     SaveStep, SaveFails, SaveReturns, StartPointer, PointerLands, PointerFails, Crash, vars,
     save_vars

\* A message being loaded was so or was in the file.
LEMMA InLoadStep ==
    ASSUME TypedSessions, NoDangling, [Next]_vars, NEW run, NEW id, InLoad(run, id)'
    PROVE  InLoad(run, id) \/ InFile(run, id)
<1> DEFINE Goal == InLoad(run, id) \/ InFile(run, id)
<1>1. PICK load \in ToSet(loads') : load.id = id /\ Mentions(load.messages, run)
  BY DEF InLoad
<1>2. loads \in Seq(LoadRecord)
  BY DEF TypedSessions
<1>3. CASE load \in ToSet(loads)
  BY <1>1, <1>3 DEF InLoad
<1>4. ASSUME NEW new, LoadSession(new) PROVE Goal
  <2> DEFINE asked == [id |-> new, gen |-> generation + 1, stage |-> "reading",
                       messages |-> <<>>]
  <2>1. loads' = Append(loads, asked)
    BY <1>4 DEF LoadSession
  <2>2. asked.messages = <<>>
    OBVIOUS
  <2> HIDE DEF asked
  <2>3. ToSet(loads') \subseteq ToSet(loads) \cup {asked}
    BY <1>2, <2>1 DEF ToSet
  <2>4. QED
    BY <1>1, <1>3, <2>2, <2>3, MentionsNothing
<1>5. ASSUME NEW i \in DOMAIN loads, LoadRead(i) \/ LoadFails(i) \/ LoadResolved(i)
      PROVE  Goal
  <2>1. loads[i] \in LoadRecord /\ loads[i] \in ToSet(loads) /\ i \in 1..Len(loads)
        /\ loads[i].id \in SessionIds
    BY LoadAt
  <2>2. CASE loads' = RemoveAt(loads, i)
    BY <1>2, <1>3, <2>1, <2>2, RemoveAtElements
  <2>3. CASE loads' = [loads EXCEPT ![i].stage = "resolving",
                                    ![i].messages = files[loads[i].id]]
    <3> DEFINE resolving == [loads[i] EXCEPT !.stage = "resolving",
                                             !.messages = files[loads[i].id]]
    <3>1. files[loads[i].id] \in Seq(Message) /\ HasSession(loads[i].id)
      BY <2>1 DEF NoDangling, HasSession, TypedSessions, LoadRecord
    <3>2. /\ resolving \in LoadRecord /\ resolving.id = loads[i].id
          /\ resolving.messages = files[loads[i].id]
      BY <2>1, <3>1 DEF LoadRecord
    <3>3. loads' = [loads EXCEPT ![i] = resolving]
      BY <2>3
    <3> HIDE DEF resolving
    <3>4. ToSet(loads') \subseteq ToSet(loads) \cup {resolving}
      BY <1>2, <2>1, <3>2, <3>3, ExceptElements
    <3>5. CASE load = resolving
      BY <1>1, <2>1, <3>1, <3>2, <3>5 DEF InFile
    <3>6. QED
      BY <1>3, <3>4, <3>5
  <2>4. QED
    BY <1>5, <2>2, <2>3 DEF LoadRead, LoadFails, LoadResolved
<1>6. CASE Crash
  BY <1>1, <1>6 DEF Crash, ToSet
<1>7. CASE UNCHANGED loads
  BY <1>1, <1>3, <1>7
<1>8. QED
  BY <1>4, <1>5, <1>6, <1>7 DEF Next, Render, SubmitPrompt, Cancel, Exit, Clear,
     NewSession, SettleRun, RunStep, Delta, LoadStep, SaveStep, SaveLands, SaveFails,
     SaveReturns, StartPointer, PointerLands, PointerFails, vars

\* A message being saved was so, or is of the exchange that has just ended.
LEMMA InSaveStep ==
    ASSUME RunOwned, TypedRuns, TypedSessions, TypedSessions', [Next]_vars, NEW run, NEW id,
           InSave(run, id)'
    PROVE  InSave(run, id) \/ (RunStep /\ id = sessionIdRef' /\ OnScreen(run))
<1> DEFINE Goal == InSave(run, id) \/ (RunStep /\ id = sessionIdRef' /\ OnScreen(run))
<1>1. PICK save \in ToSet(saves') : save.id = id /\ Mentions(save.messages, run)
  BY DEF InSave
<1>2. saves \in Seq(SaveRecord)
  BY DEF TypedSessions
<1>3. CASE save \in ToSet(saves)
  BY <1>1, <1>3 DEF InSave
<1>4. ASSUME NEW new, saves' = Append(saves, new), save # new PROVE Goal
  <2>1. ToSet(saves') \subseteq ToSet(saves) \cup {new}
    BY <1>2, <1>4 DEF ToSet
  <2>2. QED
    BY <1>3, <1>4, <2>1
<1>5. ASSUME NEW i \in DOMAIN saves, SaveLands(i) \/ SaveFails(i) \/ SaveReturns(i)
      PROVE  Goal
  <2>1. saves[i] \in SaveRecord /\ saves[i] \in ToSet(saves) /\ i \in 1..Len(saves)
    BY SaveAt
  <2>2. CASE saves' = RemoveAt(saves, i)
    BY <1>2, <1>3, <2>1, <2>2, RemoveAtElements
  <2>3. ASSUME NEW stage \in {"ok", "failed"}, saves' = [saves EXCEPT ![i].stage = stage]
        PROVE  Goal
    <3> DEFINE ended == [saves[i] EXCEPT !.stage = stage]
    <3>1. /\ ended \in SaveRecord /\ ended.id = saves[i].id
          /\ ended.messages = saves[i].messages
      BY <2>1 DEF SaveRecord
    <3>2. saves' = [saves EXCEPT ![i] = ended]
      BY <2>3
    <3> HIDE DEF ended
    <3>3. ToSet(saves') \subseteq ToSet(saves) \cup {ended}
      BY <1>2, <2>1, <3>1, <3>2, ExceptElements
    <3>4. CASE save = ended
      BY <1>1, <2>1, <3>1, <3>4 DEF InSave
    <3>5. QED
      BY <1>3, <3>3, <3>4
  <2>4. QED
    BY <1>5, <2>2, <2>3 DEF SaveLands, SaveFails, SaveReturns
<1>6. CASE Crash
  BY <1>1, <1>6 DEF Crash, ToSet
<1>7. CASE NewSession
  <2> DEFINE created == Save("create", minted + 1, generation + 1,
                             Transcript(SessionCreated.conversation))
  <2>1. saves' = Append(saves, created)
    BY <1>7 DEF NewSession
  <2>2. created.messages = Transcript(<<>>)
    BY DEF Save, SessionCreated
  <2> HIDE DEF created
  <2>3. QED
    BY <1>1, <1>4, <2>1, <2>2, MentionsNothing
<1>8. ASSUME NEW r \in Runs, SettleRun(r) PROVE Goal
  <2> DEFINE saved == Save("autosave", sessionIdRef', runs[r].gen, Exchange(r))
  <2>1. saves' = saves \/ saves' = Append(saves, saved)
    BY <1>8 DEF SettleRun, AutoSave
  <2>2. saved.id = sessionIdRef' /\ saved.messages = Exchange(r)
    BY DEF Save
  <2>3. activeRun = r
    BY <1>8 DEF SettleRun, RunOwned
  <2> HIDE DEF saved
  <2>4. CASE save = saved
    <3>1. OnScreen(run)
      BY <1>1, <2>2, <2>3, <2>4, MentionsRun DEF OnScreen
    <3>2. QED
      BY <1>1, <1>8, <2>2, <2>4, <3>1 DEF RunStep
  <2>5. QED
    BY <1>3, <1>4, <2>1, <2>4
<1>9. CASE UNCHANGED saves
  BY <1>1, <1>3, <1>9
<1>10. QED
  BY <1>5, <1>6, <1>7, <1>8, <1>9 DEF Next, Render, SubmitPrompt, Cancel, Exit, Clear,
     LoadSession, RunStep, Delta, LoadStep, LoadRead, LoadFails, LoadResolved, SaveStep,
     StartPointer, PointerLands, PointerFails, vars, save_vars

\* A run that has not been started was not started before the step either.
LEMMA StageStep ==
    ASSUME TypedRuns, [Next]_vars, NEW run \in Runs, runs'[run].stage = "new"
    PROVE  runs[run].stage = "new" /\ ~(SubmitPrompt /\ run = NextRun)
<1>1. CASE SubmitPrompt
  <2>1. run # NextRun
    BY <1>1 DEF SubmitPrompt, TypedRuns
  <2>2. runs'[run] = runs[run]
    BY <1>1, <2>1 DEF SubmitPrompt, TypedRuns
  <2>3. QED
    BY <2>1, <2>2
<1>2. CASE ~SubmitPrompt
  <2>1. CASE Cancel \/ Exit
    <3>1. runs' = runs \/ runs' = [runs EXCEPT ![activeRun].aborted = TRUE]
      <4>1. CASE Cancel
        BY <4>1 DEF Cancel
      <4>2. CASE Exit
        <5>1. runs' = IF activeRun = NoRun THEN runs
                      ELSE [runs EXCEPT ![activeRun].aborted = TRUE]
          BY <4>2 DEF Exit
        <5>2. QED
          BY <5>1
      <4>3. QED
        BY <2>1, <4>1, <4>2
    <3>2. runs \in [Runs -> RunRecord]
      BY DEF TypedRuns
    <3>3. CASE runs' = runs
      BY <1>2, <3>3
    <3>4. CASE runs' = [runs EXCEPT ![activeRun].aborted = TRUE] /\ activeRun # run
      BY <1>2, <3>2, <3>4
    <3>5. CASE runs' = [runs EXCEPT ![run].aborted = TRUE]
      <4>1. runs'[run] = [runs[run] EXCEPT !.aborted = TRUE]
        BY <3>2, <3>5
      <4>2. runs'[run].stage = runs[run].stage
        BY <4>1
      <4>3. QED
        BY <1>2, <4>2
    <3>6. QED
      BY <3>1, <3>3, <3>4, <3>5
  <2>2. ASSUME NEW r \in Runs, Delta(r) PROVE runs[run].stage = "new"
    <3>1. runs'[run].stage = runs[run].stage
      BY <2>2 DEF Delta, TypedRuns, RunRecord
    <3>2. QED
      BY <3>1
  <2>3. ASSUME NEW r \in Runs, SettleRun(r) PROVE runs[run].stage = "new"
    BY <2>3 DEF SettleRun, TypedRuns, DoneRun, IdleRun
  <2>4. CASE Crash
    BY <1>2, <2>4 DEF Crash, DoneRun, IdleRun
  <2>5. CASE UNCHANGED runs
    BY <1>2, <2>5
  <2>6. QED
    BY <1>2, <2>1, <2>2, <2>3, <2>4, <2>5 DEF Next, Render, NewSession, Clear, LoadSession, RunStep,
       LoadStep, LoadRead, LoadFails, LoadResolved, SaveStep, SaveLands, SaveFails,
       SaveReturns, StartPointer, PointerLands, PointerFails, vars, run_vars
<1>3. QED
  BY <1>1, <1>2

\* What a step puts on the screen belongs to the session then shown, is the
\* prompt just accepted, or was there before its session had an id.
LEMMA OnScreenStep ==
    ASSUME RunOwned, TypedRuns, TypedSessions, TypedPointer, NoDangling, ~RenderLag,
           [Next]_vars, NEW run, OnScreen(run)'
    PROVE  \/ Belongs(run, sessionIdRef')
           \/ SubmitPrompt /\ run = NextRun
           \/ sessionIdRef = NoSession /\ OnScreen(run)
<1> DEFINE Kept == OnScreen(run) /\ sessionIdRef' = sessionIdRef
           Goal == \/ Belongs(run, sessionIdRef')
                   \/ SubmitPrompt /\ run = NextRun
                   \/ sessionIdRef = NoSession /\ OnScreen(run)
<1> USE NothingAssumption
<1>1. CASE Kept
  BY <1>1 DEF Belongs
<1>2. CASE SubmitPrompt
  <2>1. NextRun \in Runs
    BY <1>2, NextRunIsNew DEF SubmitPrompt
  <2>2. /\ state'.conversation = Appended(NextRun) /\ activeRun' = NextRun
        /\ sessionIdRef' = sessionIdRef
    BY <1>2 DEF SubmitPrompt
  <2>3. runs'[NextRun].base = Transcript(state.conversation)
    <3>1. Seen = state
      BY DEF Seen
    <3>2. QED
      BY <1>2, <2>1, <3>1 DEF SubmitPrompt, TypedRuns
  <2>4. Mentions(state.conversation, run) \/ run = NextRun
    BY <2>1, <2>2, <2>3, MentionsRun, MentionsTranscript DEF OnScreen
  <2>5. QED
    BY <1>1, <1>2, <2>2, <2>4 DEF OnScreen
<1>3. ASSUME NEW r \in Runs, Delta(r) PROVE Goal
  <2>1. /\ state'.conversation = state.conversation /\ activeRun' = activeRun
        /\ sessionIdRef' = sessionIdRef
    BY <1>3, StateTypes DEF Delta, TypedRuns, States
  <2>2. \A k \in Runs : runs'[k].base = runs[k].base
    BY <1>3 DEF Delta, TypedRuns, RunRecord
  <2>3. QED
    BY <1>1, <2>1, <2>2 DEF OnScreen
<1>4. CASE Cancel
  <2>1. /\ state'.conversation = state.conversation /\ activeRun' = activeRun
        /\ sessionIdRef' = sessionIdRef
    BY <1>4, StateTypes DEF Cancel, TypedRuns, States
  <2>2. \A k \in Runs : runs'[k].base = runs[k].base
    BY <1>4 DEF Cancel, TypedRuns, RunRecord
  <2>3. QED
    BY <1>1, <2>1, <2>2 DEF OnScreen
<1>5. CASE Exit
  <2>1. UNCHANGED <<state, activeRun, sessionIdRef>>
    BY <1>5 DEF Exit
  <2>2. \A k \in Runs : runs'[k].base = runs[k].base
    BY <1>5 DEF Exit, TypedRuns, RunRecord
  <2>3. QED
    BY <1>1, <2>1, <2>2 DEF OnScreen
<1>6. ASSUME NEW r \in Runs, SettleRun(r) PROVE Goal
  <2>1. activeRun = r
    BY <1>6 DEF SettleRun, RunOwned
  <2>2. OnScreen(run)
    <3>1. activeRun' = NoRun /\ \/ state' = state
                                \/ state'.conversation = Finished(r)
                                \/ state'.conversation = WithoutPlaceholder(r)
      BY <1>6 DEF SettleRun
    <3>2. QED
      BY <3>1, MentionsRun DEF OnScreen
  <2>3. sessionIdRef' = sessionIdRef \/ sessionIdRef = NoSession
    BY <1>6 DEF SettleRun, NeedsId
  <2>4. QED
    BY <1>1, <2>2, <2>3
<1>7. CASE NewSession
  <2>1. state'.conversation = <<>> /\ activeRun' = NoRun
    BY <1>7 DEF NewSession, SessionCreated, Unblocked, run_vars
  <2>2. QED
    BY <2>1, MentionsNothing DEF OnScreen
<1>8. CASE Clear
  <2>1. state'.conversation = <<>> /\ activeRun' = NoRun
    BY <1>8, StateTypes DEF Clear, Unblocked, run_vars, TypedRuns, States
  <2>2. QED
    BY <2>1, MentionsNothing DEF OnScreen
<1>9. ASSUME NEW i \in DOMAIN loads, LoadRead(i) \/ LoadFails(i) \/ LoadResolved(i)
      PROVE  Goal
  <2>1. loads[i] \in ToSet(loads) /\ loads[i].id \in SessionIds
    BY LoadAt
  <2>2. CASE UNCHANGED <<state, sessionIdRef>>
    <3>1. UNCHANGED <<activeRun, runs>>
      BY <1>9 DEF LoadRead, LoadFails, LoadResolved, run_vars
    <3>2. QED
      BY <1>1, <2>2, <3>1 DEF OnScreen
  <2>3. ASSUME NEW messages, ApplyLoad(loads[i], messages), activeRun' = NoRun,
               \/ messages = files[loads[i].id]
               \/ messages = loads[i].messages
        PROVE  Goal
    <3>1. state'.conversation = Display(messages) /\ sessionIdRef' = loads[i].id
      BY <2>3 DEF ApplyLoad, SessionLoaded
    <3>2. Mentions(messages, run)
      BY <2>3, <3>1, MentionsDisplay DEF OnScreen
    <3>3. InFile(run, loads[i].id) \/ InLoad(run, loads[i].id)
      BY <2>1, <2>3, <3>2 DEF InFile, InLoad, NoDangling
    <3>4. QED
      BY <3>1, <3>3 DEF Belongs
  <2>4. QED
    BY <1>9, <2>2, <2>3 DEF LoadRead, LoadFails, LoadResolved, MayApply, Unblocked, run_vars,
       KeepSession
<1>10. CASE Crash
  <2>1. PICK id \in {pointer.id, NoSession} :
            /\ id # NoSession => Restorable(pointer.id)
            /\ sessionIdRef' = id /\ state' = Restored(id)
    BY <1>10 DEF Crash
  <2>2. activeRun' = NoRun
    BY <1>10 DEF Crash
  <2>3. Mentions(Restored(id).conversation, run)
    BY <2>1, <2>2 DEF OnScreen
  <2>4. id # NoSession
    BY <2>3, MentionsNothing DEF Restored
  <2>5. id = pointer.id /\ id \in SessionIds /\ HasSession(id)
    BY <2>1, <2>4 DEF TypedPointer, Restorable, HasSession
  <2>6. Mentions(files[id], run)
    BY <2>3, <2>4, MentionsDisplay DEF Restored
  <2>7. QED
    BY <2>1, <2>5, <2>6 DEF Belongs, InFile
<1>11. CASE UNCHANGED <<state, activeRun, runs, sessionIdRef>>
  BY <1>1, <1>11 DEF OnScreen
<1>12. QED
  BY <1>2, <1>3, <1>4, <1>5, <1>6, <1>7, <1>8, <1>9, <1>10, <1>11 DEF Next, Render,
     LoadSession, RunStep, LoadStep, SaveStep, SaveLands, SaveFails, SaveReturns,
     StartPointer, PointerLands, PointerFails, vars, run_vars

\* A run changes owner in two ways only: its prompt is accepted, or the session
\* it is shown in gets its id.
LEMMA BelongsStep ==
    ASSUME RunOwned, TypedRuns, TypedSessions, TypedSessions', TypedPointer, NoDangling,
           ~RenderLag, [Next]_vars, NEW run, NEW id, Belongs(run, id)'
    PROVE  \/ Belongs(run, id)
           \/ SubmitPrompt /\ run = NextRun /\ id = sessionIdRef
           \/ sessionIdRef = NoSession /\ Belongs(run, NoSession) /\ id = sessionIdRef'
<1>1. CASE InFile(run, id)'
  BY <1>1, InFileStep DEF Belongs
<1>2. CASE InLoad(run, id)'
  BY <1>2, InLoadStep DEF Belongs
<1>3. CASE InSave(run, id)'
  <2>1. CASE InSave(run, id)
    BY <2>1 DEF Belongs
  <2>2. ASSUME NEW r \in Runs, Delta(r) \/ SettleRun(r), id = sessionIdRef', OnScreen(run)
        PROVE  Belongs(run, id) \/ (sessionIdRef = NoSession /\ Belongs(run, NoSession))
    <3>1. sessionIdRef' = sessionIdRef \/ sessionIdRef = NoSession
      BY <2>2 DEF Delta, SettleRun, NeedsId
    <3>2. QED
      BY <2>2, <3>1 DEF Belongs
  <2>3. QED
    BY <1>3, <2>1, <2>2, InSaveStep DEF RunStep
<1>4. CASE sessionIdRef' = id /\ OnScreen(run)'
  <2>1. SubmitPrompt => sessionIdRef' = sessionIdRef
    BY DEF SubmitPrompt
  <2>2. QED
    BY <1>4, <2>1, OnScreenStep DEF Belongs
<1>5. QED
  BY <1>1, <1>2, <1>3, <1>4 DEF Belongs

\* What belongs to no session is on the screen of a session without id.
LEMMA UnownedThen ==
    ASSUME TypedSessions', NEW run, Belongs(run, NoSession)'
    PROVE  sessionIdRef' = NoSession
<1>1. NoSession \notin SessionIds
  BY NothingAssumption
<1>2. ~InFile(run, NoSession)'
  BY <1>1 DEF InFile, SessionIds
<1>3. ~InLoad(run, NoSession)'
  <2>1. ToSet(loads') \subseteq LoadRecord
    <3>1. loads' \in Seq(LoadRecord)
      BY DEF TypedSessions, LoadRecord, SessionIds, MintedIds, Message, Runs
    <3>2. QED
      BY <3>1, ElementAt DEF ToSet
  <2>2. \A load \in LoadRecord : load.id # NoSession
    BY <1>1 DEF LoadRecord
  <2>3. QED
    BY <2>1, <2>2 DEF InLoad
<1>4. ~InSave(run, NoSession)'
  <2>1. ToSet(saves') \subseteq SaveRecord
    <3>1. saves' \in Seq(SaveRecord)
      BY DEF TypedSessions, SaveRecord, SessionIds, MintedIds, Message, Runs
    <3>2. QED
      BY <3>1, ElementAt DEF ToSet
  <2>2. \A save \in SaveRecord : save.id # NoSession
    BY <1>1 DEF SaveRecord
  <2>3. QED
    BY <2>1, <2>2 DEF InSave
<1>5. QED
  BY <1>2, <1>3, <1>4 DEF Belongs

LEMMA OwnersStep ==
    ASSUME RunOwned, TypedRuns, TypedSessions, TypedSessions', TypedPointer, NoDangling,
           ~RenderLag, [Next]_vars, OneOwner, NewRunsFree
    PROVE  OneOwner' /\ NewRunsFree'
<1> DEFINE Ids == SessionIds \cup {NoSession}
<1>1. sessionIdRef \in Ids /\ sessionIdRef' \in Ids
  BY DEF TypedSessions, SessionIds
<1>2. ASSUME NEW run \in Runs \cup Stored, NEW one \in Ids, NEW other \in Ids,
             Belongs(run, one)', Belongs(run, other)'
      PROVE  one = other
  <2>1. CASE Belongs(run, one) /\ Belongs(run, other)
    BY <2>1 DEF OneOwner
  <2>2. CASE SubmitPrompt /\ run = NextRun
    <3>1. run \in Runs /\ runs[run].stage = "new"
      BY <2>2, NextRunIsNew DEF SubmitPrompt
    <3>2. ~Belongs(run, one) /\ ~Belongs(run, other) /\ ~Belongs(run, NoSession)
      BY <3>1 DEF NewRunsFree
    <3>3. QED
      BY <1>2, <3>2, BelongsStep
  <2>3. CASE sessionIdRef = NoSession /\ Belongs(run, NoSession)
    <3>1. ASSUME NEW id \in Ids, Belongs(run, id)' PROVE id = sessionIdRef'
      <4>1. CASE Belongs(run, id)
        <5>1. id = NoSession
          BY <2>3, <4>1 DEF OneOwner
        <5>2. Belongs(run, NoSession)'
          BY <3>1, <5>1
        <5>3. sessionIdRef' = NoSession
          BY <5>2, UnownedThen
        <5>4. QED
          BY <5>1, <5>3
      <4>2. CASE SubmitPrompt /\ run = NextRun
        <5>1. sessionIdRef' = sessionIdRef
          BY <4>2 DEF SubmitPrompt
        <5>2. QED
          BY <3>1, <4>1, <4>2, <5>1, BelongsStep
      <4>3. QED
        BY <3>1, <4>1, <4>2, BelongsStep
    <3>2. QED
      BY <1>2, <3>1
  <2>4. QED
    BY <1>2, <2>1, <2>2, <2>3, BelongsStep
<1>3. ASSUME NEW run \in Runs, NEW id \in Ids, runs'[run].stage = "new"
      PROVE  ~Belongs(run, id)'
  <2>1. runs[run].stage = "new" /\ ~(SubmitPrompt /\ run = NextRun)
    BY <1>3, StageStep
  <2>2. ~Belongs(run, id) /\ ~Belongs(run, NoSession)
    BY <2>1 DEF NewRunsFree
  <2>3. QED
    BY <2>1, <2>2, BelongsStep
<1>4. OneOwner'
  BY <1>2 DEF OneOwner, SessionIds, Runs, MintedIds
<1>5. NewRunsFree'
  BY <1>3 DEF NewRunsFree, SessionIds, Runs, MintedIds
<1>6. QED
  BY <1>4, <1>5

\* At the start a message of a stored session is in its file and, when that
\* session is restored, on the screen.
LEMMA OwnersInit == Init => OneOwner /\ NewRunsFree
<1> SUFFICES ASSUME Init PROVE OneOwner /\ NewRunsFree
  OBVIOUS
<1> USE NothingAssumption
<1>1. /\ IInv /\ loads = <<>> /\ saves = <<>> /\ activeRun = NoRun
      /\ files = [id \in SessionIds |-> IF id \in Stored THEN <<Say(id, "user")>> ELSE NoFile]
  BY InitIInv DEF Init
<1>2. PICK id \in Stored \cup {NoSession} :
          LET restored == IF Restorable(id) THEN id ELSE NoSession IN
          sessionIdRef = restored /\ state = Restored(restored)
  BY DEF Init
<1>3. ASSUME NEW run, NEW owner \in SessionIds \cup {NoSession}, InFile(run, owner)
      PROVE  run = owner /\ owner \in Stored
  <2>1. owner \in Stored /\ files[owner] = <<Say(owner, "user")>>
    BY <1>1, <1>3 DEF InFile, HasSession
  <2>2. QED
    BY <1>3, <2>1 DEF InFile, Mentions, ToSet, Say
<1>4. ASSUME NEW run, OnScreen(run) PROVE InFile(run, sessionIdRef)
  <2>1. Mentions(state.conversation, run)
    BY <1>1, <1>4 DEF OnScreen
  <2>2. sessionIdRef # NoSession
    BY <1>2, <2>1, MentionsNothing DEF Restored
  <2>3. sessionIdRef \in SessionIds /\ HasSession(sessionIdRef)
    BY <1>2, <2>2 DEF Restorable, HasSession, SessionIds
  <2>4. Mentions(files[sessionIdRef], run)
    BY <1>2, <2>1, <2>2, MentionsDisplay DEF Restored
  <2>5. QED
    BY <2>3, <2>4 DEF InFile
<1>5. ASSUME NEW run, NEW owner \in SessionIds \cup {NoSession}, Belongs(run, owner)
      PROVE  run = owner /\ owner \in Stored
  <2>1. ~InSave(run, owner) /\ ~InLoad(run, owner)
    BY <1>1 DEF InSave, InLoad, ToSet
  <2>2. QED
    BY <1>3, <1>4, <1>5, <2>1 DEF Belongs
<1>6. OneOwner
  BY <1>5 DEF OneOwner
<1>7. NewRunsFree
  BY <1>5, NamesAssumption DEF NewRunsFree
<1>8. QED
  BY <1>6, <1>7

(***************************************************************************)
(* One exchange is saved in one session only: whatever the order of /new,  *)
(* loads, late saves, failures and restarts, no message of one session's   *)
(* file reaches another's (App.tsx autosaveSession, loadSession).  It      *)
(* holds of every instance whose callbacks see the state just dispatched.  *)
(***************************************************************************)
THEOREM SessionsApart == Spec => [](~RenderLag => SessionsStayApart)
<1> DEFINE Owners == ~RenderLag => OneOwner /\ NewRunsFree
<1>1. Init => Owners
  BY OwnersInit
<1>2. IInv /\ IInv' /\ [Next]_vars /\ Owners => Owners'
  BY OwnersStep DEF IInv
<1>3. Spec => []Owners
  BY <1>1, <1>2, Invariant, PTL DEF Spec
<1>4. IInv /\ Owners => (~RenderLag => SessionsStayApart)
  <2> SUFFICES ASSUME IInv, OneOwner,
                      NEW one \in SessionIds, NEW other \in SessionIds,
                      HasFile(one), HasFile(other),
                      NEW run \in RunsOf(one) \cap RunsOf(other)
               PROVE  one = other
    BY DEF SessionsStayApart
  <2>1. files[one] \in Seq(Message) /\ files[other] \in Seq(Message)
    BY DEF IInv, TypedSessions, HasFile
  <2>2. InFile(run, one) /\ InFile(run, other)
    BY DEF InFile, HasSession, HasFile, RunsOf, Mentions, ToSet
  <2>3. run \in Runs \cup Stored
    <3>1. PICK i \in DOMAIN files[one] : run = files[one][i].run
      BY DEF RunsOf
    <3>2. files[one][i] \in Message
      BY <2>1, <3>1
    <3>3. QED
      BY <3>1, <3>2 DEF Message
  <2>4. QED
    BY <2>2, <2>3 DEF OneOwner, Belongs
<1>5. QED
  BY <1>3, <1>4, Invariant, PTL

(***************************************************************************)
(* Transcripts grow.  What a session's file will hold extends what it      *)
(* holds: its saves land in turn, each extends those before it that are    *)
(* still to land, and what the next one starts from, the conversation kept *)
(* on the screen, extends them all.  A load starts from the file, and from *)
(* all that will be in it unless it was overtaken.                         *)
(***************************************************************************)
Quiet == used.overtaken = 0 /\ used.clears = 0

Kept == IF activeRun = NoRun THEN Transcript(state.conversation) ELSE runs[activeRun].base

\* Ids that were not made yet are nowhere.
UnusedIds ==
    \A id \in MintedIds : id > minted =>
        /\ files[id] = NoFile /\ sessionIdRef # id
        /\ \A save \in ToSet(saves) : save.id # id

\* While a run is active the conversation is what the run started from and the
\* two messages of the exchange.
Exchanged ==
    activeRun \in Runs =>
        /\ Transcript(state.conversation) = Exchange(activeRun)
        /\ ~Mentions(runs[activeRun].base, activeRun)

InTurn ==
    \A i, j \in DOMAIN saves :
        i < j /\ saves[i].id = saves[j].id /\ saves[i].stage = "writing"
            => IsPrefix(saves[i].messages, saves[j].messages)
Extending ==
    \A i \in DOMAIN saves :
        saves[i].stage = "writing" /\ HasSession(saves[i].id)
            => IsPrefix(files[saves[i].id], saves[i].messages)
KeptLast ==
    /\ \A save \in ToSet(saves) : save.id = sessionIdRef /\ save.stage = "writing"
           => IsPrefix(save.messages, Kept)
    /\ sessionIdRef \in SessionIds /\ HasSession(sessionIdRef)
           => IsPrefix(files[sessionIdRef], Kept)

Growing == Quiet => InTurn /\ Extending /\ KeptLast

LEMMA TranscriptPlaces ==
    ASSUME NEW conversation \in Seq(EntryType)
    PROVE  /\ Transcript(conversation) \in Seq(Message)
           /\ Len(Transcript(conversation)) = Len(conversation)
           /\ \A i \in 1..Len(conversation) :
                  Transcript(conversation)[i] = Say(conversation[i].run, conversation[i].role)
<1> DEFINE said == Transcript(conversation)
<1>1. said \in Seq(Message)
  BY TranscriptType
<1>2. DOMAIN said = 1..Len(conversation) /\ Len(conversation) \in Nat
      /\ \A i \in 1..Len(conversation) : said[i] = Say(conversation[i].run, conversation[i].role)
  BY DEF Transcript
<1> HIDE DEF said
<1>3. Len(said) = Len(conversation)
  BY <1>1, <1>2
<1>4. QED
  BY <1>1, <1>2, <1>3 DEF said

LEMMA TranscriptDisplay ==
    ASSUME NEW messages \in Seq(Message)
    PROVE  Transcript(Display(messages)) = messages
<1>1. Display(messages) \in Seq(EntryType)
  BY DisplayType
<1>2. Len(Display(messages)) = Len(messages)
      /\ \A i \in 1..Len(messages) : Display(messages)[i] = Entry(messages[i], FALSE)
  <2> DEFINE shows == Display(messages)
  <2>1. DOMAIN messages = 1..Len(messages) /\ Len(messages) \in Nat
    OBVIOUS
  <2>2. shows = [i \in 1..Len(messages) |-> Entry(messages[i], FALSE)]
    BY <2>1 DEF Display
  <2>3. shows \in Seq(EntryType)
    BY <1>1
  <2> HIDE DEF shows
  <2>4. DOMAIN shows = 1..Len(messages) /\ Len(shows) = Len(messages)
    BY <2>1, <2>2, <2>3
  <2>5. QED
    BY <2>2, <2>4 DEF shows
<1>3. ASSUME NEW i \in 1..Len(messages)
      PROVE  Transcript(Display(messages))[i] = messages[i]
  <2>1. messages[i] \in Message
    OBVIOUS
  <2> DEFINE shows == Display(messages)
  <2>2. shows \in Seq(EntryType) /\ i \in 1..Len(shows) /\ shows[i] = Entry(messages[i], FALSE)
    BY <1>1, <1>2
  <2> HIDE DEF shows
  <2>3. Transcript(shows)[i] = Say(shows[i].run, shows[i].role)
    BY <2>2, TranscriptPlaces
  <2>4. Transcript(shows)[i] = Say(messages[i].run, messages[i].role)
    BY <2>2, <2>3 DEF Entry
  <2>5. QED
    BY <2>1, <2>4 DEF Say, Message, shows
<1> DEFINE said == Transcript(Display(messages))
<1>4. said \in Seq(Message) /\ Len(said) = Len(messages)
  BY <1>1, <1>2, TranscriptPlaces
<1>5. \A i \in 1..Len(messages) : said[i] = messages[i]
  BY <1>3
<1> HIDE DEF said
<1>6. said = messages
  BY <1>4, <1>5
<1>7. QED
  BY <1>6 DEF said

LEMMA ConversationParts ==
    ASSUME TypedRuns, NEW r \in Runs
    PROVE  /\ state.conversation \in Seq(EntryType)
           /\ Transcript(state.conversation) \in Seq(Message)
           /\ runs[r].base \in Seq(Message)
           /\ Exchange(r) \in Seq(Message) /\ IsPrefix(runs[r].base, Exchange(r))
<1>1. state.conversation \in Seq(EntryType) /\ runs[r].base \in Seq(Message)
  BY StateTypes DEF TypedRuns, States, RunRecord
<1>2. Say(r, "user") \in Message /\ Say(r, "assistant") \in Message
  BY DEF Say, Message
<1> DEFINE pair == <<Say(r, "user"), Say(r, "assistant")>>
<1>3. pair \in Seq(Message)
  BY <1>2, PairIsSeq
<1>4. Exchange(r) = runs[r].base \o pair
  BY DEF Exchange
<1> HIDE DEF pair
<1>5. Exchange(r) \in Seq(Message) /\ IsPrefix(runs[r].base, Exchange(r))
  BY <1>1, <1>3, <1>4, PrefixConcat
<1>6. QED
  BY <1>1, <1>5, TranscriptType

LEMMA KeptType ==
    ASSUME TypedRuns, RunOwned
    PROVE  Kept \in Seq(Message)
<1>1. Transcript(state.conversation) \in Seq(Message)
  <2>1. state.conversation \in Seq(EntryType)
    BY StateTypes DEF TypedRuns, States
  <2>2. QED
    BY <2>1, TranscriptType
<1>2. QED
  BY <1>1, ConversationParts DEF Kept, RunOwned

\* Accepting a prompt adds its two messages to the transcript.
LEMMA TranscriptAppended ==
    ASSUME TypedRuns, NEW r \in Runs
    PROVE  Transcript(Appended(r)) =
               Transcript(state.conversation) \o <<Say(r, "user"), Say(r, "assistant")>>
<1> DEFINE entries == state.conversation
           one == Entry(Say(r, "user"), FALSE)
           two == Entry(Say(r, "assistant"), TRUE)
           pair == <<one, two>>
           said == <<Say(r, "user"), Say(r, "assistant")>>
<1>1. entries \in Seq(EntryType) /\ Len(entries) \in Nat
  BY ConversationParts
<1>2. pair \in Seq(EntryType) /\ Len(pair) = 2 /\ pair[1] = one /\ pair[2] = two
  <2>1. one \in EntryType /\ two \in EntryType
    BY DEF Entry, Say, EntryType
  <2>2. QED
    BY <2>1, PairIsSeq
<1>3. /\ said \in Seq(Message) /\ Len(said) = 2
      /\ said[1] = Say(one.run, one.role) /\ said[2] = Say(two.run, two.role)
  <2>1. Say(r, "user") \in Message /\ Say(r, "assistant") \in Message
    BY DEF Say, Message
  <2>2. said \in Seq(Message) /\ Len(said) = 2
    BY <2>1, PairIsSeq
  <2>3. QED
    BY <2>2 DEF Entry, Say
<1>4. Appended(r) = entries \o pair
  BY DEF Appended
<1> HIDE DEF one, two, pair, said, entries
<1>5. entries \o pair \in Seq(EntryType) /\ Len(entries \o pair) = Len(entries) + 2
      /\ \A i \in 1..Len(entries) + 2 :
             (entries \o pair)[i] = IF i <= Len(entries) THEN entries[i]
                                    ELSE pair[i - Len(entries)]
  <2>1. /\ entries \o pair \in Seq(EntryType)
        /\ Len(entries \o pair) = Len(entries) + Len(pair)
        /\ \A i \in 1..Len(entries) + Len(pair) :
               (entries \o pair)[i] = IF i <= Len(entries) THEN entries[i]
                                      ELSE pair[i - Len(entries)]
    BY <1>1, <1>2, ConcatProperties
  <2>2. QED
    BY <1>2, <2>1
<1> DEFINE whole == entries \o pair
           before == Transcript(entries)
           left == Transcript(whole)
           right == before \o said
<1>6. before \in Seq(Message) /\ Len(before) = Len(entries)
      /\ \A i \in 1..Len(entries) : before[i] = Say(entries[i].run, entries[i].role)
  BY <1>1, TranscriptPlaces
<1>7. left \in Seq(Message) /\ Len(left) = Len(entries) + 2
      /\ \A i \in 1..Len(entries) + 2 : left[i] = Say(whole[i].run, whole[i].role)
  BY <1>5, TranscriptPlaces
<1> HIDE DEF before, left
<1>8. right \in Seq(Message) /\ Len(right) = Len(entries) + 2
      /\ \A i \in 1..Len(entries) + 2 :
             right[i] = IF i <= Len(entries) THEN before[i] ELSE said[i - Len(entries)]
  <2>1. /\ right \in Seq(Message) /\ Len(right) = Len(before) + Len(said)
        /\ \A i \in 1..Len(before) + Len(said) :
               right[i] = IF i <= Len(before) THEN before[i] ELSE said[i - Len(before)]
    BY <1>3, <1>6, ConcatProperties, ZenonT(30)
  <2>2. QED
    BY <1>3, <1>6, <2>1
<1> HIDE DEF right
<1>9. \A i \in 1..Len(entries) + 2 : left[i] = right[i]
  <2> TAKE i \in 1..Len(entries) + 2
  <2>1. CASE i <= Len(entries)
    <3>1. i \in 1..Len(entries)
      BY <1>1, <2>1
    <3>2. whole[i] = entries[i] /\ right[i] = before[i]
      BY <1>5, <1>8, <2>1 DEF whole
    <3>3. QED
      BY <1>6, <1>7, <3>1, <3>2
  <2>2. CASE i = Len(entries) + 1
    BY <1>1, <1>2, <1>3, <1>5, <1>7, <1>8, <2>2 DEF whole
  <2>3. CASE i = Len(entries) + 2
    BY <1>1, <1>2, <1>3, <1>5, <1>7, <1>8, <2>3, SMTT(20) DEF whole
  <2>4. QED
    BY <1>1, <2>1, <2>2, <2>3
<1>10. left = right
  BY <1>7, <1>8, <1>9
<1>11. QED
  BY <1>4, <1>10 DEF left, right, before, said, entries, whole

LEMMA UnusedIdsStep ==
    ASSUME RunOwned, TypedRuns, TypedSessions, TypedSessions', TypedPointer, NoDangling,
           UnusedIds, [Next]_vars
    PROVE  UnusedIds'
<1> USE NothingAssumption
<1>1. minted \in Nat /\ minted' \in Nat /\ minted <= minted'
  <2>1. minted' \in {minted, minted + 1}
    BY DEF Next, Render, SubmitPrompt, Cancel, Exit, NewSession, Clear, LoadSession, RunStep,
       Delta, SettleRun, LoadStep, LoadRead, LoadFails, LoadResolved, SaveStep, SaveLands,
       SaveFails, SaveReturns, StartPointer, PointerLands, PointerFails, Crash, vars
  <2>2. QED
    BY <2>1 DEF TypedSessions
<1> SUFFICES ASSUME NEW id \in MintedIds, id > minted'
             PROVE  /\ files'[id] = NoFile /\ sessionIdRef' # id
                    /\ \A save \in ToSet(saves') : save.id # id
  BY DEF UnusedIds, MintedIds
<1>2. id \in SessionIds /\ id \in Nat /\ id > minted
  BY <1>1 DEF SessionIds, MintedIds
<1>3. files[id] = NoFile /\ sessionIdRef # id /\ \A save \in ToSet(saves) : save.id # id
  BY <1>2 DEF UnusedIds
<1>4. files'[id] = NoFile
  <2>1. ASSUME NEW i \in DOMAIN saves, SaveLands(i) PROVE files'[id] = NoFile
    <3>1. saves[i].id # id
      BY <1>3, SaveAt
    <3>2. QED
      BY <1>3, <2>1, <3>1 DEF SaveLands
  <2>2. QED
    BY <1>3, <2>1 DEF Next, Render, SubmitPrompt, Cancel, Exit, NewSession, Clear,
     LoadSession, RunStep, Delta, SettleRun, LoadStep, LoadRead, LoadFails, LoadResolved,
     SaveStep, SaveFails, SaveReturns, StartPointer, PointerLands, PointerFails, Crash, vars,
     save_vars
<1>5. sessionIdRef' # id
  <2>1. sessionIdRef' \in {sessionIdRef, minted'} \/ HasSession(sessionIdRef')
        \/ sessionIdRef' = NoSession
    <3>1. CASE Crash
      BY <3>1 DEF Crash, NoDangling
    <3>2. ASSUME NEW i \in DOMAIN loads, LoadRead(i) \/ LoadFails(i) \/ LoadResolved(i)
          PROVE  sessionIdRef' = sessionIdRef \/ HasSession(sessionIdRef')
      <4>1. HasSession(loads[i].id)
        BY LoadAt DEF NoDangling
      <4>2. QED
        BY <3>2, <4>1 DEF LoadRead, LoadFails, LoadResolved, ApplyLoad, KeepSession
    <3>3. CASE NewSession
      BY <3>3 DEF NewSession
    <3>4. ASSUME NEW r \in Runs, SettleRun(r) PROVE sessionIdRef' \in {sessionIdRef, minted'}
      BY <3>4 DEF SettleRun
    <3>5. QED
      BY <3>1, <3>2, <3>3, <3>4 DEF Next, Render, SubmitPrompt, Cancel, Exit, Clear,
       LoadSession, RunStep, Delta, LoadStep, SaveStep, SaveLands, SaveFails, SaveReturns,
       StartPointer, PointerLands, PointerFails, vars
  <2>2. id # minted'
    BY <1>1, <1>2
  <2>3. QED
    BY <1>2, <1>3, <2>1, <2>2 DEF HasSession
<1>6. \A save \in ToSet(saves') : save.id # id
  <2>1. saves \in Seq(SaveRecord)
    BY DEF TypedSessions
  <2>2. ASSUME NEW save, saves' = Append(saves, save), save.id # id
        PROVE  \A other \in ToSet(saves') : other.id # id
    <3>1. ToSet(saves') \subseteq ToSet(saves) \cup {save}
      BY <2>1, <2>2 DEF ToSet
    <3>2. QED
      BY <1>3, <2>2, <3>1
  <2>3. CASE NewSession
    <3>1. saves' = Append(saves, Save("create", minted', generation + 1,
                                      Transcript(SessionCreated.conversation)))
      BY <2>3 DEF NewSession
    <3>2. id # minted'
      BY <1>1, <1>2
    <3>3. QED
      BY <2>2, <3>1, <3>2 DEF Save
  <2>4. ASSUME NEW r \in Runs, SettleRun(r) PROVE \A save \in ToSet(saves') : save.id # id
    <3>1. saves' = saves
          \/ saves' = Append(saves, Save("autosave", sessionIdRef', runs[r].gen, Exchange(r)))
      BY <2>4 DEF SettleRun, AutoSave
    <3>2. QED
      BY <1>3, <1>5, <2>2, <3>1 DEF Save
  <2>5. ASSUME NEW i \in DOMAIN saves, SaveLands(i) \/ SaveFails(i) \/ SaveReturns(i)
        PROVE  \A save \in ToSet(saves') : save.id # id
    <3>1. saves[i] \in SaveRecord /\ saves[i] \in ToSet(saves) /\ i \in 1..Len(saves)
      BY SaveAt
    <3>2. CASE saves' = RemoveAt(saves, i)
      BY <1>3, <2>1, <3>1, <3>2, RemoveAtElements
    <3>3. ASSUME NEW stage \in {"ok", "failed"}, saves' = [saves EXCEPT ![i].stage = stage]
          PROVE  \A save \in ToSet(saves') : save.id # id
      <4> DEFINE ended == [saves[i] EXCEPT !.stage = stage]
      <4>1. ended \in SaveRecord /\ ended.id = saves[i].id
        BY <3>1 DEF SaveRecord
      <4>2. saves' = [saves EXCEPT ![i] = ended]
        BY <3>3
      <4> HIDE DEF ended
      <4>3. ToSet(saves') \subseteq ToSet(saves) \cup {ended}
        BY <2>1, <3>1, <4>1, <4>2, ExceptElements
      <4>4. QED
        BY <1>3, <3>1, <4>1, <4>3
    <3>4. QED
      BY <2>5, <3>2, <3>3 DEF SaveLands, SaveFails, SaveReturns
  <2>6. CASE Crash
    BY <2>6 DEF Crash, ToSet
  <2>7. QED
    BY <1>3, <2>3, <2>4, <2>5, <2>6 DEF Next, Render, SubmitPrompt, Cancel, Exit, Clear,
     LoadSession, RunStep, Delta, LoadStep, LoadRead, LoadFails, LoadResolved, SaveStep,
     StartPointer, PointerLands, PointerFails, vars, save_vars
<1>7. QED
  BY <1>4, <1>5, <1>6

LEMMA ExchangedStep ==
    ASSUME RunOwned, TypedRuns, TypedSessions, ~RenderLag, NewRunsFree, Exchanged,
           [Next]_vars
    PROVE  Exchanged'
<1> USE NothingAssumption
<1>1. CASE SubmitPrompt
  <2>1. NextRun \in Runs /\ runs[NextRun].stage = "new"
    BY <1>1, NextRunIsNew DEF SubmitPrompt
  <2>2. /\ state'.conversation = Appended(NextRun) /\ activeRun' = NextRun
        /\ runs'[NextRun].base = Transcript(state.conversation)
    <3>1. Seen = state
      BY DEF Seen
    <3>2. QED
      BY <1>1, <2>1, <3>1 DEF SubmitPrompt, TypedRuns
  <2>3. Transcript(state'.conversation)
            = runs'[NextRun].base \o <<Say(NextRun, "user"), Say(NextRun, "assistant")>>
    BY <2>1, <2>2, TranscriptAppended
  <2>4. ~Mentions(Transcript(state.conversation), NextRun)
    <3>1. ~Belongs(NextRun, sessionIdRef)
      BY <2>1 DEF NewRunsFree, TypedSessions
    <3>2. QED
      BY <3>1, MentionsTranscript DEF Belongs, OnScreen
  <2>5. QED
    BY <2>2, <2>3, <2>4 DEF Exchanged, Exchange
<1>2. ASSUME state'.conversation = state.conversation, activeRun' = activeRun,
             \A k \in Runs : runs'[k].base = runs[k].base
      PROVE  Exchanged'
  BY <1>2 DEF Exchanged, Exchange
<1>3. ASSUME NEW r \in Runs, Delta(r) PROVE Exchanged'
  <2>1. state'.conversation = state.conversation /\ activeRun' = activeRun
    BY <1>3, StateTypes DEF Delta, TypedRuns, States
  <2>2. \A k \in Runs : runs'[k].base = runs[k].base
    BY <1>3 DEF Delta, TypedRuns, RunRecord
  <2>3. QED
    BY <1>2, <2>1, <2>2
<1>4. CASE Cancel
  <2>1. state'.conversation = state.conversation /\ activeRun' = activeRun
    BY <1>4, StateTypes DEF Cancel, TypedRuns, States
  <2>2. \A k \in Runs : runs'[k].base = runs[k].base
    BY <1>4 DEF Cancel, TypedRuns, RunRecord
  <2>3. QED
    BY <1>2, <2>1, <2>2
<1>5. CASE Exit
  <2>1. state'.conversation = state.conversation /\ activeRun' = activeRun
    BY <1>5 DEF Exit
  <2>2. \A k \in Runs : runs'[k].base = runs[k].base
    BY <1>5 DEF Exit, TypedRuns, RunRecord
  <2>3. QED
    BY <1>2, <2>1, <2>2
<1>6. CASE activeRun' = NoRun
  BY <1>6 DEF Exchanged
<1>7. CASE UNCHANGED <<state, activeRun, runs>>
  BY <1>2, <1>7
<1>8. ASSUME NEW i \in DOMAIN loads, LoadRead(i) \/ LoadFails(i) \/ LoadResolved(i)
      PROVE  activeRun' = NoRun \/ UNCHANGED <<state, activeRun, runs>>
  BY <1>8 DEF LoadRead, LoadFails, LoadResolved, MayApply, Unblocked, run_vars, KeepSession
<1>9. QED
  BY <1>1, <1>3, <1>4, <1>5, <1>6, <1>7, <1>8 DEF Next, Render, NewSession, Clear, Unblocked,
     LoadSession, RunStep, SettleRun, LoadStep, SaveStep, SaveLands, SaveFails, SaveReturns,
     StartPointer, PointerLands, PointerFails, Crash, vars, run_vars

\* Ending a run leaves what it started from where it was.
LEMMA KeptSettles ==
    ASSUME RunOwned, TypedRuns, Exchanged, NEW r \in Runs, SettleRun(r)
    PROVE  /\ IsPrefix(Kept, Kept')
           /\ saves' # saves => Kept' = Exchange(r)
<1> USE NothingAssumption
<1> DEFINE entries == state.conversation
<1>1. /\ activeRun = r /\ activeRun' = NoRun /\ Kept = runs[r].base
      /\ Transcript(entries) = Exchange(r) /\ ~Mentions(runs[r].base, r)
  BY DEF SettleRun, RunOwned, Kept, Exchanged
<1>2. /\ entries \in Seq(EntryType) /\ Transcript(entries) \in Seq(Message)
      /\ runs[r].base \in Seq(Message) /\ IsPrefix(runs[r].base, Exchange(r))
      /\ Exchange(r) \in Seq(Message)
  BY ConversationParts
<1>3. Kept' = Transcript(state'.conversation)
  BY <1>1 DEF Kept
<1>4. CASE shuttingDown
  <2>1. state' = state /\ saves' = saves
    BY <1>4 DEF SettleRun
  <2>2. QED
    BY <1>1, <1>2, <1>3, <2>1
<1>5. CASE ~shuttingDown /\ runs[r].started
  <2>1. state'.conversation = Finished(r)
    BY <1>5 DEF SettleRun
  <2>2. Finished(r) \in Seq(EntryType) /\ Len(Finished(r)) = Len(entries)
        /\ \A i \in 1..Len(entries) : Say(Finished(r)[i].run, Finished(r)[i].role)
                                         = Say(entries[i].run, entries[i].role)
    <3>1. Finished(r) \in Seq(EntryType)
      BY <1>2, ConversationTypes
    <3>2. Len(Finished(r)) = Len(entries)
      <4>1. DOMAIN Finished(r) = DOMAIN entries
        BY DEF Finished
      <4>2. QED
        BY <1>2, <3>1, <4>1
    <3>3. ASSUME NEW i \in 1..Len(entries)
          PROVE  /\ Finished(r)[i].run = entries[i].run
                 /\ Finished(r)[i].role = entries[i].role
      <4>1. entries[i] \in EntryType /\ i \in DOMAIN entries
        BY <1>2
      <4>2. QED
        BY <4>1 DEF Finished, EntryType
    <3>4. QED
      BY <3>1, <3>2, <3>3
  <2>3. Transcript(Finished(r)) = Transcript(entries)
    <3> DEFINE one == Transcript(Finished(r))
               two == Transcript(entries)
               ended == Finished(r)
    <3>1. /\ one \in Seq(Message) /\ Len(one) = Len(entries)
          /\ \A i \in 1..Len(entries) : one[i] = Say(ended[i].run, ended[i].role)
      <4>1. ended \in Seq(EntryType) /\ Len(ended) = Len(entries)
        BY <2>2
      <4> HIDE DEF ended
      <4>2. /\ Transcript(ended) \in Seq(Message) /\ Len(Transcript(ended)) = Len(entries)
            /\ \A i \in 1..Len(entries) :
                   Transcript(ended)[i] = Say(ended[i].run, ended[i].role)
        BY <4>1, TranscriptPlaces
      <4>3. QED
        BY <4>2 DEF ended
    <3>2. /\ two \in Seq(Message) /\ Len(two) = Len(entries)
          /\ \A i \in 1..Len(entries) : two[i] = Say(entries[i].run, entries[i].role)
      BY <1>2, TranscriptPlaces
    <3> HIDE DEF one, two
    <3>3. \A i \in 1..Len(entries) : one[i] = two[i]
      BY <2>2, <3>1, <3>2
    <3>4. one = two
      BY <3>1, <3>2, <3>3
    <3>5. QED
      BY <3>4 DEF one, two
  <2>4. QED
    BY <1>1, <1>2, <1>3, <2>1, <2>3
<1>6. CASE ~shuttingDown /\ ~runs[r].started
  <2>1. state'.conversation = WithoutPlaceholder(r) /\ saves' = saves
    BY <1>6 DEF SettleRun
  <2> DEFINE base == runs[r].base
             gone == Entry(Say(r, "assistant"), TRUE)
             said == Transcript(entries)
             left == RemoveFirst(entries, gone)
  <2>2. base \in Seq(Message) /\ said \in Seq(Message) /\ Len(base) <= Len(said)
        /\ \A i \in 1..Len(base) : base[i] = said[i]
    BY <1>1, <1>2, PrefixPlaces
  <2>3. Len(said) = Len(entries) /\ Len(entries) \in Nat /\ Len(base) \in Nat
        /\ \A i \in 1..Len(entries) : said[i] = Say(entries[i].run, entries[i].role)
    BY <1>2, TranscriptPlaces
  <2> HIDE DEF base, said, left, gone
  <2>4. \A i \in 1..Len(base) : entries[i] # gone
    <3> SUFFICES ASSUME NEW i \in 1..Len(base), entries[i] = gone PROVE FALSE
      OBVIOUS
    <3>1. base[i] = Say(entries[i].run, entries[i].role)
      BY <2>2, <2>3
    <3>2. base[i].run = r
      BY <3>1 DEF Entry, Say, gone
    <3>3. i \in DOMAIN base
      BY <2>2
    <3>4. QED
      BY <1>1, <3>2, <3>3 DEF Mentions, ToSet, base
  <2>5. /\ left \in Seq(EntryType) /\ Len(base) <= Len(left)
        /\ \A i \in 1..Len(base) : left[i] = entries[i]
    <3>1. entries \in Seq(EntryType) /\ Len(base) \in Nat /\ Len(base) <= Len(entries)
      BY <1>2, <2>2, <2>3
    <3> HIDE DEF entries
    <3>2. /\ RemoveFirst(entries, gone) \in Seq(EntryType)
          /\ Len(base) <= Len(RemoveFirst(entries, gone))
          /\ \A i \in 1..Len(base) : RemoveFirst(entries, gone)[i] = entries[i]
      BY <2>4, <3>1, PrefixRemoveFirst
    <3>3. QED
      BY <3>2 DEF left
  <2>6. /\ Transcript(left) \in Seq(Message) /\ Len(Transcript(left)) = Len(left)
        /\ \A i \in 1..Len(left) : Transcript(left)[i] = Say(left[i].run, left[i].role)
    BY <2>5, TranscriptPlaces
  <2>7. \A i \in 1..Len(base) : base[i] = Transcript(left)[i]
    <3> TAKE i \in 1..Len(base)
    <3>1. i \in 1..Len(entries) /\ i \in 1..Len(left) /\ left[i] = entries[i]
      BY <2>2, <2>3, <2>5
    <3>2. QED
      BY <2>2, <2>3, <2>6, <3>1
  <2>8. IsPrefix(base, Transcript(left))
    BY <2>2, <2>5, <2>6, <2>7, PrefixPlaces
  <2>9. QED
    BY <1>1, <1>3, <2>1, <2>8 DEF base, left, gone, WithoutPlaceholder
<1>7. QED
  BY <1>4, <1>5, <1>6 DEF TypedRuns, RunRecord

LEMMA QuietStep ==
    ASSUME TypedSessions, TypedSessions', [Next]_vars, Quiet'
    PROVE  Quiet /\ ~Clear /\ ~Count("overtaken")
<1>1. used \in Counters /\ used.overtaken \in Nat /\ used.clears \in Nat
  BY DEF TypedSessions, Counters
<1>2. ~Clear
  BY <1>1 DEF Clear, Count, Quiet, Counters
<1>3. ~Count("overtaken")
  BY <1>1 DEF Count, Quiet, Counters
<1>4. Quiet
  <2>1. CASE UNCHANGED used
    BY <2>1 DEF Quiet
  <2>2. ASSUME NEW counter \in {"loads", "news", "failures"}, Count(counter) PROVE Quiet
    BY <1>1, <2>2 DEF Count, Quiet, Counters
  <2>3. CASE Crash
    <3>1. PICK failures \in {used.failures, used.failures + 1} :
              used' = [used EXCEPT !.crashes = @ + 1, !.failures = failures]
      BY <2>3 DEF Crash
    <3>2. used'.overtaken = used.overtaken /\ used'.clears = used.clears
      BY <1>1, <3>1 DEF Counters
    <3>3. QED
      BY <3>2 DEF Quiet
  <2>4. QED
    BY <1>2, <1>3, <2>1, <2>2, <2>3 DEF Next, Render, SubmitPrompt, Cancel, Exit, NewSession,
       RunStep, Delta, SettleRun, LoadSession, LoadStep, LoadRead, LoadFails, LoadResolved,
       ApplyLoad, KeepSession, SaveStep, SaveLands, SaveFails, SaveReturns, StartPointer,
       PointerLands, PointerFails, vars
<1>5. QED
  BY <1>2, <1>3, <1>4

\* A save that extends those of its session, and the file, joins them in turn.
LEMMA SavesAppended ==
    ASSUME TypedSessions, InTurn, Extending, NEW new \in SaveRecord,
           saves' = Append(saves, new), files' = files,
           \A save \in ToSet(saves) : save.id = new.id /\ save.stage = "writing"
               => IsPrefix(save.messages, new.messages),
           HasSession(new.id) => IsPrefix(files[new.id], new.messages)
    PROVE  InTurn' /\ Extending'
<1>1. saves \in Seq(SaveRecord) /\ Len(saves) \in Nat /\ DOMAIN saves = 1..Len(saves)
  BY DEF TypedSessions
<1>2. /\ DOMAIN saves' = 1..(Len(saves) + 1)
      /\ \A i \in 1..Len(saves) : saves'[i] = saves[i]
      /\ saves'[Len(saves) + 1] = new
  BY <1>1
<1>3. InTurn'
  <2> SUFFICES ASSUME NEW i \in DOMAIN saves', NEW j \in DOMAIN saves', i < j,
                      saves'[i].id = saves'[j].id, saves'[i].stage = "writing"
               PROVE  IsPrefix(saves'[i].messages, saves'[j].messages)
    BY DEF InTurn
  <2>1. i \in 1..Len(saves) /\ saves'[i] = saves[i] /\ saves[i] \in ToSet(saves)
    BY <1>1, <1>2 DEF ToSet
  <2>2. CASE j \in 1..Len(saves)
    BY <1>1, <1>2, <2>1, <2>2 DEF InTurn
  <2>3. CASE j = Len(saves) + 1
    BY <1>2, <2>1, <2>3
  <2>4. QED
    BY <1>1, <1>2, <2>2, <2>3
<1>4. Extending'
  <2> SUFFICES ASSUME NEW i \in DOMAIN saves', saves'[i].stage = "writing",
                      files[saves'[i].id] # NoFile
               PROVE  IsPrefix(files[saves'[i].id], saves'[i].messages)
    BY DEF Extending, HasSession
  <2>1. CASE i \in 1..Len(saves)
    BY <1>1, <1>2, <2>1 DEF Extending, HasSession
  <2>2. CASE i = Len(saves) + 1
    BY <1>2, <2>2 DEF HasSession
  <2>3. QED
    BY <1>1, <1>2, <2>1, <2>2
<1>5. QED
  BY <1>3, <1>4

LEMMA SavesRemoved ==
    ASSUME TypedSessions, InTurn, Extending, NEW k \in DOMAIN saves,
           saves' = RemoveAt(saves, k), files' = files
    PROVE  InTurn' /\ Extending'
<1>1. saves \in Seq(SaveRecord) /\ Len(saves) \in Nat /\ DOMAIN saves = 1..Len(saves)
  BY DEF TypedSessions
<1>2. /\ DOMAIN saves' = 1..(Len(saves) - 1)
      /\ \A j \in 1..(Len(saves) - 1) : saves'[j] = IF j < k THEN saves[j] ELSE saves[j + 1]
  <2>1. /\ saves' \in Seq(SaveRecord) /\ Len(saves') = Len(saves) - 1
        /\ \A j \in 1..(Len(saves) - 1) : saves'[j] = IF j < k THEN saves[j] ELSE saves[j + 1]
    BY <1>1, RemoveAtPlaces
  <2>2. QED
    BY <2>1
<1> DEFINE Before(i) == IF i < k THEN i ELSE i + 1
<1>3. /\ \A i \in DOMAIN saves' : Before(i) \in DOMAIN saves /\ saves'[i] = saves[Before(i)]
      /\ \A i, j \in DOMAIN saves' : i < j => Before(i) < Before(j)
  BY <1>1, <1>2
<1> HIDE DEF Before
<1>4. InTurn'
  BY <1>3 DEF InTurn
<1>5. Extending'
  BY <1>3 DEF Extending, HasSession
<1>6. QED
  BY <1>4, <1>5

LEMMA SavesEnded ==
    ASSUME TypedSessions, InTurn, Extending, NEW k \in DOMAIN saves, MayWrite(k),
           NEW stage \in {"ok", "failed"}, saves' = [saves EXCEPT ![k].stage = stage],
           files' = files \/ files' = [files EXCEPT ![saves[k].id] = saves[k].messages]
    PROVE  /\ InTurn' /\ Extending'
           /\ DOMAIN saves' = DOMAIN saves
           /\ \A i \in DOMAIN saves :
                  /\ saves'[i].id = saves[i].id
                  /\ saves'[i].messages = saves[i].messages
                  /\ saves'[i].stage = "writing" => saves[i].stage = "writing"
<1>1. saves \in Seq(SaveRecord) /\ Len(saves) \in Nat /\ DOMAIN saves = 1..Len(saves)
      /\ \A i \in DOMAIN saves : saves[i] \in SaveRecord /\ saves[i].id \in SessionIds
  BY SaveAt DEF TypedSessions
<1>2. /\ DOMAIN saves' = DOMAIN saves
      /\ \A i \in DOMAIN saves : /\ saves'[i].id = saves[i].id
                                 /\ saves'[i].messages = saves[i].messages
                                 /\ i # k => saves'[i].stage = saves[i].stage
      /\ saves'[k].stage = stage
  BY <1>1 DEF SaveRecord
<1>3. InTurn'
  BY <1>2 DEF InTurn
<1>4. Extending'
  <2> SUFFICES ASSUME NEW i \in DOMAIN saves, saves'[i].stage = "writing",
                      files'[saves[i].id] # NoFile
               PROVE  IsPrefix(files'[saves[i].id], saves[i].messages)
    BY <1>2 DEF Extending, HasSession
  <2>1. i # k /\ saves[i].stage = "writing"
    BY <1>2
  <2>2. CASE files'[saves[i].id] = files[saves[i].id]
    BY <2>1, <2>2 DEF Extending, HasSession
  <2>3. CASE files'[saves[i].id] # files[saves[i].id]
    <3>1. saves[i].id = saves[k].id /\ files'[saves[i].id] = saves[k].messages
      BY <1>1, <2>3 DEF TypedSessions
    <3>2. ~(i < k)
      BY <1>1, <2>1, <3>1 DEF MayWrite
    <3>3. k < i
      BY <1>1, <2>1, <3>2
    <3>4. QED
      BY <3>1, <3>3 DEF InTurn, MayWrite
  <2>4. QED
    BY <2>2, <2>3
<1>5. QED
  BY <1>2, <1>3, <1>4

LEMMA KeptTypeThen ==
    ASSUME TypedRuns', RunOwned'
    PROVE  Kept' \in Seq(Message)
<1>1. /\ state'.conversation \in Seq(EntryType)
      /\ \A r \in Runs : runs'[r].base \in Seq(Message)
      /\ activeRun' \in Runs \cup {NoRun}
  <2>1. state' \in States
    BY StateTypes DEF TypedRuns, StateType, ConversationType, States, EntryType, Runs
  <2>2. runs' \in [Runs -> RunRecord] /\ activeRun' \in Runs \cup {NoRun}
    BY DEF TypedRuns, RunOwned, RunRecord, Message, Runs
  <2>3. QED
    BY <2>1, <2>2 DEF States, RunRecord
<1>2. Transcript(state'.conversation) \in Seq(Message)
  BY <1>1, TranscriptType
<1>3. QED
  BY <1>1, <1>2 DEF Kept

\* Steps that touch neither the saves nor the session keep what the next save
\* starts from.
LEMMA KeptStays ==
    ASSUME RunOwned, TypedRuns, TypedSessions, ~RenderLag,
           \/ SubmitPrompt \/ Cancel \/ Exit \/ StartPointer \/ PointerLands \/ PointerFails
           \/ SaveStep \/ UNCHANGED vars \/ \E r \in Runs : Delta(r)
    PROVE  Kept' = Kept /\ sessionIdRef' = sessionIdRef
<1> USE NothingAssumption
<1>1. CASE SubmitPrompt
  <2>1. NextRun \in Runs
    BY <1>1, NextRunIsNew DEF SubmitPrompt
  <2>2. /\ activeRun = NoRun /\ activeRun' = NextRun /\ sessionIdRef' = sessionIdRef
        /\ runs'[NextRun].base = Transcript(state.conversation)
    <3>1. Seen = state
      BY DEF Seen
    <3>2. QED
      BY <1>1, <2>1, <3>1 DEF SubmitPrompt, MayStart, TypedRuns
  <2>3. QED
    BY <2>1, <2>2 DEF Kept
<1>2. ASSUME UNCHANGED <<activeRun, sessionIdRef>>,
             state'.conversation = state.conversation,
             \A k \in Runs : runs'[k].base = runs[k].base
      PROVE  Kept' = Kept /\ sessionIdRef' = sessionIdRef
  BY <1>2 DEF Kept, RunOwned
<1>3. ASSUME NEW r \in Runs, Delta(r) PROVE Kept' = Kept /\ sessionIdRef' = sessionIdRef
  <2>1. state'.conversation = state.conversation /\ UNCHANGED <<activeRun, sessionIdRef>>
    BY <1>3, StateTypes DEF Delta, TypedRuns, States
  <2>2. \A k \in Runs : runs'[k].base = runs[k].base
    BY <1>3 DEF Delta, TypedRuns, RunRecord
  <2>3. QED
    BY <1>2, <2>1, <2>2
<1>4. CASE Cancel
  <2>1. state'.conversation = state.conversation /\ UNCHANGED <<activeRun, sessionIdRef>>
    BY <1>4, StateTypes DEF Cancel, TypedRuns, States
  <2>2. \A k \in Runs : runs'[k].base = runs[k].base
    BY <1>4 DEF Cancel, TypedRuns, RunRecord
  <2>3. QED
    BY <1>2, <2>1, <2>2
<1>5. CASE Exit
  <2>1. state'.conversation = state.conversation /\ UNCHANGED <<activeRun, sessionIdRef>>
    BY <1>5 DEF Exit
  <2>2. \A k \in Runs : runs'[k].base = runs[k].base
    BY <1>5 DEF Exit, TypedRuns, RunRecord
  <2>3. QED
    BY <1>2, <2>1, <2>2
<1>6. CASE UNCHANGED <<state, activeRun, runs, sessionIdRef>>
  BY <1>2, <1>6
<1>7. QED
  BY <1>1, <1>3, <1>4, <1>5, <1>6 DEF StartPointer, PointerLands, PointerFails, SaveStep,
     SaveLands, SaveFails, SaveReturns, vars, run_vars

LEMMA GrowingStep ==
    ASSUME IInv, IInv', ~RenderLag, Exchanged, UnusedIds, Growing, [Next]_vars
    PROVE  Growing'
<1> SUFFICES ASSUME Quiet' PROVE InTurn' /\ Extending' /\ KeptLast'
  BY DEF Growing
<1> USE NothingAssumption
<1>1. /\ RunOwned /\ TypedRuns /\ TypedSessions /\ TypedSessions' /\ IdsLeft /\ UsedBounded
      /\ TypedPointer /\ NoDangling
  BY DEF IInv
<1>2. Quiet /\ ~Clear /\ ~Count("overtaken") /\ InTurn /\ Extending /\ KeptLast
  BY <1>1, QuietStep DEF Growing
<1>3. ~Render
  BY DEF Render
<1>4. ASSUME NEW k \in DOMAIN loads, LoadRead(k) \/ LoadFails(k) \/ LoadResolved(k)
      PROVE  InTurn' /\ Extending' /\ KeptLast'
  <2>1. saves' = saves /\ files' = files /\ UNCHANGED <<activeRun, runs>>
    BY <1>4 DEF LoadRead, LoadFails, LoadResolved, save_vars, run_vars
  <2>2. InTurn' /\ Extending'
    BY <1>2, <2>1 DEF InTurn, Extending, HasSession
  <2>3. CASE KeepSession \/ LoadFails(k)
    <3>1. UNCHANGED <<state, sessionIdRef>>
      BY <2>3 DEF KeepSession, LoadFails
    <3>2. Kept' = Kept
      BY <2>1, <3>1 DEF Kept
    <3>3. KeptLast'
      BY <1>2, <2>1, <3>1, <3>2 DEF KeptLast, HasSession, SessionIds, MintedIds
    <3>4. QED
      BY <2>2, <3>3
  <2>4. ASSUME NEW messages, MayApply(loads[k]), ApplyLoad(loads[k], messages)
        PROVE  InTurn' /\ Extending' /\ KeptLast'
    <3> DEFINE id == loads[k].id
    <3>1. id \in SessionIds /\ HasSession(id)
      BY <1>1, LoadAt DEF NoDangling
    <3>2. /\ state' = SessionLoaded(messages) /\ sessionIdRef' = id
          /\ files[id] = messages
          /\ \A i \in DOMAIN saves : saves[i].id = id => saves[i].stage # "writing"
      BY <1>2, <2>4 DEF ApplyLoad, Overtaken
    <3>3. files[id] \in Seq(Message)
      BY <1>1, <3>1 DEF TypedSessions, HasSession
    <3>4. Kept' = files[id]
      <4>1. activeRun' = NoRun
        BY <2>1, <2>4 DEF MayApply, Unblocked
      <4>2. Kept' = Transcript(Display(files[id]))
        BY <3>2, <4>1 DEF Kept, SessionLoaded
      <4>3. QED
        BY <3>3, <4>2, TranscriptDisplay
    <3>5. IsPrefix(files[id], Kept')
      BY <3>3, <3>4, PrefixSelf
    <3>6. \A save \in ToSet(saves) : save.id = id => save.stage # "writing"
      BY <3>2 DEF ToSet
    <3> HIDE DEF id
    <3>7. KeptLast'
      BY <2>1, <3>2, <3>5, <3>6 DEF KeptLast, HasSession, SessionIds, MintedIds
    <3>8. QED
      BY <2>2, <3>7
  <2>5. QED
    BY <1>4, <2>3, <2>4 DEF LoadRead, LoadResolved
<1>5. /\ saves \in Seq(SaveRecord)
      /\ \A save \in ToSet(saves) : save.messages \in Seq(Message)
      /\ Kept \in Seq(Message)
      /\ sessionIdRef \in SessionIds /\ HasSession(sessionIdRef)
             => files[sessionIdRef] \in Seq(Message)
  <2>1. ToSet(saves) \subseteq SaveRecord
    BY <1>1, ElementAt DEF ToSet, TypedSessions
  <2>2. \A save \in SaveRecord : save.messages \in Seq(Message)
    BY DEF SaveRecord
  <2>3. QED
    BY <1>1, <2>1, <2>2, KeptType DEF TypedSessions, HasSession
<1>6. CASE NewSession
  <2> DEFINE nothing == Transcript(SessionCreated.conversation)
             created == Save("create", minted + 1, generation + 1, nothing)
  <2>1. minted + 1 \in MintedIds /\ minted + 1 \in SessionIds /\ minted + 1 > minted
    BY <1>1, <1>6, FreshId DEF NewSession, TypedSessions
  <2>2. nothing \in Seq(Message)
    <3>1. <<>> \in Seq(EntryType)
      OBVIOUS
    <3>2. QED
      BY <3>1, TranscriptType DEF SessionCreated
  <2>3. files[minted + 1] = NoFile /\ \A save \in ToSet(saves) : save.id # minted + 1
    BY <2>1 DEF UnusedIds
  <2>4. saves' = Append(saves, created) /\ files' = files /\ sessionIdRef' = minted + 1
    BY <1>6 DEF NewSession
  <2>5. Kept' = nothing
    <3>1. activeRun' = NoRun /\ state' = SessionCreated
      BY <1>6 DEF NewSession, Unblocked, run_vars
    <3>2. QED
      BY <3>1 DEF Kept
  <2> HIDE DEF nothing
  <2>6. created \in SaveRecord /\ created.id = minted + 1 /\ created.messages = nothing
    BY <1>1, <2>1, <2>2 DEF Save, SaveRecord, TypedSessions
  <2> HIDE DEF created
  <2>7. InTurn' /\ Extending'
    BY <1>1, <1>2, <2>3, <2>4, <2>6, SavesAppended DEF HasSession
  <2>8. ToSet(saves') = ToSet(saves) \cup {created}
    BY <1>5, <2>4, <2>6, AppendElements
  <2>9. IsPrefix(nothing, nothing)
    BY <2>2, PrefixSelf
  <2>10. KeptLast'
    BY <2>3, <2>4, <2>5, <2>6, <2>8, <2>9 DEF KeptLast, HasSession
  <2>11. QED
    BY <2>7, <2>10
<1>7. ASSUME NEW r \in Runs, SettleRun(r) PROVE InTurn' /\ Extending' /\ KeptLast'
  <2> DEFINE saved == Save("autosave", sessionIdRef', runs[r].gen, Exchange(r))
  <2>1. /\ files' = files
        /\ \/ sessionIdRef' = sessionIdRef
           \/ sessionIdRef = NoSession /\ sessionIdRef' = minted + 1
        /\ saves' = saves \/ (saves' = Append(saves, saved) /\ sessionIdRef' # NoSession)
        /\ sessionIdRef' # sessionIdRef \/ saves' # saves => sessionIdRef' # NoSession
    <3>1. sessionIdRef = NoSession => minted + 1 # NoSession
      BY <1>1, FreshId
    <3>2. QED
      BY <1>7, <3>1 DEF SettleRun, AutoSave, NeedsId
  <2>2. IsPrefix(Kept, Kept') /\ (saves' # saves => Kept' = Exchange(r))
    BY <1>1, <1>7, KeptSettles
  <2>3. Kept' \in Seq(Message) /\ Exchange(r) \in Seq(Message)
    <3>1. RunOwned' /\ TypedRuns'
      BY DEF IInv
    <3>2. Kept' \in Seq(Message)
      BY <3>1, KeptTypeThen
    <3>3. QED
      BY <1>1, <3>2, ConversationParts
  <2>4. \A save \in ToSet(saves) : save.id = sessionIdRef' /\ save.stage = "writing"
            => IsPrefix(save.messages, Kept')
    <3>1. CASE sessionIdRef' = sessionIdRef
      <4> TAKE save \in ToSet(saves)
      <4> HAVE save.id = sessionIdRef' /\ save.stage = "writing"
      <4>1. IsPrefix(save.messages, Kept) /\ save.messages \in Seq(Message)
        BY <1>2, <1>5, <3>1 DEF KeptLast
      <4>2. QED
        BY <1>5, <2>2, <2>3, <4>1, PrefixTransitive
    <3>2. CASE sessionIdRef = NoSession /\ sessionIdRef' = minted + 1
      <4>1. minted + 1 \in MintedIds /\ minted + 1 > minted
        BY <1>1, <3>2, FreshId DEF TypedSessions
      <4>2. QED
        BY <3>2, <4>1 DEF UnusedIds
    <3>3. QED
      BY <2>1, <3>1, <3>2
  <2>5. sessionIdRef' \in SessionIds /\ HasSession(sessionIdRef')
            => IsPrefix(files[sessionIdRef'], Kept')
    <3>1. CASE sessionIdRef' = sessionIdRef
      <4> SUFFICES ASSUME sessionIdRef \in SessionIds, HasSession(sessionIdRef)
                   PROVE  IsPrefix(files[sessionIdRef], Kept')
        BY <3>1
      <4>1. IsPrefix(files[sessionIdRef], Kept) /\ files[sessionIdRef] \in Seq(Message)
        BY <1>2, <1>5 DEF KeptLast
      <4>2. QED
        BY <1>5, <2>2, <2>3, <4>1, PrefixTransitive
    <3>2. CASE sessionIdRef = NoSession /\ sessionIdRef' = minted + 1
      <4>1. minted + 1 \in MintedIds /\ minted + 1 > minted
        BY <1>1, <3>2, FreshId DEF TypedSessions
      <4>2. QED
        BY <3>2, <4>1 DEF UnusedIds, HasSession
    <3>3. QED
      BY <2>1, <3>1, <3>2
  <2> HIDE DEF saved
  <2>6. CASE saves' = saves
    <3>1. InTurn' /\ Extending'
      BY <1>2, <2>1, <2>6 DEF InTurn, Extending, HasSession
    <3>2. KeptLast'
      BY <2>1, <2>4, <2>5, <2>6 DEF KeptLast, HasSession, SessionIds, MintedIds
    <3>3. QED
      BY <3>1, <3>2
  <2>7. CASE saves' # saves
    <3>1. saves' = Append(saves, saved) /\ Kept' = Exchange(r) /\ sessionIdRef' \in SessionIds
      <4>1. sessionIdRef' \in SessionIds \cup {NoSession}
        BY <1>1 DEF TypedSessions, SessionIds, MintedIds
      <4>2. QED
        BY <2>1, <2>2, <2>7, <4>1
    <3>2. saved \in SaveRecord /\ saved.id = sessionIdRef' /\ saved.messages = Kept'
      <4>1. runs[r].gen \in Nat
        BY <1>1 DEF TypedRuns, RunRecord
      <4>2. QED
        BY <2>3, <3>1, <4>1 DEF saved, Save, SaveRecord
    <3>3. InTurn' /\ Extending'
      BY <1>1, <1>2, <2>1, <2>4, <2>5, <3>1, <3>2, SavesAppended
    <3>4. ToSet(saves') = ToSet(saves) \cup {saved}
      BY <1>5, <3>1, <3>2, AppendElements
    <3>5. IsPrefix(Kept', Kept')
      BY <2>3, PrefixSelf
    <3>6. KeptLast'
      BY <2>1, <2>4, <2>5, <3>2, <3>4, <3>5 DEF KeptLast, HasSession, SessionIds, MintedIds
    <3>7. QED
      BY <3>3, <3>6
  <2>8. QED
    BY <2>6, <2>7
<1>8. ASSUME NEW k \in DOMAIN saves, SaveReturns(k) PROVE InTurn' /\ Extending' /\ KeptLast'
  <2>1. saves' = RemoveAt(saves, k) /\ files' = files
    BY <1>8 DEF SaveReturns
  <2>2. Kept' = Kept /\ sessionIdRef' = sessionIdRef
    BY <1>1, <1>8, KeptStays DEF SaveStep
  <2>3. InTurn' /\ Extending'
    BY <1>1, <1>2, <2>1, SavesRemoved
  <2>4. k \in 1..Len(saves)
    BY <1>1, SaveAt
  <2>5. ToSet(saves') \subseteq ToSet(saves)
    BY <1>5, <2>1, <2>4, RemoveAtElements
  <2>6. KeptLast'
    BY <1>2, <2>1, <2>2, <2>5 DEF KeptLast, HasSession, SessionIds, MintedIds
  <2>7. QED
    BY <2>3, <2>6
<1>9. ASSUME NEW k \in DOMAIN saves, SaveLands(k) \/ SaveFails(k)
      PROVE  InTurn' /\ Extending' /\ KeptLast'
  <2>1. PICK stage \in {"ok", "failed"} :
            /\ MayWrite(k) /\ saves' = [saves EXCEPT ![k].stage = stage]
            /\ files' = files \/ files' = [files EXCEPT ![saves[k].id] = saves[k].messages]
    BY <1>9 DEF SaveLands, SaveFails
  <2>2. Kept' = Kept /\ sessionIdRef' = sessionIdRef
    BY <1>1, <1>9, KeptStays DEF SaveStep
  <2>3. /\ InTurn' /\ Extending'
        /\ DOMAIN saves' = DOMAIN saves
        /\ \A i \in DOMAIN saves :
               /\ saves'[i].id = saves[i].id
               /\ saves'[i].messages = saves[i].messages
               /\ saves'[i].stage = "writing" => saves[i].stage = "writing"
    BY <1>1, <1>2, <2>1, SavesEnded
  <2>4. \A save \in ToSet(saves') :
            save.stage = "writing" =>
                \E old \in ToSet(saves) : /\ save.id = old.id /\ save.messages = old.messages
                                          /\ old.stage = "writing"
    BY <2>3 DEF ToSet
  <2>5. sessionIdRef \in SessionIds /\ files'[sessionIdRef] # NoFile
            => IsPrefix(files'[sessionIdRef], Kept)
    <3> SUFFICES ASSUME sessionIdRef \in SessionIds, files'[sessionIdRef] # NoFile
                 PROVE  IsPrefix(files'[sessionIdRef], Kept)
      OBVIOUS
    <3>1. CASE files'[sessionIdRef] = files[sessionIdRef]
      BY <1>2, <3>1 DEF KeptLast, HasSession
    <3>2. CASE files'[sessionIdRef] # files[sessionIdRef]
      <4>1. saves[k].id = sessionIdRef /\ files'[sessionIdRef] = saves[k].messages
        BY <1>1, <2>1, <3>2 DEF TypedSessions
      <4>2. saves[k] \in ToSet(saves)
        BY DEF ToSet
      <4>3. QED
        BY <1>2, <2>1, <4>1, <4>2 DEF KeptLast, MayWrite
    <3>3. QED
      BY <3>1, <3>2
  <2>6. KeptLast'
    BY <1>2, <2>2, <2>4, <2>5 DEF KeptLast, HasSession, SessionIds, MintedIds
  <2>7. QED
    BY <2>3, <2>6
<1>10. CASE Crash
  <2>1. saves' = <<>> /\ activeRun' = NoRun /\ files' = files
    BY <1>10 DEF Crash
  <2>2. PICK id \in {pointer.id, NoSession} : sessionIdRef' = id /\ state' = Restored(id)
    BY <1>10 DEF Crash
  <2>3. InTurn' /\ Extending'
    BY <2>1 DEF InTurn, Extending
  <2>4. id \in SessionIds /\ HasSession(id) => IsPrefix(files[id], Kept')
    <3> SUFFICES ASSUME id \in SessionIds, HasSession(id) PROVE IsPrefix(files[id], Kept')
      OBVIOUS
    <3>1. files[id] \in Seq(Message) /\ id # NoSession
      BY <1>1 DEF TypedSessions, HasSession
    <3>2. Kept' = Transcript(Display(files[id]))
      BY <2>1, <2>2, <3>1 DEF Kept, Restored
    <3>3. QED
      BY <3>1, <3>2, TranscriptDisplay, PrefixSelf
  <2>5. KeptLast'
    BY <2>1, <2>2, <2>4 DEF KeptLast, HasSession, ToSet, SessionIds, MintedIds
  <2>6. QED
    BY <2>3, <2>5
<1>11. CASE SubmitPrompt \/ Cancel \/ Exit \/ StartPointer \/ PointerLands \/ PointerFails
            \/ UNCHANGED vars \/ \E r \in Runs : Delta(r)
  <2>1. Kept' = Kept /\ sessionIdRef' = sessionIdRef
    BY <1>1, <1>11, KeptStays
  <2>2. saves' = saves /\ files' = files
    BY <1>11 DEF SubmitPrompt, Cancel, Exit, StartPointer, PointerLands, PointerFails, Delta,
       vars, save_vars
  <2>3. InTurn' /\ Extending'
    BY <1>2, <2>2 DEF InTurn, Extending, HasSession
  <2>4. KeptLast'
    BY <1>2, <2>1, <2>2 DEF KeptLast, HasSession, SessionIds, MintedIds
  <2>5. QED
    BY <2>3, <2>4
<1>12. ASSUME NEW id \in SessionIds, LoadSession(id) PROVE InTurn' /\ Extending' /\ KeptLast'
  <2>1. UNCHANGED <<state, sessionIdRef, activeRun, runs, saves, files>>
    BY <1>12 DEF LoadSession, run_vars, save_vars
  <2>2. Kept' = Kept
    BY <2>1 DEF Kept
  <2>3. QED
    BY <1>2, <2>1, <2>2 DEF InTurn, Extending, KeptLast, HasSession, SessionIds, MintedIds
<1>13. QED
  BY <1>2, <1>3, <1>4, <1>6, <1>7, <1>8, <1>9, <1>10, <1>11, <1>12 DEF Next, RunStep, LoadStep, SaveStep

LEMMA GrowingInit == Init => Exchanged /\ UnusedIds /\ Growing
<1> SUFFICES ASSUME Init PROVE Exchanged /\ UnusedIds /\ Growing
  OBVIOUS
<1> USE NothingAssumption
<1>1. /\ IInv /\ loads = <<>> /\ saves = <<>> /\ activeRun = NoRun
      /\ files = [id \in SessionIds |-> IF id \in Stored THEN <<Say(id, "user")>> ELSE NoFile]
  BY InitIInv DEF Init
<1>2. PICK id \in Stored \cup {NoSession} :
          LET restored == IF Restorable(id) THEN id ELSE NoSession IN
          sessionIdRef = restored /\ state = Restored(restored)
  BY DEF Init
<1>3. Exchanged
  BY <1>1 DEF Exchanged
<1>4. UnusedIds
  BY <1>1, <1>2, NamesAssumption DEF UnusedIds, ToSet, SessionIds
<1>5. InTurn /\ Extending
  BY <1>1 DEF InTurn, Extending
<1>6. KeptLast
  <2> SUFFICES ASSUME sessionIdRef \in SessionIds, HasSession(sessionIdRef)
               PROVE  IsPrefix(files[sessionIdRef], Kept)
    BY <1>1 DEF KeptLast, ToSet
  <2>1. files[sessionIdRef] \in Seq(Message)
    BY <1>1 DEF IInv, TypedSessions, HasSession
  <2>2. Kept = Transcript(Display(files[sessionIdRef]))
    BY <1>1, <1>2 DEF Kept, Restored
  <2>3. QED
    BY <2>1, <2>2, TranscriptDisplay, PrefixSelf
<1>7. QED
  BY <1>1, <1>3, <1>4, <1>5, <1>6 DEF Growing

LEMMA GrowthInvariant ==
    Spec => [](~RenderLag => /\ OneOwner /\ NewRunsFree /\ Exchanged /\ UnusedIds /\ Growing)
<1> DEFINE Growth == ~RenderLag => /\ OneOwner /\ NewRunsFree /\ Exchanged /\ UnusedIds
                                   /\ Growing
<1>1. Init => Growth
  BY OwnersInit, GrowingInit
<1>2. IInv /\ IInv' /\ [Next]_vars /\ Growth => Growth'
  <2> SUFFICES ASSUME IInv, IInv', [Next]_vars, ~RenderLag, OneOwner, NewRunsFree,
                      Exchanged, UnusedIds, Growing
               PROVE  OneOwner' /\ NewRunsFree' /\ Exchanged' /\ UnusedIds' /\ Growing'
    OBVIOUS
  <2>1. /\ RunOwned /\ TypedRuns /\ TypedSessions /\ TypedSessions' /\ TypedPointer
        /\ NoDangling
    BY DEF IInv
  <2>2. OneOwner' /\ NewRunsFree'
    BY <2>1, OwnersStep
  <2>3. Exchanged' /\ UnusedIds'
    BY <2>1, ExchangedStep, UnusedIdsStep
  <2>4. Growing'
    BY GrowingStep
  <2>5. QED
    BY <2>2, <2>3, <2>4
<1>3. QED
  BY <1>1, <1>2, Invariant, PTL DEF Spec

(***************************************************************************)
(* "repeated exchanges keep appending to the same session" (App.tsx        *)
(* autosaveSession): whatever fails, crashes, is loaded or overlaps, a     *)
(* save extends what its session's file holds, until a /clear or a load    *)
(* that shows less than was written or asked to be written, as long as     *)
(* callbacks see the state just dispatched.                                *)
(***************************************************************************)
THEOREM TranscriptsKept == ~RenderLag => (Spec => TranscriptsGrow)
<1>1. ASSUME IInv, [Next]_vars, InTurn, Extending, NEW id \in SessionIds, files[id] # NoFile
      PROVE  IsPrefix(files[id], files'[id])
  <2>1. files[id] \in Seq(Message)
    BY <1>1 DEF IInv, TypedSessions
  <2>2. CASE files'[id] = files[id]
    BY <2>1, <2>2, PrefixSelf
  <2>3. ASSUME NEW i \in DOMAIN saves, SaveLands(i), files'[id] # files[id]
        PROVE  IsPrefix(files[id], files'[id])
    <3>1. saves[i].id = id /\ files'[id] = saves[i].messages
      BY <1>1, <2>3, SaveAt DEF SaveLands, IInv, TypedSessions
    <3>2. saves[i].stage = "writing"
      BY <2>3 DEF SaveLands, MayWrite
    <3>3. QED
      BY <1>1, <3>1, <3>2 DEF Extending, HasSession
  <2>4. QED
    BY <1>1, <2>2, <2>3 DEF Next, Render, SubmitPrompt, Cancel, Exit, NewSession, Clear,
     LoadSession, RunStep, Delta, SettleRun, LoadStep, LoadRead, LoadFails, LoadResolved,
     SaveStep, SaveFails, SaveReturns, StartPointer, PointerLands, PointerFails, Crash, vars,
     save_vars
<1>2. ASSUME ~RenderLag PROVE Spec => TranscriptsGrow
  <2>1. IInv /\ (~RenderLag => /\ OneOwner /\ NewRunsFree /\ Exchanged /\ UnusedIds /\ Growing)
           /\ [Next]_vars
        => [used.overtaken = 0 /\ used.clears = 0 =>
               \A id \in SessionIds :
                   files[id] # NoFile => IsPrefix(files[id], files'[id])]_files
    BY <1>1, <1>2 DEF Growing, Quiet
  <2>2. QED
    BY <2>1, Invariant, GrowthInvariant, PTL DEF Spec, TranscriptsGrow
<1>3. QED
  BY <1>2
=============================================================================
