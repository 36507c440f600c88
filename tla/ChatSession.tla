---------------------------- MODULE ChatSession -----------------------------
(***************************************************************************)
(* Run ownership and session persistence of the terminal interface:        *)
(* packages/cli/src/tui/App.tsx with the reducer it dispatches to, the     *)
(* session store, and the session pointer (lastSessionId) of the config.   *)
(*                                                                         *)
(* A step is one synchronous stretch of JavaScript: a key the user         *)
(* presses, or the continuation of one await.  Files land in steps of      *)
(* their own.  A message is the run that produced it and its role; what it *)
(* says is left out.  The conversation of a session that was on disk       *)
(* before the program started is one message of an earlier "run", named    *)
(* after the session.                                                      *)
(***************************************************************************)
EXTENDS Naturals, Sequences, SequencesExt

CONSTANTS
    Stored,       \* sessions on disk before the first start
    Foreign,      \* the stored sessions that belong to another workspace
    NoProvider,   \* the stored sessions saved without a provider
    NoSession,    \* no session id
    NoFile,       \* what is read when a session has no file
    NoRun,        \* activeRun.current === undefined
    RenderLag,    \* may a key arrive between a dispatch and the render?
    MaxHistory,   \* MAX_TUI_HISTORY_MESSAGES
    MaxRuns,      \* bound: prompts accepted
    MaxNews,      \* bound: /new commands
    MaxLoads,     \* bound: session loads
    MaxClears,    \* bound: /clear commands
    MaxFailures,  \* bound: failed reads and writes
    MaxCrashes    \* bound: times the process dies

ASSUME SessionAssumption ==
    /\ Foreign \subseteq Stored
    /\ NoProvider \subseteq Stored
    /\ RenderLag \in BOOLEAN
    /\ MaxHistory \in Nat
    /\ {MaxRuns, MaxNews, MaxLoads, MaxClears, MaxFailures, MaxCrashes}
           \subseteq Nat

Runs == 1..MaxRuns
MintedIds == 1..(MaxNews + MaxCrashes + 1)
SessionIds == Stored \cup MintedIds
Generations == 0..(MaxNews + MaxLoads)

VARIABLES
    state,        \* the reducer's state: conversation and runStatus
    shown,        \* stateRef.current: the state of the last render
    activeRun,    \* activeRun.current
    shuttingDown, \* shuttingDown.current
    sessionIdRef, \* sessionIdRef.current
    generation,   \* sessionGeneration.current
    runs,         \* the calls of submitPrompt that got past its checks
    loads,        \* the calls of loadSession that wait for something
    saves,        \* the calls of saveSession that have not returned
    pointerQueue, \* sessionConfigWrite: the pointer writes not yet settled
    pointerBusy,  \* is the first of them inside saveConfig?
    files,        \* disk: the messages of each session file
    pointer,      \* disk: lastSessionId, with the generation that wrote it
    minted,       \* session ids made so far
    screen,       \* history: the generation whose session is on the screen
    used          \* the counters behind the bounds, and how many loads showed
                  \* less of their session than was asked to be saved

run_vars == <<activeRun, runs>>
save_vars == <<saves, files>>
pointer_vars == <<pointerQueue, pointerBusy, pointer>>
vars == <<state, shown, activeRun, shuttingDown, sessionIdRef, generation,
          runs, loads, saves, pointerQueue, pointerBusy, files, pointer,
          minted, screen, used>>

----------------------------------------------------------------------------
(* Data                                                                     *)

Message == [run : Runs \cup Stored, role : {"user", "assistant"}]

\* What stands for the lack of a run, a session or a file is none.
ASSUME NothingAssumption ==
    /\ NoRun \notin Runs
    /\ NoSession \notin SessionIds
    /\ NoFile \notin Seq(Message)

\* The stored sessions were made before: no id made here is one of theirs, and
\* no run of this program is named after one.
ASSUME NamesAssumption == Stored \cap (Runs \cup MintedIds) = {}

Say(r, role) == [run |-> r, role |-> role]

\* What the conversation shows of saved messages: nothing is streaming.
Entry(message, streaming) ==
    [run |-> message.run, role |-> message.role, streaming |-> streaming]

Display(messages) ==
    [i \in DOMAIN messages |-> Entry(messages[i], FALSE)]

\* What is saved of the entries of a conversation.
Transcript(conversation) ==
    [i \in DOMAIN conversation |->
        Say(conversation[i].run, conversation[i].role)]

IdleRun == [stage |-> "new", session |-> NoSession, gen |-> 0, base |-> <<>>,
            started |-> FALSE, aborted |-> FALSE]
DoneRun == [IdleRun EXCEPT !.stage = "done"]

\* The state the callbacks read: React renders some time after a dispatch.
Seen == IF RenderLag THEN shown ELSE state

\* Mutant: the generation is not compared.
FreshBug(gen) == ~shuttingDown

\* An asynchronous result may act only for the generation that asked for it.
Fresh(gen) == gen = generation /\ ~shuttingDown

Count(counter) == used' = [used EXCEPT ![counter] = @ + 1]

----------------------------------------------------------------------------
(* Starting the program: the pointer decides what is restored, and a       *)
(* pointer to a session that cannot be restored here is pruned.            *)

Restorable(id) ==
    id # NoSession /\ id \notin Foreign /\ files[id] # NoFile

Restored(id) ==
    [conversation |-> IF id = NoSession THEN <<>> ELSE Display(files[id]),
     runStatus |-> "idle"]

Init ==
    /\ files = [id \in SessionIds |->
                    IF id \in Stored THEN <<Say(id, "user")>> ELSE NoFile]
    /\ \E id \in Stored \cup {NoSession} :
           LET restored == IF Restorable(id) THEN id ELSE NoSession IN
           /\ pointer = [id |-> restored, gen |-> 0]
           /\ sessionIdRef = restored
           /\ state = Restored(restored)
           /\ shown = Restored(restored)
    /\ activeRun = NoRun
    /\ shuttingDown = FALSE
    /\ generation = 0
    /\ runs = [r \in Runs |-> IdleRun]
    /\ loads = <<>>
    /\ saves = <<>>
    /\ pointerQueue = <<>>
    /\ pointerBusy = FALSE
    /\ minted = 0
    /\ screen = 0
    /\ used = [loads |-> 0, news |-> 0, clears |-> 0, failures |-> 0,
               crashes |-> 0, overtaken |-> 0]

\* The process dies at any moment and is started again.  What had not
\* reached the disk is gone; reading the session back may fail.
Crash ==
    /\ used.crashes < MaxCrashes
    /\ \E id \in {pointer.id, NoSession} :
         /\ IF id = NoSession
            THEN Restorable(pointer.id) => used.failures < MaxFailures
            ELSE Restorable(pointer.id)
         /\ used' = [used EXCEPT
                        !.crashes = @ + 1,
                        !.failures = IF Restorable(pointer.id)
                                        /\ id = NoSession
                                     THEN @ + 1 ELSE @]
         /\ pointer' = [id |-> id, gen |-> 0]
         /\ sessionIdRef' = id
         /\ state' = Restored(id)
         /\ shown' = Restored(id)
    /\ activeRun' = NoRun
    /\ shuttingDown' = FALSE
    /\ generation' = 0
    /\ runs' = [r \in Runs |->
                    IF runs[r].stage = "running" THEN DoneRun ELSE runs[r]]
    /\ loads' = <<>>
    /\ saves' = <<>>
    /\ pointerQueue' = <<>>
    /\ pointerBusy' = FALSE
    /\ screen' = 0
    /\ UNCHANGED <<files, minted>>

\* React commits the dispatched state and the callbacks see it.
Render ==
    /\ RenderLag
    /\ shown # state
    /\ shown' = state
    /\ UNCHANGED <<state, run_vars, shuttingDown, sessionIdRef, generation,
                   loads, save_vars, pointer_vars, minted, screen, used>>

----------------------------------------------------------------------------
(* The reducer                                                              *)

Appended(r) ==
    state.conversation \o <<Entry(Say(r, "user"), FALSE),
                            Entry(Say(r, "assistant"), TRUE)>>

\* "conversation/finish"
Finished(r) ==
    [i \in DOMAIN state.conversation |->
        IF state.conversation[i].run = r
        THEN [state.conversation[i] EXCEPT !.streaming = FALSE]
        ELSE state.conversation[i]]

\* "conversation/remove" of the placeholder: a run has one.
WithoutPlaceholder(r) ==
    RemoveFirst(state.conversation, Entry(Say(r, "assistant"), TRUE))

\* "session/create" and "session/load" both replace the conversation and
\* declare the run idle; "session/create" starts from nothing.
SessionLoaded(messages) ==
    [conversation |-> Display(messages), runStatus |-> "idle"]

\* Mutant: the new session keeps the conversation.
SessionCreatedBug == [conversation |-> state.conversation,
                      runStatus |-> "idle"]

SessionCreated == [conversation |-> <<>>, runStatus |-> "idle"]

----------------------------------------------------------------------------
(* Runs                                                                     *)

\* submitComposer looks at the rendered status, submitPrompt at the run slot.
MayStart == Seen.runStatus = "idle" /\ activeRun = NoRun

NextRun == CHOOSE r \in Runs :
               /\ runs[r].stage = "new"
               /\ \A other \in Runs : runs[other].stage = "new" => r <= other

SubmitPrompt ==
    /\ ~shuttingDown
    /\ MayStart
    /\ Len(Seen.conversation) <= MaxHistory - 2
    /\ \E r \in Runs : runs[r].stage = "new"
    /\ runs' = [runs EXCEPT ![NextRun] =
                   [stage |-> "running", session |-> sessionIdRef,
                    gen |-> generation,
                    base |-> Transcript(Seen.conversation),
                    started |-> FALSE, aborted |-> FALSE]]
    /\ activeRun' = NextRun
    /\ state' = [conversation |-> Appended(NextRun),
                 runStatus |-> "starting"]
    /\ UNCHANGED <<shown, shuttingDown, sessionIdRef, generation, loads,
                   save_vars, pointer_vars, minted, screen, used>>

\* The first delta.  Later ones only lengthen the text.
Delta(r) ==
    /\ runs[r].stage = "running"
    /\ ~shuttingDown
    /\ ~runs[r].started
    /\ runs' = [runs EXCEPT ![r].started = TRUE]
    /\ state' = [state EXCEPT !.runStatus = "streaming"]
    /\ UNCHANGED <<shown, activeRun, shuttingDown, sessionIdRef, generation,
                   loads, save_vars, pointer_vars, minted, screen, used>>

\* Ctrl+X
Cancel ==
    /\ ~shuttingDown
    /\ activeRun # NoRun
    /\ runs' = [runs EXCEPT ![activeRun].aborted = TRUE]
    /\ state' = [state EXCEPT !.runStatus = "cancelling"]
    /\ UNCHANGED <<shown, activeRun, shuttingDown, sessionIdRef, generation,
                   loads, save_vars, pointer_vars, minted, screen, used>>

Exchange(r) ==
    runs[r].base \o <<Say(r, "user"), Say(r, "assistant")>>

Save(kind, id, gen, messages) ==
    [kind |-> kind, id |-> id, gen |-> gen, messages |-> messages,
     stage |-> "writing"]

\* autosaveSession up to its await: a stale call returns at once.
AutoSave(r, id) ==
    saves' = IF Fresh(runs[r].gen)
             THEN Append(saves, Save("autosave", id, runs[r].gen, Exchange(r)))
             ELSE saves

NeedsId == sessionIdRef = NoSession

\* The run's promise settles, or rejects, which leaves no outcome to save.
\* The conversation is finished and saved unless the program is leaving.
SettleRun(r) ==
    /\ runs[r].stage = "running"
    /\ runs' = [runs EXCEPT ![r] = DoneRun]
    /\ activeRun' = NoRun
    /\ IF shuttingDown
       THEN UNCHANGED <<state, sessionIdRef, minted, saves>>
       ELSE /\ state' = [conversation |-> IF runs[r].started
                                          THEN Finished(r)
                                          ELSE WithoutPlaceholder(r),
                         runStatus |-> "idle"]
            /\ \E outcome \in BOOLEAN :
                 IF runs[r].started /\ outcome
                 THEN /\ minted' = IF NeedsId THEN minted + 1 ELSE minted
                      /\ sessionIdRef' = IF NeedsId THEN minted + 1
                                         ELSE sessionIdRef
                      /\ AutoSave(r, sessionIdRef')
                 ELSE UNCHANGED <<sessionIdRef, minted, saves>>
    /\ UNCHANGED <<shown, shuttingDown, generation, loads, files,
                   pointer_vars, screen, used>>

\* Leaving: /exit, or the component is unmounted.
Exit ==
    /\ ~shuttingDown
    /\ shuttingDown' = TRUE
    /\ runs' = IF activeRun = NoRun THEN runs
               ELSE [runs EXCEPT ![activeRun].aborted = TRUE]
    /\ UNCHANGED <<state, shown, activeRun, sessionIdRef, generation, loads,
                   save_vars, pointer_vars, minted, screen, used>>

----------------------------------------------------------------------------
(* Commands that replace the session or the conversation.  All of them are *)
(* refused while a run is active.                                          *)

Unblocked == activeRun = NoRun

\* /new
NewSession ==
    /\ ~shuttingDown
    /\ Unblocked
    /\ used.news < MaxNews
    /\ Count("news")
    /\ generation' = generation + 1
    /\ screen' = generation + 1
    /\ minted' = minted + 1
    /\ sessionIdRef' = minted + 1
    /\ state' = SessionCreated
    /\ saves' = Append(saves,
                       Save("create", minted + 1, generation + 1,
                            Transcript(SessionCreated.conversation)))
    /\ UNCHANGED <<shown, run_vars, shuttingDown, loads, files, pointer_vars>>

\* /clear and Ctrl+L
Clear ==
    /\ ~shuttingDown
    /\ Unblocked
    /\ used.clears < MaxClears
    /\ Count("clears")
    /\ state' = [state EXCEPT !.conversation = <<>>]
    /\ UNCHANGED <<shown, run_vars, shuttingDown, sessionIdRef, generation,
                   loads, save_vars, pointer_vars, minted, screen>>

----------------------------------------------------------------------------
(* Loading a session                                                        *)

\* The user picks a listed session; the load claims the next generation
\* before it waits for anything.
LoadSession(id) ==
    /\ ~shuttingDown
    /\ Unblocked
    /\ files[id] # NoFile
    /\ used.loads < MaxLoads
    /\ Count("loads")
    /\ generation' = generation + 1
    /\ loads' = Append(loads, [id |-> id, gen |-> generation + 1,
                               stage |-> "reading", messages |-> <<>>])
    /\ UNCHANGED <<state, shown, run_vars, shuttingDown, sessionIdRef,
                   save_vars, pointer_vars, minted, screen>>

\* Mutant: a run that started in the meantime does not stop the load.
MayApplyBug(load) == Fresh(load.gen)

MayApply(load) == Fresh(load.gen) /\ Unblocked

\* The file is read outside the queue of its writes, and the screen follows
\* some time later: what is shown can lack messages that a save wrote in the
\* meantime or is still to write.
Overtaken(id, messages) ==
    \/ files[id] # messages
    \/ \E i \in DOMAIN saves : saves[i].id = id /\ saves[i].stage = "writing"

ApplyLoad(load, messages) ==
    /\ state' = SessionLoaded(messages)
    /\ sessionIdRef' = load.id
    /\ screen' = load.gen
    /\ pointerQueue' = Append(pointerQueue, [id |-> load.id, gen |-> load.gen])
    /\ IF Overtaken(load.id, messages)
       THEN Count("overtaken")
       ELSE UNCHANGED used

KeepSession == UNCHANGED <<state, sessionIdRef, screen, pointerQueue, used>>

\* The file was read: a session of this workspace goes on to its provider,
\* or straight to the screen when it names none.
LoadRead(i) ==
    LET load == loads[i] IN
    /\ load.stage = "reading"
    /\ \/ /\ ~MayApply(load) \/ load.id \in Foreign
          /\ loads' = RemoveAt(loads, i)
          /\ KeepSession
       \/ /\ MayApply(load)
          /\ load.id \in NoProvider \ Foreign
          /\ loads' = RemoveAt(loads, i)
          /\ ApplyLoad(load, files[load.id])
       \/ /\ MayApply(load)
          /\ load.id \notin NoProvider \cup Foreign
          /\ loads' = [loads EXCEPT ![i].stage = "resolving",
                                    ![i].messages = files[load.id]]
          /\ KeepSession
    /\ UNCHANGED <<shown, run_vars, shuttingDown, generation, save_vars,
                   pointerBusy, pointer, minted>>

\* loadSession of the controller answers null.
LoadFails(i) ==
    /\ loads[i].stage = "reading"
    /\ used.failures < MaxFailures
    /\ Count("failures")
    /\ loads' = RemoveAt(loads, i)
    /\ UNCHANGED <<state, shown, run_vars, shuttingDown, sessionIdRef,
                   generation, save_vars, pointer_vars, minted, screen>>

\* The provider of the session was resolved, or is missing: either way the
\* transcript is shown.
LoadResolved(i) ==
    /\ loads[i].stage = "resolving"
    /\ loads' = RemoveAt(loads, i)
    /\ IF MayApply(loads[i])
       THEN ApplyLoad(loads[i], loads[i].messages)
       ELSE KeepSession
    /\ UNCHANGED <<shown, run_vars, shuttingDown, generation, save_vars,
                   pointerBusy, pointer, minted>>

----------------------------------------------------------------------------
(* Session files.  Writes of one session land in the order they were       *)
(* asked for, writes of two sessions in any order.                         *)

\* Mutant: writes of one session are not queued.
MayWriteBug(i) == saves[i].stage = "writing"

MayWrite(i) ==
    /\ saves[i].stage = "writing"
    /\ \A j \in 1..(i - 1) :
           saves[j].id = saves[i].id => saves[j].stage # "writing"

SaveLands(i) ==
    /\ MayWrite(i)
    /\ saves' = [saves EXCEPT ![i].stage = "ok"]
    /\ files' = [files EXCEPT ![saves[i].id] = saves[i].messages]
    /\ UNCHANGED <<state, shown, run_vars, shuttingDown, sessionIdRef,
                   generation, loads, pointer_vars, minted, screen, used>>

SaveFails(i) ==
    /\ MayWrite(i)
    /\ used.failures < MaxFailures
    /\ Count("failures")
    /\ saves' = [saves EXCEPT ![i].stage = "failed"]
    /\ UNCHANGED <<state, shown, run_vars, shuttingDown, sessionIdRef,
                   generation, loads, files, pointer_vars, minted, screen>>

\* Mutant: the pointer moves although the file could not be written.
SavedBug(save) == save.stage # "writing"

Saved(save) == save.stage = "ok"

\* saveSession returned: the pointer follows unless the session was replaced
\* in the meantime.
SaveReturns(i) ==
    /\ saves[i].stage # "writing"
    /\ saves' = RemoveAt(saves, i)
    /\ pointerQueue' = IF Saved(saves[i]) /\ Fresh(saves[i].gen)
                       THEN Append(pointerQueue, [id |-> saves[i].id,
                                                  gen |-> saves[i].gen])
                       ELSE pointerQueue
    /\ UNCHANGED <<state, shown, run_vars, shuttingDown, sessionIdRef,
                   generation, loads, files, pointerBusy, pointer, minted,
                   screen, used>>

----------------------------------------------------------------------------
(* The session pointer: one write of the config at a time.                  *)

\* Mutant: a stale write ends the queue.
AfterStaleBug == pointerQueue

AfterStale == Tail(pointerQueue)

StartPointer ==
    /\ pointerQueue # <<>>
    /\ ~pointerBusy
    /\ IF Fresh(Head(pointerQueue).gen)
       THEN pointerBusy' = TRUE /\ UNCHANGED pointerQueue
       ELSE pointerQueue' = AfterStale /\ UNCHANGED pointerBusy
    /\ UNCHANGED <<state, shown, run_vars, shuttingDown, sessionIdRef,
                   generation, loads, save_vars, pointer, minted, screen,
                   used>>

PointerLands ==
    /\ pointerBusy
    /\ pointer' = Head(pointerQueue)
    /\ pointerQueue' = Tail(pointerQueue)
    /\ pointerBusy' = FALSE
    /\ UNCHANGED <<state, shown, run_vars, shuttingDown, sessionIdRef,
                   generation, loads, save_vars, minted, screen, used>>

PointerFails ==
    /\ pointerBusy
    /\ used.failures < MaxFailures
    /\ Count("failures")
    /\ pointerQueue' = Tail(pointerQueue)
    /\ pointerBusy' = FALSE
    /\ UNCHANGED <<state, shown, run_vars, shuttingDown, sessionIdRef,
                   generation, loads, save_vars, pointer, minted, screen>>

----------------------------------------------------------------------------
RunStep == \E r \in Runs : Delta(r) \/ SettleRun(r)
LoadStep == \E i \in DOMAIN loads :
                LoadRead(i) \/ LoadFails(i) \/ LoadResolved(i)
SaveStep == \E i \in DOMAIN saves :
                SaveLands(i) \/ SaveFails(i) \/ SaveReturns(i)

Next ==
    \/ Render
    \/ SubmitPrompt \/ Cancel \/ Exit \/ NewSession \/ Clear
    \/ \E id \in SessionIds : LoadSession(id)
    \/ RunStep \/ LoadStep \/ SaveStep
    \/ StartPointer \/ PointerLands \/ PointerFails
    \/ Crash

Spec == Init /\ [][Next]_vars

\* The event loop runs every continuation, and the file system answers; the
\* user and the failures are free.
FairSpec ==
    /\ Spec
    /\ WF_vars(SaveStep)
    /\ WF_vars(StartPointer)
    /\ WF_vars(PointerLands \/ PointerFails)
    /\ WF_vars(LoadStep)

----------------------------------------------------------------------------
(* Properties                                                               *)

ConversationType ==
    Seq([run : Runs \cup Stored, role : {"user", "assistant"},
         streaming : BOOLEAN])
StateType ==
    [conversation : ConversationType,
     runStatus : {"idle", "starting", "streaming", "cancelling"}]
PointerType == [id : SessionIds \cup {NoSession}, gen : Generations]

\* The type invariant.
TypeOK ==
    /\ state \in StateType
    /\ shown \in StateType
    /\ activeRun \in Runs \cup {NoRun}
    /\ shuttingDown \in BOOLEAN
    /\ sessionIdRef \in SessionIds \cup {NoSession}
    /\ generation \in Generations
    /\ runs \in [Runs -> [stage : {"new", "running", "done"},
                         session : SessionIds \cup {NoSession}, gen : Generations, base : Seq(Message),
                         started : BOOLEAN, aborted : BOOLEAN]]
    /\ loads \in Seq([id : SessionIds, gen : Generations,
                      stage : {"reading", "resolving"},
                      messages : Seq(Message)])
    /\ saves \in Seq([kind : {"autosave", "create"}, id : SessionIds,
                      gen : Generations, messages : Seq(Message),
                      stage : {"writing", "ok", "failed"}])
    /\ pointerQueue \in Seq(PointerType)
    /\ pointerBusy \in BOOLEAN
    /\ pointerBusy => pointerQueue # <<>>
    /\ files \in [SessionIds -> Seq(Message) \cup {NoFile}]
    /\ pointer \in PointerType
    /\ minted \in 0..(MaxNews + MaxCrashes + 1)
    /\ screen \in 0..generation

\* The conversation ends with the prompt and the answer of run r.
EndsWith(r) ==
    LET entries == state.conversation
        last == Len(entries)
    IN  /\ last >= 2
        /\ entries[last - 1] = Entry(Say(r, "user"), FALSE)
        /\ entries[last] = Entry(Say(r, "assistant"), TRUE)

\* Nothing replaces the session under a running exchange, not even a load
\* that claimed its generation before the prompt and ends after it: the
\* session that will be saved to is the one the prompt was sent in, the
\* exchange is still at the end of the conversation, and no command raised
\* the generation, so that the exchange will be saved at all.
RunKeepsSession ==
    activeRun # NoRun =>
        /\ sessionIdRef = runs[activeRun].session
        /\ EndsWith(activeRun)
        /\ generation = runs[activeRun].gen

\* At every instant, also between the two writes of a save and after a
\* crash, the pointer on disk names a session file that exists.
NoDanglingPointer == pointer.id # NoSession => files[pointer.id] # NoFile

\* A late load never puts back a session over one asked for after it, and
\* a late save never moves the pointer back to an older generation's session.
LateResultsYield ==
    [][used'.crashes = used.crashes =>
           /\ screen' >= screen
           /\ pointer'.gen >= pointer.gen]_vars

RunsOf(id) == {files[id][i].run : i \in DOMAIN files[id]}
HasFile(id) == files[id] # NoFile

\* One exchange is saved in one session only: /new, loads and late saves
\* never carry messages from one session's file into another's.
SessionsStayApart ==
    \A one, other \in SessionIds :
        one # other /\ HasFile(one) /\ HasFile(other)
            => RunsOf(one) \cap RunsOf(other) = {}

\* A saved transcript only grows: each save extends what the file held.
\* (App.tsx: "repeated exchanges keep appending to the same session".)
TranscriptsOnlyGrow ==
    [][\A id \in SessionIds :
           files[id] # NoFile => IsPrefix(files[id], files'[id])]_files

\* It holds, loads included, until /clear, which keeps the session, or a load
\* that shows less of its session than was written or asked to be written:
\* the next exchange of that session then replaces the one not shown.
TranscriptsGrow ==
    [][used.overtaken = 0 /\ used.clears = 0 =>
           \A id \in SessionIds :
               files[id] # NoFile => IsPrefix(files[id], files'[id])]_files

\* A session being saved gets the pointer unless another one is asked for, a
\* write fails or the program leaves: its pointer write is never lost behind
\* older ones that are stale or stuck.
NewSessionPointed ==
    \A id \in MintedIds, gen \in Generations :
        (\E i \in DOMAIN saves : saves[i].id = id /\ saves[i].gen = gen)
            ~> \/ pointer.id = id
               \/ generation # gen
               \/ shuttingDown
               \/ used.failures + used.crashes > 0
=============================================================================
