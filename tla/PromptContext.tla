--------------------------- MODULE PromptContext ---------------------------
(***************************************************************************)
(* What the TUI would send its next prompt with: the provider connection,  *)
(* its catalog, the selected model and the staged documents                *)
(* (packages/cli/src/tui/App.tsx and the AppState its reducer keeps).      *)
(*                                                                         *)
(* The user connects, opens the model list, loads or creates a session,    *)
(* reads documents and submits prompts; the answers of the provider, of    *)
(* the file system and of the configuration queue arrive later, in any     *)
(* order, and each handler decides after its await whether it may still    *)
(* write.  A catalog is the provider it came from, a model the provider of *)
(* its id; credentials and overlays are left out.                          *)
(***************************************************************************)
EXTENDS Naturals, Sequences, FiniteSets

CONSTANTS
    Providers,    \* provider ids
    Docs,         \* workspace documents
    None,         \* no provider: an absent connection, an empty catalog
    MaxStaged,    \* MAX_STAGED_WORKSPACE_DOCUMENTS
    MaxConnects,  \* bound: submissions of the provider form
    MaxSessions,  \* bound: session loads and /new
    MaxRefreshes, \* bound: catalog requests of the model overlay in flight
    MaxReads      \* bound: document reads in flight

ASSUME ContextAssumption ==
    /\ None \notin Providers
    /\ {MaxStaged, MaxConnects, MaxSessions, MaxRefreshes, MaxReads}
           \subseteq Nat

Owners == Providers \cup {None}
Connects == 1..MaxConnects
Loads == 1..MaxSessions
Refreshes == 1..MaxRefreshes
Reads == 1..MaxReads

Attempt == [provider : Owners,
            stage : {"unmade", "resolving", "fetching", "persisting",
                     "done"}]
Load == [provider : Owners, stage : {"none", "reading", "resolving", "done"}]
Read == [doc : Docs, session : 0..MaxSessions, seen : SUBSET Docs]

VARIABLES
    connection,   \* state.connection
    status,       \* state.connectionStatus
    catalog,      \* state.catalog: whose models it lists
    model,        \* state.model: whose model is selected
    staged,       \* state.stagedDocuments, each with its read's generation
    generation,   \* sessionGeneration
    shown,        \* the generation of the session on display
    connectGen,   \* connectGeneration
    attempt,      \* what each call of connect() waits for
    load,         \* what each load of a session waits for, by generation
    refreshing,   \* the provider each call of refreshCatalog asks
    reading,      \* the reads in flight
    activeRun,    \* is activeRun set?
    shuttingDown,
    queue,        \* #configSaveQueue: the connect() calls that save theirs
    saved         \* the call whose connection the configuration file holds

context == <<connection, status, catalog, model, staged>>
sessions == <<generation, shown, load>>
connects == <<connectGen, attempt, queue, saved>>
requests == <<refreshing, reading>>
process == <<activeRun, shuttingDown>>
vars == <<context, sessions, connects, requests, process>>

NoRead == [doc |-> None]

\* The state App starts in: nothing is connected, but restoreState may have
\* found the connection of the last session and a model of its provider.
Init ==
    /\ connection \in Owners
    /\ model \in {None, connection}
    /\ status = "disconnected" /\ catalog = None
    /\ staged = {}
    /\ generation = 0 /\ shown = 0 /\ connectGen = 0
    /\ attempt = [n \in Connects |-> [provider |-> None, stage |-> "unmade"]]
    /\ load = [g \in Loads |-> [provider |-> None, stage |-> "none"]]
    /\ refreshing = [r \in Refreshes |-> None]
    /\ reading = [r \in Reads |-> NoRead]
    /\ activeRun = FALSE /\ shuttingDown = FALSE
    /\ queue = <<>> /\ saved = 0

-----------------------------------------------------------------------------
(***************************************************************************)
(* The reducer's transitions of the connection.  Each forgets the catalog  *)
(* and the model.                                                          *)
(***************************************************************************)
Unsettled(newStatus) ==
    status' = newStatus /\ catalog' = None /\ model' = None

Connecting(p) == connection' = p /\ Unsettled("connecting")

Connected(p, models) ==
    /\ connection' = p /\ status' = "connected"
    /\ catalog' = models /\ model' = None

\* The provider of a failed attempt stays on display.
Failed == UNCHANGED connection /\ Unsettled("failed")

\* connection/restored and connection/cleared, followed in the same step by
\* the model of session/load.
Restored(p, m) ==
    /\ connection' = p /\ status' = "disconnected"
    /\ catalog' = None /\ model' = m

Cleared == connection' = None /\ Unsettled("failed")

-----------------------------------------------------------------------------
(***************************************************************************)
(* connect().                                                              *)
(***************************************************************************)
\* May the n-th call still write?
Current(n) == n = connectGen /\ ~shuttingDown

\* A blank key is looked up in the provider registry first.
Connect(p, typedKey) ==
    /\ ~shuttingDown /\ ~activeRun /\ connectGen < MaxConnects
    /\ connectGen' = connectGen + 1
    /\ attempt' = [attempt EXCEPT ![connectGen + 1] =
           [provider |-> p,
            stage |-> IF typedKey THEN "fetching" ELSE "resolving"]]
    /\ Connecting(p)
    /\ UNCHANGED <<staged, sessions, queue, saved, requests, process>>

Attempted(n, stage) == attempt' = [attempt EXCEPT ![n].stage = stage]

ResolveReturns(n) ==
    /\ attempt[n].stage = "resolving"
    /\ Attempted(n, IF Current(n) THEN "fetching" ELSE "done")
    /\ UNCHANGED <<context, sessions, connectGen, queue, saved, requests,
                   process>>

\* Mutant: a superseded reply is not told apart.
ConnectMayWriteBug(n) == ~shuttingDown /\ ~activeRun

ConnectMayWrite(n) == Current(n) /\ ~activeRun

\* The provider answers with its models, with an empty list, or not at all.
ConnectReturns(n) ==
    /\ attempt[n].stage = "fetching"
    /\ \/ /\ ~ConnectMayWrite(n)
          /\ Attempted(n, "done")
          /\ UNCHANGED <<connection, status, catalog, model>>
       \/ /\ ConnectMayWrite(n)
          /\ Attempted(n, "persisting")
          /\ \E models \in {None, attempt[n].provider} :
                 Connected(attempt[n].provider, models)
       \/ /\ ConnectMayWrite(n)
          /\ Attempted(n, "done")
          /\ Failed
    /\ UNCHANGED <<staged, sessions, connectGen, queue, saved, requests,
                   process>>

\* Mutant: the configuration is written whoever connected since.
ConnectMaySaveBug(n) == ~shuttingDown

ConnectMaySave(n) == Current(n)

\* persistProvider reports its failures, and the connection is recorded in
\* the configuration whether the profile could be saved or not.
PersistReturns(n) ==
    /\ attempt[n].stage = "persisting"
    /\ Attempted(n, "done")
    /\ queue' = IF ConnectMaySave(n) THEN Append(queue, n) ELSE queue
    /\ UNCHANGED <<context, sessions, connectGen, saved, requests, process>>

\* A queued write of the configuration ends, well or not.
ConfigLands ==
    /\ queue # <<>>
    /\ queue' = Tail(queue)
    /\ saved' \in {saved, Head(queue)}
    /\ UNCHANGED <<context, sessions, connectGen, attempt, requests, process>>

-----------------------------------------------------------------------------
(***************************************************************************)
(* The model overlay.                                                      *)
(***************************************************************************)
\* openModelOverlay asks for the catalog only when it has none.
OpenModels(r) ==
    /\ ~shuttingDown /\ ~activeRun
    /\ connection # None /\ catalog = None
    /\ refreshing[r] = None
    /\ refreshing' = [refreshing EXCEPT ![r] = connection]
    /\ UNCHANGED <<context, sessions, connects, reading, process>>

\* The reply is shown whatever happened to the connection since, unless a
\* response is in progress.
RefreshReturns(r) ==
    /\ refreshing[r] # None
    /\ refreshing' = [refreshing EXCEPT ![r] = None]
    /\ catalog' \in IF activeRun THEN {catalog}
                                 ELSE {catalog, None, refreshing[r]}
    /\ UNCHANGED <<connection, status, model, staged, sessions, connects,
                   reading, process>>

SelectModel ==
    /\ ~shuttingDown /\ ~activeRun
    /\ catalog # None
    /\ model' = catalog
    /\ UNCHANGED <<connection, status, catalog, staged, sessions, connects,
                   requests, process>>

-----------------------------------------------------------------------------
(***************************************************************************)
(* Sessions.                                                               *)
(***************************************************************************)
\* Loading and /new claim the next generation before they wait for anything.
NextGeneration ==
    /\ ~shuttingDown /\ ~activeRun /\ generation < MaxSessions
    /\ generation' = generation + 1

LoadSession ==
    /\ NextGeneration
    /\ load' = [load EXCEPT ![generation + 1].stage = "reading"]
    /\ UNCHANGED <<context, shown, connects, requests, process>>

NewSession ==
    /\ NextGeneration
    /\ shown' = generation + 1
    /\ staged' = {}
    /\ UNCHANGED <<connection, status, catalog, model, load, connects,
                   requests, process>>

\* Mutant: a load lands in the middle of a response.
LoadMayWriteBug(g) == g = generation /\ ~shuttingDown

LoadMayWrite(g) == g = generation /\ ~shuttingDown /\ ~activeRun

Loaded(g, stage) == load' = [load EXCEPT ![g].stage = stage]

Unaffected == UNCHANGED <<generation, connects, requests, process>>

\* A load that was superseded, that found no session or one of another
\* workspace.
LoadStops(g) == Loaded(g, "done") /\ UNCHANGED <<context, shown>>

\* session/load: the session replaces the one on display.
Show(g) == shown' = g /\ staged' = {}

\* A session that names no provider keeps the connection; it also keeps the
\* model when it names none itself.
LoadUnowned(g) ==
    /\ Loaded(g, "done") /\ Show(g)
    /\ model' \in {model, None}
    /\ UNCHANGED <<connection, status, catalog>>

\* Its provider id is malformed.
LoadBroken(g) == Loaded(g, "done") /\ Show(g) /\ Cleared

LoadOwned(g) ==
    /\ \E p \in Providers :
           load' = [load EXCEPT ![g] = [provider |-> p, stage |-> "resolving"]]
    /\ UNCHANGED <<context, shown>>

\* The file was read.
LoadRead(g) ==
    /\ load[g].stage = "reading"
    /\ \/ LoadStops(g)
       \/ LoadMayWrite(g) /\ (LoadUnowned(g) \/ LoadBroken(g) \/ LoadOwned(g))
    /\ Unaffected

\* resolveProvider returned the profile, or null.
LoadResolved(g) ==
    /\ load[g].stage = "resolving"
    /\ Loaded(g, "done")
    /\ \/ ~LoadMayWrite(g) /\ UNCHANGED <<context, shown>>
       \/ /\ LoadMayWrite(g)
          /\ Show(g)
          /\ \/ Cleared
             \/ \E m \in {None, load[g].provider} :
                    Restored(load[g].provider, m)
    /\ Unaffected

-----------------------------------------------------------------------------
(***************************************************************************)
(* Documents.                                                              *)
(***************************************************************************)
StagedDocs == {s.doc : s \in staged}

\* The limit is judged by the documents staged when the read was asked for.
ReadDocument(d, r) ==
    /\ ~shuttingDown /\ ~activeRun
    /\ reading[r] = NoRead
    /\ reading' = [reading EXCEPT ![r] =
           [doc |-> d, session |-> generation, seen |-> StagedDocs]]
    /\ UNCHANGED <<context, sessions, connects, refreshing, process>>

\* Mutant: the document of a session that was left is staged.
ReadMayStageBug(read) ==
    /\ ~shuttingDown /\ ~activeRun
    /\ Cardinality(read.seen \ {read.doc}) < MaxStaged

ReadMayStage(read) ==
    /\ read.session = generation /\ ~shuttingDown /\ ~activeRun
    /\ Cardinality(read.seen \ {read.doc}) < MaxStaged

\* A document read again replaces the one staged before.
Stage(read) ==
    staged' = {s \in staged : s.doc # read.doc}
                  \cup {[doc |-> read.doc, session |-> read.session]}

ReadReturns(r) ==
    /\ reading[r] # NoRead
    /\ reading' = [reading EXCEPT ![r] = NoRead]
    /\ \/ UNCHANGED staged
       \/ ReadMayStage(reading[r]) /\ Stage(reading[r])
    /\ UNCHANGED <<connection, status, catalog, model, sessions, connects,
                   refreshing, process>>

-----------------------------------------------------------------------------

PromptReady == status # "connecting" /\ connection # None /\ model # None

\* submitPrompt; it takes the staged documents with it.
Submit ==
    /\ ~shuttingDown /\ ~activeRun /\ PromptReady
    /\ activeRun' = TRUE
    /\ staged' = {}
    /\ UNCHANGED <<connection, status, catalog, model, sessions, connects,
                   requests, shuttingDown>>

RunEnds ==
    /\ activeRun
    /\ activeRun' = FALSE
    /\ UNCHANGED <<context, sessions, connects, requests, shuttingDown>>

\* /exit; it also aborts the run, whose promise settles later.
Exit ==
    /\ ~shuttingDown
    /\ shuttingDown' = TRUE
    /\ UNCHANGED <<context, sessions, connects, requests, activeRun>>

-----------------------------------------------------------------------------
Next ==
    \/ \E p \in Providers, typedKey \in BOOLEAN : Connect(p, typedKey)
    \/ \E n \in Connects :
           ResolveReturns(n) \/ ConnectReturns(n) \/ PersistReturns(n)
    \/ ConfigLands
    \/ \E r \in Refreshes : OpenModels(r) \/ RefreshReturns(r)
    \/ SelectModel
    \/ LoadSession
    \/ \E g \in Loads : LoadRead(g) \/ LoadResolved(g)
    \/ NewSession
    \/ \E r \in Reads : ReadReturns(r) \/ \E d \in Docs : ReadDocument(d, r)
    \/ Submit
    \/ RunEnds
    \/ Exit

Spec == Init /\ [][Next]_vars

\* The registry answers, and a request of a catalog ends at the latest with
\* the timeout of the provider adapter.
Fairness ==
    \A n \in Connects :
        WF_vars(ResolveReturns(n)) /\ WF_vars(ConnectReturns(n))

FairSpec == Spec /\ Fairness

-----------------------------------------------------------------------------
(***************************************************************************)
(* Properties.                                                             *)
(***************************************************************************)
\* The types; and the session on display is one whose generation was claimed
\* (sessionGeneration).
TypeOK ==
    /\ connection \in Owners /\ catalog \in Owners /\ model \in Owners
    /\ status \in {"disconnected", "connecting", "connected", "failed"}
    /\ staged \subseteq [doc : Docs, session : 0..MaxSessions]
    /\ generation \in 0..MaxSessions /\ shown \in 0..generation
    /\ connectGen \in 0..MaxConnects
    /\ attempt \in [Connects -> Attempt]
    /\ load \in [Loads -> Load]
    /\ refreshing \in [Refreshes -> Owners]
    /\ reading \in [Reads -> Read \cup {NoRead}]
    /\ activeRun \in BOOLEAN /\ shuttingDown \in BOOLEAN
    /\ queue \in Seq(Connects)
    /\ saved \in 0..MaxConnects

\* What a response in progress was asked with stays on display while it
\* lasts: no answer that was under way when the prompt was submitted
\* replaces the connection, the catalog, the model or the staged documents
\* (the second blockCommandDuringRun of every handler that awaits).
RunKeepsContext ==
    [][activeRun /\ activeRun' => UNCHANGED context]_vars

\* "A late reply from a superseded endpoint cannot replace the connection":
\* the TUI is connected to the provider of the last form submitted, however
\* the answers to earlier ones arrive.
NewestConnectWins ==
    status = "connected" => connection = attempt[connectGen].provider

\* The configuration file never goes back to the connection of an earlier
\* form: what the next start restores is the last connection saved.
SavedInOrder == [][saved' >= saved]_vars

\* No document is staged that was asked for before the session on display
\* was, though /new or a load may replace the session while the file is
\* read.
StagedInOwnSession == \A s \in staged : s.session >= shown

\* "Clearing it prevents a catalog from the previous provider being shown as
\* if it belonged to this restored identity" (reducer.ts): the catalog on
\* display is that of the connection.
CatalogOfConnection == catalog \in {None, connection}
=============================================================================
