------------------------ MODULE PromptContextProofs ------------------------
(***************************************************************************)
(* Theorems about PromptContext for every set of providers and documents   *)
(* and any number of connections, sessions, catalog requests and reads;    *)
(* and about what is remembered of the providers, ProviderStore.           *)
(***************************************************************************)
EXTENDS PromptContext, ProviderStore, SequenceTheorems, TLAPS

(***************************************************************************)
(* The type invariant.                                                     *)
(***************************************************************************)
LEMMA AttemptedType ==
    ASSUME TypeOK, NEW n \in Connects,
           NEW stage \in {"unmade", "resolving", "fetching", "persisting",
                          "done"},
           Attempted(n, stage)
    PROVE  attempt' \in [Connects -> Attempt]
<1>1. attempt[n] \in Attempt
  BY DEF TypeOK
<1>2. [attempt[n] EXCEPT !.stage = stage] \in Attempt
  BY <1>1 DEF Attempt
<1>3. QED
  BY <1>2 DEF TypeOK, Attempted

LEMMA LoadedType ==
    ASSUME TypeOK, NEW g \in Loads,
           NEW stage \in {"none", "reading", "resolving", "done"},
           Loaded(g, stage)
    PROVE  load' \in [Loads -> Load]
<1>1. load[g] \in Load
  BY DEF TypeOK
<1>2. [load[g] EXCEPT !.stage = stage] \in Load
  BY <1>1 DEF Load
<1>3. QED
  BY <1>2 DEF TypeOK, Loaded

LEMMA ConnectType ==
    ASSUME TypeOK, NEW p \in Providers, NEW typedKey \in BOOLEAN,
           Connect(p, typedKey)
    PROVE  TypeOK'
<1>1. connectGen' \in Connects
  BY ContextAssumption DEF Connect, TypeOK, Connects
<1>2. [provider |-> p,
       stage |-> IF typedKey THEN "fetching" ELSE "resolving"] \in Attempt
  BY DEF Attempt, Owners
<1>3. attempt' \in [Connects -> Attempt]
  BY <1>2 DEF Connect, TypeOK
<1>4. connectGen' \in 0..MaxConnects
  BY <1>1 DEF Connects
<1>5. QED
  BY <1>3, <1>4 DEF Connect, TypeOK, Connecting, Unsettled, Owners, sessions,
     requests, process

LEMMA ConnectStepsType ==
    ASSUME TypeOK, NEW n \in Connects,
           ResolveReturns(n) \/ ConnectReturns(n) \/ PersistReturns(n)
    PROVE  TypeOK'
<1>1. attempt[n].provider \in Owners
  BY DEF TypeOK, Attempt
<1>2. CASE ResolveReturns(n)
  BY <1>2, AttemptedType DEF ResolveReturns, TypeOK, context, sessions,
     requests, process
<1>3. CASE ConnectReturns(n)
  <2>1. attempt' \in [Connects -> Attempt]
    BY <1>3, AttemptedType DEF ConnectReturns
  <2>2. QED
    BY <1>1, <1>3, <2>1 DEF ConnectReturns, TypeOK, Connected, Failed,
       Unsettled, Owners, sessions, requests, process
<1>4. CASE PersistReturns(n)
  <2>1. attempt' \in [Connects -> Attempt]
    BY <1>4, AttemptedType DEF PersistReturns
  <2>2. queue' \in Seq(Connects)
    BY <1>4, AppendProperties DEF PersistReturns, TypeOK
  <2>3. QED
    BY <1>4, <2>1, <2>2 DEF PersistReturns, TypeOK, context, sessions,
       requests, process
<1>5. QED
  BY <1>2, <1>3, <1>4

LEMMA ConfigType == TypeOK /\ ConfigLands => TypeOK'
<1> SUFFICES ASSUME TypeOK, ConfigLands PROVE TypeOK'
  OBVIOUS
<1>1. queue' \in Seq(Connects) /\ Head(queue) \in Connects
  BY HeadTailProperties DEF ConfigLands, TypeOK
<1>2. saved' \in 0..MaxConnects
  BY <1>1, ContextAssumption DEF ConfigLands, TypeOK, Connects
<1>3. QED
  BY <1>1, <1>2 DEF ConfigLands, TypeOK, context, sessions, requests, process

LEMMA ModelsType ==
    ASSUME TypeOK, NEW r \in Refreshes,
           OpenModels(r) \/ RefreshReturns(r) \/ SelectModel
    PROVE  TypeOK'
<1>1. CASE OpenModels(r)
  BY <1>1 DEF OpenModels, TypeOK, context, sessions, connects, process
<1>2. CASE RefreshReturns(r)
  BY <1>2 DEF RefreshReturns, TypeOK, Owners, sessions, connects, process
<1>3. CASE SelectModel
  BY <1>3 DEF SelectModel, TypeOK, sessions, connects, requests, process
<1>4. QED
  BY <1>1, <1>2, <1>3

LEMMA NextGenerationType ==
    TypeOK /\ NextGeneration => /\ generation' \in Loads
                                /\ generation' \in 0..MaxSessions
                                /\ shown \in 0..generation'
  BY ContextAssumption DEF TypeOK, NextGeneration, Loads

LEMMA SessionType == TypeOK /\ (LoadSession \/ NewSession) => TypeOK'
<1> SUFFICES ASSUME TypeOK, LoadSession \/ NewSession PROVE TypeOK'
  OBVIOUS
<1>1. CASE LoadSession
  <2>1. load' \in [Loads -> Load]
    <3>1. generation + 1 \in Loads
      BY <1>1, NextGenerationType DEF LoadSession, NextGeneration
    <3>2. [load[generation + 1] EXCEPT !.stage = "reading"] \in Load
      BY <3>1 DEF TypeOK, Load
    <3>3. QED
      BY <1>1, <3>2 DEF LoadSession, TypeOK
  <2>2. QED
    BY <1>1, <2>1, NextGenerationType DEF LoadSession, TypeOK, context,
       connects, requests, process
<1>2. CASE NewSession
  <2>1. shown' \in 0..generation'
    BY <1>2, NextGenerationType DEF NewSession, NextGeneration, TypeOK
  <2>2. QED
    BY <1>2, <2>1, NextGenerationType DEF NewSession, TypeOK, connects,
       requests, process
<1>3. QED
  BY <1>1, <1>2

LEMMA LoadStepsType ==
    ASSUME TypeOK, NEW g \in Loads, LoadRead(g) \/ LoadResolved(g)
    PROVE  TypeOK'
<1>1. /\ generation' \in 0..MaxSessions /\ connectGen' \in 0..MaxConnects
      /\ attempt' \in [Connects -> Attempt] /\ queue' \in Seq(Connects)
      /\ saved' \in 0..MaxConnects
      /\ refreshing' \in [Refreshes -> Owners]
      /\ reading' \in [Reads -> Read \cup {NoRead}]
      /\ activeRun' \in BOOLEAN /\ shuttingDown' \in BOOLEAN
  BY DEF LoadRead, LoadResolved, Unaffected, TypeOK, connects, requests,
     process
<1>2. ASSUME LoadMayWrite(g), Show(g)
      PROVE  /\ shown' \in 0..generation'
             /\ staged' \subseteq [doc : Docs, session : 0..MaxSessions]
  BY <1>2 DEF LoadMayWrite, Show, LoadRead, LoadResolved, Unaffected, TypeOK
<1>3. ASSUME UNCHANGED <<context, shown>>
      PROVE  TypeOK' \/ load' \notin [Loads -> Load]
  BY <1>1, <1>3 DEF TypeOK, context, LoadRead, LoadResolved, Unaffected
<1>4. CASE LoadRead(g)
  <2>1. CASE LoadStops(g)
    BY <2>1, <1>3, LoadedType DEF LoadStops
  <2>2. CASE LoadMayWrite(g) /\ LoadUnowned(g)
    <3>1. load' \in [Loads -> Load]
      BY <2>2, LoadedType DEF LoadUnowned
    <3>2. QED
      BY <2>2, <3>1, <1>1, <1>2 DEF LoadUnowned, TypeOK, Owners
  <2>3. CASE LoadMayWrite(g) /\ LoadBroken(g)
    <3>1. load' \in [Loads -> Load]
      BY <2>3, LoadedType DEF LoadBroken
    <3>2. QED
      BY <2>3, <3>1, <1>1, <1>2 DEF LoadBroken, Cleared, Unsettled, TypeOK,
         Owners
  <2>4. CASE LoadOwned(g)
    <3>1. load' \in [Loads -> Load]
      <4>1. PICK p \in Providers :
                load' = [load EXCEPT ![g] =
                             [provider |-> p, stage |-> "resolving"]]
        BY <2>4 DEF LoadOwned
      <4>2. [provider |-> p, stage |-> "resolving"] \in Load
        BY DEF Load, Owners
      <4>3. QED
        BY <4>1, <4>2 DEF TypeOK
    <3>2. QED
      BY <2>4, <3>1, <1>3 DEF LoadOwned
  <2>5. QED
    BY <1>4, <2>1, <2>2, <2>3, <2>4 DEF LoadRead
<1>5. CASE LoadResolved(g)
  <2>1. load' \in [Loads -> Load]
    BY <1>5, LoadedType DEF LoadResolved
  <2>2. CASE UNCHANGED <<context, shown>>
    BY <2>1, <2>2, <1>3
  <2>3. CASE LoadMayWrite(g) /\ Show(g) /\ Cleared
    BY <2>1, <2>3, <1>1, <1>2 DEF Cleared, Unsettled, TypeOK, Owners
  <2>4. CASE /\ LoadMayWrite(g) /\ Show(g)
             /\ \E m \in {None, load[g].provider} :
                    Restored(load[g].provider, m)
    <3>1. load[g].provider \in Owners
      BY DEF TypeOK, Load
    <3>2. QED
      BY <2>1, <2>4, <3>1, <1>1, <1>2 DEF Restored, TypeOK, Owners
  <2>5. QED
    BY <1>5, <2>2, <2>3, <2>4 DEF LoadResolved
<1>6. QED
  BY <1>4, <1>5

LEMMA ReadDocumentType ==
    ASSUME TypeOK, NEW r \in Reads, NEW d \in Docs, ReadDocument(d, r)
    PROVE  TypeOK'
<1>1. [doc |-> d, session |-> generation, seen |-> StagedDocs] \in Read
  <2>1. StagedDocs \subseteq Docs
    BY DEF TypeOK, StagedDocs
  <2>2. QED
    BY <2>1 DEF TypeOK, Read
<1>2. QED
  BY <1>1 DEF ReadDocument, TypeOK, context, sessions, connects, process

LEMMA ReadReturnsType ==
    ASSUME TypeOK, NEW r \in Reads, ReadReturns(r)
    PROVE  TypeOK'
<1>1. reading[r] \in Read
  BY DEF TypeOK, ReadReturns
<1>2. staged' \subseteq [doc : Docs, session : 0..MaxSessions]
  BY <1>1 DEF ReadReturns, Stage, Read, TypeOK
<1>3. reading' \in [Reads -> Read \cup {NoRead}]
  BY DEF ReadReturns, TypeOK
<1>4. QED
  BY <1>2, <1>3 DEF ReadReturns, TypeOK, sessions, connects, process

LEMMA ProcessType == TypeOK /\ (Submit \/ RunEnds \/ Exit) => TypeOK'
<1> SUFFICES ASSUME TypeOK, Submit \/ RunEnds \/ Exit PROVE TypeOK'
  OBVIOUS
<1>1. CASE Submit
  BY <1>1 DEF Submit, TypeOK, sessions, connects, requests
<1>2. CASE RunEnds
  BY <1>2 DEF RunEnds, TypeOK, context, sessions, connects, requests
<1>3. CASE Exit
  BY <1>3 DEF Exit, TypeOK, context, sessions, connects, requests
<1>4. QED
  BY <1>1, <1>2, <1>3

LEMMA InitType == Init => TypeOK
<1> SUFFICES ASSUME Init PROVE TypeOK
  OBVIOUS
<1>1. attempt \in [Connects -> Attempt]
  BY DEF Init, Attempt, Owners
<1>2. load \in [Loads -> Load]
  BY DEF Init, Load, Owners
<1>3. queue \in Seq(Connects)
  BY EmptySeq DEF Init
<1>4. MaxSessions \in Nat /\ MaxConnects \in Nat
  BY ContextAssumption
<1>5. /\ connection \in Owners /\ catalog \in Owners /\ model \in Owners
      /\ status = "disconnected" /\ staged = {}
      /\ activeRun = FALSE /\ shuttingDown = FALSE
  BY DEF Init, Owners
<1>6. /\ generation = 0 /\ shown = 0 /\ connectGen = 0 /\ saved = 0
      /\ 0 \in 0..MaxSessions /\ 0 \in 0..0 /\ 0 \in 0..MaxConnects
  BY <1>4 DEF Init
<1>7. /\ refreshing \in [Refreshes -> Owners]
      /\ reading \in [Reads -> Read \cup {NoRead}]
  BY DEF Init, Owners
<1>8. QED
  BY <1>1, <1>2, <1>3, <1>5, <1>6, <1>7, Zenon DEF TypeOK

LEMMA NextType == TypeOK /\ [Next]_vars => TypeOK'
<1> SUFFICES ASSUME TypeOK, [Next]_vars PROVE TypeOK'
  OBVIOUS
<1>1. CASE \E p \in Providers, typedKey \in BOOLEAN : Connect(p, typedKey)
  BY <1>1, ConnectType
<1>2. CASE \E n \in Connects :
               ResolveReturns(n) \/ ConnectReturns(n) \/ PersistReturns(n)
  BY <1>2, ConnectStepsType
<1>3. CASE ConfigLands
  BY <1>3, ConfigType
<1>4. CASE \E r \in Refreshes : OpenModels(r) \/ RefreshReturns(r)
  BY <1>4, ModelsType
<1>5. CASE SelectModel
  BY <1>5 DEF SelectModel, TypeOK, sessions, connects, requests, process
<1>6. CASE LoadSession \/ NewSession
  BY <1>6, SessionType
<1>7. CASE \E g \in Loads : LoadRead(g) \/ LoadResolved(g)
  BY <1>7, LoadStepsType
<1>8. CASE \E r \in Reads :
               ReadReturns(r) \/ \E d \in Docs : ReadDocument(d, r)
  BY <1>8, ReadDocumentType, ReadReturnsType
<1>9. CASE Submit \/ RunEnds \/ Exit
  BY <1>9, ProcessType
<1>10. CASE UNCHANGED vars
  BY <1>10 DEF vars, context, sessions, connects, requests, process, TypeOK
<1>11. QED
  BY <1>1, <1>2, <1>3, <1>4, <1>5, <1>6, <1>7, <1>8, <1>9, <1>10 DEF Next

\* The state keeps its type, and the session on display is one whose
\* generation was claimed (sessionGeneration in App.tsx).
THEOREM TypeCorrect == Spec => []TypeOK
<1>1. Init => TypeOK
  BY InitType
<1>2. TypeOK /\ [Next]_vars => TypeOK'
  BY NextType
<1>3. QED
  BY <1>1, <1>2, PTL DEF Spec

(***************************************************************************)
(* The newest connection.  NewestConnectWins needs to know besides that a  *)
(* connection was asked for: then the provider of the newest call is never *)
(* changed, and only that call writes.                                     *)
(***************************************************************************)
NewestInv ==
    status = "connected" =>
        connectGen \in Connects /\ connection = attempt[connectGen].provider

LEMMA AttemptedKeepsProvider ==
    ASSUME TypeOK, NEW n \in Connects, NEW stage, Attempted(n, stage)
    PROVE  \A m \in Connects : attempt'[m].provider = attempt[m].provider
<1> DEFINE Old == attempt[n]
<1>1. Old \in Attempt
  BY DEF TypeOK
<1>2. [Old EXCEPT !.stage = stage].provider = Old.provider
  BY <1>1 DEF Attempt
<1>3. attempt' = [attempt EXCEPT ![n] = [Old EXCEPT !.stage = stage]]
  BY DEF Attempted
<1>4. \A m \in Connects : m = n => attempt[m] = Old
  OBVIOUS
<1> HIDE DEF Old
<1>5. \A m \in Connects :
          attempt'[m] = IF m = n THEN [Old EXCEPT !.stage = stage]
                                 ELSE attempt[m]
  BY <1>3 DEF TypeOK
<1>6. QED
  BY <1>2, <1>4, <1>5

\* Steps that leave the connection alone, or end it, do not make an older
\* connection the current one.
LEMMA NewestKept ==
    ASSUME NewestInv, UNCHANGED <<connectGen, attempt>>,
           UNCHANGED <<connection, status>> \/ status' # "connected"
    PROVE  NewestInv'
  BY DEF NewestInv

LEMMA NewestConnectStep ==
    ASSUME TypeOK, NewestInv, NEW n \in Connects,
           ResolveReturns(n) \/ ConnectReturns(n) \/ PersistReturns(n)
    PROVE  NewestInv'
<1>1. connectGen' = connectGen
  BY DEF ResolveReturns, ConnectReturns, PersistReturns
<1>2. PICK stage : Attempted(n, stage)
  BY DEF ResolveReturns, ConnectReturns, PersistReturns
<1>3. \A m \in Connects : attempt'[m].provider = attempt[m].provider
  BY <1>2, AttemptedKeepsProvider
<1>4. CASE UNCHANGED <<connection, status>>
  BY <1>1, <1>3, <1>4 DEF NewestInv
<1>5. CASE ConnectReturns(n) /\ ConnectMayWrite(n)
  <2>1. n = connectGen
    BY <1>5 DEF ConnectMayWrite, Current
  <2>2. status' = "connected" => connection' = attempt[n].provider
    BY <1>5 DEF ConnectReturns, Connected, Failed, Unsettled
  <2>3. QED
    BY <1>1, <1>3, <2>1, <2>2 DEF NewestInv
<1>6. QED
  BY <1>4, <1>5 DEF ResolveReturns, ConnectReturns, PersistReturns, context

LEMMA NewestLoadStep ==
    ASSUME TypeOK, NewestInv, NEW g \in Loads,
           LoadRead(g) \/ LoadResolved(g)
    PROVE  NewestInv'
<1>1. UNCHANGED <<connectGen, attempt>>
  BY DEF LoadRead, LoadResolved, Unaffected, connects
<1>2. UNCHANGED <<connection, status>> \/ status' # "connected"
  BY DEF LoadRead, LoadResolved, LoadStops, LoadUnowned, LoadBroken,
     LoadOwned, Restored, Cleared, Unsettled, context
<1>3. QED
  BY <1>1, <1>2, NewestKept

LEMMA NewestNext == TypeOK /\ NewestInv /\ [Next]_vars => NewestInv'
<1> SUFFICES ASSUME TypeOK, NewestInv, [Next]_vars PROVE NewestInv'
  OBVIOUS
<1>1. CASE \E p \in Providers, typedKey \in BOOLEAN : Connect(p, typedKey)
  BY <1>1 DEF Connect, Connecting, Unsettled, NewestInv
<1>2. CASE \E n \in Connects :
               ResolveReturns(n) \/ ConnectReturns(n) \/ PersistReturns(n)
  BY <1>2, NewestConnectStep
<1>3. CASE \E g \in Loads : LoadRead(g) \/ LoadResolved(g)
  BY <1>3, NewestLoadStep
<1>4. CASE ConfigLands
  BY <1>4, NewestKept DEF ConfigLands, context
<1>5. CASE \E r \in Refreshes : OpenModels(r) \/ RefreshReturns(r)
  BY <1>5, NewestKept DEF OpenModels, RefreshReturns, context, connects
<1>6. CASE SelectModel \/ LoadSession \/ NewSession
  BY <1>6, NewestKept DEF SelectModel, LoadSession, NewSession, context,
     connects
<1>7. CASE \E r \in Reads :
               ReadReturns(r) \/ \E d \in Docs : ReadDocument(d, r)
  BY <1>7, NewestKept DEF ReadReturns, ReadDocument, context, connects
<1>8. CASE Submit \/ RunEnds \/ Exit \/ UNCHANGED vars
  BY <1>8, NewestKept DEF Submit, RunEnds, Exit, vars, context, connects
<1>9. QED
  BY <1>1, <1>2, <1>3, <1>4, <1>5, <1>6, <1>7, <1>8 DEF Next

\* "A late reply from a superseded endpoint cannot replace the connection"
\* (connect in App.tsx), however many attempts are under way.
THEOREM NewestWins == Spec => []NewestConnectWins
<1>1. Init => NewestInv
  BY DEF Init, NewestInv
<1>2. NewestInv => NewestConnectWins
  BY DEF NewestInv, NewestConnectWins
<1>3. QED
  BY <1>1, <1>2, NewestNext, TypeCorrect, PTL DEF Spec

(***************************************************************************)
(* The configuration queue.  The numbers of the calls in it do not         *)
(* decrease, because a call joins it only while it is the newest.          *)
(***************************************************************************)
QueueInv ==
    /\ saved <= connectGen
    /\ \A i \in 1..Len(queue) : saved <= queue[i] /\ queue[i] <= connectGen
    /\ \A i, j \in 1..Len(queue) : i <= j => queue[i] <= queue[j]

LEMMA QueueNumbers == TypeOK => \A i \in 1..Len(queue) : queue[i] \in Nat
<1>1. ASSUME TypeOK, NEW i \in 1..Len(queue) PROVE queue[i] \in Connects
  <2>1. queue \in Seq(Connects)
    BY <1>1 DEF TypeOK
  <2>2. QED
    BY <2>1, <1>1, ElementOfSeq
<1>2. Connects \subseteq Nat
  BY ContextAssumption DEF Connects
<1>3. QED
  BY <1>1, <1>2

LEMMA QueueKept ==
    ASSUME QueueInv, UNCHANGED <<connectGen, queue, saved>>
    PROVE  QueueInv'
  BY DEF QueueInv

LEMMA QueueGrows ==
    ASSUME TypeOK, QueueInv, NEW n \in Connects, PersistReturns(n)
    PROVE  QueueInv'
<1>1. CASE ConnectMaySave(n)
  <2>1. /\ queue' = Append(queue, n) /\ n = connectGen
        /\ UNCHANGED <<connectGen, saved>>
    BY <1>1 DEF PersistReturns, ConnectMaySave, Current
  <2>2. /\ Len(queue') = Len(queue) + 1 /\ queue'[Len(queue) + 1] = n
        /\ \A i \in 1..Len(queue) : queue'[i] = queue[i]
    BY <2>1, AppendProperties DEF TypeOK
  <2>3. Len(queue) \in Nat
    BY LenProperties DEF TypeOK
  <2>4. saved \in Nat /\ connectGen \in Nat /\ n \in Nat
    BY DEF TypeOK, Connects
  <2>5. \A i \in 1..(Len(queue) + 1) :
            i \in 1..Len(queue) \/ i = Len(queue) + 1
    BY <2>3
  <2>6. QED
    BY <2>1, <2>2, <2>3, <2>4, <2>5 DEF QueueInv
<1>2. CASE ~ConnectMaySave(n)
  BY <1>2, QueueKept DEF PersistReturns
<1>3. QED
  BY <1>1, <1>2

LEMMA QueueLands ==
    ASSUME TypeOK, QueueInv, ConfigLands
    PROVE  QueueInv' /\ saved' >= saved
<1>1. /\ queue # <<>> /\ queue' = Tail(queue)
      /\ saved' \in {saved, Head(queue)} /\ connectGen' = connectGen
  BY DEF ConfigLands
<1>2. /\ Len(queue) \in Nat \ {0} /\ Len(queue') = Len(queue) - 1
      /\ Head(queue) = queue[1]
      /\ \A i \in 1..Len(queue') : queue'[i] = queue[i + 1]
  BY <1>1, HeadTailProperties, LenProperties, EmptySeq DEF TypeOK
<1>3. saved \in Nat /\ connectGen \in Nat
  BY DEF TypeOK
<1>4. \A i \in 1..Len(queue) : queue[i] \in Nat
  BY QueueNumbers
<1>5. \A i \in 1..Len(queue') : i + 1 \in 1..Len(queue) /\ 1 <= i + 1
  BY <1>2
<1>6. 1 \in 1..Len(queue)
  BY <1>2
<1>7. saved' >= saved /\ saved' <= connectGen /\ saved' <= queue[1]
  BY <1>1, <1>2, <1>3, <1>4, <1>6 DEF QueueInv
<1>8. \A i \in 1..Len(queue') : saved' <= queue'[i] /\ queue'[i] <= connectGen'
  <2> SUFFICES ASSUME NEW i \in 1..Len(queue')
               PROVE  saved' <= queue'[i] /\ queue'[i] <= connectGen'
    OBVIOUS
  <2>1. queue'[i] = queue[i + 1] /\ i + 1 \in 1..Len(queue)
    BY <1>2, <1>5
  <2>2. queue[1] <= queue[i + 1] /\ queue[i + 1] <= connectGen
    BY <2>1, <1>5, <1>6 DEF QueueInv
  <2>3. queue[1] \in Nat /\ queue[i + 1] \in Nat /\ saved' \in Nat
    BY <2>1, <1>1, <1>2, <1>3, <1>4, <1>6
  <2>4. QED
    BY <2>1, <2>2, <2>3, <1>1, <1>3, <1>7
<1>9. \A i, j \in 1..Len(queue') : i <= j => queue'[i] <= queue'[j]
  <2> SUFFICES ASSUME NEW i \in 1..Len(queue'), NEW j \in 1..Len(queue'),
                      i <= j
               PROVE  queue'[i] <= queue'[j]
    OBVIOUS
  <2>1. i + 1 <= j + 1
    OBVIOUS
  <2>2. QED
    BY <2>1, <1>2, <1>5 DEF QueueInv
<1>10. QED
  BY <1>1, <1>7, <1>8, <1>9 DEF QueueInv

LEMMA QueueNext ==
    TypeOK /\ QueueInv /\ [Next]_vars => QueueInv' /\ saved' >= saved
<1> SUFFICES ASSUME TypeOK, QueueInv, [Next]_vars
             PROVE  QueueInv' /\ saved' >= saved
  OBVIOUS
<1> saved \in Nat /\ connectGen \in Nat
  BY DEF TypeOK
<1>1. CASE \E p \in Providers, typedKey \in BOOLEAN : Connect(p, typedKey)
  <2>1. connectGen' = connectGen + 1 /\ UNCHANGED <<queue, saved>>
    BY <1>1 DEF Connect
  <2>2. \A i \in 1..Len(queue) : queue[i] \in Nat
    BY QueueNumbers
  <2>3. QED
    BY <2>1, <2>2 DEF QueueInv
<1>2. CASE \E n \in Connects : PersistReturns(n)
  BY <1>2, QueueGrows DEF PersistReturns
<1>3. CASE ConfigLands
  BY <1>3, QueueLands
<1>4. CASE UNCHANGED <<connectGen, queue, saved>>
  BY <1>4, QueueKept
<1>5. QED
  BY <1>1, <1>2, <1>3, <1>4 DEF Next, ResolveReturns, ConnectReturns,
     OpenModels, RefreshReturns, SelectModel, LoadSession, NewSession,
     LoadRead, LoadResolved, Unaffected, ReadReturns, ReadDocument, Submit,
     RunEnds, Exit, vars, connects

\* The file never goes back to the connection of an earlier form: writes of
\* the configuration are queued in the order of the forms (saveConfig).
THEOREM NewestSavedLast == Spec => SavedInOrder
<1>1. Init => QueueInv
  BY EmptySeq DEF Init, QueueInv
<1>2. TypeOK /\ QueueInv /\ [Next]_vars => [saved' >= saved]_vars
  BY QueueNext
<1>3. QED
  BY <1>1, <1>2, QueueNext, TypeCorrect, PTL DEF Spec, SavedInOrder

(***************************************************************************)
(* Staged documents, and the context of a response.                        *)
(***************************************************************************)
LEMMA StagedNext ==
    TypeOK /\ StagedInOwnSession /\ [Next]_vars => StagedInOwnSession'
<1> SUFFICES ASSUME TypeOK, StagedInOwnSession, [Next]_vars
             PROVE  StagedInOwnSession'
  OBVIOUS
<1>1. CASE UNCHANGED <<staged, shown>>
  BY <1>1 DEF StagedInOwnSession
<1>2. CASE staged' = {}
  BY <1>2 DEF StagedInOwnSession
<1>3. CASE \E r \in Reads : ReadReturns(r)
  <2>1. PICK r \in Reads : ReadReturns(r)
    BY <1>3
  <2>2. shown' = shown /\ shown <= generation
    BY <2>1 DEF ReadReturns, sessions, TypeOK
  <2>3. CASE ReadMayStage(reading[r]) /\ Stage(reading[r])
    BY <2>2, <2>3 DEF ReadMayStage, Stage, StagedInOwnSession
  <2>4. QED
    BY <2>1, <2>2, <2>3, <1>1 DEF ReadReturns
<1>4. CASE \E g \in Loads : LoadRead(g) \/ LoadResolved(g)
  <2>1. PICK g \in Loads : LoadRead(g) \/ LoadResolved(g)
    BY <1>4
  <2>2. CASE LoadRead(g)
    BY <1>1, <1>2, <2>2 DEF LoadRead, LoadStops, LoadUnowned, LoadBroken,
       LoadOwned, Show, context
  <2>3. CASE LoadResolved(g)
    BY <1>1, <1>2, <2>3 DEF LoadResolved, Show, context
  <2>4. QED
    BY <2>1, <2>2, <2>3
<1>5. QED
  BY <1>1, <1>2, <1>3, <1>4 DEF Next, Connect, ResolveReturns,
     ConnectReturns, PersistReturns, ConfigLands, OpenModels, RefreshReturns,
     SelectModel, LoadSession, NewSession, ReadDocument, Submit, RunEnds,
     Exit, vars, context, sessions

\* A document asked for in one session is never staged in a later one
\* (stageDocument in App.tsx).
THEOREM StagedOwn == Spec => []StagedInOwnSession
<1>1. Init => StagedInOwnSession
  BY DEF Init, StagedInOwnSession
<1>2. QED
  BY <1>1, StagedNext, TypeCorrect, PTL DEF Spec

\* While a response is in progress its connection, catalog, model and
\* documents stay: every handler asks blockCommandDuringRun again after its
\* await.
THEOREM RunContext == Spec => RunKeepsContext
<1>1. ASSUME [Next]_vars PROVE [activeRun /\ activeRun' => UNCHANGED context]_vars
  <2> SUFFICES ASSUME Next, activeRun, activeRun' PROVE UNCHANGED context
    BY <1>1
  <2>1. CASE \E n \in Connects : ConnectReturns(n)
    BY <2>1 DEF ConnectReturns, ConnectMayWrite, context
  <2>2. CASE \E r \in Refreshes : RefreshReturns(r)
    BY <2>2 DEF RefreshReturns, context
  <2>3. CASE \E g \in Loads : LoadRead(g) \/ LoadResolved(g)
    BY <2>3 DEF LoadRead, LoadResolved, LoadStops, LoadMayWrite, LoadOwned
  <2>4. CASE \E r \in Reads : ReadReturns(r)
    BY <2>4 DEF ReadReturns, ReadMayStage, context
  <2>5. CASE \/ \E n \in Connects : ResolveReturns(n) \/ PersistReturns(n)
             \/ ConfigLands \/ Exit
    BY <2>5 DEF ResolveReturns, PersistReturns, ConfigLands, Exit
  <2>6. CASE \/ \E p \in Providers, typedKey \in BOOLEAN :
                     Connect(p, typedKey)
             \/ \E r \in Refreshes : OpenModels(r)
             \/ \E r \in Reads, d \in Docs : ReadDocument(d, r)
             \/ SelectModel \/ LoadSession \/ NewSession \/ Submit \/ RunEnds
    BY <2>6 DEF Connect, OpenModels, ReadDocument, SelectModel, LoadSession,
       NewSession, NextGeneration, Submit, RunEnds
  <2>7. QED
    BY <2>1, <2>2, <2>3, <2>4, <2>5, <2>6 DEF Next
<1>2. QED
  BY <1>1, PTL DEF Spec, RunKeepsContext

----------------------------------------------------------------------------
(***************************************************************************)
(* ProviderStore, for any providers, keys, variables, calls, failures and  *)
(* restarts.                                                               *)
(***************************************************************************)

(***************************************************************************)
(* What each call on a provider has, and would put back if its profile     *)
(* could not be written.                                                   *)
(***************************************************************************)
Stages == {"idle", "read", "set", "queued", "save", "rollback", "forget", "done"}
StoredKeys == Secrets \cup {OldKey, NoKey}
CallRecord == [op : {"none", "persist", "remove"}, p : All \cup {Unset},
               secret : Secrets \cup {NoKey}, pc : Stages, previous : StoredKeys,
               loaded : [Compatible -> Profile], ok : BOOLEAN, alone : BOOLEAN,
               unread : BOOLEAN]

Shapes ==
    /\ profiles \in [Compatible -> Profile] /\ keys \in [Refs -> StoredKeys]
    /\ format \in [profiles : Formats, config : Formats]
    /\ calls \in [Calls -> CallRecord] /\ mutations \in Seq(Calls)
    /\ owed \in [All -> Secrets \cup {NoKey, Unknown}]

\* What a call is for tells which stages it goes through.
Roles ==
    \A c \in Calls : Active(c) =>
        /\ calls[c].p \in All /\ calls[c].op \in {"persist", "remove"}
        /\ calls[c].op = "remove" => calls[c].secret = NoKey /\ calls[c].p \in Compatible
        /\ calls[c].pc \in {"read", "set", "rollback"} =>
               calls[c].op = "persist" /\ calls[c].secret \in Secrets
        /\ calls[c].pc \in {"queued", "save", "forget"} => calls[c].p \in Compatible
        /\ calls[c].pc = "forget" => calls[c].op = "remove"
        /\ calls[c].ok => calls[c].pc = "done"

\* From its load to its last write a mutation is the first of the queue, and
\* nobody else writes the file: what it loaded is what the file says.
Turns ==
    \A c \in Calls :
        /\ calls[c].pc \in {"save", "forget"} => OwnTurn(c)
        /\ calls[c].pc = "save" => ReadableProfiles /\ calls[c].loaded = LoadedProfiles
        /\ calls[c].pc = "forget" =>
               /\ format.profiles = "ok"
               /\ profiles = [calls[c].loaded EXCEPT ![calls[c].p] = NoProfile]

\* Calls that overlap on a provider are marked.
Overlaps ==
    \A c, d \in Calls :
        c # d /\ Active(c) /\ Active(d) /\ calls[c].p = calls[d].p => ~calls[c].alone

Recorded(p) == p = BuiltIn \/ (format.profiles = "ok" /\ profiles[p] # NoProfile)

\* A key is what p is owed, and p can be found in the file if that is a secret.
Kept(p, key) ==
    owed[p] # Unknown => key = owed[p] /\ (owed[p] \in Secrets => Recorded(p))

\* What a call that is alone on its provider has, and would restore if it could read it.
Secure(c) ==
    LET call == calls[c]
        p == call.p
    IN  /\ call.pc \in {"read", "set"} => Kept(p, keys[p])
        /\ call.pc = "set" /\ ~locked /\ ~call.unread => call.previous = keys[p]
        /\ call.pc \in {"queued", "save"} /\ call.op = "persist" =>
               IF call.secret = NoKey THEN Kept(p, keys[p])
               ELSE keys[p] = call.secret /\ (call.unread \/ Kept(p, call.previous))
        /\ call.pc = "rollback" => call.unread \/ Kept(p, call.previous)
        /\ call.pc = "done" /\ call.op = "persist" =>
               IF call.ok THEN keys[p] = call.secret /\ call.secret \in Secrets /\ Recorded(p)
               ELSE Kept(p, keys[p])
        /\ call.pc = "done" /\ call.op = "remove" /\ call.ok => keys[p] = NoKey

Owing ==
    /\ \A c \in Calls : Active(c) /\ calls[c].alone => Secure(c)
    /\ \A p \in All : Quiet(p) => Kept(p, keys[p])

StoreInv == Shapes /\ Roles /\ Turns /\ Overlaps /\ Owing

\* The fields of a call after it went on to another stage.
LEMMA StepFields ==
    ASSUME Shapes, NEW c \in Calls, NEW pc \in Stages, calls' = Step(c, pc)
    PROVE  /\ calls' \in [Calls -> CallRecord] /\ calls'[c].pc = pc
           /\ calls'[c].op = calls[c].op /\ calls'[c].p = calls[c].p
           /\ calls'[c].secret = calls[c].secret /\ calls'[c].previous = calls[c].previous
           /\ calls'[c].loaded = calls[c].loaded /\ calls'[c].ok = calls[c].ok
           /\ calls'[c].alone = calls[c].alone /\ calls'[c].unread = calls[c].unread
           /\ \A d \in Calls \ {c} : calls'[d] = calls[d]
<1>1. /\ calls \in [Calls -> CallRecord] /\ calls[c] \in CallRecord
      /\ calls' = [calls EXCEPT ![c] = [calls[c] EXCEPT !.pc = pc]]
  BY DEF Shapes, Step
<1>2. [calls[c] EXCEPT !.pc = pc] \in CallRecord
  BY <1>1 DEF CallRecord
<1>3. calls'[c] = [calls[c] EXCEPT !.pc = pc]
  BY <1>1
<1>4. QED
  BY <1>1, <1>2, <1>3 DEF CallRecord

\* A step of one call leaves what the calls on the other providers rest on.
LEMMA CallStep ==
    ASSUME StoreInv, Shapes', NEW c \in Calls, Active(c), Active(c)',
           calls'[c].p = calls[c].p, calls'[c].alone => calls[c].alone,
           \A d \in Calls \ {c} : calls'[d] = calls[d],
           owed' = owed, locked' = locked,
           \A p \in All \ {calls[c].p} :
               keys'[p] = keys[p] /\ (Recorded(p) => Recorded(p)'),
           calls'[c].alone => Secure(c)'
    PROVE  Overlaps' /\ Owing'
<1>1. \A d \in Calls : /\ Active(d)' <=> Active(d)
                       /\ calls'[d].p = calls[d].p /\ (calls'[d].alone => calls[d].alone)
  BY DEF Active
<1>2. Overlaps'
  BY <1>1 DEF StoreInv, Overlaps
<1>3. ASSUME NEW d \in Calls, Active(d)', calls'[d].alone PROVE Secure(d)'
  <2>1. CASE d = c
    BY <1>3, <2>1
  <2>2. CASE d # c
    <3>1. calls'[d] = calls[d] /\ Active(d) /\ calls[d].alone
      BY <1>1, <1>3, <2>2
    <3>2. calls[d].p \in All \ {calls[c].p}
      BY <2>2, <3>1 DEF StoreInv, Roles, Overlaps
    <3>3. Secure(d)
      BY <3>1 DEF StoreInv, Owing
    <3>4. /\ keys'[calls[d].p] = keys[calls[d].p]
          /\ Recorded(calls[d].p) => Recorded(calls[d].p)'
      BY <3>2
    <3>5. QED
      BY <3>1, <3>3, <3>4 DEF Secure, Kept
  <2>3. QED
    BY <2>1, <2>2
<1>4. ASSUME NEW p \in All, Quiet(p)' PROVE Kept(p, keys[p])'
  <2>1. p # calls[c].p /\ Quiet(p)
    BY <1>1, <1>4 DEF Quiet
  <2>2. Kept(p, keys[p])
    BY <2>1 DEF StoreInv, Owing
  <2>3. QED
    BY <2>1, <2>2 DEF Kept
<1>5. QED
  BY <1>2, <1>3, <1>4 DEF Owing

\* A call begins, on a provider that is quiet or not.
LEMMA CallBegins ==
    ASSUME StoreInv, Shapes', NEW c \in Calls, NEW call, Begin(c, call), call.p \in All,
           calls'[c].p = call.p, calls'[c].alone = Quiet(call.p), Active(c)',
           calls'[c].pc \in {"read", "queued"},
           calls'[c].pc = "queued" => calls'[c].op = "remove" \/ calls'[c].secret = NoKey,
           UNCHANGED <<owed, keys, profiles, format, locked>>
    PROVE  Overlaps' /\ Owing'
<1>1. /\ ~Active(c)
      /\ calls' = [d \in Calls |->
                 IF d = c THEN [call EXCEPT !.alone = Quiet(call.p)]
                 ELSE IF Active(d) /\ calls[d].p = call.p
                      THEN [calls[d] EXCEPT !.alone = FALSE]
                 ELSE calls[d]]
  BY DEF Begin
<1>2. ASSUME NEW d \in Calls, d # c, Active(d), calls[d].p = call.p
      PROVE  Active(d)' /\ calls'[d].p = calls[d].p /\ calls'[d].alone = FALSE
  <2>1. calls'[d] = [calls[d] EXCEPT !.alone = FALSE] /\ calls[d] \in CallRecord
    BY <1>1, <1>2 DEF StoreInv, Shapes
  <2>2. QED
    BY <1>2, <2>1 DEF CallRecord, Active
<1>3. ASSUME NEW d \in Calls, d # c, ~(Active(d) /\ calls[d].p = call.p)
      PROVE  calls'[d] = calls[d]
  BY <1>1, <1>3
<1>4. \A d \in Calls \ {c} : /\ Active(d)' <=> Active(d)
                             /\ calls'[d].p = calls[d].p
                             /\ calls'[d].alone => calls[d].alone /\ calls'[d] = calls[d]
  BY <1>2, <1>3 DEF Active
<1>5. Overlaps'
  <2>1. SUFFICES ASSUME NEW d \in Calls, NEW e \in Calls, d # e, Active(d)', Active(e)',
                        calls'[d].p = calls'[e].p
                 PROVE  ~calls'[d].alone
    BY DEF Overlaps
  <2>2. CASE d = c
    <3>1. Active(e) /\ calls[e].p = call.p
      BY <1>4, <2>1, <2>2
    <3>2. QED
      BY <2>2, <3>1 DEF Quiet
  <2>3. CASE e = c
    <3>1. Active(d) /\ calls[d].p = call.p
      BY <1>4, <2>1, <2>3
    <3>2. QED
      BY <1>2, <2>1, <2>3, <3>1
  <2>4. CASE d # c /\ e # c
    BY <1>4, <2>1, <2>4 DEF StoreInv, Overlaps
  <2>5. QED
    BY <2>2, <2>3, <2>4
<1>6. ASSUME NEW d \in Calls, Active(d)', calls'[d].alone PROVE Secure(d)'
  <2>1. CASE d = c
    <3>1. Kept(call.p, keys[call.p])
      BY <1>6, <2>1 DEF StoreInv, Owing
    <3>2. Kept(calls[d].p, keys[calls[d].p])'
      BY <2>1, <3>1 DEF Kept, Recorded
    <3>3. /\ calls'[d].pc \in {"read", "queued"}
          /\ calls'[d].pc = "queued" /\ calls'[d].op = "persist" => calls'[d].secret = NoKey
      BY <2>1
    <3>4. QED
      BY <3>2, <3>3 DEF Secure
  <2>2. CASE d # c
    <3>1. calls'[d] = calls[d] /\ Active(d) /\ calls[d].alone
      BY <1>4, <1>6, <2>2
    <3>2. Secure(d)
      BY <3>1 DEF StoreInv, Owing
    <3>3. QED
      BY <3>1, <3>2 DEF Secure, Kept, Recorded
  <2>3. QED
    BY <2>1, <2>2
<1>7. ASSUME NEW p \in All, Quiet(p)' PROVE Kept(p, keys[p])'
  <2>1. Quiet(p)
    <3>1. SUFFICES ASSUME NEW d \in Calls, Active(d) PROVE calls[d].p # p
      BY DEF Quiet
    <3>2. d # c /\ Active(d)' /\ calls'[d].p = calls[d].p
      BY <1>1, <1>4, <3>1
    <3>3. QED
      BY <1>7, <3>2 DEF Quiet
  <2>2. QED
    BY <2>1 DEF StoreInv, Owing, Kept, Recorded
<1>8. QED
  BY <1>5, <1>6, <1>7 DEF Owing

LEMMA OneTurn ==
    ASSUME StoreInv, NEW c \in Calls, OwnTurn(c), NEW d \in Calls \ {c}
    PROVE  calls[d].pc \notin {"save", "forget"}
BY DEF StoreInv, Turns, OwnTurn

\* The queue may grow; a call that does not write the file says nothing new.
LEMMA TurnsElsewhere ==
    ASSUME StoreInv, NEW c \in Calls, calls'[c].pc \notin {"save", "forget"},
           \A d \in Calls \ {c} : /\ calls'[d].pc = calls[d].pc /\ calls'[d].p = calls[d].p
                                  /\ calls'[d].loaded = calls[d].loaded,
           profiles' = profiles, format' = format,
           mutations' = mutations \/ mutations' = Append(mutations, c)
    PROVE  Turns'
<1>1. mutations # <<>> => mutations' # <<>> /\ Head(mutations') = Head(mutations)
  BY DEF StoreInv, Shapes
<1>2. \A d \in Calls \ {c} : OwnTurn(d) => OwnTurn(d)'
  BY <1>1 DEF OwnTurn
<1>3. QED
  BY <1>2 DEF StoreInv, Turns, ReadableProfiles, LoadedProfiles

\* A mutation that ends was the only one.
LEMMA TurnsOver ==
    ASSUME StoreInv, NEW c \in Calls, OwnTurn(c), calls'[c].pc \notin {"save", "forget"},
           \A d \in Calls \ {c} : calls'[d] = calls[d]
    PROVE  Turns'
BY OneTurn DEF Turns

\* What a call is when it begins.
LEMMA BeginFields ==
    ASSUME StoreInv, NEW c \in Calls, NEW call \in CallRecord, Begin(c, call)
    PROVE  /\ calls' \in [Calls -> CallRecord]
           /\ calls'[c] = [call EXCEPT !.alone = Quiet(call.p)]
           /\ calls'[c].op = call.op /\ calls'[c].p = call.p /\ calls'[c].secret = call.secret
           /\ calls'[c].pc = call.pc /\ calls'[c].alone = Quiet(call.p)
           /\ calls'[c].ok = call.ok
           /\ \A d \in Calls \ {c} :
                  /\ calls'[d].op = calls[d].op /\ calls'[d].p = calls[d].p
                  /\ calls'[d].secret = calls[d].secret /\ calls'[d].pc = calls[d].pc
                  /\ calls'[d].loaded = calls[d].loaded /\ calls'[d].ok = calls[d].ok
<1> DEFINE New(d) == IF d = c THEN [call EXCEPT !.alone = Quiet(call.p)]
                     ELSE IF Active(d) /\ calls[d].p = call.p
                          THEN [calls[d] EXCEPT !.alone = FALSE] ELSE calls[d]
<1>1. calls' = [d \in Calls |-> New(d)]
  BY DEF Begin
<1>2. calls \in [Calls -> CallRecord]
  BY DEF StoreInv, Shapes
<1>3. Quiet(call.p) \in BOOLEAN
  BY DEF Quiet
<1>4. New(c) = [call EXCEPT !.alone = Quiet(call.p)]
  OBVIOUS
<1>5. /\ New(c) \in CallRecord /\ New(c).op = call.op /\ New(c).p = call.p
      /\ New(c).secret = call.secret /\ New(c).pc = call.pc /\ New(c).alone = Quiet(call.p)
      /\ New(c).ok = call.ok
  BY <1>3, <1>4 DEF CallRecord
<1>6. ASSUME NEW d \in Calls \ {c}
      PROVE  /\ New(d) \in CallRecord /\ New(d).op = calls[d].op /\ New(d).p = calls[d].p
             /\ New(d).secret = calls[d].secret /\ New(d).pc = calls[d].pc
             /\ New(d).loaded = calls[d].loaded /\ New(d).ok = calls[d].ok
  <2>1. New(d) = calls[d] \/ New(d) = [calls[d] EXCEPT !.alone = FALSE]
    BY <1>6
  <2>2. calls[d] \in CallRecord
    BY <1>2
  <2> HIDE DEF New
  <2>3. CASE New(d) = calls[d]
    BY <2>2, <2>3
  <2>4. CASE New(d) = [calls[d] EXCEPT !.alone = FALSE]
    BY <2>2, <2>4 DEF CallRecord
  <2>5. QED
    BY <2>1, <2>3, <2>4
<1> HIDE DEF New
<1>7. QED
  BY <1>1, <1>4, <1>5, <1>6

LEMMA BeginInv ==
    ASSUME StoreInv, NEW c \in Calls, NEW call \in CallRecord, Begin(c, call),
           call.p \in All, call.op \in {"persist", "remove"}, ~call.ok,
           \/ call.pc = "read" /\ call.op = "persist" /\ call.secret \in Secrets
           \/ call.pc = "queued" /\ call.secret = NoKey /\ call.p \in Compatible,
           mutations' = mutations \/ mutations' = Append(mutations, c),
           UNCHANGED <<owed, keys, profiles, format, locked>>
    PROVE  StoreInv'
<1>1. /\ calls' \in [Calls -> CallRecord]
      /\ calls'[c].op = call.op /\ calls'[c].p = call.p /\ calls'[c].secret = call.secret
      /\ calls'[c].pc = call.pc /\ calls'[c].alone = Quiet(call.p)
      /\ calls'[c].ok = call.ok
      /\ \A d \in Calls \ {c} :
             /\ calls'[d].op = calls[d].op /\ calls'[d].p = calls[d].p
             /\ calls'[d].secret = calls[d].secret /\ calls'[d].pc = calls[d].pc
             /\ calls'[d].loaded = calls[d].loaded /\ calls'[d].ok = calls[d].ok
  BY BeginFields
<1>2. Shapes'
  <2>1. mutations \in Seq(Calls) /\ Append(mutations, c) \in Seq(Calls)
    BY DEF StoreInv, Shapes
  <2>2. mutations' \in Seq(Calls)
    BY <2>1
  <2>3. QED
    BY <1>1, <2>2 DEF StoreInv, Shapes
<1>3. Roles'
  <2>1. SUFFICES ASSUME NEW d \in Calls, Active(d)'
                 PROVE  /\ calls'[d].p \in All /\ calls'[d].op \in {"persist", "remove"}
                        /\ calls'[d].op = "remove" =>
                               calls'[d].secret = NoKey /\ calls'[d].p \in Compatible
                        /\ calls'[d].pc \in {"read", "set", "rollback"} =>
                               calls'[d].op = "persist" /\ calls'[d].secret \in Secrets
                        /\ calls'[d].pc \in {"queued", "save", "forget"} =>
                               calls'[d].p \in Compatible
                        /\ calls'[d].pc = "forget" => calls'[d].op = "remove"
                        /\ calls'[d].ok => calls'[d].pc = "done"
    BY DEF Roles
  <2>2. CASE d = c
    BY <1>1, <2>2
  <2>3. CASE d # c
    BY <1>1, <2>1, <2>3 DEF StoreInv, Roles, Active
  <2>4. QED
    BY <2>2, <2>3
<1>4. Turns'
  BY <1>1, TurnsElsewhere
<1>5. Overlaps' /\ Owing'
  <2>1. Active(c)'
    BY <1>1 DEF Active
  <2>2. QED
    BY <1>1, <1>2, <2>1, CallBegins
<1>6. QED
  BY <1>2, <1>3, <1>4, <1>5 DEF StoreInv

LEMMA IdleCall ==
    ASSUME NEW P \in All
    PROVE  /\ \A s \in Secrets :
                  [Idle EXCEPT !.op = "persist", !.p = P, !.secret = s, !.pc = "read"]
                                    \in CallRecord
           /\ [Idle EXCEPT !.op = "persist", !.p = P, !.pc = "queued"] \in CallRecord
           /\ [Idle EXCEPT !.op = "remove", !.p = P, !.pc = "queued"] \in CallRecord
           /\ Idle \in CallRecord /\ Idle.pc = "idle" /\ ~Idle.ok
<1>1. [p \in Compatible |-> NoProfile] \in [Compatible -> Profile]
  BY DEF Profile
<1>2. Idle \in CallRecord /\ Idle.pc = "idle" /\ ~Idle.ok
  BY <1>1 DEF Idle, CallRecord, Stages, StoredKeys
<1> HIDE DEF Idle
<1>3. /\ \A s \in Secrets :
                  [Idle EXCEPT !.op = "persist", !.p = P, !.secret = s, !.pc = "read"]
                               \in CallRecord
      /\ [Idle EXCEPT !.op = "persist", !.p = P, !.pc = "queued"] \in CallRecord
      /\ [Idle EXCEPT !.op = "remove", !.p = P, !.pc = "queued"] \in CallRecord
  BY <1>2 DEF CallRecord, Stages
<1>4. QED
  BY <1>2, <1>3

\* The calls of connect and of the removal.
Began(c, P) ==
    \/ \E s \in Secrets : ConnectWithKey(c, P, s)
    \/ P \in Compatible /\ Remove(c, P)
    \/ /\ P \in Compatible
       /\ Begin(c, [Idle EXCEPT !.op = "persist", !.p = P, !.pc = "queued"])
       /\ mutations' = Append(mutations, c)
       /\ UNCHANGED <<diskVars, locked, owed>>

LEMMA Begins ==
    ASSUME StoreInv, NEW c \in Calls, NEW P \in All, Began(c, P)
    PROVE  StoreInv'
<1>1. ASSUME NEW s \in Secrets, ConnectWithKey(c, P, s) PROVE StoreInv'
  <2> DEFINE call == [Idle EXCEPT !.op = "persist", !.p = P, !.secret = s, !.pc = "read"]
  <2>1. /\ Begin(c, call) /\ mutations' = mutations
        /\ UNCHANGED <<owed, keys, profiles, format, locked>>
    BY <1>1 DEF ConnectWithKey, diskVars
  <2>2. call \in CallRecord /\ Idle \in CallRecord /\ ~Idle.ok
    BY IdleCall
  <2>3. call.p = P /\ call.op = "persist" /\ call.pc = "read" /\ call.secret = s /\ ~call.ok
    BY <2>2 DEF CallRecord
  <2> HIDE DEF call
  <2>4. QED
    BY <2>1, <2>2, <2>3, BeginInv
<1>2. ASSUME NEW op \in {"persist", "remove"}, P \in Compatible,
             Begin(c, [Idle EXCEPT !.op = op, !.p = P, !.pc = "queued"]),
             mutations' = Append(mutations, c),
             UNCHANGED <<owed, keys, profiles, format, locked>>
      PROVE  StoreInv'
  <2> DEFINE call == [Idle EXCEPT !.op = op, !.p = P, !.pc = "queued"]
  <2>1. call \in CallRecord /\ Idle \in CallRecord /\ ~Idle.ok
    BY <1>2, IdleCall
  <2>2. Idle.secret = NoKey
    BY DEF Idle
  <2>3. call.p = P /\ call.op = op /\ call.pc = "queued" /\ call.secret = NoKey /\ ~call.ok
    BY <2>1, <2>2 DEF CallRecord
  <2> HIDE DEF call
  <2>4. Begin(c, call)
    BY <1>2 DEF call
  <2>5. QED
    BY <1>2, <2>1, <2>3, <2>4, BeginInv
<1>3. CASE P \in Compatible /\ Remove(c, P)
  BY <1>2, <1>3 DEF Remove, diskVars
<1>4. CASE /\ P \in Compatible
           /\ Begin(c, [Idle EXCEPT !.op = "persist", !.p = P, !.pc = "queued"])
           /\ mutations' = Append(mutations, c)
           /\ UNCHANGED <<diskVars, locked, owed>>
  BY <1>2, <1>4 DEF diskVars
<1>5. QED
  BY <1>1, <1>3, <1>4 DEF Began

\* The roles of a call go on if its provider, its purpose and its key do.
LEMMA RolesStep ==
    ASSUME StoreInv, NEW c \in Calls, Active(c), calls'[c].p = calls[c].p,
           calls'[c].op = calls[c].op, calls'[c].secret = calls[c].secret,
           calls'[c].pc \in {"read", "set", "rollback"} =>
               calls[c].op = "persist" /\ calls[c].secret \in Secrets,
           calls'[c].pc \in {"queued", "save", "forget"} => calls[c].p \in Compatible,
           calls'[c].pc = "forget" => calls[c].op = "remove",
           calls'[c].ok => calls'[c].pc = "done",
           \A d \in Calls \ {c} : calls'[d] = calls[d]
    PROVE  Roles'
<1>1. \A d \in Calls \ {c} : Active(d)' <=> Active(d)
  BY DEF Active
<1>2. QED
  BY <1>1 DEF StoreInv, Roles

\* The key is read, stored, or not stored.
LEMMA KeyStep ==
    ASSUME KeysApart, StoreInv, NEW c \in Calls,
           ReadPrevious(c) \/ ReadPreviousFails(c) \/ SetKey(c) \/ SetKeyFails(c)
    PROVE  StoreInv'
<1> USE DEF StoreInv
<1>1. /\ Active(c) /\ calls[c].op = "persist" /\ calls[c].secret \in Secrets
      /\ calls[c].p \in All
      /\ calls[c].secret # NoKey
      /\ ~calls[c].ok
  BY DEF ReadPrevious, ReadPreviousFails, SetKey, SetKeyFails, Roles, Active,
         KeysApart
<1>2. calls[c].alone => Secure(c)
  BY <1>1 DEF Owing
<1>3. calls[c] \in CallRecord /\ keys \in [Refs -> StoredKeys] /\ calls[c].p \in Refs
  BY <1>1 DEF Shapes, Refs
<1>4. CASE ReadPrevious(c) \/ ReadPreviousFails(c)
  <2>1. PICK key \in StoredKeys, unread \in BOOLEAN :
            /\ calls' = [calls EXCEPT ![c] = [calls[c] EXCEPT !.previous = key, !.pc = "set",
                                                              !.unread = unread]]
            /\ ~locked /\ ~unread => key = keys[calls[c].p]
    <3>1. CASE ReadPrevious(c)
      <4> DEFINE key == ReadKey(calls[c].p)
                 unread == calls[c].unread
      <4>1. calls' = [calls EXCEPT ![c] = [calls[c] EXCEPT !.previous = key, !.pc = "set"]]
        BY <3>1 DEF ReadPrevious
      <4>2. key \in StoredKeys /\ unread \in BOOLEAN
        BY <1>3 DEF ReadKey, StoredKeys, CallRecord
      <4>3. ~locked => key = keys[calls[c].p]
        BY DEF ReadKey
      <4> HIDE DEF key
      <4>4. [calls[c] EXCEPT !.previous = key, !.pc = "set"]
              = [calls[c] EXCEPT !.previous = key, !.pc = "set", !.unread = unread]
        BY <1>3 DEF CallRecord
      <4> HIDE DEF unread
      <4>5. QED
        BY <4>1, <4>2, <4>3, <4>4
    <3>2. CASE ReadPreviousFails(c)
      <4> DEFINE unread == keys[calls[c].p] # NoKey
      <4>1. calls' = [calls EXCEPT ![c] = [calls[c] EXCEPT !.previous = NoKey, !.pc = "set",
                                                           !.unread = unread]]
        BY <3>2 DEF ReadPreviousFails
      <4>2. NoKey \in StoredKeys /\ unread \in BOOLEAN /\ (~unread => NoKey = keys[calls[c].p])
        BY DEF StoredKeys
      <4> HIDE DEF unread
      <4>3. QED
        BY <4>1, <4>2
    <3>3. QED
      BY <1>4, <3>1, <3>2
  <2>2. calls[c].pc = "read"
    BY <1>4 DEF ReadPrevious, ReadPreviousFails
  <2> DEFINE new == [calls[c] EXCEPT !.previous = key, !.pc = "set", !.unread = unread]
  <2>4. new \in CallRecord
    BY <1>3 DEF CallRecord, Stages
  <2>5. /\ calls'[c] = new /\ \A d \in Calls \ {c} : calls'[d] = calls[d]
        /\ calls' \in [Calls -> CallRecord]
    BY <2>1, <2>4 DEF Shapes
  <2>6. /\ calls'[c].pc = "set" /\ calls'[c].previous = key /\ calls'[c].p = calls[c].p
        /\ calls'[c].op = calls[c].op /\ calls'[c].secret = calls[c].secret
        /\ calls'[c].alone = calls[c].alone /\ calls'[c].ok = calls[c].ok
        /\ calls'[c].unread = unread
    BY <1>3, <2>5 DEF CallRecord
  <2> HIDE DEF new
  <2>7. UNCHANGED <<keys, profiles, format, locked, owed, mutations>>
    BY <1>4 DEF ReadPrevious, ReadPreviousFails, diskVars
  <2>8. Shapes'
    BY <2>5, <2>7 DEF Shapes
  <2>9. calls[c].alone => Secure(c)'
    BY <1>2, <2>1, <2>2, <2>6, <2>7 DEF Secure, Kept, Recorded
  <2>10. Overlaps' /\ Owing'
    BY <1>1, <2>5, <2>6, <2>7, <2>8, <2>9, CallStep DEF Active, Recorded
  <2>11. Roles'
    BY <1>1, <2>5, <2>6, RolesStep
  <2>12. Turns'
    BY <2>5, <2>6, <2>7, TurnsElsewhere
  <2>13. QED
    BY <2>8, <2>10, <2>11, <2>12
<1>5. CASE SetKey(c)
  <2> DEFINE p == calls[c].p
             pc == IF p = BuiltIn THEN "done" ELSE "queued"
  <2>1. /\ keys' = [keys EXCEPT ![p] = calls[c].secret] /\ ~locked /\ calls[c].pc = "set"
        /\ UNCHANGED <<profiles, format, locked, owed>>
        /\ mutations' = mutations \/ mutations' = Append(mutations, c)
    BY <1>5 DEF SetKey
  <2>2. CASE p = BuiltIn
    <3>1. calls' = [calls EXCEPT ![c] = [calls[c] EXCEPT !.pc = "done", !.ok = TRUE]]
      BY <1>5, <2>2 DEF SetKey
    <3>2. [calls[c] EXCEPT !.pc = "done", !.ok = TRUE] \in CallRecord
      BY <1>3 DEF CallRecord, Stages
    <3>3. /\ calls'[c] = [calls[c] EXCEPT !.pc = "done", !.ok = TRUE]
          /\ \A d \in Calls \ {c} : calls'[d] = calls[d]
          /\ calls' \in [Calls -> CallRecord]
      BY <3>1, <3>2 DEF Shapes
    <3>4. /\ calls'[c].pc = "done" /\ calls'[c].ok = TRUE /\ calls'[c].p = p
          /\ calls'[c].op = calls[c].op /\ calls'[c].secret = calls[c].secret
          /\ calls'[c].alone = calls[c].alone
      BY <1>3, <3>3 DEF CallRecord
    <3>5. Shapes'
      <4>1. keys' \in [Refs -> StoredKeys]
        BY <1>1, <1>3, <2>1 DEF StoredKeys
      <4>2. mutations' \in Seq(Calls)
        BY <2>1 DEF Shapes
      <4>3. QED
        BY <2>1, <3>3, <4>1, <4>2 DEF Shapes
    <3>6. keys'[p] = calls[c].secret /\ \A q \in All \ {p} : keys'[q] = keys[q]
      BY <1>3, <2>1 DEF Refs
    <3>7. Secure(c)'
      BY <1>1, <2>2, <3>4, <3>6 DEF Secure, Recorded
    <3>8. Overlaps' /\ Owing'
      BY <1>1, <2>1, <3>3, <3>4, <3>5, <3>6, <3>7, CallStep DEF Active, Recorded
    <3>9. Roles' /\ Turns'
      BY <1>1, <2>1, <3>3, <3>4, RolesStep, TurnsElsewhere
    <3>10. QED
      BY <3>5, <3>8, <3>9
  <2>3. CASE p # BuiltIn
    <3>1. calls' = Step(c, "queued") /\ mutations' = Append(mutations, c) /\ p \in Compatible
      BY <1>1, <1>5, <2>3 DEF SetKey, All
    <3>2. /\ calls' \in [Calls -> CallRecord] /\ calls'[c].pc = "queued"
          /\ calls'[c].op = calls[c].op /\ calls'[c].p = p
          /\ calls'[c].secret = calls[c].secret /\ calls'[c].previous = calls[c].previous
          /\ calls'[c].alone = calls[c].alone /\ calls'[c].ok = calls[c].ok
          /\ calls'[c].unread = calls[c].unread
          /\ \A d \in Calls \ {c} : calls'[d] = calls[d]
      BY <3>1, StepFields DEF Stages
    <3>3. Shapes'
      BY <1>1, <1>3, <2>1, <3>1, <3>2 DEF Shapes, StoredKeys
    <3>4. keys'[p] = calls[c].secret /\ \A q \in All \ {p} : keys'[q] = keys[q]
      BY <1>3, <2>1 DEF Refs
    <3>5. calls[c].alone => calls[c].unread \/ Kept(p, calls[c].previous)
      BY <1>2, <2>1 DEF Secure
    <3>6. calls[c].alone => Secure(c)'
      BY <1>1, <2>1, <3>2, <3>4, <3>5 DEF Secure, Kept, Recorded
    <3>7. Overlaps' /\ Owing'
      BY <1>1, <2>1, <3>2, <3>3, <3>4, <3>6, CallStep DEF Active, Recorded
    <3>8. Roles' /\ Turns'
      BY <1>1, <2>1, <3>1, <3>2, RolesStep, TurnsElsewhere
    <3>9. QED
      BY <3>3, <3>7, <3>8
  <2>4. QED
    BY <2>2, <2>3
<1>6. CASE SetKeyFails(c)
  <2>1. /\ calls' = Step(c, "done") /\ calls[c].pc = "set"
        /\ UNCHANGED <<keys, profiles, format, locked, owed, mutations>>
    BY <1>6 DEF SetKeyFails, diskVars
  <2>2. /\ calls' \in [Calls -> CallRecord] /\ calls'[c].pc = "done"
        /\ calls'[c].op = calls[c].op /\ calls'[c].p = calls[c].p
        /\ calls'[c].secret = calls[c].secret /\ calls'[c].ok = calls[c].ok
        /\ calls'[c].alone = calls[c].alone
        /\ \A d \in Calls \ {c} : calls'[d] = calls[d]
    BY <2>1, StepFields DEF Stages
  <2>3. Shapes'
    BY <2>1, <2>2 DEF Shapes
  <2>4. calls[c].alone => Secure(c)'
    BY <1>1, <1>2, <2>1, <2>2 DEF Secure, Kept, Recorded
  <2>5. Overlaps' /\ Owing'
    BY <1>1, <2>1, <2>2, <2>3, <2>4, CallStep DEF Active, Recorded
  <2>6. Roles' /\ Turns'
    BY <1>1, <2>1, <2>2, RolesStep, TurnsElsewhere
  <2>7. QED
    BY <2>3, <2>5, <2>6
<1>7. QED
  BY <1>4, <1>5, <1>6

\* The previous key is put back, or is not.
LEMMA RollbackStep ==
    ASSUME StoreInv, NEW c \in Calls, Rollback(c) \/ RollbackFails(c)
    PROVE  StoreInv'
<1> USE DEF StoreInv
<1>1. /\ Active(c) /\ calls[c].op = "persist" /\ calls[c].p \in All /\ ~calls[c].ok
      /\ calls[c].pc = "rollback"
  BY DEF Rollback, RollbackFails, Roles, Active
<1>2. calls[c].alone => calls[c].unread \/ Kept(calls[c].p, calls[c].previous)
  BY <1>1 DEF Owing, Secure
<1>3. calls[c] \in CallRecord /\ keys \in [Refs -> StoredKeys] /\ calls[c].p \in Refs
  BY <1>1 DEF Shapes, Refs
<1>4. UNCHANGED <<profiles, format, locked, owed, mutations>>
  BY DEF Rollback, RollbackFails, diskVars
<1>5. CASE Rollback(c)
  <2> DEFINE p == calls[c].p
             alone == calls[c].alone /\ ~calls[c].unread
             new == [calls[c] EXCEPT !.pc = "done", !.alone = alone]
  <2>1. calls' = [calls EXCEPT ![c] = new] /\ keys' = [keys EXCEPT ![p] = calls[c].previous]
    BY <1>5 DEF Rollback
  <2>11. alone \in BOOLEAN
    BY <1>3 DEF CallRecord
  <2>12. new \in CallRecord /\ new.pc = "done" /\ new.op = calls[c].op /\ new.p = p
         /\ new.secret = calls[c].secret /\ new.ok = calls[c].ok /\ new.alone = alone
    BY <1>3, <2>11 DEF CallRecord, Stages
  <2>13. calls'[c] = new /\ \A d \in Calls \ {c} : calls'[d] = calls[d]
    BY <2>1 DEF Shapes
  <2>2. /\ calls' \in [Calls -> CallRecord] /\ calls'[c].pc = "done"
        /\ calls'[c].op = calls[c].op /\ calls'[c].p = p
        /\ calls'[c].secret = calls[c].secret /\ calls'[c].ok = calls[c].ok
        /\ calls'[c].alone => calls[c].alone /\ ~calls[c].unread
        /\ \A d \in Calls \ {c} : calls'[d] = calls[d]
    BY <2>1, <2>12, <2>13 DEF Shapes
  <2>3. calls[c].previous \in StoredKeys
    BY <1>3 DEF CallRecord
  <2>4. keys' \in [Refs -> StoredKeys]
    BY <1>3, <2>1, <2>3
  <2>5. Shapes'
    BY <1>4, <2>2, <2>4 DEF Shapes
  <2>6. keys'[p] = calls[c].previous /\ \A q \in All \ {p} : keys'[q] = keys[q]
    BY <1>3, <2>1 DEF Refs
  <2> HIDE DEF new, alone
  <2>7. calls'[c].alone => Secure(c)'
    BY <1>1, <1>2, <1>4, <2>2, <2>6 DEF Secure, Kept, Recorded
  <2>8. Overlaps' /\ Owing'
    BY <1>1, <1>4, <2>2, <2>5, <2>6, <2>7, CallStep DEF Active, Recorded
  <2>9. Roles' /\ Turns'
    BY <1>1, <1>4, <2>2, RolesStep, TurnsElsewhere
  <2>10. QED
    BY <2>5, <2>8, <2>9
<1>6. CASE RollbackFails(c)
  <2>1. calls' = [calls EXCEPT ![c] = [calls[c] EXCEPT !.pc = "done", !.alone = FALSE]]
    BY <1>6 DEF RollbackFails
  <2>2. [calls[c] EXCEPT !.pc = "done", !.alone = FALSE] \in CallRecord
    BY <1>3 DEF CallRecord, Stages
  <2>3. /\ calls'[c] = [calls[c] EXCEPT !.pc = "done", !.alone = FALSE]
        /\ \A d \in Calls \ {c} : calls'[d] = calls[d]
        /\ calls' \in [Calls -> CallRecord]
    BY <2>1, <2>2 DEF Shapes
  <2>4. /\ calls'[c].pc = "done" /\ calls'[c].p = calls[c].p /\ ~calls'[c].alone
        /\ calls'[c].op = calls[c].op /\ calls'[c].secret = calls[c].secret
        /\ calls'[c].ok = calls[c].ok
    BY <1>3, <2>3 DEF CallRecord
  <2>5. keys' = keys
    BY <1>6 DEF RollbackFails, diskVars
  <2>6. Shapes'
    BY <1>4, <2>3, <2>5 DEF Shapes
  <2>7. Overlaps' /\ Owing'
    BY <1>1, <1>4, <2>3, <2>4, <2>5, <2>6, CallStep DEF Active, Recorded
  <2>8. Roles' /\ Turns'
    BY <1>1, <1>4, <2>3, <2>4, RolesStep, TurnsElsewhere
  <2>9. QED
    BY <2>6, <2>7, <2>8
<1>7. QED
  BY <1>5, <1>6

\* A mutation reads the file.
LEMMA LoadStep ==
    ASSUME StoreInv, NEW c \in Calls, LoadProfiles(c)
    PROVE  StoreInv'
<1> USE DEF StoreInv
<1>1. /\ Active(c) /\ calls[c].p \in Compatible /\ calls[c].op \in {"persist", "remove"}
      /\ calls[c].pc = "queued" /\ ~calls[c].ok /\ calls[c].p \in All
  BY DEF LoadProfiles, Roles, Active, All
<1>2. calls[c].alone => Secure(c)
  BY <1>1 DEF Owing
<1>3. calls[c] \in CallRecord
  BY DEF Shapes
<1>4. /\ UNCHANGED <<profiles, format, locked, owed, mutations, keys>>
      /\ OwnTurn(c) /\ ReadableProfiles
  BY DEF LoadProfiles, diskVars
<1> DEFINE file == LoadedProfiles
<1>5. calls' = [calls EXCEPT ![c] = [calls[c] EXCEPT !.loaded = file, !.pc = "save"]]
  BY DEF LoadProfiles
<1>6. file \in [Compatible -> Profile]
  BY DEF LoadedProfiles, Shapes, Profile
<1>7. file' = file
  BY <1>4 DEF LoadedProfiles
<1> HIDE DEF file
<1>8. [calls[c] EXCEPT !.loaded = file, !.pc = "save"] \in CallRecord
  BY <1>3, <1>6 DEF CallRecord, Stages
<1>9. /\ calls'[c] = [calls[c] EXCEPT !.loaded = file, !.pc = "save"]
      /\ \A d \in Calls \ {c} : calls'[d] = calls[d]
      /\ calls' \in [Calls -> CallRecord]
  BY <1>5, <1>8 DEF Shapes
<1>10. /\ calls'[c].pc = "save" /\ calls'[c].loaded = file /\ calls'[c].p = calls[c].p
       /\ calls'[c].op = calls[c].op /\ calls'[c].secret = calls[c].secret
       /\ calls'[c].alone = calls[c].alone /\ calls'[c].ok = calls[c].ok
       /\ calls'[c].previous = calls[c].previous /\ calls'[c].unread = calls[c].unread
  BY <1>3, <1>9 DEF CallRecord
<1>11. Shapes'
  BY <1>4, <1>9 DEF Shapes
<1>12. calls[c].alone => Secure(c)'
  BY <1>1, <1>2, <1>4, <1>10 DEF Secure, Kept, Recorded
<1>13. Overlaps' /\ Owing'
  BY <1>1, <1>4, <1>9, <1>10, <1>11, <1>12, CallStep DEF Active, Recorded
<1>14. Roles'
  BY <1>1, <1>9, <1>10, RolesStep
<1>15. Turns'
  <2>1. \A d \in Calls \ {c} : calls'[d].pc \notin {"save", "forget"}
    BY <1>4, <1>9, OneTurn
  <2>2. OwnTurn(c)' /\ ReadableProfiles'
    BY <1>4 DEF OwnTurn, ReadableProfiles
  <2>3. calls'[c].loaded = LoadedProfiles'
    BY <1>7, <1>10 DEF file
  <2>4. QED
    BY <1>10, <2>1, <2>2, <2>3 DEF Turns
<1>16. QED
  BY <1>11, <1>13, <1>14, <1>15

\* A mutation that fails has written nothing.
LEMMA FailStep ==
    ASSUME StoreInv, NEW c \in Calls, MutationFails(c)
    PROVE  StoreInv'
<1> USE DEF StoreInv
<1> DEFINE pc == IF calls[c].secret # NoKey THEN "rollback" ELSE "done"
<1>1. /\ Active(c) /\ calls[c].p \in Compatible /\ calls[c].op \in {"persist", "remove"}
      /\ calls[c].pc \in {"queued", "save"} /\ ~calls[c].ok /\ calls[c].p \in All
      /\ calls[c].op = "remove" => calls[c].secret = NoKey
  BY DEF MutationFails, Roles, Active, All
<1>2. calls[c].alone => Secure(c)
  BY <1>1 DEF Owing
<1>3. calls[c] \in CallRecord
  BY DEF Shapes
<1>4. /\ UNCHANGED <<profiles, format, locked, owed, keys>> /\ OwnTurn(c)
      /\ calls' = Step(c, pc) /\ mutations' = Tail(mutations)
  BY DEF MutationFails, diskVars, Leave
<1>5. pc \in Stages
  BY DEF Stages
<1>6. calls[c].secret \in Secrets \cup {NoKey}
  BY <1>3 DEF CallRecord
<1>7. /\ pc \in {"rollback", "done"}
      /\ pc = "rollback" => calls[c].op = "persist" /\ calls[c].secret \in Secrets
      /\ pc = "rollback" => calls[c].secret # NoKey
      /\ pc = "done" => calls[c].secret = NoKey
  BY <1>1, <1>6
<1> HIDE DEF pc
<1>8. /\ calls' \in [Calls -> CallRecord] /\ calls'[c].pc = pc
      /\ calls'[c].op = calls[c].op /\ calls'[c].p = calls[c].p
      /\ calls'[c].secret = calls[c].secret /\ calls'[c].ok = calls[c].ok
      /\ calls'[c].previous = calls[c].previous /\ calls'[c].alone = calls[c].alone
      /\ calls'[c].unread = calls[c].unread
      /\ \A d \in Calls \ {c} : calls'[d] = calls[d]
  BY <1>4, <1>5, StepFields
<1>9. mutations' \in Seq(Calls)
  BY <1>4 DEF Shapes, OwnTurn
<1>10. Shapes'
  BY <1>4, <1>8, <1>9 DEF Shapes
<1>11. calls[c].alone => Secure(c)'
  BY <1>1, <1>2, <1>4, <1>7, <1>8 DEF Secure, Kept, Recorded
<1>12. Overlaps' /\ Owing'
  BY <1>1, <1>4, <1>7, <1>8, <1>10, <1>11, CallStep DEF Active, Recorded
<1>13. Roles' /\ Turns'
  BY <1>1, <1>4, <1>7, <1>8, RolesStep, TurnsOver
<1>14. QED
  BY <1>10, <1>12, <1>13

\* What a mutation that has its turn may write: the file it loaded, but for its own provider.
LEMMA OthersRecorded ==
    ASSUME StoreInv, NEW c \in Calls, calls[c].pc = "save", NEW entry,
           profiles' = [calls[c].loaded EXCEPT ![calls[c].p] = entry], format'.profiles = "ok"
    PROVE  \A q \in All \ {calls[c].p} : Recorded(q) => Recorded(q)'
<1>1. calls[c].loaded = LoadedProfiles /\ profiles \in [Compatible -> Profile]
  BY DEF StoreInv, Turns, Shapes
<1>2. ASSUME NEW q \in All \ {calls[c].p}, Recorded(q), q # BuiltIn PROVE Recorded(q)'
  <2>1. LoadedProfiles = profiles /\ q \in Compatible /\ profiles[q] # NoProfile
    BY <1>2 DEF LoadedProfiles, Recorded, All
  <2>2. profiles'[q] = profiles[q]
    BY <1>1, <2>1
  <2>3. QED
    BY <2>1, <2>2 DEF Recorded
<1>3. QED
  BY <1>2 DEF Recorded

\* A profile is added, dropped, or was not there.
LEMMA SaveStep ==
    ASSUME KeysApart, StoreInv, NEW c \in Calls, SaveProfiles(c)
    PROVE  StoreInv'
<1> USE DEF StoreInv
<1> DEFINE p == calls[c].p
           gone == calls[c].op = "remove" /\ calls[c].loaded[p] = NoProfile
<1>1. /\ Active(c) /\ p \in Compatible /\ p \in All
      /\ calls[c].op \in {"persist", "remove"}
      /\ calls[c].op = "remove" => calls[c].secret = NoKey
      /\ calls[c].pc = "save" /\ ~calls[c].ok
  BY DEF SaveProfiles, Roles, Active, All
<1>2. calls[c].alone => Secure(c)
  BY <1>1 DEF Owing
<1>3. /\ calls[c] \in CallRecord /\ calls[c].loaded \in [Compatible -> Profile]
      /\ calls[c].secret \in Secrets \cup {NoKey}
  BY DEF Shapes, CallRecord
<1>4. OwnTurn(c) /\ UNCHANGED <<keys, locked, owed>>
  BY <1>1 DEF Turns, SaveProfiles
<1>5. format' = [format EXCEPT !.profiles = IF gone THEN @ ELSE "ok"]
  BY DEF SaveProfiles
<1>6. /\ format' \in [profiles : Formats, config : Formats]
      /\ ~gone => format'.profiles = "ok"
      /\ gone => format' = format
  BY <1>5 DEF Shapes, Formats
<1>7. mutations \in Seq(Calls) /\ mutations # <<>> /\ Tail(mutations) \in Seq(Calls)
  BY <1>4 DEF Shapes, OwnTurn
<1>8. BuiltIn # p
  BY <1>1 DEF KeysApart
<1>9. CASE calls[c].op = "persist"
  <2> DEFINE entry == [env |-> EnvOf[p]]
  <2>1. /\ profiles' = [calls[c].loaded EXCEPT ![p] = entry] /\ mutations' = Tail(mutations)
        /\ calls' = [calls EXCEPT ![c] =
               [calls[c] EXCEPT !.pc = "done", !.ok = (calls[c].secret # NoKey)]]
    BY <1>9 DEF SaveProfiles, Leave
  <2>2. entry \in Profile /\ entry # NoProfile
    <3>1. EnvOf[p] \in EnvNames /\ EnvOf[p] # Unset
      BY <1>1 DEF KeysApart
    <3>2. entry.env = EnvOf[p] /\ NoProfile.env = Unset
      BY DEF NoProfile
    <3>3. QED
      BY <3>1, <3>2 DEF Profile
  <2> HIDE DEF entry
  <2>3. [calls[c] EXCEPT !.pc = "done", !.ok = (calls[c].secret # NoKey)] \in CallRecord
    BY <1>3 DEF CallRecord, Stages
  <2>4. /\ calls'[c] = [calls[c] EXCEPT !.pc = "done", !.ok = (calls[c].secret # NoKey)]
        /\ \A d \in Calls \ {c} : calls'[d] = calls[d]
        /\ calls' \in [Calls -> CallRecord]
    BY <2>1, <2>3 DEF Shapes
  <2>5. /\ calls'[c].pc = "done" /\ calls'[c].ok = (calls[c].secret # NoKey) /\ calls'[c].p = p
        /\ calls'[c].op = calls[c].op /\ calls'[c].secret = calls[c].secret
        /\ calls'[c].alone = calls[c].alone
    BY <1>3, <2>4 DEF CallRecord
  <2>6. profiles' \in [Compatible -> Profile] /\ profiles'[p] = entry
    BY <1>1, <1>3, <2>1, <2>2
  <2>7. Shapes'
    BY <1>4, <1>6, <1>7, <2>1, <2>4, <2>6 DEF Shapes
  <2>8. Recorded(p)'
    BY <1>6, <1>9, <2>2, <2>5, <2>6 DEF Recorded
  <2>9. calls[c].alone => Secure(c)'
    BY <1>1, <1>2, <1>3, <1>4, <1>9, <2>5, <2>8 DEF Secure, Kept
  <2>10. \A q \in All \ {p} : Recorded(q) => Recorded(q)'
    BY <1>1, <1>6, <1>9, <2>1, OthersRecorded
  <2>11. Overlaps' /\ Owing'
    BY <1>1, <1>4, <2>4, <2>5, <2>7, <2>9, <2>10, CallStep DEF Active
  <2>12. Roles' /\ Turns'
    BY <1>1, <1>4, <2>4, <2>5, RolesStep, TurnsOver
  <2>13. QED
    BY <2>7, <2>11, <2>12
<1>10. CASE calls[c].op = "remove" /\ ~gone
  <2>1. /\ profiles' = [calls[c].loaded EXCEPT ![p] = NoProfile] /\ mutations' = mutations
        /\ calls' = Step(c, "forget")
    BY <1>10 DEF SaveProfiles
  <2>2. /\ calls' \in [Calls -> CallRecord] /\ calls'[c].pc = "forget"
        /\ calls'[c].op = calls[c].op /\ calls'[c].p = p
        /\ calls'[c].secret = calls[c].secret /\ calls'[c].ok = calls[c].ok
        /\ calls'[c].loaded = calls[c].loaded /\ calls'[c].alone = calls[c].alone
        /\ \A d \in Calls \ {c} : calls'[d] = calls[d]
    BY <2>1, StepFields DEF Stages
  <2>3. profiles' \in [Compatible -> Profile]
    BY <1>3, <2>1 DEF Profile
  <2>4. Shapes'
    BY <1>4, <1>6, <2>1, <2>2, <2>3 DEF Shapes
  <2>5. \A q \in All \ {p} : Recorded(q) => Recorded(q)'
    BY <1>1, <1>6, <1>10, <2>1, OthersRecorded
  <2>6. Secure(c)'
    BY <1>10, <2>2 DEF Secure
  <2>7. Overlaps' /\ Owing'
    BY <1>1, <1>4, <2>2, <2>4, <2>5, <2>6, CallStep DEF Active
  <2>8. Roles'
    BY <1>1, <1>10, <2>2, RolesStep
  <2>9. Turns'
    <3>1. \A d \in Calls \ {c} : calls'[d].pc \notin {"save", "forget"}
      BY <1>4, <2>2, OneTurn
    <3>2. OwnTurn(c)'
      BY <1>4, <2>1 DEF OwnTurn
    <3>3. /\ format'.profiles = "ok"
          /\ profiles' = [calls'[c].loaded EXCEPT ![calls'[c].p] = NoProfile]
      BY <1>6, <1>10, <2>1, <2>2
    <3>4. QED
      BY <2>2, <3>1, <3>2, <3>3 DEF Turns
  <2>10. QED
    BY <2>4, <2>7, <2>8, <2>9
<1>11. CASE gone
  <2>1. profiles' = profiles /\ mutations' = Tail(mutations) /\ calls' = Step(c, "done")
    BY <1>11 DEF SaveProfiles, Leave
  <2>2. /\ calls' \in [Calls -> CallRecord] /\ calls'[c].pc = "done"
        /\ calls'[c].op = calls[c].op /\ calls'[c].p = p
        /\ calls'[c].secret = calls[c].secret /\ calls'[c].ok = calls[c].ok
        /\ calls'[c].alone = calls[c].alone
        /\ \A d \in Calls \ {c} : calls'[d] = calls[d]
    BY <2>1, StepFields DEF Stages
  <2>3. Shapes'
    BY <1>4, <1>6, <1>7, <2>1, <2>2 DEF Shapes
  <2>4. Secure(c)'
    BY <1>1, <1>11, <2>2 DEF Secure
  <2>5. Overlaps' /\ Owing'
    BY <1>1, <1>4, <1>6, <1>11, <2>1, <2>2, <2>3, <2>4, CallStep DEF Active, Recorded
  <2>6. Roles' /\ Turns'
    BY <1>1, <1>4, <2>2, RolesStep, TurnsOver
  <2>7. QED
    BY <2>3, <2>5, <2>6
<1>12. QED
  BY <1>1, <1>9, <1>10, <1>11

\* What a removal may delete: its own entry, and the legacy entry its profile named.
LEMMA Deleted ==
    ASSUME StoreInv, NEW c \in Calls, Forget(c)
    PROVE  /\ calls[c].pc = "forget" /\ calls[c].op = "remove" /\ calls[c].p \in Compatible
           /\ \E deleted \in SUBSET Forgotten(calls[c]) :
                /\ keys' = [r \in Refs |-> IF r \in deleted THEN NoKey ELSE keys[r]]
                /\ calls' = [calls EXCEPT ![c] = [calls[c] EXCEPT
                                 !.pc = "done", !.ok = (deleted = Forgotten(calls[c]))]]
<1>1. calls[c].pc = "forget" /\ calls[c].op = "remove" /\ calls[c].p \in Compatible
  BY DEF StoreInv, Roles, Active, Forget
<1>2. PICK deleted \in IF locked THEN {{}} ELSE {Forgotten(calls[c])} \cup
                         (IF MayFail THEN SUBSET Forgotten(calls[c]) ELSE {}) :
                /\ keys' = [r \in Refs |-> IF r \in deleted THEN NoKey ELSE keys[r]]
                /\ calls' = [calls EXCEPT ![c].pc = "done",
                                          ![c].ok = (deleted = Forgotten(calls[c]))]
  BY DEF Forget
<1>3. deleted \in SUBSET Forgotten(calls[c])
  BY <1>2
<1>4. calls' = [calls EXCEPT ![c] = [calls[c] EXCEPT
                                 !.pc = "done", !.ok = (deleted = Forgotten(calls[c]))]]
  BY <1>2
<1>5. QED
  BY <1>1, <1>2, <1>3, <1>4

\* The variable named by a profile is no entry of a provider.
LEMMA VariableEntries ==
    ASSUME KeysApart, StoreInv, NEW c \in Calls, calls[c].p \in Compatible,
           NEW q \in All \ {calls[c].p}
    PROVE  q \notin Forgotten(calls[c])
<1>1. calls[c].loaded[calls[c].p] \in Profile
  BY DEF StoreInv, Shapes, CallRecord
<1>2. calls[c].loaded[calls[c].p].env \in EnvNames \cup {Unset}
  BY <1>1 DEF Profile, NoProfile
<1>3. QED
  BY <1>2 DEF Forgotten, KeysApart

\* The entries of a removed provider go.
LEMMA ForgetStep ==
    ASSUME KeysApart, StoreInv, NEW c \in Calls, Forget(c)
    PROVE  StoreInv'
<1> USE DEF StoreInv
<1> DEFINE p == calls[c].p
           all == Forgotten(calls[c])
<1>1. PICK deleted \in SUBSET all :
         /\ keys' = [r \in Refs |-> IF r \in deleted THEN NoKey ELSE keys[r]]
         /\ calls' = [calls EXCEPT ![c] = [calls[c] EXCEPT !.pc = "done", !.ok = (deleted = all)]]
  BY Deleted
<1>2. /\ calls[c].pc = "forget" /\ calls[c].op = "remove"
      /\ p \in Compatible /\ p \in All /\ p \in Refs
  BY Deleted DEF All, Refs
<1>3. Active(c) /\ OwnTurn(c) /\ calls[c] \in CallRecord
  BY <1>2 DEF Active, Turns, Shapes
<1>4. UNCHANGED <<profiles, format, locked, owed>> /\ mutations' = Tail(mutations)
  BY DEF Forget, Leave
<1>5. p \in all
  BY DEF Forgotten
<1>6. \A q \in All \ {p} : q \notin all
  BY <1>2, VariableEntries
<1> HIDE DEF all
<1>7. [calls[c] EXCEPT !.pc = "done", !.ok = (deleted = all)] \in CallRecord
  BY <1>3 DEF CallRecord, Stages
<1>8. /\ calls'[c] = [calls[c] EXCEPT !.pc = "done", !.ok = (deleted = all)]
      /\ \A d \in Calls \ {c} : calls'[d] = calls[d]
      /\ calls' \in [Calls -> CallRecord]
  BY <1>1, <1>7 DEF Shapes
<1>9. /\ calls'[c].pc = "done" /\ calls'[c].ok = (deleted = all) /\ calls'[c].p = p
      /\ calls'[c].op = calls[c].op /\ calls'[c].secret = calls[c].secret
      /\ calls'[c].alone = calls[c].alone
  BY <1>3, <1>8 DEF CallRecord
<1>10. keys' \in [Refs -> StoredKeys]
  BY <1>1 DEF Shapes, StoredKeys
<1>11. Shapes'
  <2>1. mutations' \in Seq(Calls)
    BY <1>3, <1>4 DEF Shapes, OwnTurn
  <2>2. QED
    BY <1>4, <1>8, <1>10, <2>1 DEF Shapes
<1>12. /\ calls'[c].ok => keys'[p] = NoKey
       /\ \A q \in All \ {p} : keys'[q] = keys[q]
  BY <1>1, <1>2, <1>5, <1>6, <1>9 DEF Refs
<1>13. Secure(c)'
  BY <1>2, <1>9, <1>12 DEF Secure
<1>14. Overlaps' /\ Owing'
  BY <1>2, <1>3, <1>4, <1>8, <1>9, <1>11, <1>12, <1>13, CallStep DEF Active, Recorded
<1>15. Roles' /\ Turns'
  BY <1>2, <1>3, <1>8, <1>9, RolesStep, TurnsOver
<1>16. QED
  BY <1>11, <1>14, <1>15

\* A call is answered.
LEMMA FinishStep ==
    ASSUME KeysApart, StoreInv, NEW c \in Calls, Finish(c)
    PROVE  StoreInv'
<1> USE DEF StoreInv
<1> DEFINE p == calls[c].p
           report == Report(calls[c])
<1>1. /\ Active(c) /\ p \in All /\ calls[c].pc = "done"
      /\ calls[c].op \in {"persist", "remove"}
  BY DEF Finish, Roles, Active
<1>2. calls[c].alone => Secure(c)
  BY <1>1 DEF Owing
<1>3. calls[c] \in CallRecord /\ owed \in [All -> Secrets \cup {NoKey, Unknown}]
  BY DEF Shapes
<1>4. /\ UNCHANGED <<profiles, keys, format, locked, mutations>>
      /\ calls' = [calls EXCEPT ![c] = Idle] /\ owed' = [owed EXCEPT ![p] = report]
  BY DEF Finish, diskVars
<1>5. Idle \in CallRecord /\ Idle.pc = "idle"
  BY <1>1, IdleCall
<1>6. /\ calls' \in [Calls -> CallRecord] /\ calls'[c] = Idle
      /\ \A d \in Calls \ {c} : calls'[d] = calls[d]
  BY <1>4, <1>5 DEF Shapes
<1>7. report \in Secrets \cup {NoKey, Unknown}
  BY <1>1, <1>3 DEF Report, CallRecord
<1>8. report # Unknown => keys[p] = report /\ (report \in Secrets => Recorded(p))
  <2>1. SUFFICES ASSUME report # Unknown
                 PROVE  keys[p] = report /\ (report \in Secrets => Recorded(p))
    OBVIOUS
  <2>2. calls[c].alone
    BY <2>1 DEF Report
  <2>3. CASE calls[c].op = "remove"
    <3>1. report = NoKey /\ keys[p] = NoKey
      BY <1>1, <1>2, <2>1, <2>2, <2>3 DEF Report, Secure
    <3>2. QED
      BY <3>1 DEF KeysApart
  <2>4. CASE calls[c].op = "persist" /\ calls[c].ok
    BY <1>1, <1>2, <2>2, <2>4 DEF Report, Secure
  <2>5. CASE calls[c].op = "persist" /\ ~calls[c].ok
    <3>1. report = owed[p] /\ Kept(p, keys[p])
      BY <1>1, <1>2, <2>2, <2>5 DEF Report, Secure
    <3>2. QED
      BY <2>1, <3>1 DEF Kept
  <2>6. QED
    BY <1>1, <2>3, <2>4, <2>5
<1> HIDE DEF report
<1>9. Shapes'
  BY <1>3, <1>4, <1>6, <1>7 DEF Shapes
<1>10. ~Active(c)' /\ \A d \in Calls \ {c} : Active(d)' <=> Active(d)
  BY <1>5, <1>6 DEF Active
<1>11. Roles'
  BY <1>6, <1>10 DEF Roles
<1>12. Turns'
  BY <1>4, <1>5, <1>6, TurnsElsewhere
<1>13. Overlaps'
  BY <1>6, <1>10 DEF Overlaps
<1>14. owed'[p] = report /\ \A q \in All \ {p} : owed'[q] = owed[q]
  BY <1>1, <1>3, <1>4
<1>15. ASSUME NEW d \in Calls, Active(d)', calls'[d].alone PROVE Secure(d)'
  <2>1. d # c /\ calls'[d] = calls[d] /\ Active(d) /\ calls[d].alone
    BY <1>6, <1>10, <1>15
  <2>2. calls[d].p \in All \ {p} /\ Secure(d)
    BY <1>1, <2>1 DEF Roles, Overlaps, Owing
  <2>3. owed'[calls[d].p] = owed[calls[d].p]
    BY <1>14, <2>2
  <2>4. QED
    BY <1>4, <2>1, <2>2, <2>3 DEF Secure, Kept, Recorded
<1>16. ASSUME NEW q \in All, Quiet(q)' PROVE Kept(q, keys[q])'
  <2>1. CASE q = p
    BY <1>4, <1>8, <1>14, <2>1 DEF Kept, Recorded
  <2>2. CASE q # p
    <3>1. Quiet(q)
      BY <1>6, <1>10, <1>16, <2>2 DEF Quiet
    <3>2. Kept(q, keys[q])
      BY <3>1 DEF Owing
    <3>3. QED
      BY <1>4, <1>14, <2>2, <3>2 DEF Kept, Recorded
  <2>3. QED
    BY <2>1, <2>2
<1>17. QED
  BY <1>9, <1>11, <1>12, <1>13, <1>15, <1>16 DEF Owing

\* Steps that touch no call, no profile and no key.
LEMMA StoresStay ==
    ASSUME StoreInv, UNCHANGED <<profiles, keys, locked, calls, mutations, owed>>,
           format' \in [profiles : Formats, config : Formats],
           format'.profiles = format.profiles
    PROVE  StoreInv'
<1> USE DEF StoreInv
<1>1. Shapes'
  BY DEF Shapes
<1>2. Roles' /\ Overlaps'
  BY DEF Roles, Overlaps, Active
<1>3. Turns'
  BY DEF Turns, OwnTurn, ReadableProfiles, LoadedProfiles
<1>4. ASSUME NEW c \in Calls, Active(c)', calls'[c].alone PROVE Secure(c)'
  <2>1. Secure(c)
    BY <1>4 DEF Owing, Active
  <2>2. QED
    BY <2>1 DEF Secure, Kept, Recorded
<1>5. ASSUME NEW p \in All, Quiet(p)' PROVE Kept(p, keys[p])'
  <2>1. Kept(p, keys[p])
    BY <1>5 DEF Owing, Quiet, Active
  <2>2. QED
    BY <2>1 DEF Kept, Recorded
<1>6. QED
  BY <1>1, <1>2, <1>3, <1>4, <1>5 DEF Owing

\* A write of the configuration leaves the format of the providers file.
LEMMA ConfigStep ==
    ASSUME StoreInv, SaveConfig
    PROVE  StoreInv'
<1>1. UNCHANGED <<profiles, keys, locked, calls, mutations, owed>>
  BY DEF SaveConfig
<1>2. format \in [profiles : Formats, config : Formats]
  BY DEF StoreInv, Shapes
<1>3. format' = format \/ format' = [format EXCEPT !.config = "ok"]
  BY DEF SaveConfig
<1>4. /\ format' \in [profiles : Formats, config : Formats]
      /\ format'.profiles = format.profiles
  BY <1>2, <1>3 DEF Formats
<1>5. QED
  BY <1>1, <1>4, StoresStay

\* What a restart leaves owed is what the calls it cut short had not touched.
LEMMA RestartStep ==
    ASSUME StoreInv, Restart
    PROVE  StoreInv'
<1> USE DEF StoreInv
<1>1. /\ UNCHANGED <<profiles, keys, format>> /\ mutations' = <<>>
      /\ calls' = [c \in Calls |-> Idle]
      /\ owed' = [p \in All |-> IF Quiet(p) THEN owed[p] ELSE Unknown]
  BY DEF Restart, diskVars
<1>2. \A P \in All : Idle \in CallRecord /\ Idle.pc = "idle"
  BY IdleCall
<1>3. BuiltIn \in All
  BY DEF All
<1>4. \A c \in Calls : calls'[c] = Idle /\ calls'[c].pc = "idle"
  BY <1>1, <1>2, <1>3
<1>5. Shapes'
  <2>1. calls' \in [Calls -> CallRecord]
    BY <1>1, <1>2, <1>3
  <2>2. owed' \in [All -> Secrets \cup {NoKey, Unknown}]
    BY <1>1 DEF Shapes
  <2>3. mutations' \in Seq(Calls)
    BY <1>1
  <2>4. QED
    BY <1>1, <2>1, <2>2, <2>3 DEF Shapes
<1>6. Roles' /\ Turns' /\ Overlaps'
  BY <1>4 DEF Roles, Turns, Overlaps, Active
<1>7. ASSUME NEW p \in All PROVE Kept(p, keys[p])'
  <2>1. CASE Quiet(p)
    <3>1. Kept(p, keys[p])
      BY <2>1 DEF Owing
    <3>2. owed'[p] = owed[p]
      BY <1>1, <2>1
    <3>3. QED
      BY <1>1, <3>1, <3>2 DEF Kept, Recorded
  <2>2. CASE ~Quiet(p)
    BY <1>1, <2>2 DEF Kept
  <2>3. QED
    BY <2>1, <2>2
<1>8. Owing'
  BY <1>4, <1>7 DEF Owing, Active
<1>9. QED
  BY <1>5, <1>6, <1>8

LEMMA InitStore ==
    KeysApart /\ StoreInit => StoreInv
<1> SUFFICES ASSUME KeysApart, StoreInit PROVE StoreInv
  OBVIOUS
<1>1. BuiltIn \in All
  BY DEF All
<1>2. Idle \in CallRecord /\ Idle.pc = "idle"
  BY <1>1, IdleCall
<1>3. calls \in [Calls -> CallRecord] /\ \A c \in Calls : ~Active(c)
  <2>1. calls = [c \in Calls |-> Idle]
    BY DEF StoreInit
  <2>2. QED
    BY <1>2, <2>1 DEF Active
<1>4. \A p \in Compatible : EnvOf[p] \in EnvNames
  BY DEF KeysApart, All
<1>5. profiles \in [Compatible -> Profile]
  BY <1>4 DEF StoreInit, Profile
<1>6. keys \in [Refs -> StoredKeys]
  BY DEF StoreInit, StoredKeys
<1>7. \E f \in Formats : format = [profiles |-> f, config |-> f]
  BY DEF StoreInit
<1>8. owed = [p \in All |-> Unknown] /\ mutations = <<>>
  BY DEF StoreInit
<1>9. Shapes
  BY <1>3, <1>5, <1>6, <1>7, <1>8 DEF Shapes
<1>10. Roles /\ Turns /\ Overlaps
  BY <1>3 DEF Roles, Turns, Overlaps, Active
<1>11. Owing
  BY <1>3, <1>8 DEF Owing, Kept
<1>12. QED
  BY <1>9, <1>10, <1>11 DEF StoreInv

LEMMA NextStore ==
    KeysApart /\ StoreInv /\ [StoreNext]_storeVars => StoreInv'
<1> SUFFICES ASSUME KeysApart, StoreInv, [StoreNext]_storeVars PROVE StoreInv'
  OBVIOUS
<1>1. format \in [profiles : Formats, config : Formats]
  BY DEF StoreInv, Shapes
<1>2. ASSUME NEW c \in Calls, NEW P \in All, ConnectBlank(c, P) PROVE StoreInv'
  <2>1. CASE UNCHANGED <<diskVars, locked, calls, mutations, owed>>
    BY <1>1, <2>1, StoresStay DEF diskVars
  <2>2. CASE Began(c, P)
    BY <2>2, Begins
  <2>3. QED
    BY <1>2, <2>1, <2>2 DEF ConnectBlank, Began
<1>3. ASSUME NEW c \in Calls, NEW P \in All, NEW s \in Secrets, ConnectWithKey(c, P, s)
      PROVE  StoreInv'
  BY <1>3, Begins DEF Began
<1>4. ASSUME NEW c \in Calls, NEW P \in Compatible, Remove(c, P) PROVE StoreInv'
  BY <1>4, Begins DEF Began, All
<1>5. ASSUME NEW c \in Calls,
             ReadPrevious(c) \/ ReadPreviousFails(c) \/ SetKey(c) \/ SetKeyFails(c)
      PROVE  StoreInv'
  BY <1>5, KeyStep
<1>6. ASSUME NEW c \in Calls, Rollback(c) \/ RollbackFails(c) PROVE StoreInv'
  BY <1>6, RollbackStep
<1>7. ASSUME NEW c \in Calls, LoadProfiles(c) PROVE StoreInv'
  BY <1>7, LoadStep
<1>8. ASSUME NEW c \in Calls, SaveProfiles(c) PROVE StoreInv'
  BY <1>8, SaveStep
<1>9. ASSUME NEW c \in Calls, MutationFails(c) PROVE StoreInv'
  BY <1>9, FailStep
<1>10. ASSUME NEW c \in Calls, Forget(c) PROVE StoreInv'
  BY <1>10, ForgetStep
<1>11. ASSUME NEW c \in Calls, Finish(c) PROVE StoreInv'
  BY <1>11, FinishStep
<1>12. CASE ChooseModel \/ \E P \in All : RestoreProvider(P)
  BY <1>1, <1>12, StoresStay DEF ChooseModel, RestoreProvider, diskVars
<1>13. CASE SaveConfig
  BY <1>13, ConfigStep
<1>14. CASE Restart
  BY <1>14, RestartStep
<1>15. CASE UNCHANGED storeVars
  BY <1>1, <1>15, StoresStay DEF storeVars
<1>16. QED
  BY <1>2, <1>3, <1>4, <1>5, <1>6, <1>7, <1>8, <1>9, <1>10, <1>11, <1>12, <1>13, <1>14, <1>15
     DEF StoreNext, Call

LEMMA StoreInvAlways == StoreSpec => []StoreInv
<1>1. StoreInv /\ [StoreNext]_storeVars => StoreInv'
  BY NextStore, StoreAssumption
<1>2. StoreInit => StoreInv
  BY InitStore, StoreAssumption
<1>3. QED
  BY <1>1, <1>2, PTL DEF StoreSpec

\* A credential reported as stored is in the keychain, and the provider is listed and resolves to
\* it; a write reported as failed left the key there was, unless another call on that provider
\* overlapped it, its roll back failed, or its read of the key there was had failed and the roll
\* back therefore deleted it (persistProvider, KeyringCredentialStore.get).
THEOREM CredentialIsRestorable == StoreSpec => []ReportedIsRestorable
<1>0. StoreSpec => []StoreInv
  BY StoreInvAlways
<1>1. StoreInv => ReportedIsRestorable
  <2>1. SUFFICES ASSUME StoreInv, NEW p \in All, Quiet(p), owed[p] # Unknown
                 PROVE  /\ keys[p] = owed[p]
                        /\ owed[p] \in Secrets /\ ReadableProfiles =>
                               Listed(p) /\ (~locked => Resolve(p) = owed[p])
    BY DEF ReportedIsRestorable
  <2>2. keys[p] = owed[p] /\ (owed[p] \in Secrets => Recorded(p))
    BY <2>1 DEF StoreInv, Owing, Kept
  <2>3. ASSUME owed[p] \in Secrets, ReadableProfiles PROVE Listed(p)
    BY <2>2, <2>3 DEF Recorded, Listed, ListedIn, LoadedProfiles
  <2>4. ASSUME owed[p] \in Secrets, ReadableProfiles, ~locked PROVE Resolve(p) = owed[p]
    <3>1. keys[p] # NoKey /\ ReadKey(p) = keys[p]
      BY StoreAssumption, <2>2, <2>4 DEF KeysApart, ReadKey
    <3>2. QED
      BY <2>2, <2>3, <2>4, <3>1 DEF Resolve
  <2>5. QED
    BY <2>2, <2>3, <2>4
<1>2. QED
  BY <1>1, <1>0, PTL

\* Removing a profile never takes the key of another that resolves through the same legacy entry
\* (removeCustomProvider deletes it once no profile that remains names it).
THEOREM OthersKeepTheirKey == StoreSpec => SharedKeyKept
<1>0. StoreSpec => []StoreInv
  BY StoreInvAlways
<1>1. ASSUME StoreInv, NEW c \in Calls, Forget(c),
             NEW q \in All \ {calls[c].p}, Listed(q)
      PROVE  Resolve(q)' = Resolve(q)
  <2> DEFINE all == Forgotten(calls[c])
             env == EnvRefIn(LoadedProfiles, q)
  <2>1. /\ calls[c].p \in Compatible
        /\ \E deleted \in SUBSET all :
             keys' = [r \in Refs |-> IF r \in deleted THEN NoKey ELSE keys[r]]
    BY <1>1, Deleted, StoreAssumption
  <2>2. UNCHANGED <<profiles, format, locked>>
    BY <1>1 DEF Forget
  <2>3. /\ LoadedProfiles = profiles /\ calls[c].loaded \in [Compatible -> Profile]
        /\ profiles = [calls[c].loaded EXCEPT ![calls[c].p] = NoProfile]
    BY <1>1, Deleted, StoreAssumption DEF StoreInv, Turns, LoadedProfiles, Shapes, CallRecord
  <2>4. env \in EnvNames
    <3>1. CASE q = BuiltIn
      BY StoreAssumption, <3>1 DEF EnvRefIn, KeysApart, All
    <3>2. CASE q # BuiltIn
      <4>1. profiles[q] \in Profile /\ profiles[q] # NoProfile
        BY <1>1, <2>3, <3>2 DEF StoreInv, Shapes, Listed, ListedIn, All
      <4>2. QED
        BY <2>3, <3>2, <4>1 DEF EnvRefIn, Profile
    <3>3. QED
      BY <3>1, <3>2
  <2>5. env = EnvRefIn(calls[c].loaded, q) /\ ListedIn(calls[c].loaded, q)
    BY <1>1, <2>3 DEF EnvRefIn, Listed, ListedIn, All
  <2>6. q \notin all
    BY <1>1, <2>1, VariableEntries, StoreAssumption
  <2>7. env \notin all
    <3>1. env # calls[c].p
      BY StoreAssumption, <2>1, <2>4 DEF KeysApart, All
    <3>2. calls[c].loaded[calls[c].p].env # env \/ all = {calls[c].p}
      BY <1>1, <2>5 DEF Forgotten
    <3>3. QED
      BY <3>1, <3>2 DEF Forgotten
  <2>8. q \in Refs /\ env \in Refs
    BY <1>1, <2>4 DEF Refs
  <2> HIDE DEF all
  <2>9. keys'[q] = keys[q] /\ keys'[env] = keys[env]
    BY <2>1, <2>6, <2>7, <2>8
  <2>10. env' = env /\ Listed(q)'
    BY <1>1, <2>2
       DEF LoadedProfiles, Listed, ListedIn, ReadableProfiles,
           EnvRefIn
  <2>11. ReadKey(q)' = ReadKey(q) /\ ReadKey(env)' = ReadKey(env)
    BY <2>2, <2>9, <2>10 DEF ReadKey
  <2> HIDE DEF env
  <2>12. QED
    BY <1>1, <2>10, <2>11 DEF Resolve, env
<1>2. StoreInv /\ [StoreNext]_storeVars =>
        [\A c \in Calls : Forget(c) =>
           \A q \in All \ {calls[c].p} :
               Listed(q) => Resolve(q)' = Resolve(q)]_storeVars
  BY <1>1
<1>3. QED
  BY <1>2, <1>0, PTL DEF StoreSpec, SharedKeyKept

=============================================================================
