------------------------- MODULE FormulaCacheProofs -------------------------
(***************************************************************************)
(* Theorems about FormulaCache for any number of callers, keys and weights *)
(* and any limits: a key is filled by one operation at a time, the cache   *)
(* implements RasterService, and what the worker renders passes the limits *)
(* of the host, the cache and the store (RasterContract); about            *)
(* GraphicsRuntime, whose frames draw what the cache holds; and about      *)
(* TerminalProbe, which finds out how the terminal is to be drawn on.      *)
(***************************************************************************)
EXTENDS FormulaCache, RasterContract, GraphicsRuntime, TerminalProbe, BasicLemmas

(***************************************************************************)
(* The LRU as a set of keys.                                               *)
(***************************************************************************)
\* Dropping the oldest keys leaves keys that were there.
LEMMA DropElements ==
    ASSUME NEW S, NEW s \in Seq(S), NEW n \in 0..Len(s)
    PROVE  Drop(s, n) \in Seq(S) /\ ToSet(Drop(s, n)) \subseteq ToSet(s)
<1> DEFINE rest == SubSeq(s, n + 1, Len(s))
<1>1. /\ rest \in Seq(S) /\ Len(rest) = Len(s) - n
      /\ \A j \in 1..(Len(s) - n) : rest[j] = s[n + j]
  OBVIOUS
<1> HIDE DEF rest
<1>2. ToSet(rest) \subseteq ToSet(s)
  <2>1. ASSUME NEW j \in DOMAIN rest PROVE rest[j] \in ToSet(s)
    <3>1. j \in 1..(Len(s) - n) /\ n + j \in DOMAIN s
      BY <1>1, <2>1
    <3>2. QED
      BY <1>1, <3>1 DEF ToSet
  <2>2. QED
    BY <2>1 DEF ToSet
<1>3. Drop(s, n) = rest
  BY DEF Drop, rest
<1>4. QED
  BY <1>1, <1>2, <1>3

\* Whatever room a raster needs, the keys that stay were there: at the latest
\* it stops when nothing is left.
LEMMA RoomElements ==
    ASSUME NEW keys \in Seq(Keys), NEW used, NEW w
    PROVE  /\ Room(keys, used, w).keys \in Seq(Keys)
           /\ ToSet(Room(keys, used, w).keys) \subseteq ToSet(keys)
<1> DEFINE Taken(n) == used - TotalWeight(SubSeq(keys, 1, n))
           Enough(n) == Len(keys) - n < MaxEntries /\ Taken(n) + w <= MaxBytes
           Stops(m) == Enough(m) \/ m = Len(keys)
           LeastRoom(m) == Stops(m) /\ \A less \in 0..(m - 1) : ~Enough(less)
           n == CHOOSE m \in 0..Len(keys) : LeastRoom(m)
           M == {m \in 0..Len(keys) : Stops(m)}
<1>1. Room(keys, used, w).keys = Drop(keys, n)
  BY DEF Room
<1> HIDE DEF Enough
<1>2. Len(keys) \in M /\ M \in SUBSET Nat
  OBVIOUS
<1> HIDE DEF M
<1>3. PICK m \in M : \A k \in M : m <= k
  BY <1>2, LeastElement
<1> USE DEF M
<1>4. m \in 0..Len(keys) /\ LeastRoom(m)
  <2>1. ASSUME NEW less \in 0..(m - 1), Enough(less) PROVE FALSE
    <3>1. less \in M
      BY <2>1
    <3>2. QED
      BY <1>3, <3>1
  <2>2. QED
    BY <2>1
<1> HIDE DEF M
<1> HIDE DEF LeastRoom
<1>5. n \in 0..Len(keys)
  BY <1>4
<1> HIDE DEF n
<1>6. QED
  BY <1>1, <1>5, DropElements

LEMMA InsertKeys ==
    ASSUME cache \in Seq(Keys), NEW k \in Keys, Insert(k)
    PROVE  /\ cache' \in Seq(Keys)
           /\ k \in Cached'
           /\ Cached' \subseteq Cached \cup {k}
<1> DEFINE others == RemoveFirst(cache, k)
           used == IF k \in Cached THEN bytes - Weight[k] ELSE bytes
           room == Room(others, used, Weight[k])
<1>1. others \in Seq(Keys) /\ ToSet(others) \subseteq Cached
  BY RemoveFirstElements DEF Cached
<1>2. cache' = Append(room.keys, k)
  BY DEF Insert
<1> HIDE DEF others, used
<1>3. room.keys \in Seq(Keys) /\ ToSet(room.keys) \subseteq ToSet(others)
  BY <1>1, RoomElements
<1> HIDE DEF room
<1>4. QED
  BY <1>1, <1>2, <1>3, AppendElements DEF Cached

LEMMA TouchedKeys ==
    ASSUME cache \in Seq(Keys), NEW k \in Cached, k \in Keys, cache' = Touched(k)
    PROVE  cache' \in Seq(Keys) /\ Cached' = Cached
<1> DEFINE others == RemoveFirst(cache, k)
<1>1. /\ others \in Seq(Keys) /\ ToSet(others) \subseteq Cached
      /\ Cached \subseteq ToSet(others) \cup {k}
  BY RemoveFirstElements DEF Cached
<1>2. cache' = Append(others, k)
  BY DEF Touched
<1> HIDE DEF others
<1>3. /\ Append(others, k) \in Seq(Keys)
      /\ ToSet(Append(others, k)) = ToSet(others) \cup {k}
  BY <1>1, AppendElements
<1>4. ToSet(others) \cup {k} = Cached
  BY <1>1
<1>5. QED
  BY <1>2, <1>3, <1>4 DEF Cached

(***************************************************************************)
(* The inductive invariant.  bytes, whose value decides only how much room *)
(* is made, is left out.                                                   *)
(***************************************************************************)
Typed ==
    /\ cache \in Seq(Keys)
    /\ inFlight \in [Keys -> Calls \cup {NoCall}]
    /\ stage \in [Calls -> Stages]
    /\ cancelled \in SUBSET Calls
    /\ consumers \in [Calls -> SUBSET Calls]
    /\ outcome \in [Calls -> Outcomes]
    /\ signalled \in SUBSET Calls

\* What the map lists is what can still succeed.
ListsLive ==
    /\ \A o \in Calls : Live(o) <=> inFlight[Key[o]] = o
    /\ \A k \in Keys : inFlight[k] # NoCall => Key[inFlight[k]] = k

NothingTwice ==
    \A o \in Calls : Live(o) /\ Key[o] \in Cached => stage[o] = "writing"

\* A call waits exactly while an operation for its key counts it, and an
\* operation is cancelled exactly when it counts nobody.
Counted ==
    /\ \A o \in Calls : \A c \in consumers[o] :
           Key[c] = Key[o] /\ outcome[c] = "waiting"
    /\ \A c \in Calls : outcome[c] = "waiting" => \E o \in Calls : c \in consumers[o]
    /\ \A o \in Calls : Live(o) <=> consumers[o] # {}

\* A call that was not made has no operation.
NotStarted ==
    \A c \in Calls :
        /\ outcome[c] = "unmade" => stage[c] = "none"
        /\ c \in cancelled => stage[c] # "none"

Inv == Typed /\ ListsLive /\ NothingTwice /\ Counted /\ NotStarted

LEMMA InitInv == Init => Inv
<1> SUFFICES ASSUME Init PROVE Inv
  OBVIOUS
<1>1. Typed
  BY DEF Init, Typed, Stages, Outcomes
<1>2. \A o \in Calls : ~Live(o)
  BY DEF Init, Live, Working
<1>3. QED
  BY <1>1, <1>2, CacheAssumption
     DEF Init, Inv, ListsLive, NothingTwice, Counted, NotStarted

LEMMA KeyType == \A c \in Calls : Key[c] \in Keys /\ c # NoCall
  BY CacheAssumption

\* The operation that counts a call is the one listed for its key.
LEMMA OneCounts ==
    ASSUME Inv, NEW o \in Calls, NEW c \in consumers[o]
    PROVE  c \in Calls /\ Key[c] = Key[o] /\ inFlight[Key[c]] = o /\ Live(o)
  BY DEF Inv, Typed, ListsLive, Counted

LEMMA HitInv == ASSUME Inv, NEW c \in Calls, outcome[c] = "unmade", Hit(c),
                       UNCHANGED signalled
                PROVE  Inv'
<1>1. cache' \in Seq(Keys) /\ Cached' = Cached
  BY KeyType, TouchedKeys DEF Hit, Inv, Typed
<1>2. Typed'
  BY <1>1 DEF Hit, Inv, Typed, Outcomes
<1>3. \A o \in Calls : Live(o)' <=> Live(o)
  BY DEF Hit, Live, Working, IsAborted
<1>4. ListsLive' /\ NothingTwice'
  BY <1>1, <1>3 DEF Hit, Inv, ListsLive, NothingTwice
<1>5. \A o \in Calls : c \notin consumers[o]
  BY DEF Inv, Counted
<1>6. Counted'
  BY <1>3, <1>5 DEF Hit, Inv, Typed, Counted
<1>7. NotStarted'
  BY DEF Hit, Inv, Typed, NotStarted
<1>8. QED
  BY <1>2, <1>4, <1>6, <1>7 DEF Inv

LEMMA CoalesceInv == ASSUME Inv, NEW c \in Calls, outcome[c] = "unmade",
                            Coalesce(c), UNCHANGED signalled
                     PROVE  Inv'
<1> DEFINE o == inFlight[Key[c]]
<1>1. o \in Calls /\ Key[o] = Key[c] /\ Live(o)
  BY KeyType DEF Coalesce, Inv, Typed, ListsLive
<1>2. /\ consumers' = [consumers EXCEPT ![o] = @ \cup {c}]
      /\ outcome' = [outcome EXCEPT ![c] = "waiting"]
      /\ UNCHANGED <<cache, inFlight, stage, cancelled, signalled>>
  BY DEF Coalesce, Subscribe
<1> HIDE DEF o
<1>3. Typed'
  BY <1>1, <1>2 DEF Inv, Typed, Outcomes
<1>4. \A q \in Calls : Live(q)' <=> Live(q)
  BY <1>2 DEF Live, Working, IsAborted
<1>5. ListsLive' /\ NothingTwice'
  BY <1>2, <1>4 DEF Inv, ListsLive, NothingTwice, Cached
<1>6. Counted'
  BY <1>1, <1>2, <1>4 DEF Inv, Typed, Counted
<1>7. NotStarted'
  BY <1>2 DEF Inv, Typed, NotStarted
<1>8. QED
  BY <1>3, <1>5, <1>6, <1>7 DEF Inv

LEMMA StartInv == ASSUME Inv, NEW c \in Calls, outcome[c] = "unmade",
                         StartOperation(c), UNCHANGED signalled
                  PROVE  Inv'
<1> DEFINE first == IF HasStore THEN "reading" ELSE "rendering"
<1>1. /\ inFlight' = [inFlight EXCEPT ![Key[c]] = c]
      /\ stage' = [stage EXCEPT ![c] = first]
      /\ consumers' = [consumers EXCEPT ![c] = @ \cup {c}]
      /\ outcome' = [outcome EXCEPT ![c] = "waiting"]
      /\ UNCHANGED <<cache, cancelled, signalled>>
      /\ Key[c] \notin Cached /\ inFlight[Key[c]] = NoCall
  BY DEF StartOperation, Subscribe
<1>2. first \in Stages /\ first \notin {"none", "settled"}
  BY DEF Stages
<1> HIDE DEF first
<1>3. Typed'
  BY <1>1, <1>2, KeyType DEF Inv, Typed, Outcomes
<1>4. ~Live(c) /\ Live(c)' /\ consumers[c] = {}
  BY <1>1, <1>2 DEF Inv, Typed, NotStarted, Counted, Live, Working, IsAborted
<1>5. \A q \in Calls : q # c => (Live(q)' <=> Live(q))
  BY <1>1 DEF Inv, Typed, Live, Working, IsAborted
<1>6. \A q \in Calls : Key[q] = Key[c] => ~Live(q)
  BY <1>1, KeyType DEF Inv, ListsLive
<1>7. ListsLive'
  BY <1>1, <1>4, <1>5, <1>6, KeyType DEF Inv, Typed, ListsLive
<1>8. NothingTwice'
  BY <1>1, <1>4, <1>5 DEF Inv, Typed, NothingTwice, Cached
<1>9. Counted'
  BY <1>1, <1>4, <1>5 DEF Inv, Typed, Counted
<1>10. NotStarted'
  BY <1>1, <1>2 DEF Inv, Typed, NotStarted
<1>11. QED
  BY <1>3, <1>7, <1>8, <1>9, <1>10 DEF Inv

LEMMA RenderInv == ASSUME Inv, NEW c \in Calls, Render(c) PROVE Inv'
  BY HitInv, CoalesceInv, StartInv DEF Render

LEMMA UnlistedKeys ==
    ASSUME Inv, NEW o \in Calls, Working(o)
    PROVE  /\ Unlisted(o) \in [Keys -> Calls \cup {NoCall}]
           /\ \A q \in Calls :
                  Unlisted(o)[Key[q]] = q <=> q # o /\ inFlight[Key[q]] = q
           /\ \A k \in Keys : Unlisted(o)[k] \in {inFlight[k], NoCall}
  BY KeyType DEF Inv, Typed, ListsLive, Unlisted

\* The last caller that leaves takes the operation along.
LEMMA AbortInv == ASSUME Inv, NEW c \in Calls, Abort(c) PROVE Inv'
<1>1. PICK o \in Calls :
          /\ c \in consumers[o]
          /\ consumers' = [consumers EXCEPT ![o] = @ \ {c}]
          /\ signalled' = signalled \cup {c}
          /\ outcome' = [outcome EXCEPT ![c] = "aborted"]
          /\ IF LastConsumer(c, o)
             THEN cancelled' = cancelled \cup {o} /\ inFlight' = Unlisted(o)
             ELSE UNCHANGED <<cancelled, inFlight>>
          /\ UNCHANGED <<cache, bytes, stage>>
  BY DEF Abort
<1>2. Live(o) /\ Working(o) /\ Key[c] = Key[o]
  BY <1>1, OneCounts DEF Live
<1>3. Typed'
  BY <1>1, <1>2, UnlistedKeys DEF Inv, Typed, Outcomes
<1>4. \A q \in Calls : c \in consumers[q] => q = o
  BY <1>1, OneCounts
<1>5. CASE consumers[o] = {c}
  <2>1. cancelled' = cancelled \cup {o} /\ inFlight' = Unlisted(o)
    BY <1>1, <1>2, <1>5 DEF LastConsumer
  <2>2. \A q \in Calls : Live(q)' <=> q # o /\ Live(q)
    BY <1>1, <2>1 DEF Live, Working, IsAborted
  <2>3. ListsLive'
    BY <1>2, <2>1, <2>2, UnlistedKeys DEF Inv, Typed, ListsLive
  <2>4. NothingTwice'
    BY <1>1, <2>2 DEF Inv, NothingTwice, Cached
  <2>5. Counted'
    BY <1>1, <1>4, <1>5, <2>2 DEF Inv, Typed, Counted
  <2>6. NotStarted'
    BY <1>1, <1>2, <2>1 DEF Inv, Typed, NotStarted, Working
  <2>7. QED
    BY <1>3, <2>3, <2>4, <2>5, <2>6 DEF Inv
<1>6. CASE consumers[o] # {c}
  <2>1. UNCHANGED <<cancelled, inFlight>>
    BY <1>1, <1>6 DEF LastConsumer
  <2>2. \A q \in Calls : Live(q)' <=> Live(q)
    BY <1>1, <2>1 DEF Live, Working, IsAborted
  <2>3. ListsLive' /\ NothingTwice'
    BY <1>1, <2>1, <2>2 DEF Inv, ListsLive, NothingTwice, Cached
  <2>4. Counted'
    BY <1>1, <1>4, <1>6, <2>2 DEF Inv, Typed, Counted
  <2>5. NotStarted'
    BY <1>1, <2>1 DEF Inv, Typed, NotStarted
  <2>6. QED
    BY <1>3, <2>3, <2>4, <2>5 DEF Inv
<1>7. QED
  BY <1>5, <1>6

\* clear() leaves no operation that counts anybody.
LEMMA ClearInv == ASSUME Inv, Clear PROVE Inv'
<1>1. \A o \in Calls : o \in Listed <=> Live(o)
  BY DEF Listed, Inv, ListsLive
<1>2. \A o \in Calls : ~Live(o)'
  BY <1>1 DEF Clear, Live, Working, IsAborted
<1>3. \A c \in Calls : outcome'[c] = IF outcome[c] = "waiting" THEN "aborted" ELSE outcome[c]
  <2>1. \A c \in Calls : (\E o \in Listed : c \in consumers[o]) <=> outcome[c] = "waiting"
    BY <1>1 DEF Inv, Counted, Listed
  <2>2. QED
    BY <2>1 DEF Clear
<1>4. \A o \in Calls : consumers'[o] = {}
  BY <1>1 DEF Clear, Inv, Counted
<1>5. Typed'
  BY <1>3, <1>4 DEF Clear, Inv, Typed, Outcomes, Listed
<1>6. ListsLive'
  BY <1>2, KeyType DEF Clear, ListsLive
<1>7. NothingTwice'
  BY <1>2 DEF NothingTwice
<1>8. Counted'
  BY <1>2, <1>3, <1>4 DEF Counted
<1>9. NotStarted'
  BY <1>1, <1>3 DEF Clear, Inv, NotStarted, Live, Working, Listed
<1>10. QED
  BY <1>5, <1>6, <1>7, <1>8, <1>9 DEF Inv

\* What an operation may do to the cache: nothing, or put its raster there
\* while it is not aborted.
Fills(o) == \/ UNCHANGED cache
            \/ ~IsAborted(o) /\ Insert(Key[o])

LEMMA FillsKeys ==
    ASSUME Inv, NEW o \in Calls, Working(o), Fills(o)
    PROVE  /\ cache' \in Seq(Keys)
           /\ \A q \in Calls : q # o /\ Live(q) /\ Key[q] \in Cached'
                  => Key[q] \in Cached
<1>1. CASE UNCHANGED cache
  BY <1>1 DEF Inv, Typed, Cached
<1>2. CASE ~IsAborted(o) /\ Insert(Key[o])
  <2>1. cache' \in Seq(Keys) /\ Cached' \subseteq Cached \cup {Key[o]}
    BY <1>2, KeyType, InsertKeys DEF Inv, Typed
  <2>2. \A q \in Calls : q # o /\ Live(q) => Key[q] # Key[o]
    BY <1>2 DEF Inv, ListsLive, Live
  <2>3. QED
    BY <2>1, <2>2
<1>3. QED
  BY <1>1, <1>2 DEF Fills

LEMMA SettleInv ==
    ASSUME Inv, NEW o \in Calls, Working(o), Fills(o),
           NEW verdict \in {"ok", "failed", "aborted"}, Settle(o, verdict),
           UNCHANGED <<cancelled, signalled>>
    PROVE  Inv'
<1>1. Typed'
  BY FillsKeys, UnlistedKeys DEF Settle, Inv, Typed, Stages, Outcomes
<1>2. \A q \in Calls : Live(q)' <=> q # o /\ Live(q)
  BY DEF Settle, Inv, Typed, Live, Working, IsAborted
<1>3. ListsLive'
  BY <1>2, UnlistedKeys DEF Settle, Inv, Typed, ListsLive
<1>4. NothingTwice'
  BY <1>2, FillsKeys DEF Settle, Inv, Typed, NothingTwice
<1>5. \A c \in consumers[o], q \in Calls : c \in consumers[q] => q = o
  BY OneCounts
<1>6. Counted'
  BY <1>2, <1>5 DEF Settle, Inv, Typed, Counted
<1>7. NotStarted'
  BY DEF Settle, Inv, Typed, NotStarted, Working, Counted
<1>8. QED
  BY <1>1, <1>3, <1>4, <1>6, <1>7 DEF Inv

LEMMA GotoInv ==
    ASSUME Inv, NEW o \in Calls, Working(o), stage[o] # "writing",
           NEW next \in {"discarding", "deleting", "rendering", "writing"},
           Fills(o), next # "writing" => UNCHANGED cache,
           Goto(o, next), UNCHANGED <<cancelled, signalled>>
    PROVE  Inv'
<1>1. Typed'
  BY FillsKeys DEF Goto, Inv, Typed, Stages
<1>2. \A q \in Calls : Live(q)' <=> Live(q)
  BY DEF Goto, Inv, Typed, Live, Working, IsAborted
<1>3. ListsLive'
  BY <1>2 DEF Goto, Inv, ListsLive
<1>4. ASSUME NEW q \in Calls, Live(q), Key[q] \in Cached'
      PROVE  stage'[q] = "writing"
  <2>1. CASE q = o
    BY <1>4, <2>1 DEF Goto, Inv, Typed, NothingTwice, Cached
  <2>2. CASE q # o
    BY <1>4, <2>2, FillsKeys DEF Goto, Inv, Typed, NothingTwice
  <2>3. QED
    BY <2>1, <2>2
<1>5. NothingTwice'
  BY <1>2, <1>4 DEF NothingTwice
<1>6. Counted'
  BY <1>2 DEF Goto, Inv, Counted
<1>7. NotStarted'
  BY DEF Goto, Inv, Typed, NotStarted, Working
<1>8. QED
  BY <1>1, <1>3, <1>5, <1>6, <1>7 DEF Inv

\* Every step of an operation ends it or takes it to its next stage.
LEMMA AdvanceSteps ==
    ASSUME Inv, NEW o \in Calls, Advance(o)
    PROVE  /\ Working(o) /\ Fills(o) /\ UNCHANGED <<cancelled, signalled>>
           /\ \/ IsAborted(o) /\ UNCHANGED cache /\ Settle(o, "aborted")
              \/ UNCHANGED cache /\ Settle(o, "failed")
              \/ UNCHANGED cache /\ Settle(o, "ok")
              \/ ~IsAborted(o) /\ Insert(Key[o]) /\ Settle(o, "ok")
              \/ /\ UNCHANGED cache /\ stage[o] # "writing"
                 /\ \E next \in {"discarding", "deleting", "rendering"} : Goto(o, next)
              \/ /\ ~IsAborted(o) /\ Insert(Key[o]) /\ stage[o] # "writing"
                 /\ Goto(o, "writing")
<1>1. CASE ReadStored(o)
  BY <1>1 DEF ReadStored, Found, Missed, Untouched, Fills, Working
<1>2. CASE DiscardStored(o)
  BY <1>2 DEF DiscardStored, Missed, Untouched, Fills, Working
<1>3. CASE DeleteStored(o)
  BY <1>3 DEF DeleteStored, Untouched, Fills, Working
<1>4. CASE RenderDone(o)
  BY <1>4 DEF RenderDone, RenderFails, RenderSucceeds, Untouched, Fills, Working
<1>5. CASE WriteStored(o)
  BY <1>5 DEF WriteStored, Untouched, Fills, Working
<1>6. QED
  BY <1>1, <1>2, <1>3, <1>4, <1>5 DEF Advance

LEMMA AdvanceInv == ASSUME Inv, NEW o \in Calls, Advance(o) PROVE Inv'
<1>1. Working(o) /\ Fills(o) /\ UNCHANGED <<cancelled, signalled>>
  BY AdvanceSteps
<1>2. CASE \E verdict \in {"ok", "failed", "aborted"} : Settle(o, verdict)
  BY <1>1, <1>2, SettleInv
<1>3. CASE /\ UNCHANGED cache /\ stage[o] # "writing"
           /\ \E next \in {"discarding", "deleting", "rendering"} : Goto(o, next)
  BY <1>1, <1>3, GotoInv
<1>4. CASE Goto(o, "writing") /\ stage[o] # "writing"
  BY <1>1, <1>4, GotoInv
<1>5. QED
  BY <1>2, <1>3, <1>4, AdvanceSteps, Zenon

LEMMA StutterInv == ASSUME Inv, UNCHANGED vars PROVE Inv'
  BY DEF vars, Inv, Typed, ListsLive, NothingTwice, Counted, NotStarted, Live,
     Working, IsAborted, Cached

LEMMA Inductive == Inv /\ [Next]_vars => Inv'
  BY RenderInv, AbortInv, ClearInv, AdvanceInv, StutterInv DEF Next

\* However callers come, leave and clear the cache, no key is filled twice at
\* once, callers find the operation that can still serve them, and none fills
\* a key that is already there.
THEOREM OneOperation == Spec => []OneOperationPerKey
<1>1. Inv => OneOperationPerKey
  BY DEF Inv, ListsLive, NothingTwice, OneOperationPerKey
<1>2. QED
  BY <1>1, InitInv, Inductive, PTL DEF Spec

(***************************************************************************)
(* The cache implements RasterService.                                     *)
(***************************************************************************)
LEMMA WaitingCounted ==
    ASSUME Inv, NEW o \in Calls, Live(o)
    PROVE  Service!Waiting(Key[o]) = consumers[o] /\ consumers[o] # {}
<1>1. consumers[o] # {}
  BY DEF Inv, Counted
<1>2. ASSUME NEW c \in consumers[o] PROVE c \in Service!Waiting(Key[o])
  BY <1>2 DEF Inv, Typed, Counted, Service!Waiting
<1>3. ASSUME NEW c \in Service!Waiting(Key[o]) PROVE c \in consumers[o]
  <2>1. c \in Calls /\ Key[c] = Key[o] /\ outcome[c] = "waiting"
    BY <1>3 DEF Service!Waiting
  <2>2. PICK other \in Calls : c \in consumers[other]
    BY <2>1 DEF Inv, Counted
  <2>3. other = o
    BY <2>1, <2>2, OneCounts DEF Inv, ListsLive
  <2>4. QED
    BY <2>2, <2>3
<1>4. QED
  BY <1>1, <1>2, <1>3

LEMMA RenderServes ==
    ASSUME Inv, NEW c \in Calls, Render(c)
    PROVE  Service!Ask(c)
<1>1. CASE Hit(c)
  <2>1. Cached' = Cached
    BY <1>1, KeyType, TouchedKeys DEF Hit, Inv, Typed
  <2>2. QED
    BY <1>1, <2>1 DEF Hit, Render, Service!Ask
<1>2. CASE Coalesce(c)
  BY <1>2 DEF Coalesce, Subscribe, Render, Service!Ask, Cached
<1>3. CASE StartOperation(c)
  BY <1>3 DEF StartOperation, Subscribe, Render, Service!Ask, Cached
<1>4. QED
  BY <1>1, <1>2, <1>3 DEF Render

LEMMA AbortServes ==
    ASSUME Inv, NEW c \in Calls, Abort(c)
    PROVE  Service!Leave(c)
  BY DEF Abort, Inv, Counted, Service!Leave, Cached

LEMMA ClearServes ==
    ASSUME Inv, Clear
    PROVE  Service!Forget
<1>1. \A c \in Calls : (\E o \in Listed : c \in consumers[o]) <=> outcome[c] = "waiting"
  BY DEF Inv, ListsLive, Counted, Listed
<1>2. outcome' = [c \in Calls |->
                     IF outcome[c] = "waiting" THEN "aborted" ELSE outcome[c]]
  BY <1>1 DEF Clear
<1>3. Cached' = {} /\ UNCHANGED signalled
  BY DEF Clear, Cached, ToSet
<1>4. QED
  BY <1>2, <1>3 DEF Service!Forget

LEMMA SettleServes ==
    ASSUME Inv, NEW o \in Calls, Working(o), NEW verdict \in {"ok", "failed"},
           Settle(o, verdict), UNCHANGED signalled,
           \/ Cached' = Cached
           \/ ~IsAborted(o) /\ verdict = "ok" /\ Key[o] \in Cached'
              /\ Cached' \subseteq Cached \cup {Key[o]}
    PROVE  [Service!Next]_Service!vars
<1>1. CASE Live(o)
  <2>1. Service!Answer(Key[o])
    BY <1>1, WaitingCounted DEF Settle, Service!Answer, Service!Verdicts
  <2>2. QED
    BY <2>1 DEF Service!Next
<1>2. CASE ~Live(o)
  <2>1. consumers[o] = {} /\ Cached' = Cached
    BY <1>2 DEF Inv, Counted, Live
  <2>2. outcome' = outcome
    BY <2>1 DEF Settle, Inv, Typed
  <2>3. QED
    BY <2>1, <2>2 DEF Service!vars
<1>3. QED
  BY <1>1, <1>2

LEMMA AdvanceServes ==
    ASSUME Inv, NEW o \in Calls, Advance(o)
    PROVE  [Service!Next]_Service!vars
<1>1. Working(o) /\ UNCHANGED <<cancelled, signalled>>
  BY AdvanceSteps
<1>2. CASE IsAborted(o) /\ UNCHANGED cache /\ Settle(o, "aborted")
  <2>1. consumers[o] = {}
    BY <1>2 DEF Inv, Counted, Live
  <2>2. outcome' = outcome
    BY <1>2, <2>1 DEF Settle, Inv, Typed
  <2>3. QED
    BY <1>1, <1>2, <2>2 DEF Service!vars, Cached
<1>3. CASE UNCHANGED cache /\ \E verdict \in {"ok", "failed"} : Settle(o, verdict)
  BY <1>1, <1>3, SettleServes DEF Cached
<1>4. ASSUME ~IsAborted(o), Insert(Key[o])
      PROVE  Key[o] \in Cached' /\ Cached' \subseteq Cached \cup {Key[o]}
  BY <1>4, KeyType, InsertKeys DEF Inv, Typed
<1>5. CASE ~IsAborted(o) /\ Insert(Key[o]) /\ Settle(o, "ok")
  BY <1>1, <1>4, <1>5, SettleServes
<1>6. CASE UNCHANGED cache /\ \E next \in {"discarding", "deleting", "rendering"} : Goto(o, next)
  BY <1>1, <1>6 DEF Goto, Service!vars, Cached
<1>7. CASE ~IsAborted(o) /\ Insert(Key[o]) /\ Goto(o, "writing")
  <2>1. Live(o)
    BY <1>1, <1>7 DEF Live
  <2>2. Service!Keep(Key[o])
    BY <1>1, <1>4, <1>7, <2>1, WaitingCounted DEF Goto, Service!Keep
  <2>3. QED
    BY <2>2 DEF Service!Next
<1>8. QED
  BY <1>2, <1>3, <1>5, <1>6, <1>7, AdvanceSteps, Zenon

LEMMA StepServes == Inv /\ [Next]_vars => [Service!Next]_Service!vars
<1> SUFFICES ASSUME Inv, [Next]_vars PROVE [Service!Next]_Service!vars
  OBVIOUS
<1>1. ASSUME NEW c \in Calls, Render(c) PROVE Service!Next
  BY <1>1, RenderServes DEF Service!Next
<1>2. ASSUME NEW c \in Calls, Abort(c) PROVE Service!Next
  BY <1>2, AbortServes DEF Service!Next
<1>3. ASSUME Clear PROVE Service!Next
  BY <1>3, ClearServes DEF Service!Next
<1>4. CASE UNCHANGED vars
  BY <1>4 DEF vars, Service!vars, Cached
<1>5. QED
  BY <1>1, <1>2, <1>3, <1>4, AdvanceServes DEF Next

LEMMA InitServes == Init => Service!Init
  BY DEF Init, Service!Init, Cached, ToSet

\* "Each caller owns its abort outcome": whatever operations, aborts and
\* clear() do to one another, the callers see RasterService.
THEOREM ServesEveryCaller == Spec => ServiceSpec
  BY InitInv, Inductive, InitServes, StepServes, PTL
     DEF Spec, ServiceSpec, Service!Spec

(***************************************************************************)
(* The limits on a raster.                                                 *)
(***************************************************************************)
\* A longer text has a longer base64 encoding.
LEMMA Base64Bound ==
    ASSUME NEW n \in Nat, NEW m \in Nat, n <= m
    PROVE  Base64(n) \in Nat /\ Base64(n) <= Base64(m)
BY SMT DEF Base64

\* Whatever the worker posts is taken by the host, kept by the cache, written
\* by the store, and read back from a file within the limit.
THEOREM WorkerRasterIsKept ==
    ASSUME NEW w \in Nat, NEW h \in Nat, NEW raster \in Raster,
           NEW rest \in 1..MaxRest, WorkerPosts(w, h, raster)
    PROVE  /\ HostAccepts(raster)
           /\ CacheKeeps(raster)
           /\ StoreWrites(raster)
           /\ StoreReads(raster, rest)
<1> DEFINE area == raster.width * raster.height
<1>1. /\ raster.width \in Int /\ raster.height \in Int
      /\ raster.png \in Nat /\ raster.pixels \in Nat /\ area \in Int
  BY DEF Raster
<1>2. /\ 1 <= raster.png /\ raster.png <= MaxPng
      /\ 1 <= raster.width /\ raster.width <= MaxWidth
      /\ 1 <= raster.height /\ raster.height <= MaxHeight
      /\ area <= MaxArea /\ raster.pixels = area * 4
      /\ raster.pixels <= MaxRgba
  BY DEF WorkerPosts, DimensionsPass
<1> HIDE DEF area
<1>3. area * 4 <= MaxRgba
  BY <1>1, <1>2
<1>4. FileBytes(raster, rest) >= 1 /\ FileBytes(raster, rest) <= MaxFile
  <2>1. Base64(raster.png) \in Nat /\ Base64(raster.png) <= Base64(MaxPng)
    BY <1>1, <1>2, Base64Bound DEF MaxPng
  <2>2. Base64(raster.pixels) \in Nat /\ Base64(raster.pixels) <= Base64(MaxRgba)
    BY <1>1, <1>2, Base64Bound DEF MaxRgba, MaxArea
  <2>3. Base64(MaxPng) + Base64(MaxRgba) + MaxRest <= MaxFile
        /\ Base64(MaxPng) \in Nat /\ Base64(MaxRgba) \in Nat
    BY SMT DEF Base64, MaxPng, MaxRgba, MaxArea, MaxRest, MaxFile
  <2> HIDE DEF Base64, MaxPng, MaxRgba
  <2>4. QED
    BY <2>1, <2>2, <2>3 DEF FileBytes, MaxFile, MaxRest
<1>5. QED
  BY <1>1, <1>2, <1>3, <1>4
  DEF area, HostAccepts, CacheKeeps, StoreWrites, StoreReads

----------------------------------------------------------------------------
(***************************************************************************)
(* GraphicsRuntime: the frames that draw what the cache holds, for any     *)
(* formulas, rows, sizes and limits, any number of frames and of rasters.  *)
(***************************************************************************)
FrameStages == {"flush", "emit", "queued", "blocked", "written", "stale", "failed", "done"}
Writing == {"queued", "blocked", "written", "stale", "failed"}
Lines == {BaseRow[k] - s : k \in FormulaKeys, s \in Scrolls}
Places == [key : FormulaKeys, reg : Nat, row : Lines, gen : Nat]
Formulas == [key : FormulaKeys, reg : Nat, row : Lines]
Fields == {"gen", "stage", "todo", "prev", "cur", "bytes"}

RuntimeTyped ==
    /\ generation \in Nat /\ rasters \in Nat
    /\ frames \in Seq(Nat) /\ pendingGenerations \in Seq(Nat)
    /\ registrations \in [FormulaKeys -> 0..rasters] /\ visible \in [FormulaKeys -> 0..rasters]
    /\ snapshot \in [gen : Nat, formulas : SUBSET Formulas]
    /\ placed \subseteq Places /\ pendingCleanup \subseteq Places /\ screen \subseteq Places
    /\ instance \in BOOLEAN /\ disposed \in BOOLEAN /\ writeBroken \in BOOLEAN
    /\ Fields \subseteq DOMAIN op /\ op.gen \in Nat /\ op.stage \in FrameStages
    /\ op.todo \subseteq Formulas /\ op.prev \in [FormulaKeys -> Places \cup {None}]

\* A frame has a key once, with a raster that was produced.
EachKeyOnce(formulas) ==
    /\ \A f \in formulas : f.reg # 0 /\ f.reg <= rasters
    /\ \A f, g \in formulas : f.key = g.key => f = g

\* Frames wait in the order of their generations, those of the mount before any other.
InOrder(gens, last) ==
    /\ \A i \in 1..Len(gens) : gens[i] <= last
    /\ \A i, j \in 1..Len(gens) : i < j => gens[i] < gens[j]

FramesWait ==
    /\ InOrder(frames, generation) /\ InOrder(pendingGenerations, generation)
    /\ IF instance THEN pendingGenerations = <<>>
       ELSE frames = <<>> /\ placed = {} /\ pendingCleanup = {}
    /\ IF frames = <<>> THEN op.stage = "done" ELSE op.gen = frames[1]

\* Images were placed for the running frame or an earlier one; what is still to be drawn of it, and
\* what a write replaces, is older.
Older ==
    /\ EachKeyOnce(snapshot.formulas) /\ EachKeyOnce(op.todo)
    /\ \A p \in placed \cup pendingCleanup :
         /\ p.gen <= generation
         /\ frames # <<>> => p.gen <= op.gen /\ (op.stage = "flush" => p.gen < op.gen)
         /\ \A f \in op.todo : p.key = f.key => p.gen < op.gen
    /\ \A k \in FormulaKeys : op.prev[k] # None => op.prev[k].key = k /\ op.prev[k].gen < op.gen

\* The image being written is listed, and on the terminal once its bytes are.
Current ==
    op.stage \in Writing =>
        /\ op.cur \in Places /\ op.cur.gen = op.gen /\ op.cur.reg # 0 /\ op.cur.reg <= rasters
        /\ \A f \in op.todo : f.key # op.cur.key
        /\ ~disposed => op.cur \in placed
        /\ ~disposed /\ op.gen = generation /\ registrations[op.cur.key] = op.cur.reg =>
               op.cur \notin pendingCleanup
        /\ op.stage = "failed" => writeBroken
        /\ ~writeBroken /\ op.stage \in {"queued", "stale"} => op.cur \notin screen
        /\ ~writeBroken /\ ~disposed /\ op.stage \in {"blocked", "written"} =>
               op.cur \in screen /\ (protocol # "kitty" => op.prev[op.cur.key] \notin screen)

\* The image that stands for a hidden source; it is not waiting for its cleanup unless its
\* registration is gone, which the next frame will see.
Supported ==
    ~disposed /\ ~writeBroken /\ protocol = "kitty" =>
        \A k \in FormulaKeys : visible[k] # 0 =>
            \E p \in screen :
                /\ p.key = k /\ p.reg = visible[k]
                /\ p \in pendingCleanup => registrations[k] # visible[k]
                /\ op.stage \in Writing => p # op.cur

GraphicsInv ==
    /\ RuntimeTyped /\ FramesWait /\ Older /\ Current /\ Supported
    /\ NothingLeftBehind

LEMMA NoPlace == None \notin Places
BY DEF None, Places

\* What a component or a new style changes: a key that loses its image is not shown as one, and a
\* registration is dropped, or is of a new raster.
LEMMA ComponentStep ==
    ASSUME GraphicsInv, rasters' \in {rasters, rasters + 1},
           generation' \in {generation, generation + 1}, snapshot' \in {snapshot, NoSnapshot},
           UNCHANGED <<frames, pendingGenerations, op, placed, screen, writeBroken, disposed,
                       instance, protocol>>,
           registrations' \in [FormulaKeys -> 0..rasters'], visible' \in [FormulaKeys -> 0..rasters'],
           pendingCleanup \subseteq pendingCleanup', pendingCleanup' \subseteq pendingCleanup \cup placed,
           \A k \in FormulaKeys :
               /\ visible'[k] \in {0, visible[k]}
               /\ registrations'[k] \in {0, registrations[k], rasters + 1}
               /\ \A p \in pendingCleanup' \ pendingCleanup :
                      p.key = k => visible'[k] = 0 /\ registrations'[k] = 0
    PROVE  GraphicsInv'
<1>1. RuntimeTyped'
  <2>1. snapshot' \in [gen : Nat, formulas : SUBSET Formulas]
    BY DEF GraphicsInv, RuntimeTyped, NoSnapshot
  <2>2. pendingCleanup' \subseteq Places
    BY DEF GraphicsInv, RuntimeTyped
  <2>3. QED
    BY <2>1, <2>2 DEF GraphicsInv, RuntimeTyped
<1>2. rasters <= rasters' /\ generation <= generation' /\ rasters \in Nat /\ generation \in Nat
  BY DEF GraphicsInv, RuntimeTyped
<1>3. FramesWait'
  <2>0. frames \in Seq(Nat) /\ pendingGenerations \in Seq(Nat)
    BY DEF GraphicsInv, RuntimeTyped
  <2>1. /\ \A i \in 1..Len(frames) : frames[i] \in Nat
        /\ \A i \in 1..Len(pendingGenerations) : pendingGenerations[i] \in Nat
        /\ generation' \in Nat
    <3>1. \A i \in 1..Len(frames) : frames[i] \in Nat
      BY <2>0
    <3>2. \A i \in 1..Len(pendingGenerations) : pendingGenerations[i] \in Nat
      BY <2>0
    <3>3. QED
      BY <1>2, <3>1, <3>2
  <2>2. InOrder(frames, generation)' /\ InOrder(pendingGenerations, generation)'
    BY <1>2, <2>1 DEF GraphicsInv, FramesWait, InOrder
  <2>3. QED
    BY <2>2 DEF GraphicsInv, FramesWait
<1>4. Older'
  <2>1. \A formulas \in SUBSET Formulas : EachKeyOnce(formulas) => EachKeyOnce(formulas)'
    BY <1>1, <1>2 DEF EachKeyOnce, Formulas, GraphicsInv, RuntimeTyped
  <2>2. EachKeyOnce(snapshot.formulas)' /\ EachKeyOnce(op.todo)'
    <3>1. EachKeyOnce(snapshot.formulas) /\ EachKeyOnce(op.todo)
      BY DEF GraphicsInv, Older
    <3>2. EachKeyOnce(snapshot.formulas)'
      <4>1. CASE snapshot' = snapshot
        BY <2>1, <3>1, <4>1 DEF GraphicsInv, RuntimeTyped, EachKeyOnce
      <4>2. CASE snapshot' = NoSnapshot
        BY <4>2 DEF NoSnapshot, EachKeyOnce
      <4>3. QED
        BY <4>1, <4>2
    <3>3. EachKeyOnce(op.todo)'
      BY <2>1, <3>1 DEF GraphicsInv, RuntimeTyped, EachKeyOnce
    <3>4. QED
      BY <3>2, <3>3
  <2>3. \A p \in placed \cup pendingCleanup :
           p.gen \in Nat /\ p.gen <= generation => p.gen <= generation'
    BY <1>1, <1>2 DEF RuntimeTyped
  <2>4. \A p \in placed \cup pendingCleanup : p.gen \in Nat
    BY DEF GraphicsInv, RuntimeTyped, Places
  <2>5. QED
    BY <2>2, <2>3, <2>4 DEF GraphicsInv, Older
<1>5. Current'
  <2>1. SUFFICES ASSUME op.stage \in Writing PROVE Current'
    BY DEF Current
  <2>2. op.cur \in Places /\ op.cur.reg \in Nat /\ op.cur.key \in FormulaKeys /\ op.cur.reg <= rasters
    BY <2>1 DEF GraphicsInv, Current, Places
  <2>3. op.cur.reg <= rasters'
    BY <1>1, <1>2, <2>2 DEF RuntimeTyped
  <2>4. ASSUME ~disposed, op.gen = generation', registrations'[op.cur.key] = op.cur.reg
        PROVE  op.cur \notin pendingCleanup'
    <3>1. op.gen = generation
      BY <1>1, <1>2, <2>1, <2>4 DEF GraphicsInv, Current, Older, RuntimeTyped
    <3>2. op.cur.reg # 0 /\ op.cur.reg # rasters + 1
      BY <1>2, <2>1, <2>2 DEF GraphicsInv, Current
    <3>3. registrations[op.cur.key] = op.cur.reg
      BY <2>2, <2>4, <3>2
    <3>4. op.cur \notin pendingCleanup
      BY <2>1, <2>4, <3>1, <3>3 DEF GraphicsInv, Current
    <3>5. QED
      BY <2>2, <2>4, <3>2, <3>4
  <2>5. QED
    BY <2>1, <2>3, <2>4 DEF GraphicsInv, Current
<1>6. Supported'
  <2>1. SUFFICES ASSUME ~disposed, ~writeBroken, protocol = "kitty", NEW k \in FormulaKeys, visible'[k] # 0
                 PROVE  \E p \in screen :
                          /\ p.key = k /\ p.reg = visible'[k]
                          /\ p \in pendingCleanup' => registrations'[k] # visible'[k]
                          /\ op.stage \in Writing => p # op.cur
    BY DEF Supported
  <2>2. visible'[k] = visible[k] /\ visible[k] <= rasters /\ visible[k] \in Nat
    BY <2>1 DEF GraphicsInv, RuntimeTyped
  <2>3. PICK p \in screen : /\ p.key = k /\ p.reg = visible[k]
                            /\ p \in pendingCleanup => registrations[k] # visible[k]
                            /\ op.stage \in Writing => p # op.cur
    BY <2>1, <2>2 DEF GraphicsInv, Supported
  <2>4. p \in pendingCleanup' => registrations'[k] # visible'[k]
    BY <1>2, <2>1, <2>2, <2>3
  <2>5. QED
    BY <2>2, <2>3, <2>4
<1>7. NothingLeftBehind'
  BY DEF GraphicsInv, NothingLeftBehind
<1>8. QED
  BY <1>1, <1>3, <1>4, <1>5, <1>6, <1>7 DEF GraphicsInv

LEMMA Unregisters ==
    ASSUME GraphicsInv, NEW k \in FormulaKeys, unregister(k), rasters' = rasters
    PROVE  /\ registrations' \in [FormulaKeys -> 0..rasters'] /\ visible' \in [FormulaKeys -> 0..rasters']
           /\ pendingCleanup \subseteq pendingCleanup' /\ pendingCleanup' \subseteq pendingCleanup \cup placed
           /\ \A j \in FormulaKeys :
               /\ visible'[j] \in {0, visible[j]}
               /\ registrations'[j] \in {0, registrations[j], rasters + 1}
               /\ \A p \in pendingCleanup' \ pendingCleanup :
                      p.key = j => visible'[j] = 0 /\ registrations'[j] = 0
<1>1. /\ registrations \in [FormulaKeys -> 0..rasters] /\ visible \in [FormulaKeys -> 0..rasters]
      /\ rasters \in Nat
  BY DEF GraphicsInv, RuntimeTyped
<1>2. CASE registrations[k] = 0
  <2>1. UNCHANGED <<registrations, visible, pendingCleanup>>
    BY <1>2 DEF unregister
  <2>2. QED
    BY <1>1, <2>1
<1>3. CASE registrations[k] # 0
  <2>1. /\ registrations' = [registrations EXCEPT ![k] = 0] /\ visible' = [visible EXCEPT ![k] = 0]
        /\ pendingCleanup' = pendingCleanup \cup {p \in placed : p.key = k}
    BY <1>3 DEF unregister
  <2>2. 0 \in 0..rasters
    BY <1>1
  <2>3. registrations' \in [FormulaKeys -> 0..rasters] /\ visible' \in [FormulaKeys -> 0..rasters]
    BY <1>1, <2>1, <2>2
  <2>4. \A j \in FormulaKeys : /\ visible'[j] = IF j = k THEN 0 ELSE visible[j]
                              /\ registrations'[j] = IF j = k THEN 0 ELSE registrations[j]
    BY <1>1, <2>1
  <2>5. \A p \in pendingCleanup' \ pendingCleanup : p.key = k
    BY <2>1
  <2>6. pendingCleanup \subseteq pendingCleanup' /\ pendingCleanup' \subseteq pendingCleanup \cup placed
    BY <2>1
  <2>7. QED
    BY <2>3, <2>4, <2>5, <2>6
<1>4. QED
  BY <1>2, <1>3

LEMMA ComponentsKeep ==
    ASSUME GraphicsInv,
           \/ setStyle
           \/ \E k \in FormulaKeys : \/ RasterReady(k) \/ RasterFails(k) \/ Restart(k)
                              \/ Unmount(k) \/ Remount(k)
    PROVE  GraphicsInv'
<1>1. /\ registrations \in [FormulaKeys -> 0..rasters] /\ visible \in [FormulaKeys -> 0..rasters]
      /\ rasters \in Nat /\ generation \in Nat
  BY DEF GraphicsInv, RuntimeTyped
<1>2. ASSUME UNCHANGED <<registrations, visible, pendingCleanup, rasters, generation, snapshot>>,
             UNCHANGED <<frames, pendingGenerations, op, placed, screen, writeBroken, disposed,
                         instance, protocol>>
      PROVE  GraphicsInv'
  BY <1>1, <1>2, ComponentStep
<1>3. ASSUME NEW k \in FormulaKeys, Restart(k) \/ Unmount(k)
      PROVE  GraphicsInv'
  <2>1. /\ UNCHANGED <<frames, pendingGenerations, op, placed, screen, writeBroken, disposed,
                       instance, protocol>>
        /\ UNCHANGED <<rasters, generation, snapshot>>
        /\ unregister(k) \/ UNCHANGED <<registrations, visible, pendingCleanup>>
    BY <1>3 DEF Restart, Unmount, frameVars, hostVars
  <2>2. CASE unregister(k)
    BY <2>1, <2>2, Unregisters, ComponentStep
  <2>3. QED
    BY <1>2, <2>1, <2>2
<1>4. ASSUME NEW k \in FormulaKeys, RasterFails(k) \/ Remount(k)
      PROVE  GraphicsInv'
  BY <1>2, <1>4 DEF RasterFails, Remount, frameVars, hostVars, drawVars
<1>5. ASSUME NEW k \in FormulaKeys, RasterReady(k)
      PROVE  GraphicsInv'
  <2>1. /\ UNCHANGED <<frames, pendingGenerations, op, placed, screen, writeBroken, disposed,
                       instance, protocol>>
        /\ UNCHANGED <<generation, snapshot, visible, pendingCleanup>> /\ rasters' = rasters + 1
        /\ \/ registrations' = registrations
           \/ registrations' = [registrations EXCEPT ![k] = rasters + 1]
    BY <1>5 DEF RasterReady, frameVars, drawVars
  <2>2. /\ registrations' \in [FormulaKeys -> 0..rasters'] /\ visible' \in [FormulaKeys -> 0..rasters']
        /\ \A j \in FormulaKeys : registrations'[j] \in {0, registrations[j], rasters + 1}
    BY <1>1, <2>1
  <2>3. QED
    BY <1>1, <2>1, <2>2, ComponentStep
<1>6. CASE setStyle
  <2>1. /\ UNCHANGED <<frames, pendingGenerations, op, placed, screen, writeBroken, disposed,
                       instance, protocol, rasters>>
        /\ generation' = generation + 1 /\ snapshot' = NoSnapshot
        /\ registrations' = [k \in FormulaKeys |-> 0] /\ visible' = [k \in FormulaKeys |-> 0]
        /\ pendingCleanup' = pendingCleanup \cup placed
    BY <1>6 DEF setStyle
  <2>2. registrations' \in [FormulaKeys -> 0..rasters'] /\ visible' \in [FormulaKeys -> 0..rasters']
    BY <1>1, <2>1
  <2>3. QED
    BY <2>1, <2>2, ComponentStep
<1>7. QED
  BY <1>3, <1>4, <1>5, <1>6

\* The formulas of a frame.
LEMMA SnapshotKeys ==
    ASSUME GraphicsInv, NEW scroll \in Scrolls
    PROVE  /\ SnapshotFormulas(scroll) \subseteq Formulas
           /\ EachKeyOnce(SnapshotFormulas(scroll))
           /\ \A f \in SnapshotFormulas(scroll) : f.reg = registrations[f.key]
<1>1. registrations \in [FormulaKeys -> 0..rasters] /\ rasters \in Nat
  BY DEF GraphicsInv, RuntimeTyped
<1>2. \A f \in SnapshotFormulas(scroll) : \E k \in FormulaKeys :
          /\ f = [key |-> k, reg |-> registrations[k], row |-> BaseRow[k] - scroll]
          /\ registrations[k] # 0
  BY DEF SnapshotFormulas, Eligible
<1>3. \A k \in FormulaKeys : BaseRow[k] - scroll \in Lines
  BY DEF Lines
<1>4. ASSUME NEW f \in SnapshotFormulas(scroll)
      PROVE  /\ f \in Formulas /\ f.reg = registrations[f.key] /\ f.reg # 0 /\ f.reg <= rasters
             /\ f = [key |-> f.key, reg |-> registrations[f.key], row |-> BaseRow[f.key] - scroll]
  BY <1>1, <1>2, <1>3 DEF Formulas
<1>5. QED
  BY <1>4 DEF EachKeyOnce

\* A frame that begins joins the frames that wait.
LEMMA FrameJoins ==
    ASSUME NEW gens \in Seq(Nat), NEW last \in Nat, InOrder(gens, last)
    PROVE  /\ Append(gens, last + 1) \in Seq(Nat) /\ Append(gens, last + 1) # <<>>
           /\ \A i \in 1..Len(gens) : Append(gens, last + 1)[i] = gens[i]
           /\ gens = <<>> => Append(gens, last + 1)[1] = last + 1
           /\ InOrder(Append(gens, last + 1), last + 1) /\ InOrder(gens, last + 1)
<1> DEFINE new == Append(gens, last + 1)
<1>1. /\ new \in Seq(Nat) /\ Len(new) = Len(gens) + 1 /\ new[Len(gens) + 1] = last + 1
      /\ \A i \in 1..Len(gens) : new[i] = gens[i] /\ new[i] \in Nat
  OBVIOUS
<1> HIDE DEF new
<1>2. new # <<>> /\ (gens = <<>> => new[1] = last + 1)
  BY <1>1
<1>3. InOrder(new, last + 1) /\ InOrder(gens, last + 1)
  <2>1. /\ Len(gens) \in Nat /\ \A i \in 1..Len(gens) : gens[i] \in Nat /\ gens[i] <= last
        /\ \A i, j \in 1..Len(gens) : i < j => gens[i] < gens[j]
    BY DEF InOrder
  <2>2. \A i \in 1..Len(new) : i \in 1..Len(gens) \/ i = Len(gens) + 1
    BY <1>1, <2>1
  <2>3. InOrder(gens, last + 1)
    BY <2>1 DEF InOrder
  <2>4. ASSUME NEW i \in 1..Len(new) PROVE new[i] <= last + 1
    <3>1. CASE i \in 1..Len(gens)
      <4>1. new[i] = gens[i] /\ gens[i] <= last /\ gens[i] \in Nat
        BY <1>1, <2>1, <3>1
      <4>2. QED
        BY <4>1
    <3>2. CASE i = Len(gens) + 1
      BY <1>1, <3>2
    <3>3. QED
      BY <2>2, <3>1, <3>2
  <2>5. ASSUME NEW i \in 1..Len(new), NEW j \in 1..Len(new), i < j PROVE new[i] < new[j]
    <3>1. i \in 1..Len(gens)
      BY <1>1, <2>1, <2>2, <2>5
    <3>2. CASE j \in 1..Len(gens)
      BY <1>1, <2>1, <2>5, <3>1, <3>2
    <3>3. CASE j = Len(gens) + 1
      <4>1. new[i] = gens[i] /\ gens[i] <= last /\ gens[i] \in Nat /\ new[j] = last + 1
        BY <1>1, <2>1, <3>1, <3>3
      <4>2. QED
        BY <4>1
    <3>4. QED
      BY <2>2, <3>2, <3>3
  <2>6. QED
    BY <2>3, <2>4, <2>5 DEF InOrder
<1>4. QED
  BY <1>1, <1>2, <1>3 DEF new

\* Where the running frame is after another one was queued.
LEMMA QueuedOp ==
    ASSUME GraphicsInv, queueAfterFrame, generation' = generation + 1, UNCHANGED instance
    PROVE  /\ \/ op' = op
              \/ instance /\ frames = <<>> /\ op' = [Resting EXCEPT !.gen = generation', !.stage = "flush"]
           /\ op'.stage \in Writing => op' = op /\ frames # <<>> /\ op.gen <= generation
           /\ IF instance
              THEN /\ frames' = Append(frames, generation') /\ pendingGenerations' = pendingGenerations
                   /\ frames # <<>> => op' = op
                   /\ frames = <<>> => op' = [Resting EXCEPT !.gen = generation', !.stage = "flush"]
              ELSE /\ pendingGenerations' = Append(pendingGenerations, generation')
                   /\ frames' = frames /\ op' = op
<1>1. frames \in Seq(Nat) /\ generation \in Nat
  BY DEF GraphicsInv, RuntimeTyped
<1>2. frames \o <<generation'>> = Append(frames, generation')
  BY <1>1
<1>3. IF instance
      THEN /\ frames' = Append(frames, generation') /\ pendingGenerations' = pendingGenerations
           /\ frames # <<>> => op' = op
           /\ frames = <<>> => op' = [Resting EXCEPT !.gen = generation', !.stage = "flush"]
      ELSE /\ pendingGenerations' = Append(pendingGenerations, generation')
           /\ frames' = frames /\ op' = op
  BY <1>1, <1>2 DEF queueAfterFrame, afterFrame
<1>4. \/ op' = op
      \/ instance /\ frames = <<>> /\ op' = [Resting EXCEPT !.gen = generation', !.stage = "flush"]
  BY <1>3
<1>5. ASSUME op'.stage \in Writing PROVE op' = op /\ frames # <<>> /\ op.gen <= generation
  <2>1. op' = op
    <3>1. [Resting EXCEPT !.gen = generation', !.stage = "flush"].stage = "flush"
      BY DEF Resting
    <3>2. QED
      BY <1>4, <1>5, <3>1 DEF Writing
  <2>2. frames # <<>>
    BY <1>5, <2>1 DEF GraphicsInv, FramesWait, Writing
  <2>3. op.gen = frames[1] /\ 1 \in 1..Len(frames)
    BY <1>1, <2>2 DEF GraphicsInv, FramesWait
  <2>4. QED
    BY <2>1, <2>2, <2>3 DEF GraphicsInv, FramesWait, InOrder
<1>6. QED
  BY <1>3, <1>4, <1>5

\* What beforeFrame clears and keeps.
LEMMA FrameClears ==
    ASSUME GraphicsInv, NEW scroll \in Scrolls, beforeFrame(scroll)
    PROVE  /\ generation' = generation + 1
           /\ snapshot' = [gen |-> generation + 1, formulas |-> SnapshotFormulas(scroll)]
           /\ \A k \in FormulaKeys : visible'[k] # 0 => visible'[k] = visible[k] /\ registrations[k] = visible[k]
           /\ \A k \in FormulaKeys : visible'[k] \in {0, visible[k]}
           /\ visible' \in [FormulaKeys -> 0..rasters]
           /\ placed' \subseteq placed /\ screen' \subseteq screen
           /\ screen \ screen' \subseteq {q \in screen : protocol # "kitty"} \cup pendingCleanup
           /\ pendingCleanup' \subseteq pendingCleanup \cup placed
           /\ \A p \in pendingCleanup' \ pendingCleanup : p.key \in FormulaKeys => visible'[p.key] = 0
           /\ writeBroken => writeBroken'
           /\ ~writeBroken' => screen' \cap (placed \ placed') = {}
           /\ frames # <<>> => UNCHANGED <<placed, screen, writeBroken>>
<1> DEFINE formulas == SnapshotFormulas(scroll)
           retained == {k \in FormulaKeys : visible[k] # 0 /\
                          \E f \in formulas : f.key = k /\ f.reg = visible[k]}
           flushes  == frames = <<>> /\ ~writeBroken
           due      == IF flushes THEN pendingCleanup \cap placed ELSE {}
<1>1. PICK cleared \in SUBSET due : \E failed \in {{}} \cup {{p} : p \in due \ cleared} :
        /\ failed = {} => cleared = due
        /\ generation' = generation + 1
        /\ snapshot' = [gen |-> generation + 1, formulas |-> formulas]
        /\ visible' = [k \in FormulaKeys |-> IF k \in retained THEN visible[k] ELSE 0]
        /\ placed' = placed \ (cleared \cup failed)
        /\ screen' = EraseAll(screen, cleared)
        /\ writeBroken' = (writeBroken \/ failed # {})
        /\ pendingCleanup' =
             (IF flushes THEN due \ (cleared \cup failed) ELSE pendingCleanup)
               \cup {p \in placed' : p.key \notin retained}
  BY DEF beforeFrame
<1>2. PICK failed \in {{}} \cup {{p} : p \in due \ cleared} :
        /\ failed = {} => cleared = due
        /\ generation' = generation + 1
        /\ snapshot' = [gen |-> generation + 1, formulas |-> formulas]
        /\ visible' = [k \in FormulaKeys |-> IF k \in retained THEN visible[k] ELSE 0]
        /\ placed' = placed \ (cleared \cup failed)
        /\ screen' = EraseAll(screen, cleared)
        /\ writeBroken' = (writeBroken \/ failed # {})
        /\ pendingCleanup' =
             (IF flushes THEN due \ (cleared \cup failed) ELSE pendingCleanup)
               \cup {p \in placed' : p.key \notin retained}
  BY <1>1
<1>3. due \subseteq pendingCleanup /\ due \subseteq placed /\ (frames # <<>> => due = {})
  OBVIOUS
<1>4. \A f \in formulas : f.reg = registrations[f.key]
  BY SnapshotKeys
<1>5. /\ visible \in [FormulaKeys -> 0..rasters] /\ rasters \in Nat
  BY DEF GraphicsInv, RuntimeTyped
<1>6. failed \subseteq due /\ cleared \subseteq due
  BY <1>1, <1>2
<1> HIDE DEF formulas, due
<1>7. \A k \in FormulaKeys : /\ k \in retained => visible'[k] = visible[k] /\ registrations[k] = visible[k]
                             /\ k \notin retained => visible'[k] = 0
  BY <1>2, <1>4
<1>8. visible' \in [FormulaKeys -> 0..rasters]
  <2>1. \A k \in FormulaKeys : (IF k \in retained THEN visible[k] ELSE 0) \in 0..rasters
    BY <1>5
  <2>2. QED
    BY <1>2, <2>1
<1> HIDE DEF retained
<1>9. screen' \subseteq screen /\ screen' \cap cleared = {} /\ (cleared = {} => screen' = screen)
      /\ (protocol = "kitty" => screen \ screen' \subseteq cleared)
  BY <1>2 DEF EraseAll
<1>10. placed' \subseteq placed /\ pendingCleanup' \subseteq pendingCleanup \cup placed
  BY <1>2, <1>3, <1>6
<1>11. \A p \in pendingCleanup' \ pendingCleanup : p.key \notin retained
  BY <1>2, <1>3, <1>6
<1>12. ASSUME ~writeBroken' PROVE screen' \cap (placed \ placed') = {}
  <2>1. failed = {} /\ placed \ placed' \subseteq cleared
    BY <1>2, <1>12
  <2>2. QED
    BY <1>9, <2>1
<1>13. ASSUME frames # <<>> PROVE UNCHANGED <<placed, screen, writeBroken>>
  <2>1. failed = {} /\ cleared = {}
    BY <1>3, <1>6, <1>13
  <2>2. QED
    BY <1>2, <1>9, <2>1 DEF GraphicsInv, RuntimeTyped
<1>14. writeBroken => writeBroken'
  BY <1>2
<1>15. snapshot' = [gen |-> generation + 1, formulas |-> SnapshotFormulas(scroll)]
  BY <1>2 DEF formulas
<1>16. screen \ screen' \subseteq {q \in screen : protocol # "kitty"} \cup pendingCleanup
  BY <1>3, <1>6, <1>9
<1>17. generation' = generation + 1
  BY <1>2
<1>18. \A k \in FormulaKeys : visible'[k] # 0 => visible'[k] = visible[k] /\ registrations[k] = visible[k]
  BY <1>7
<1>19. \A k \in FormulaKeys : visible'[k] \in {0, visible[k]}
  BY <1>7
<1>20. \A p \in pendingCleanup' \ pendingCleanup : p.key \in FormulaKeys => visible'[p.key] = 0
  BY <1>7, <1>11
<1>21. QED
  BY <1>8, <1>9, <1>10, <1>12, <1>13, <1>14, <1>15, <1>16, <1>17, <1>18, <1>19, <1>20

\* A frame begins: what was left by earlier ones may be cleared, and keys whose raster is gone or
\* not in the frame show their source.
LEMMA FrameStep ==
    ASSUME GraphicsInv, ~disposed, NEW scroll \in Scrolls, beforeFrame(scroll), queueAfterFrame,
           UNCHANGED <<rasters, registrations, disposed, instance, protocol>>
    PROVE  GraphicsInv'
<1>0. /\ generation' = generation + 1
      /\ snapshot' = [gen |-> generation + 1, formulas |-> SnapshotFormulas(scroll)]
      /\ \A k \in FormulaKeys : visible'[k] # 0 => visible'[k] = visible[k] /\ registrations[k] = visible[k]
      /\ \A k \in FormulaKeys : visible'[k] \in {0, visible[k]}
      /\ visible' \in [FormulaKeys -> 0..rasters]
      /\ placed' \subseteq placed /\ screen' \subseteq screen
      /\ screen \ screen' \subseteq {q \in screen : protocol # "kitty"} \cup pendingCleanup
      /\ pendingCleanup' \subseteq pendingCleanup \cup placed
      /\ \A p \in pendingCleanup' \ pendingCleanup : p.key \in FormulaKeys => visible'[p.key] = 0
      /\ writeBroken => writeBroken'
      /\ ~writeBroken' => screen' \cap (placed \ placed') = {}
      /\ frames # <<>> => UNCHANGED <<placed, screen, writeBroken>>
  BY FrameClears
<1>1. /\ \/ op' = op
         \/ instance /\ frames = <<>> /\ op' = [Resting EXCEPT !.gen = generation', !.stage = "flush"]
      /\ op'.stage \in Writing => op' = op /\ frames # <<>> /\ op.gen <= generation
      /\ IF instance
         THEN /\ frames' = Append(frames, generation') /\ pendingGenerations' = pendingGenerations
              /\ frames # <<>> => op' = op
              /\ frames = <<>> => op' = [Resting EXCEPT !.gen = generation', !.stage = "flush"]
         ELSE /\ pendingGenerations' = Append(pendingGenerations, generation')
              /\ frames' = frames /\ op' = op
  BY <1>0, QueuedOp
<1>2. /\ generation \in Nat /\ rasters \in Nat /\ frames \in Seq(Nat) /\ pendingGenerations \in Seq(Nat)
      /\ placed \subseteq Places /\ pendingCleanup \subseteq Places /\ screen \subseteq Places
      /\ op.gen \in Nat
  BY DEF GraphicsInv, RuntimeTyped
<1> DEFINE fresh == [Resting EXCEPT !.gen = generation', !.stage = "flush"]
<1>3. /\ Fields \subseteq DOMAIN fresh /\ fresh.gen = generation' /\ fresh.stage = "flush"
      /\ fresh.todo = {} /\ fresh.prev = [k \in FormulaKeys |-> None]
  BY DEF Resting, Fields
<1> HIDE DEF fresh
<1>4. op' = op \/ (instance /\ frames = <<>> /\ op' = fresh)
  BY <1>1 DEF fresh
<1>5. /\ InOrder(frames, generation) /\ InOrder(pendingGenerations, generation)
      /\ instance => pendingGenerations = <<>>
      /\ ~instance => frames = <<>> /\ placed = {} /\ pendingCleanup = {}
      /\ IF frames = <<>> THEN op.stage = "done" ELSE op.gen = frames[1]
  BY DEF GraphicsInv, FramesWait
<1>6. \A gens \in {frames, pendingGenerations} :
        /\ Append(gens, generation + 1) \in Seq(Nat) /\ Append(gens, generation + 1) # <<>>
        /\ \A i \in 1..Len(gens) : Append(gens, generation + 1)[i] = gens[i]
        /\ gens = <<>> => Append(gens, generation + 1)[1] = generation + 1
        /\ InOrder(Append(gens, generation + 1), generation + 1) /\ InOrder(gens, generation + 1)
  BY <1>2, <1>5, FrameJoins
<1>7. RuntimeTyped'
  <2>1. snapshot' \in [gen : Nat, formulas : SUBSET Formulas]
    BY <1>0, <1>2, SnapshotKeys
  <2>2. frames' \in Seq(Nat) /\ pendingGenerations' \in Seq(Nat)
    BY <1>0, <1>1, <1>2, <1>6
  <2>3. /\ Fields \subseteq DOMAIN op' /\ op'.gen \in Nat /\ op'.stage \in FrameStages
        /\ op'.todo \subseteq Formulas /\ op'.prev \in [FormulaKeys -> Places \cup {None}]
    BY <1>0, <1>2, <1>3, <1>4 DEF GraphicsInv, RuntimeTyped, FrameStages
  <2>4. placed' \subseteq Places /\ pendingCleanup' \subseteq Places /\ screen' \subseteq Places
    BY <1>0, <1>2
  <2>5. writeBroken' \in BOOLEAN
    BY DEF beforeFrame
  <2>6. generation' \in Nat /\ visible' \in [FormulaKeys -> 0..rasters']
    BY <1>0, <1>2
  <2>7. QED
    BY <2>1, <2>2, <2>3, <2>4, <2>5, <2>6 DEF GraphicsInv, RuntimeTyped
<1>8. FramesWait'
  <2>1. InOrder(frames', generation') /\ InOrder(pendingGenerations', generation')
    BY <1>0, <1>1, <1>6
  <2>2. IF instance' THEN pendingGenerations' = <<>>
        ELSE frames' = <<>> /\ placed' = {} /\ pendingCleanup' = {}
    BY <1>0, <1>1, <1>5
  <2>3. IF frames' = <<>> THEN op'.stage = "done" ELSE op'.gen = frames'[1]
    <3>1. CASE ~instance
      BY <1>1, <1>5, <3>1
    <3>2. CASE instance /\ frames = <<>>
      BY <1>0, <1>1, <1>3, <1>4, <1>6, <3>2 DEF fresh
    <3>3. CASE instance /\ frames # <<>>
      <4>1. 1 \in 1..Len(frames)
        BY <1>2, <3>3
      <4>2. frames' # <<>> /\ frames'[1] = frames[1] /\ op' = op
        BY <1>0, <1>1, <1>6, <3>3, <4>1
      <4>3. QED
        BY <1>5, <3>3, <4>2
    <3>4. QED
      BY <3>1, <3>2, <3>3
  <2>4. QED
    BY <2>1, <2>2, <2>3 DEF FramesWait
<1>9. Older'
  <2>1. EachKeyOnce(snapshot.formulas)'
    BY <1>0, SnapshotKeys DEF EachKeyOnce
  <2>2. EachKeyOnce(op.todo)'
    <3>1. EachKeyOnce(op.todo)
      BY DEF GraphicsInv, Older
    <3>2. QED
      BY <1>3, <1>4, <3>1 DEF EachKeyOnce
  <2>3. ASSUME NEW p \in placed' \cup pendingCleanup'
        PROVE  /\ p.gen <= generation'
               /\ frames' # <<>> => p.gen <= op'.gen /\ (op'.stage = "flush" => p.gen < op'.gen)
               /\ \A f \in op'.todo : p.key = f.key => p.gen < op'.gen
    <3>1. p \in placed \cup pendingCleanup /\ p.gen \in Nat
      BY <1>0, <1>2 DEF Places
    <3>2. p.gen <= generation /\ instance
      BY <1>5, <3>1 DEF GraphicsInv, Older
    <3>3. CASE frames = <<>>
      <4>1. op' = fresh
        BY <1>1, <3>2, <3>3 DEF fresh
      <4>2. op'.gen = generation + 1 /\ op'.todo = {} /\ generation' = generation + 1
        BY <1>0, <1>3, <4>1
      <4>3. QED
        BY <1>2, <3>1, <3>2, <4>2
    <3>4. CASE frames # <<>>
      BY <1>0, <1>1, <1>2, <3>1, <3>2, <3>4 DEF GraphicsInv, Older
    <3>5. QED
      BY <3>3, <3>4
  <2>4. \A k \in FormulaKeys : op'.prev[k] # None => op'.prev[k].key = k /\ op'.prev[k].gen < op'.gen
    BY <1>3, <1>4 DEF GraphicsInv, Older
  <2>5. QED
    BY <2>1, <2>2, <2>3, <2>4 DEF Older
<1>10. Current'
  <2>1. SUFFICES ASSUME op'.stage \in Writing PROVE Current'
    BY DEF Current
  <2>2. op' = op /\ op.gen # generation' /\ UNCHANGED <<placed, screen, writeBroken>>
    BY <1>0, <1>1, <1>2, <2>1
  <2>3. QED
    BY <2>1, <2>2 DEF GraphicsInv, Current
<1>11. Supported'
  <2>1. SUFFICES ASSUME ~writeBroken', protocol = "kitty", NEW k \in FormulaKeys, visible'[k] # 0
                 PROVE  \E p \in screen' :
                          /\ p.key = k /\ p.reg = visible'[k]
                          /\ p \in pendingCleanup' => registrations'[k] # visible'[k]
                          /\ op'.stage \in Writing => p # op'.cur
    BY DEF Supported
  <2>2. visible'[k] = visible[k] /\ registrations[k] = visible[k] /\ ~writeBroken
    BY <1>0, <2>1
  <2>3. PICK p \in screen : /\ p.key = k /\ p.reg = visible[k]
                            /\ p \in pendingCleanup => registrations[k] # visible[k]
                            /\ op.stage \in Writing => p # op.cur
    BY <2>1, <2>2 DEF GraphicsInv, Supported
  <2>4. p \in screen' /\ p \notin pendingCleanup'
    BY <1>0, <2>1, <2>2, <2>3
  <2>5. op'.stage \in Writing => p # op'.cur
    BY <1>1, <2>3
  <2>6. QED
    BY <2>2, <2>3, <2>4, <2>5
<1>12. NothingLeftBehind'
  BY <1>0 DEF GraphicsInv, NothingLeftBehind
<1>13. QED
  BY <1>7, <1>8, <1>9, <1>10, <1>11, <1>12 DEF GraphicsInv

LEMMA FrameKeeps ==
    ASSUME GraphicsInv, NEW scroll \in Scrolls, Frame(scroll) \/ Microtask(scroll)
    PROVE  GraphicsInv'
<1>1. CASE Frame(scroll)
  BY <1>1, FrameStep DEF Frame, compVars
<1>2. CASE Microtask(scroll)
  <2>1. CASE requested /\ ~disposed /\ instance
    BY <1>2, <2>1, FrameStep DEF Microtask, compVars
  <2>2. CASE ~(requested /\ ~disposed /\ instance)
    <3>1. /\ UNCHANGED <<frames, pendingGenerations, op, placed, screen, writeBroken, disposed,
                         instance, protocol>>
          /\ UNCHANGED <<rasters, generation, snapshot, registrations, visible, pendingCleanup>>
      BY <1>2, <2>2 DEF Microtask, compVars, frameVars, drawVars
    <3>2. registrations \in [FormulaKeys -> 0..rasters] /\ visible \in [FormulaKeys -> 0..rasters]
      BY DEF GraphicsInv, RuntimeTyped
    <3>3. QED
      BY <3>1, <3>2, ComponentStep
  <2>3. QED
    BY <2>1, <2>2
<1>3. QED
  BY <1>1, <1>2

LEMMA OpStage ==
    ASSUME Fields \subseteq DOMAIN op, NEW s
    PROVE  LET new == [op EXCEPT !.stage = s]
           IN  /\ Fields \subseteq DOMAIN new /\ new.stage = s /\ new.gen = op.gen
               /\ new.todo = op.todo /\ new.prev = op.prev /\ new.cur = op.cur
BY DEF Fields

\* The frame of an operation that runs is the first one, and was queued once Ink was mounted.
LEMMA RunningFrame ==
    ASSUME GraphicsInv, op.stage # "done"
    PROVE  frames # <<>> /\ instance /\ op.gen = frames[1] /\ op.gen <= generation
<1>1. frames # <<>> /\ instance /\ op.gen = frames[1]
  BY DEF GraphicsInv, FramesWait
<1>2. 1 \in 1..Len(frames)
  BY <1>1 DEF GraphicsInv, RuntimeTyped
<1>3. QED
  BY <1>1, <1>2 DEF GraphicsInv, FramesWait, InOrder

\* A step of the running frame: what it changes of the images and of what is visible.
LEMMA RunningStep ==
    ASSUME GraphicsInv, op.stage # "done",
           UNCHANGED <<rasters, registrations, generation, snapshot, frames, instance,
                       pendingGenerations, disposed, protocol>>,
           Fields \subseteq DOMAIN op', op'.stage \in FrameStages \ {"flush"}, op'.gen = op.gen,
           op'.todo \subseteq Formulas, EachKeyOnce(op.todo)',
           op'.prev \in [FormulaKeys -> Places \cup {None}],
           \A k \in FormulaKeys : op'.prev[k] # None => op'.prev[k].key = k /\ op'.prev[k].gen < op.gen,
           visible' \in [FormulaKeys -> 0..rasters],
           placed' \subseteq Places, pendingCleanup' \subseteq Places, screen' \subseteq Places,
           writeBroken' \in BOOLEAN,
           \A p \in placed' \cup pendingCleanup' :
               p.gen <= op.gen /\ \A f \in op'.todo : p.key = f.key => p.gen < op.gen,
           Current', Supported', NothingLeftBehind'
    PROVE  GraphicsInv'
<1>1. frames # <<>> /\ instance /\ op.gen = frames[1] /\ op.gen <= generation
  BY RunningFrame
<1>2. RuntimeTyped'
  BY DEF GraphicsInv, RuntimeTyped
<1>3. FramesWait'
  BY <1>1 DEF GraphicsInv, FramesWait
<1>4. Older'
  <2>1. ASSUME NEW p \in placed' \cup pendingCleanup' PROVE p.gen <= generation
    <3>1. p.gen \in Nat /\ op.gen \in Nat /\ generation \in Nat /\ p.gen <= op.gen
      BY DEF GraphicsInv, RuntimeTyped, Places
    <3>2. QED
      BY <1>1, <3>1
  <2>2. EachKeyOnce(snapshot.formulas)'
    BY DEF GraphicsInv, Older, EachKeyOnce
  <2>3. QED
    BY <2>1, <2>2 DEF Older
<1>5. QED
  BY <1>2, <1>3, <1>4 DEF GraphicsInv

\* What the running frame has now, in the form RunningStep asks for it.
LEMMA RunningNow ==
    ASSUME GraphicsInv, op.stage # "done"
    PROVE  /\ Fields \subseteq DOMAIN op /\ op.todo \subseteq Formulas /\ EachKeyOnce(op.todo)
           /\ op.prev \in [FormulaKeys -> Places \cup {None}]
           /\ \A k \in FormulaKeys : op.prev[k] # None => op.prev[k].key = k /\ op.prev[k].gen < op.gen
           /\ visible \in [FormulaKeys -> 0..rasters] /\ rasters \in Nat /\ op.gen \in Nat
           /\ placed \subseteq Places /\ pendingCleanup \subseteq Places /\ screen \subseteq Places
           /\ writeBroken \in BOOLEAN
           /\ \A p \in placed \cup pendingCleanup :
                p.gen <= op.gen /\ \A f \in op.todo : p.key = f.key => p.gen < op.gen
BY RunningFrame DEF GraphicsInv, RuntimeTyped, Older

\* Falling back to source takes no image from a key that stays visible.
LEMMA FallbackShows ==
    ASSUME GraphicsInv, Fallback(op.gen), op.stage # "done",
           UNCHANGED <<registrations, placed, screen, writeBroken, disposed, protocol>>,
           op'.stage \notin Writing
    PROVE  /\ visible' \in [FormulaKeys -> 0..rasters]
           /\ pendingCleanup \subseteq pendingCleanup' /\ pendingCleanup' \subseteq pendingCleanup \cup placed
           /\ Supported'
<1> DEFINE mine == IF disposed \/ op.gen # generation \/ snapshot.gen # op.gen THEN {}
                   ELSE {f.key : f \in snapshot.formulas}
<1>1. /\ visible' = [k \in FormulaKeys |-> IF k \in mine THEN 0 ELSE visible[k]]
      /\ pendingCleanup' = pendingCleanup \cup {p \in placed : p.key \in mine}
  BY DEF Fallback
<1> HIDE DEF mine
<1>2. visible \in [FormulaKeys -> 0..rasters] /\ rasters \in Nat
  BY DEF GraphicsInv, RuntimeTyped
<1>3. visible' \in [FormulaKeys -> 0..rasters]
  <2>1. \A k \in FormulaKeys : (IF k \in mine THEN 0 ELSE visible[k]) \in 0..rasters
    BY <1>2
  <2>2. QED
    BY <1>1, <2>1
<1>4. Supported'
  <2>1. SUFFICES ASSUME ~disposed, ~writeBroken, protocol = "kitty", NEW k \in FormulaKeys,
                        visible'[k] # 0
                 PROVE  \E p \in screen : /\ p.key = k /\ p.reg = visible'[k]
                                          /\ p \in pendingCleanup' => registrations[k] # visible'[k]
    BY DEF Supported
  <2>2. k \notin mine /\ visible'[k] = visible[k]
    BY <1>1, <2>1
  <2>3. PICK p \in screen : /\ p.key = k /\ p.reg = visible[k]
                            /\ p \in pendingCleanup => registrations[k] # visible[k]
    BY <2>1, <2>2 DEF GraphicsInv, Supported
  <2>4. QED
    BY <1>1, <2>2, <2>3
<1>5. QED
  BY <1>1, <1>3, <1>4

LEMMA FlushFailsKeeps == ASSUME GraphicsInv, FlushFails PROVE GraphicsInv'
<1>1. /\ op.stage = "flush" /\ op' = [op EXCEPT !.stage = "done"] /\ Fallback(op.gen)
      /\ UNCHANGED <<rasters, registrations, generation, snapshot, frames, instance,
                     pendingGenerations, disposed, protocol, placed, screen, writeBroken>>
  BY DEF FlushFails, compVars, frameVars, hostVars
<1>2. /\ Fields \subseteq DOMAIN op /\ op.todo \subseteq Formulas /\ EachKeyOnce(op.todo)
      /\ op.prev \in [FormulaKeys -> Places \cup {None}]
      /\ \A k \in FormulaKeys : op.prev[k] # None => op.prev[k].key = k /\ op.prev[k].gen < op.gen
      /\ placed \subseteq Places /\ pendingCleanup \subseteq Places /\ screen \subseteq Places
      /\ writeBroken \in BOOLEAN
      /\ \A p \in placed \cup pendingCleanup :
           p.gen <= op.gen /\ \A f \in op.todo : p.key = f.key => p.gen < op.gen
  BY <1>1, RunningNow
<1>3. /\ Fields \subseteq DOMAIN op' /\ op'.stage = "done" /\ op'.gen = op.gen
      /\ op'.todo = op.todo /\ op'.prev = op.prev
  BY <1>1, <1>2, OpStage
<1>4. /\ visible' \in [FormulaKeys -> 0..rasters]
      /\ pendingCleanup' \subseteq pendingCleanup \cup placed
      /\ Supported'
  BY <1>1, <1>3, FallbackShows DEF Writing
<1>5. Current' /\ NothingLeftBehind'
  BY <1>1, <1>3 DEF Current, Writing, GraphicsInv, NothingLeftBehind
<1>6. EachKeyOnce(op.todo)'
  BY <1>1, <1>2, <1>3 DEF EachKeyOnce
<1>7. op.stage # "done" /\ op'.stage \in FrameStages \ {"flush"}
  BY <1>1, <1>3 DEF FrameStages
<1>8. QED
  BY <1>1, <1>2, <1>3, <1>4, <1>5, <1>6, <1>7, RunningStep

\* What a frame replaces is the newest image of each key.
LEMMA NewestImage ==
    ASSUME GraphicsInv, NEW k \in FormulaKeys, PreviousByKey[k] # None
    PROVE  PreviousByKey[k] \in placed /\ PreviousByKey[k].key = k
<1> DEFINE mine == {p \in placed : p.key = k}
           ages == {generation - p.gen : p \in mine}
<1>1. mine # {} /\ PreviousByKey[k] = CHOOSE p \in mine : \A q \in mine : q.gen <= p.gen
  BY DEF PreviousByKey
<1>2. generation \in Nat /\ \A p \in mine : p.gen \in Nat /\ p.gen <= generation
  BY DEF GraphicsInv, RuntimeTyped, Older, Places
<1>3. ages \in SUBSET Nat /\ ages # {}
  BY <1>1, <1>2
<1>4. PICK p \in mine : \A a \in ages : generation - p.gen <= a
  <2>1. \E m \in ages : \A a \in ages : m <= a
    BY <1>3, LeastElement
  <2>2. QED
    BY <2>1
<1>5. \A q \in mine : q.gen <= p.gen
  <2>1. ASSUME NEW q \in mine PROVE q.gen <= p.gen
    <3>1. generation - p.gen <= generation - q.gen
      BY <1>4
    <3>2. QED
      BY <1>2, <3>1
  <2>2. QED
    BY <2>1
<1>6. PreviousByKey[k] \in mine
  BY <1>1, <1>5
<1>7. QED
  BY <1>6

LEMMA FlushDoneKeeps == ASSUME GraphicsInv, FlushDone PROVE GraphicsInv'
<1> DEFINE over == disposed \/ op.gen # generation \/ writeBroken \/ snapshot.gen # op.gen
<1>1. /\ op.stage = "flush"
      /\ UNCHANGED <<rasters, registrations, generation, snapshot, frames, instance,
                     pendingGenerations, disposed, protocol, placed, screen, writeBroken>>
  BY DEF FlushDone, compVars, frameVars, hostVars
<1>2. /\ Fields \subseteq DOMAIN op /\ op.todo \subseteq Formulas /\ EachKeyOnce(op.todo)
      /\ op.prev \in [FormulaKeys -> Places \cup {None}]
      /\ \A k \in FormulaKeys : op.prev[k] # None => op.prev[k].key = k /\ op.prev[k].gen < op.gen
      /\ placed \subseteq Places /\ pendingCleanup \subseteq Places /\ screen \subseteq Places
      /\ writeBroken \in BOOLEAN /\ visible \in [FormulaKeys -> 0..rasters]
      /\ \A p \in placed \cup pendingCleanup :
           p.gen <= op.gen /\ \A f \in op.todo : p.key = f.key => p.gen < op.gen
  BY <1>1, RunningNow
<1>3. CASE over
  <2>1. /\ op' = [op EXCEPT !.stage = "done"]
        /\ Fallback(op.gen) \/ UNCHANGED <<visible, pendingCleanup>>
    BY <1>3 DEF FlushDone
  <2>2. /\ Fields \subseteq DOMAIN op' /\ op'.stage = "done" /\ op'.gen = op.gen
        /\ op'.todo = op.todo /\ op'.prev = op.prev
    BY <1>2, <2>1, OpStage
  <2>3. /\ visible' \in [FormulaKeys -> 0..rasters]
        /\ pendingCleanup' \subseteq pendingCleanup \cup placed
        /\ Supported'
    <3>1. CASE Fallback(op.gen)
      BY <1>1, <2>2, <3>1, FallbackShows DEF Writing
    <3>2. CASE UNCHANGED <<visible, pendingCleanup>>
      BY <1>1, <1>2, <2>2, <3>2 DEF Writing, GraphicsInv, Supported
    <3>3. QED
      BY <2>1, <3>1, <3>2
  <2>4. Current' /\ NothingLeftBehind'
    BY <1>1, <2>2 DEF Current, Writing, GraphicsInv, NothingLeftBehind
  <2>5. EachKeyOnce(op.todo)'
    BY <1>1, <1>2, <2>2 DEF EachKeyOnce
  <2>6. op.stage # "done" /\ op'.stage \in FrameStages \ {"flush"}
    BY <1>1, <2>2 DEF FrameStages
  <2>7. QED
    BY <1>1, <1>2, <2>2, <2>3, <2>4, <2>5, <2>6, RunningStep
<1>4. CASE ~over
  <2>1. /\ op' = [op EXCEPT !.stage = "emit", !.todo = snapshot.formulas, !.prev = PreviousByKey]
        /\ UNCHANGED <<visible, pendingCleanup>>
    BY <1>4 DEF FlushDone
  <2>2. /\ Fields \subseteq DOMAIN op' /\ op'.stage = "emit" /\ op'.gen = op.gen
        /\ op'.todo = snapshot.formulas /\ op'.prev = PreviousByKey
    BY <1>2, <2>1 DEF Fields
  <2>3. \A p \in placed \cup pendingCleanup : p.gen < op.gen /\ p.gen <= op.gen
    BY <1>1, <1>2, RunningFrame DEF GraphicsInv, Older
  <2>4. \A k \in FormulaKeys : PreviousByKey[k] # None =>
            PreviousByKey[k] \in placed /\ PreviousByKey[k].key = k
    BY NewestImage
  <2>5. op'.prev \in [FormulaKeys -> Places \cup {None}]
    <3>1. \A k \in FormulaKeys : PreviousByKey[k] \in Places \cup {None}
      BY <1>2, <2>4
    <3>2. PreviousByKey = [k \in FormulaKeys |-> PreviousByKey[k]]
      BY DEF PreviousByKey
    <3>3. QED
      BY <2>2, <3>1, <3>2
  <2>6. \A k \in FormulaKeys : op'.prev[k] # None => op'.prev[k].key = k /\ op'.prev[k].gen < op.gen
    BY <2>2, <2>3, <2>4
  <2>7. Current' /\ NothingLeftBehind' /\ Supported'
    BY <1>1, <2>1, <2>2 DEF Current, Writing, GraphicsInv, NothingLeftBehind, Supported
  <2>8. EachKeyOnce(op.todo)' /\ op'.todo \subseteq Formulas
    BY <1>1, <2>2 DEF EachKeyOnce, GraphicsInv, Older, RuntimeTyped
  <2>9. op.stage # "done" /\ op'.stage \in FrameStages \ {"flush"}
    BY <1>1, <2>2 DEF FrameStages
  <2>10. QED
    BY <1>1, <1>2, <2>1, <2>2, <2>3, <2>5, <2>6, <2>7, <2>8, <2>9, RunningStep
<1>5. QED
  BY <1>3, <1>4

LEMMA EmitEndsKeeps == ASSUME GraphicsInv, EmitEnds PROVE GraphicsInv'
<1>1. /\ op.stage = "emit" /\ op' = [op EXCEPT !.stage = "done"]
      /\ UNCHANGED <<rasters, registrations, generation, snapshot, frames, instance,
                     pendingGenerations, disposed, protocol, placed, screen, writeBroken,
                     visible, pendingCleanup>>
  BY DEF EmitEnds, compVars, frameVars, hostVars, drawVars
<1>2. /\ Fields \subseteq DOMAIN op /\ op.todo \subseteq Formulas /\ EachKeyOnce(op.todo)
      /\ op.prev \in [FormulaKeys -> Places \cup {None}]
      /\ \A k \in FormulaKeys : op.prev[k] # None => op.prev[k].key = k /\ op.prev[k].gen < op.gen
      /\ placed \subseteq Places /\ pendingCleanup \subseteq Places /\ screen \subseteq Places
      /\ writeBroken \in BOOLEAN /\ visible \in [FormulaKeys -> 0..rasters]
      /\ \A p \in placed \cup pendingCleanup :
           p.gen <= op.gen /\ \A f \in op.todo : p.key = f.key => p.gen < op.gen
  BY <1>1, RunningNow
<1>3. /\ Fields \subseteq DOMAIN op' /\ op'.stage = "done" /\ op'.gen = op.gen
      /\ op'.todo = op.todo /\ op'.prev = op.prev
  BY <1>1, <1>2, OpStage
<1>4. Current' /\ NothingLeftBehind' /\ Supported'
  BY <1>1, <1>3 DEF Current, Writing, GraphicsInv, NothingLeftBehind, Supported
<1>5. EachKeyOnce(op.todo)'
  BY <1>1, <1>2, <1>3 DEF EachKeyOnce
<1>6. op.stage # "done" /\ op'.stage \in FrameStages \ {"flush"}
  BY <1>1, <1>3 DEF FrameStages
<1>7. QED
  BY <1>1, <1>2, <1>3, <1>4, <1>5, <1>6, RunningStep

\* The formula drawn next.
LEMMA FirstOfTodo ==
    ASSUME GraphicsInv, Emitting
    PROVE  /\ First \in op.todo /\ First \in Formulas /\ First.key \in FormulaKeys /\ First.reg # 0
           /\ First.reg <= rasters
           /\ Rest \subseteq op.todo /\ \A f \in Rest : f.key # First.key
<1> DEFINE ids == {f.reg : f \in op.todo}
<1>1. op.todo \subseteq Formulas /\ op.todo # {} /\ EachKeyOnce(op.todo)
  BY DEF GraphicsInv, RuntimeTyped, Older, Emitting
<1>2. ids \in SUBSET Nat /\ ids # {}
  BY <1>1 DEF Formulas
<1>3. \E m \in ids : \A i \in ids : m <= i
  BY <1>2, LeastElement
<1>4. \E f \in op.todo : \A g \in op.todo : f.reg <= g.reg
  BY <1>3
<1>5. First \in op.todo
  BY <1>4 DEF First
<1>6. First \in Formulas /\ First.key \in FormulaKeys
  BY <1>1, <1>5 DEF Formulas
<1>7. First.reg # 0 /\ First.reg <= rasters /\ \A f \in Rest : f.key # First.key
  BY <1>1, <1>5 DEF EachKeyOnce, Rest
<1>8. QED
  BY <1>5, <1>6, <1>7 DEF Rest

\* A formula of the frame that is not drawn: its source is shown, unless its image stays.
LEMMA NotDrawnStep ==
    ASSUME GraphicsInv, Emitting, Skip,
           UNCHANGED <<rasters, registrations, generation, snapshot, frames, instance,
                       pendingGenerations, disposed, protocol, placed, screen, writeBroken>>,
           \/ visible' = [visible EXCEPT ![First.key] = 0]
           \/ UNCHANGED <<visible, pendingCleanup>>,
           \/ UNCHANGED pendingCleanup
           \/ /\ op.prev[First.key] # None
              /\ pendingCleanup' = pendingCleanup \cup {op.prev[First.key]}
    PROVE  GraphicsInv'
<1>1. op.stage = "emit"
  BY DEF Emitting
<1>2. /\ Fields \subseteq DOMAIN op /\ op.todo \subseteq Formulas /\ EachKeyOnce(op.todo)
      /\ op.prev \in [FormulaKeys -> Places \cup {None}]
      /\ \A k \in FormulaKeys : op.prev[k] # None => op.prev[k].key = k /\ op.prev[k].gen < op.gen
      /\ placed \subseteq Places /\ pendingCleanup \subseteq Places /\ screen \subseteq Places
      /\ writeBroken \in BOOLEAN /\ visible \in [FormulaKeys -> 0..rasters]
      /\ rasters \in Nat /\ op.gen \in Nat
      /\ \A p \in placed \cup pendingCleanup :
           p.gen <= op.gen /\ \A f \in op.todo : p.key = f.key => p.gen < op.gen
  BY <1>1, RunningNow
<1>3. /\ First.key \in FormulaKeys /\ Rest \subseteq op.todo
      /\ \A f \in Rest : f.key # First.key
  BY FirstOfTodo
<1>4. op' = [op EXCEPT !.todo = Rest]
  BY DEF Skip
<1>5. /\ Fields \subseteq DOMAIN op' /\ op'.stage = "emit" /\ op'.gen = op.gen
      /\ op'.todo = Rest /\ op'.prev = op.prev
  BY <1>1, <1>2, <1>4 DEF Fields
<1>6. op'.todo \subseteq Formulas /\ EachKeyOnce(op.todo)'
  BY <1>2, <1>3, <1>5 DEF EachKeyOnce
<1>7. visible' \in [FormulaKeys -> 0..rasters]
  BY <1>2, <1>3
<1>8. pendingCleanup' \subseteq Places /\ pendingCleanup \subseteq pendingCleanup'
  BY <1>2, <1>3
<1>9. \A p \in pendingCleanup' \ pendingCleanup : p.key = First.key /\ p.gen < op.gen
  BY <1>2, <1>3
<1>10. ASSUME NEW p \in placed' \cup pendingCleanup'
       PROVE  p.gen <= op.gen /\ \A f \in op'.todo : p.key = f.key => p.gen < op.gen
  <2>1. CASE p \in placed \cup pendingCleanup
    BY <1>2, <1>3, <1>5, <2>1
  <2>2. CASE p \notin placed \cup pendingCleanup
    <3>1. p.gen < op.gen /\ p.gen \in Nat
      BY <1>8, <1>9, <1>10, <2>2 DEF Places
    <3>2. QED
      BY <1>2, <3>1
  <2>3. QED
    BY <2>1, <2>2
<1>11. Current' /\ NothingLeftBehind'
  BY <1>1, <1>5 DEF Current, Writing, GraphicsInv, NothingLeftBehind
<1>12. Supported'
  <2>1. SUFFICES ASSUME ~disposed, ~writeBroken, protocol = "kitty", NEW k \in FormulaKeys,
                        visible'[k] # 0
                 PROVE  \E p \in screen : /\ p.key = k /\ p.reg = visible'[k]
                                          /\ p \in pendingCleanup' => registrations[k] # visible'[k]
    BY <1>5 DEF Supported, Writing
  <2>2. visible'[k] = visible[k] /\ (k # First.key \/ UNCHANGED pendingCleanup)
    BY <1>2, <1>3, <2>1
  <2>3. PICK p \in screen : /\ p.key = k /\ p.reg = visible[k]
                            /\ p \in pendingCleanup => registrations[k] # visible[k]
    BY <2>1, <2>2 DEF GraphicsInv, Supported
  <2>4. p \in pendingCleanup' => p \in pendingCleanup
    BY <1>9, <2>2, <2>3
  <2>5. QED
    BY <2>2, <2>3, <2>4
<1>13. op.stage # "done" /\ op'.stage \in FrameStages \ {"flush"}
  BY <1>1, <1>5 DEF FrameStages
<1>14. op'.prev \in [FormulaKeys -> Places \cup {None}]
       /\ \A k \in FormulaKeys : op'.prev[k] # None => op'.prev[k].key = k /\ op'.prev[k].gen < op.gen
  BY <1>2, <1>5
<1>15. QED
  BY <1>2, <1>5, <1>6, <1>7, <1>8, <1>10, <1>11, <1>12, <1>13, <1>14, RunningStep

LEMMA NotDrawnKeeps == ASSUME GraphicsInv, EmitGone \/ EmitOver PROVE GraphicsInv'
<1>1. CASE EmitGone
  BY <1>1, NotDrawnStep DEF EmitGone, compVars, frameVars, hostVars, drawVars
<1>2. CASE EmitOver
  BY <1>2, NotDrawnStep DEF EmitOver, compVars, frameVars, hostVars
<1>3. QED
  BY <1>1, <1>2

\* What a write shows and what it erases.
LEMMA Replaces ==
    ASSUME screen \subseteq Places, NEW p \in Places, NEW previous \in Places \cup {None},
           previous # None => previous.gen < p.gen
    PROVE  /\ replacementSequence(screen, previous, p) \subseteq screen \cup {p}
           /\ p \in replacementSequence(screen, previous, p)
           /\ protocol = "kitty" => screen \subseteq replacementSequence(screen, previous, p)
           /\ protocol # "kitty" => previous \notin replacementSequence(screen, previous, p)
<1>1. previous # p
  <2>1. CASE previous = None
    BY <2>1, NoPlace
  <2>2. CASE previous # None
    BY <2>2 DEF Places
  <2>3. QED
    BY <2>1, <2>2
<1>2. previous = None => previous \notin screen
  BY NoPlace
<1>3. QED
  BY <1>1, <1>2 DEF replacementSequence

LEMMA EmitWriteKeeps == ASSUME GraphicsInv, EmitWrite PROVE GraphicsInv'
<1> DEFINE f == First
           p == [key |-> f.key, reg |-> f.reg, row |-> f.row, gen |-> op.gen]
           previous == op.prev[f.key]
           size == SequenceSize(op.prev[f.key])
<1>1. PICK s \in IF tailed \/ writeBroken THEN {"queued"} ELSE {"written", "blocked", "failed"} :
        /\ op' = [op EXCEPT !.todo = Rest, !.bytes = op.bytes + size, !.cur = p, !.stage = s]
        /\ screen' = IF s \in {"written", "blocked"}
                     THEN replacementSequence(screen, previous, p) ELSE screen
        /\ writeBroken' = (writeBroken \/ s = "failed")
        /\ placed' = placed \cup {p}
  BY DEF EmitWrite
<1>2. /\ op.stage = "emit" /\ ~disposed /\ op.gen = generation /\ Emitting
      /\ UNCHANGED <<rasters, registrations, generation, snapshot, frames, instance,
                     pendingGenerations, disposed, protocol, visible, pendingCleanup>>
      /\ registrations[f.key] = f.reg
  BY DEF EmitWrite, Emitting, compVars, frameVars, hostVars
<1>3. /\ Fields \subseteq DOMAIN op /\ op.todo \subseteq Formulas /\ EachKeyOnce(op.todo)
      /\ op.prev \in [FormulaKeys -> Places \cup {None}]
      /\ \A k \in FormulaKeys : op.prev[k] # None => op.prev[k].key = k /\ op.prev[k].gen < op.gen
      /\ placed \subseteq Places /\ pendingCleanup \subseteq Places /\ screen \subseteq Places
      /\ writeBroken \in BOOLEAN /\ visible \in [FormulaKeys -> 0..rasters]
      /\ rasters \in Nat /\ op.gen \in Nat
      /\ \A q \in placed \cup pendingCleanup :
           q.gen <= op.gen /\ \A g \in op.todo : q.key = g.key => q.gen < op.gen
  BY <1>2, RunningNow
<1>4. /\ f \in op.todo /\ f \in Formulas /\ f.key \in FormulaKeys /\ f.reg # 0 /\ f.reg <= rasters
      /\ Rest \subseteq op.todo /\ \A g \in Rest : g.key # f.key
  BY <1>2, FirstOfTodo
<1> HIDE DEF f, size
<1>5. p \in Places /\ p.gen = op.gen /\ p.key = f.key /\ p.reg = f.reg
  BY <1>3, <1>4 DEF Places, Formulas
<1>6. p \notin placed \cup pendingCleanup
  BY <1>3, <1>4, <1>5
<1> HIDE DEF p
<1>7. /\ Fields \subseteq DOMAIN op' /\ op'.stage = s /\ op'.gen = op.gen
      /\ op'.todo = Rest /\ op'.prev = op.prev /\ op'.cur = p
  BY <1>1, <1>3 DEF Fields
<1>8. s \in Writing /\ s \in FrameStages \ {"flush"} /\ s # "stale"
  BY <1>1 DEF Writing, FrameStages
<1>9. previous \in Places \cup {None} /\ (previous # None => previous.gen < p.gen)
  BY <1>3, <1>4, <1>5
<1> HIDE DEF previous
<1>10. /\ screen' \subseteq screen \cup {p}
       /\ s \in {"written", "blocked"} =>
             p \in screen' /\ (protocol # "kitty" => previous \notin screen')
       /\ s \notin {"written", "blocked"} => screen' = screen
       /\ protocol = "kitty" => screen \subseteq screen'
  BY <1>1, <1>3, <1>5, <1>9, Replaces
<1>11. ~writeBroken => p \notin screen
  BY <1>6 DEF GraphicsInv, NothingLeftBehind
<1>12. op'.todo \subseteq Formulas /\ EachKeyOnce(op.todo)'
  BY <1>2, <1>3, <1>4, <1>7 DEF EachKeyOnce
<1>13. \A q \in placed' \cup pendingCleanup' :
          q.gen <= op.gen /\ \A g \in op'.todo : q.key = g.key => q.gen < op.gen
  <2>1. \A q \in placed \cup pendingCleanup :
          q.gen <= op.gen /\ \A g \in op'.todo : q.key = g.key => q.gen < op.gen
    BY <1>3, <1>4, <1>7
  <2>2. p.gen <= op.gen /\ \A g \in op'.todo : p.key # g.key
    BY <1>3, <1>4, <1>5, <1>7
  <2>3. QED
    BY <1>1, <1>2, <2>1, <2>2
<1>14. Current'
  <2>1. op'.prev[op'.cur.key] = previous
    BY <1>5, <1>7 DEF previous
  <2>2. /\ p \in Places /\ p.gen = op'.gen /\ p.reg # 0 /\ p.reg <= rasters'
        /\ \A g \in op'.todo : g.key # p.key
        /\ p \in placed' /\ p \notin pendingCleanup'
    BY <1>1, <1>2, <1>4, <1>5, <1>6, <1>7
  <2>3. s = "failed" => writeBroken'
    BY <1>1
  <2>4. ~writeBroken' /\ s = "queued" => p \notin screen'
    BY <1>1, <1>10, <1>11
  <2>5. s \in {"blocked", "written"} => p \in screen' /\ (protocol' # "kitty" => previous \notin screen')
    BY <1>2, <1>10
  <2>6. QED
    BY <1>7, <1>8, <2>1, <2>2, <2>3, <2>4, <2>5 DEF Current
<1>15. Supported'
  <2>1. SUFFICES ASSUME ~writeBroken', protocol = "kitty", NEW k \in FormulaKeys, visible[k] # 0
                 PROVE  \E q \in screen' :
                          /\ q.key = k /\ q.reg = visible[k]
                          /\ q \in pendingCleanup => registrations[k] # visible[k]
                          /\ q # p
    BY <1>2, <1>7 DEF Supported
  <2>2. ~writeBroken
    BY <1>1, <2>1
  <2>3. PICK q \in screen : /\ q.key = k /\ q.reg = visible[k]
                            /\ q \in pendingCleanup => registrations[k] # visible[k]
    BY <1>2, <2>1, <2>2 DEF GraphicsInv, Supported
  <2>4. QED
    BY <1>10, <1>11, <2>1, <2>2, <2>3
<1>16. NothingLeftBehind'
  BY <1>1, <1>2, <1>10 DEF GraphicsInv, NothingLeftBehind
<1>17. placed' \subseteq Places /\ screen' \subseteq Places /\ pendingCleanup' \subseteq Places
       /\ writeBroken' \in BOOLEAN
  BY <1>1, <1>2, <1>3, <1>5, <1>10
<1>18. op.stage # "done" /\ op'.stage \in FrameStages \ {"flush"}
  BY <1>2, <1>7, <1>8
<1>19. visible' \in [FormulaKeys -> 0..rasters]
  BY <1>2, <1>3
<1>20. /\ op'.prev \in [FormulaKeys -> Places \cup {None}]
       /\ \A k \in FormulaKeys : op'.prev[k] # None => op'.prev[k].key = k /\ op'.prev[k].gen < op.gen
  BY <1>3, <1>7
<1>21. QED
  BY <1>2, <1>7, <1>12, <1>13, <1>14, <1>15, <1>16, <1>17, <1>18, <1>19, <1>20, RunningStep

\* The image being written, in the form the steps of its write use it.
LEMMA CurrentNow ==
    ASSUME GraphicsInv, op.stage \in Writing
    PROVE  /\ op.cur \in Places /\ op.cur.key \in FormulaKeys /\ op.cur.reg \in 0..rasters
           /\ op.cur.reg # 0 /\ op.cur.gen = op.gen
           /\ op.prev[op.cur.key] \in Places \cup {None}
           /\ op.prev[op.cur.key] # None =>
                  op.prev[op.cur.key].key = op.cur.key /\ op.prev[op.cur.key].gen < op.cur.gen
           /\ op.cur # op.prev[op.cur.key]
           /\ \A f \in op.todo : f.key # op.cur.key
<1>1. op.cur \in Places /\ op.cur.gen = op.gen /\ op.cur.reg # 0 /\ op.cur.reg <= rasters
      /\ \A f \in op.todo : f.key # op.cur.key
  BY DEF GraphicsInv, Current
<1>2. op.cur.key \in FormulaKeys /\ op.cur.reg \in Nat /\ rasters \in Nat /\ op.gen \in Nat
  BY <1>1 DEF Places, GraphicsInv, RuntimeTyped
<1>3. /\ op.prev[op.cur.key] \in Places \cup {None}
      /\ op.prev[op.cur.key] # None =>
                  op.prev[op.cur.key].key = op.cur.key /\ op.prev[op.cur.key].gen < op.cur.gen
  BY <1>1, <1>2 DEF GraphicsInv, RuntimeTyped, Older
<1>4. op.cur # op.prev[op.cur.key]
  BY <1>1, <1>2, <1>3, NoPlace
<1>5. QED
  BY <1>1, <1>2, <1>3, <1>4

\* A step of the write: nothing is listed that was not, except the image written and what it
\* replaces.
LEMMA WriteStep ==
    ASSUME GraphicsInv, op.stage \in Writing, NEW s \in FrameStages \ {"flush"},
           op' = [op EXCEPT !.stage = s],
           UNCHANGED <<rasters, registrations, generation, snapshot, frames, instance,
                       pendingGenerations, disposed, protocol>>,
           visible' \in [FormulaKeys -> 0..rasters], writeBroken' \in BOOLEAN,
           placed' \subseteq placed, screen' \subseteq screen \cup {op.cur},
           pendingCleanup' \subseteq
               pendingCleanup \cup placed \cup {op.cur} \cup ({op.prev[op.cur.key]} \ {None}),
           Current', Supported', NothingLeftBehind'
    PROVE  GraphicsInv'
<1>1. /\ Fields \subseteq DOMAIN op /\ op.todo \subseteq Formulas /\ EachKeyOnce(op.todo)
      /\ op.prev \in [FormulaKeys -> Places \cup {None}]
      /\ \A k \in FormulaKeys : op.prev[k] # None => op.prev[k].key = k /\ op.prev[k].gen < op.gen
      /\ placed \subseteq Places /\ pendingCleanup \subseteq Places /\ screen \subseteq Places
      /\ op.gen \in Nat
      /\ \A q \in placed \cup pendingCleanup :
           q.gen <= op.gen /\ \A g \in op.todo : q.key = g.key => q.gen < op.gen
  BY RunningNow DEF Writing
<1>2. /\ op.cur \in Places /\ op.cur.gen = op.gen
      /\ op.prev[op.cur.key] \in Places \cup {None}
      /\ op.prev[op.cur.key] # None => op.prev[op.cur.key].gen < op.gen
      /\ \A g \in op.todo : g.key # op.cur.key
  BY CurrentNow
<1>3. /\ Fields \subseteq DOMAIN op' /\ op'.stage = s /\ op'.gen = op.gen
      /\ op'.todo = op.todo /\ op'.prev = op.prev
  BY <1>1, OpStage
<1>4. ASSUME NEW q \in placed' \cup pendingCleanup'
      PROVE  q.gen <= op.gen /\ \A g \in op'.todo : q.key = g.key => q.gen < op.gen
  <2>1. CASE q \in placed \cup pendingCleanup
    BY <1>1, <1>3, <2>1
  <2>2. CASE q = op.cur
    BY <1>1, <1>2, <1>3, <2>2
  <2>3. CASE q = op.prev[op.cur.key] /\ q # None
    <3>1. q.gen < op.gen /\ q.gen \in Nat
      BY <1>2, <2>3 DEF Places
    <3>2. QED
      BY <1>1, <3>1
  <2>4. QED
    BY <2>1, <2>2, <2>3
<1>5. EachKeyOnce(op.todo)'
  BY <1>1, <1>3 DEF EachKeyOnce
<1>6. placed' \subseteq Places /\ screen' \subseteq Places /\ pendingCleanup' \subseteq Places
  BY <1>1, <1>2
<1>7. op.stage # "done" /\ op'.stage \in FrameStages \ {"flush"}
  BY <1>3 DEF Writing
<1>8. /\ op'.prev \in [FormulaKeys -> Places \cup {None}] /\ op'.todo \subseteq Formulas
      /\ \A k \in FormulaKeys : op'.prev[k] # None => op'.prev[k].key = k /\ op'.prev[k].gen < op.gen
  BY <1>1, <1>3
<1>9. QED
  BY <1>3, <1>4, <1>5, <1>6, <1>7, <1>8, RunningStep

\* The write begins, ends or is given up; the image of the frame is still the current one.
LEMMA StillWriting ==
    ASSUME GraphicsInv, op.stage \in Writing, NEW s \in Writing, op' = [op EXCEPT !.stage = s],
           UNCHANGED <<rasters, registrations, generation, snapshot, frames, instance, visible,
                       pendingGenerations, disposed, protocol, placed, pendingCleanup>>,
           writeBroken' \in BOOLEAN, writeBroken => writeBroken', s = "failed" => writeBroken',
           screen' \subseteq screen \cup {op.cur}, protocol = "kitty" => screen \subseteq screen',
           disposed => screen' = screen,
           ~writeBroken' /\ s \in {"queued", "stale"} => op.cur \notin screen',
           ~writeBroken' /\ ~disposed /\ s \in {"blocked", "written"} =>
               op.cur \in screen' /\ (protocol # "kitty" => op.prev[op.cur.key] \notin screen')
    PROVE  GraphicsInv'
<1>1. Fields \subseteq DOMAIN op /\ visible \in [FormulaKeys -> 0..rasters]
  BY RunningNow DEF Writing
<1>2. /\ op'.stage = s /\ op'.gen = op.gen /\ op'.todo = op.todo /\ op'.prev = op.prev
      /\ op'.cur = op.cur
  BY <1>1, OpStage
<1>3. Current'
  BY <1>2 DEF GraphicsInv, Current
<1>4. Supported'
  <2>1. SUFFICES ASSUME ~disposed, ~writeBroken, protocol = "kitty", NEW k \in FormulaKeys,
                        visible[k] # 0
                 PROVE  \E q \in screen' :
                          /\ q.key = k /\ q.reg = visible[k]
                          /\ q \in pendingCleanup => registrations[k] # visible[k]
                          /\ q # op.cur
    BY <1>2 DEF Supported
  <2>2. QED
    BY <2>1 DEF GraphicsInv, Supported
<1>5. NothingLeftBehind'
  BY DEF GraphicsInv, NothingLeftBehind, Current
<1>6. s \in FrameStages \ {"flush"}
  BY DEF Writing, FrameStages
<1>7. QED
  BY <1>1, <1>3, <1>4, <1>5, <1>6, WriteStep

LEMMA PerformWriteKeeps == ASSUME GraphicsInv, PerformWrite PROVE GraphicsInv'
<1>1. PICK s \in IF disposed \/ writeBroken THEN {"failed"}
                 ELSE IF op.gen # generation THEN {"stale"} ELSE {"written", "blocked", "failed"} :
        /\ op' = [op EXCEPT !.stage = s]
        /\ screen' = IF s \in {"written", "blocked"}
                     THEN replacementSequence(screen, op.prev[op.cur.key], op.cur) ELSE screen
        /\ writeBroken' = (writeBroken \/ s = "failed")
  BY DEF PerformWrite
<1>2. /\ op.stage = "queued" /\ op.stage \in Writing
      /\ UNCHANGED <<rasters, registrations, generation, snapshot, frames, instance, visible,
                     pendingGenerations, disposed, protocol, placed, pendingCleanup>>
  BY DEF PerformWrite, compVars, frameVars, hostVars, Writing
<1>3. s \in Writing /\ s # "queued"
  BY <1>1 DEF Writing
<1>4. /\ op.cur \in Places /\ op.prev[op.cur.key] \in Places \cup {None}
      /\ op.prev[op.cur.key] # None => op.prev[op.cur.key].gen < op.cur.gen
      /\ screen \subseteq Places
  BY <1>2, CurrentNow DEF GraphicsInv, RuntimeTyped
<1>5. /\ screen' \subseteq screen \cup {op.cur} /\ (protocol = "kitty" => screen \subseteq screen')
      /\ s \in {"written", "blocked"} =>
            op.cur \in screen' /\ (protocol # "kitty" => op.prev[op.cur.key] \notin screen')
      /\ s \notin {"written", "blocked"} => screen' = screen
  BY <1>1, <1>4, Replaces
<1>6. writeBroken' \in BOOLEAN /\ (writeBroken => writeBroken') /\ (s = "failed" => writeBroken')
  BY <1>1 DEF GraphicsInv, RuntimeTyped
<1>7. disposed => s = "failed"
  BY <1>1
<1>8. ~writeBroken' /\ s = "stale" => op.cur \notin screen'
  BY <1>2, <1>5, <1>6 DEF GraphicsInv, Current
<1>9. QED
  BY <1>1, <1>2, <1>3, <1>5, <1>6, <1>7, <1>8, StillWriting

LEMMA DrainKeeps == ASSUME GraphicsInv, Drained \/ StreamError PROVE GraphicsInv'
<1>1. writeBroken \in BOOLEAN
  BY DEF GraphicsInv, RuntimeTyped
<1>2. CASE Drained
  <2>1. /\ op.stage = "blocked" /\ op.stage \in Writing /\ "written" \in Writing
        /\ op' = [op EXCEPT !.stage = "written"]
        /\ UNCHANGED <<rasters, registrations, generation, snapshot, frames, instance, visible,
                       pendingGenerations, disposed, protocol, placed, pendingCleanup, screen,
                       writeBroken>>
    BY <1>2 DEF Drained, compVars, frameVars, hostVars, drawVars, Writing
  <2>2. ~writeBroken /\ ~disposed =>
            op.cur \in screen /\ (protocol # "kitty" => op.prev[op.cur.key] \notin screen)
    BY <2>1 DEF GraphicsInv, Current
  <2>3. QED
    BY <1>1, <2>1, <2>2, StillWriting
<1>3. CASE StreamError
  <2>1. /\ op.stage = "blocked" /\ op.stage \in Writing /\ "failed" \in Writing
        /\ op' = [op EXCEPT !.stage = "failed"] /\ writeBroken'
        /\ writeBroken' \in BOOLEAN
        /\ UNCHANGED <<rasters, registrations, generation, snapshot, frames, instance, visible,
                       pendingGenerations, disposed, protocol, placed, pendingCleanup, screen>>
    BY <1>3 DEF StreamError, compVars, frameVars, hostVars, Writing
  <2>2. QED
    BY <2>1, StillWriting
<1>4. QED
  BY <1>2, <1>3

LEMMA ResumeStaleKeeps == ASSUME GraphicsInv, ResumeStale PROVE GraphicsInv'
<1>1. /\ op.stage = "stale" /\ op.stage \in Writing /\ op' = [op EXCEPT !.stage = "emit"]
      /\ placed' = placed \ {op.cur} /\ pendingCleanup' = pendingCleanup \ {op.cur}
      /\ UNCHANGED <<rasters, registrations, generation, snapshot, frames, instance, visible,
                     pendingGenerations, disposed, protocol, screen, writeBroken>>
  BY DEF ResumeStale, compVars, frameVars, hostVars, Writing
<1>2. /\ Fields \subseteq DOMAIN op /\ visible \in [FormulaKeys -> 0..rasters]
      /\ writeBroken \in BOOLEAN
  BY <1>1, RunningNow
<1>3. op'.stage = "emit"
  BY <1>1, <1>2, OpStage
<1>4. Current'
  BY <1>3 DEF Current, Writing
<1>5. Supported'
  <2>1. SUFFICES ASSUME ~disposed, ~writeBroken, protocol = "kitty", NEW k \in FormulaKeys,
                        visible[k] # 0
                 PROVE  \E q \in screen :
                          /\ q.key = k /\ q.reg = visible[k]
                          /\ q \in pendingCleanup' => registrations[k] # visible[k]
    BY <1>1, <1>3 DEF Supported, Writing
  <2>2. QED
    BY <1>1, <2>1 DEF GraphicsInv, Supported
<1>6. NothingLeftBehind'
  BY <1>1 DEF GraphicsInv, NothingLeftBehind, Current
<1>7. "emit" \in FrameStages \ {"flush"}
  BY DEF FrameStages
<1>8. QED
  BY <1>1, <1>2, <1>4, <1>5, <1>6, <1>7, WriteStep

LEMMA ResumeFailedKeeps == ASSUME GraphicsInv, ResumeFailed PROVE GraphicsInv'
<1> DEFINE previous == op.prev[op.cur.key]
           mine == IF disposed \/ op.gen # generation \/ snapshot.gen # op.gen THEN {}
                   ELSE {f.key : f \in snapshot.formulas}
<1>1. /\ op.stage = "failed" /\ op.stage \in Writing /\ op' = [op EXCEPT !.stage = "done"]
      /\ placed' = placed \ {op.cur}
      /\ visible' = [k \in FormulaKeys |-> IF k \in mine THEN 0 ELSE visible[k]]
      /\ pendingCleanup' = (pendingCleanup \ {op.cur})
                             \cup (IF previous = None THEN {} ELSE {previous})
                             \cup {p \in placed' : p.key \in mine}
      /\ UNCHANGED <<rasters, registrations, generation, snapshot, frames, instance,
                     pendingGenerations, disposed, protocol, screen, writeBroken>>
  BY DEF ResumeFailed, compVars, frameVars, hostVars, Writing
<1> HIDE DEF mine
<1>2. /\ Fields \subseteq DOMAIN op /\ visible \in [FormulaKeys -> 0..rasters]
      /\ writeBroken \in BOOLEAN /\ rasters \in Nat
  BY <1>1, RunningNow
<1>3. op'.stage = "done"
  BY <1>1, <1>2, OpStage
<1>4. writeBroken'
  BY <1>1 DEF GraphicsInv, Current
<1>5. Current' /\ Supported' /\ NothingLeftBehind'
  BY <1>3, <1>4 DEF Current, Writing, Supported, NothingLeftBehind
<1>6. visible' \in [FormulaKeys -> 0..rasters]
  <2>1. \A k \in FormulaKeys : (IF k \in mine THEN 0 ELSE visible[k]) \in 0..rasters
    BY <1>2
  <2>2. QED
    BY <1>1, <2>1
<1>7. pendingCleanup' \subseteq
          pendingCleanup \cup placed \cup {op.cur} \cup ({op.prev[op.cur.key]} \ {None})
  BY <1>1
<1>8. "done" \in FrameStages \ {"flush"}
  BY DEF FrameStages
<1>9. placed' \subseteq placed /\ screen' \subseteq screen \cup {op.cur} /\ writeBroken' \in BOOLEAN
  BY <1>1, <1>2
<1>10. QED
  BY <1>1, <1>5, <1>6, <1>7, <1>8, <1>9, WriteStep

LEMMA ResumeSupersededKeeps == ASSUME GraphicsInv, ResumeSuperseded PROVE GraphicsInv'
<1>1. /\ op.stage = "written" /\ op.stage \in Writing /\ op' = [op EXCEPT !.stage = "done"]
      /\ pendingCleanup' = pendingCleanup \cup {op.cur}
      /\ UNCHANGED <<rasters, registrations, generation, snapshot, frames, instance, visible,
                     pendingGenerations, disposed, protocol, placed, screen, writeBroken>>
  BY DEF ResumeSuperseded, compVars, frameVars, hostVars, Writing
<1>2. /\ Fields \subseteq DOMAIN op /\ visible \in [FormulaKeys -> 0..rasters]
      /\ writeBroken \in BOOLEAN
  BY <1>1, RunningNow
<1>3. op'.stage = "done"
  BY <1>1, <1>2, OpStage
<1>4. Current' /\ NothingLeftBehind'
  BY <1>1, <1>3 DEF Current, Writing, GraphicsInv, NothingLeftBehind
<1>5. Supported'
  <2>1. SUFFICES ASSUME ~disposed, ~writeBroken, protocol = "kitty", NEW k \in FormulaKeys,
                        visible[k] # 0
                 PROVE  \E q \in screen :
                          /\ q.key = k /\ q.reg = visible[k]
                          /\ q \in pendingCleanup' => registrations[k] # visible[k]
    BY <1>1, <1>3 DEF Supported, Writing
  <2>2. PICK q \in screen : /\ q.key = k /\ q.reg = visible[k] /\ q # op.cur
                            /\ q \in pendingCleanup => registrations[k] # visible[k]
    BY <1>1, <2>1 DEF GraphicsInv, Supported
  <2>3. QED
    BY <1>1, <2>2
<1>6. "done" \in FrameStages \ {"flush"}
  BY DEF FrameStages
<1>7. QED
  BY <1>1, <1>2, <1>4, <1>5, <1>6, WriteStep

LEMMA ResumeWrittenKeeps == ASSUME GraphicsInv, ResumeWritten PROVE GraphicsInv'
<1> DEFINE previous == op.prev[op.cur.key]
           deletes == previous # None /\ protocol = "kitty" /\ ~writeBroken
<1>1. PICK fails \in IF deletes THEN BOOLEAN ELSE {FALSE} :
        /\ screen' = IF deletes /\ ~fails THEN screen \ {previous} ELSE screen
        /\ writeBroken' = (writeBroken \/ fails)
        /\ placed' = placed \ {previous}
        /\ pendingCleanup' = pendingCleanup \ {previous}
  BY DEF ResumeWritten
<1>2. /\ op.stage = "written" /\ op.stage \in Writing /\ ~disposed /\ op.gen = generation
      /\ op' = [op EXCEPT !.stage = "emit"]
      /\ visible' = [visible EXCEPT ![op.cur.key] = op.cur.reg]
      /\ UNCHANGED <<rasters, registrations, generation, snapshot, frames, instance,
                     pendingGenerations, disposed, protocol>>
  BY DEF ResumeWritten, compVars, frameVars, hostVars, Writing
<1>3. /\ Fields \subseteq DOMAIN op /\ visible \in [FormulaKeys -> 0..rasters]
      /\ writeBroken \in BOOLEAN /\ screen \subseteq Places
  BY <1>2, RunningNow
<1>4. op'.stage = "emit"
  BY <1>2, <1>3, OpStage
<1>5. /\ op.cur.key \in FormulaKeys /\ op.cur.reg \in 0..rasters /\ op.cur # previous
      /\ previous # None => previous.key = op.cur.key
  BY <1>2, CurrentNow
<1>6. Current'
  BY <1>4 DEF Current, Writing
<1>7. ~writeBroken =>
        /\ op.cur \in screen /\ (protocol # "kitty" => previous \notin screen)
        /\ registrations[op.cur.key] = op.cur.reg => op.cur \notin pendingCleanup
  BY <1>2 DEF GraphicsInv, Current
<1>8. visible' \in [FormulaKeys -> 0..rasters]
  BY <1>2, <1>3, <1>5
<1>9. writeBroken' \in BOOLEAN /\ (~writeBroken' => ~writeBroken /\ ~fails)
  BY <1>1, <1>3
<1>10. Supported'
  <2>1. SUFFICES ASSUME ~writeBroken', protocol = "kitty", NEW k \in FormulaKeys, visible'[k] # 0
                 PROVE  \E q \in screen' :
                          /\ q.key = k /\ q.reg = visible'[k]
                          /\ q \in pendingCleanup' => registrations[k] # visible'[k]
    BY <1>2, <1>4 DEF Supported, Writing
  <2>2. CASE k = op.cur.key
    <3>1. visible'[k] = op.cur.reg
      BY <1>2, <1>3, <2>2
    <3>2. op.cur \in screen'
      BY <1>1, <1>5, <1>7, <1>9, <2>1
    <3>3. QED
      BY <1>1, <1>7, <1>9, <2>1, <2>2, <3>1, <3>2
  <2>3. CASE k # op.cur.key
    <3>1. visible'[k] = visible[k]
      BY <1>2, <1>3, <2>3
    <3>2. PICK q \in screen : /\ q.key = k /\ q.reg = visible[k]
                              /\ q \in pendingCleanup => registrations[k] # visible[k]
      BY <1>2, <1>9, <2>1, <3>1 DEF GraphicsInv, Supported
    <3>3. q # previous
      BY <1>3, <1>5, <2>3, <3>2, NoPlace
    <3>4. QED
      BY <1>1, <3>1, <3>2, <3>3
  <2>4. QED
    BY <2>2, <2>3
<1>11. NothingLeftBehind'
  <2>1. ASSUME ~writeBroken' PROVE screen' \subseteq placed'
    <3>1. screen \subseteq placed
      BY <1>9, <2>1 DEF GraphicsInv, NothingLeftBehind
    <3>2. previous \notin screen'
      BY <1>1, <1>3, <1>7, <1>9, <2>1, NoPlace
    <3>3. QED
      BY <1>1, <3>1, <3>2
  <2>2. QED
    BY <1>2, <2>1 DEF NothingLeftBehind
<1>12. "emit" \in FrameStages \ {"flush"}
  BY DEF FrameStages
<1>13. /\ placed' \subseteq placed /\ screen' \subseteq screen \cup {op.cur}
       /\ pendingCleanup' \subseteq
            pendingCleanup \cup placed \cup {op.cur} \cup ({op.prev[op.cur.key]} \ {None})
  BY <1>1
<1>14. QED
  BY <1>2, <1>6, <1>8, <1>9, <1>10, <1>11, <1>12, <1>13, WriteStep

\* The frames of the mount are picked up: nothing was drawn before.
LEMMA MountedKeeps == ASSUME GraphicsInv, Mounted PROVE GraphicsInv'
<1>1. /\ ~instance /\ instance' = TRUE /\ pendingGenerations' = <<>>
      /\ frames' = frames \o pendingGenerations
      /\ op' = IF frames = <<>> /\ pendingGenerations # <<>>
               THEN [Resting EXCEPT !.gen = Head(pendingGenerations), !.stage = "flush"] ELSE op
      /\ UNCHANGED <<rasters, registrations, generation, snapshot, visible, placed, pendingCleanup,
                     screen, writeBroken, disposed, protocol>>
  BY DEF Mounted, afterFrame, compVars, drawVars
<1>2. /\ frames = <<>> /\ placed = {} /\ pendingCleanup = {} /\ op.stage = "done"
      /\ InOrder(pendingGenerations, generation) /\ pendingGenerations \in Seq(Nat)
  BY <1>1 DEF GraphicsInv, FramesWait, RuntimeTyped
<1>3. frames' = pendingGenerations
  BY <1>1, <1>2
<1> DEFINE fresh == [Resting EXCEPT !.gen = Head(pendingGenerations), !.stage = "flush"]
<1>4. /\ Fields \subseteq DOMAIN fresh /\ fresh.gen = Head(pendingGenerations)
      /\ fresh.stage = "flush" /\ fresh.todo = {} /\ fresh.prev = [k \in FormulaKeys |-> None]
  BY DEF Resting, Fields
<1> HIDE DEF fresh
<1>5. IF pendingGenerations # <<>> THEN op' = fresh ELSE op' = op
  BY <1>1, <1>2 DEF fresh
<1>6. pendingGenerations # <<>> =>
          Head(pendingGenerations) = pendingGenerations[1] /\ pendingGenerations[1] \in Nat
  BY <1>2
<1>7. op'.stage \notin Writing
  BY <1>2, <1>4, <1>5 DEF Writing
<1>8. RuntimeTyped'
  <2>1. /\ Fields \subseteq DOMAIN op' /\ op'.gen \in Nat /\ op'.stage \in FrameStages
        /\ op'.todo \subseteq Formulas /\ op'.prev \in [FormulaKeys -> Places \cup {None}]
    BY <1>4, <1>5, <1>6 DEF GraphicsInv, RuntimeTyped, FrameStages
  <2>2. frames' \in Seq(Nat) /\ pendingGenerations' \in Seq(Nat) /\ instance' \in BOOLEAN
    BY <1>1, <1>2, <1>3
  <2>3. QED
    BY <1>1, <2>1, <2>2 DEF GraphicsInv, RuntimeTyped
<1>9. FramesWait'
  <2>1. InOrder(frames', generation') /\ InOrder(pendingGenerations', generation')
    BY <1>1, <1>2, <1>3 DEF InOrder
  <2>2. IF frames' = <<>> THEN op'.stage = "done" ELSE op'.gen = frames'[1]
    BY <1>2, <1>3, <1>4, <1>5, <1>6
  <2>3. QED
    BY <1>1, <2>1, <2>2 DEF FramesWait
<1>10. Older'
  <2>1. EachKeyOnce(op.todo)' /\ EachKeyOnce(snapshot.formulas)'
    BY <1>1, <1>4, <1>5 DEF GraphicsInv, Older, EachKeyOnce
  <2>2. \A k \in FormulaKeys : op'.prev[k] # None => op'.prev[k].key = k /\ op'.prev[k].gen < op'.gen
    BY <1>4, <1>5 DEF GraphicsInv, Older
  <2>3. QED
    BY <1>1, <1>2, <2>1, <2>2 DEF Older
<1>11. Current'
  BY <1>7 DEF Current
<1>12. Supported'
  BY <1>1, <1>7 DEF GraphicsInv, Supported
<1>13. NothingLeftBehind'
  BY <1>1 DEF GraphicsInv, NothingLeftBehind
<1>14. QED
  BY <1>8, <1>9, <1>10, <1>11, <1>12, <1>13 DEF GraphicsInv

\* The next frame on the tail is newer than everything that was placed.
LEMMA FrameEndsKeeps == ASSUME GraphicsInv, FrameEnds PROVE GraphicsInv'
<1> DEFINE rest == Tail(frames)
           fresh == [Resting EXCEPT !.gen = Head(rest), !.stage = "flush"]
<1>1. /\ op.stage = "done" /\ frames # <<>> /\ frames' = rest
      /\ IF rest = <<>> THEN op' = Resting ELSE op' = fresh
      /\ UNCHANGED <<rasters, registrations, generation, snapshot, visible, placed, pendingCleanup,
                     screen, writeBroken, disposed, protocol, instance, pendingGenerations>>
  BY DEF FrameEnds, compVars, drawVars, hostVars
<1>2. /\ frames \in Seq(Nat) /\ InOrder(frames, generation) /\ op.gen = frames[1] /\ instance
      /\ generation \in Nat /\ pendingGenerations = <<>>
  BY <1>1 DEF GraphicsInv, FramesWait, RuntimeTyped
<1>3. /\ rest \in Seq(Nat) /\ Len(rest) = Len(frames) - 1 /\ Len(frames) \in Nat /\ Len(frames) >= 1
      /\ \A i \in 1..Len(rest) : rest[i] = frames[i + 1]
  BY <1>1, <1>2
<1>4. rest # <<>> => /\ Head(rest) = rest[1] /\ rest[1] \in Nat /\ 1 \in 1..Len(rest)
                     /\ rest[1] = frames[2] /\ 2 \in 1..Len(frames) /\ 1 \in 1..Len(frames)
  BY <1>3
<1>5. rest # <<>> => op.gen < rest[1]
  BY <1>2, <1>4 DEF InOrder
<1>6. InOrder(rest, generation)
  <2>1. \A i \in 1..Len(rest) : i \in 1..Len(frames) /\ i + 1 \in 1..Len(frames)
    BY <1>3
  <2>2. \A i \in 1..Len(rest) : rest[i] <= generation
    BY <1>2, <1>3, <2>1 DEF InOrder
  <2>3. ASSUME NEW i \in 1..Len(rest), NEW j \in 1..Len(rest), i < j PROVE rest[i] < rest[j]
    <3>1. i + 1 < j + 1
      BY <1>3, <2>3
    <3>2. frames[i + 1] < frames[j + 1]
      BY <1>2, <2>1, <3>1 DEF InOrder
    <3>3. QED
      BY <1>3, <3>2
  <2>4. QED
    BY <2>2, <2>3 DEF InOrder
<1>7. /\ Fields \subseteq DOMAIN fresh /\ fresh.gen = Head(rest) /\ fresh.stage = "flush"
      /\ fresh.todo = {} /\ fresh.prev = [k \in FormulaKeys |-> None]
  BY DEF Resting, Fields
<1>8. /\ Fields \subseteq DOMAIN Resting /\ Resting.gen = 0 /\ Resting.stage = "done"
      /\ Resting.todo = {} /\ Resting.prev = [k \in FormulaKeys |-> None]
  BY DEF Resting, Fields
<1> HIDE DEF rest, fresh
<1>9. op'.stage \notin Writing /\ op'.todo = {} /\ op'.prev = [k \in FormulaKeys |-> None]
  BY <1>1, <1>7, <1>8 DEF Writing
<1>10. RuntimeTyped'
  <2>1. /\ Fields \subseteq DOMAIN op' /\ op'.gen \in Nat /\ op'.stage \in FrameStages
        /\ op'.todo \subseteq Formulas /\ op'.prev \in [FormulaKeys -> Places \cup {None}]
    BY <1>1, <1>4, <1>7, <1>8 DEF FrameStages
  <2>2. QED
    BY <1>1, <1>3, <2>1 DEF GraphicsInv, RuntimeTyped
<1>11. FramesWait'
  <2>1. IF frames' = <<>> THEN op'.stage = "done" ELSE op'.gen = frames'[1]
    BY <1>1, <1>4, <1>7, <1>8
  <2>2. InOrder(frames', generation') /\ InOrder(pendingGenerations', generation')
    BY <1>1, <1>2, <1>6 DEF InOrder
  <2>3. QED
    BY <1>1, <1>2, <2>1, <2>2 DEF FramesWait
<1>12. Older'
  <2>1. EachKeyOnce(op.todo)' /\ EachKeyOnce(snapshot.formulas)'
    BY <1>1, <1>9 DEF GraphicsInv, Older, EachKeyOnce
  <2>2. ASSUME NEW p \in placed \cup pendingCleanup, rest # <<>>
        PROVE  p.gen <= op'.gen /\ p.gen < op'.gen
    <3>1. p.gen <= op.gen /\ p.gen \in Nat /\ op.gen \in Nat
      BY <1>1 DEF GraphicsInv, Older, RuntimeTyped, Places
    <3>2. op'.gen = rest[1] /\ rest[1] \in Nat
      BY <1>1, <1>4, <1>7, <2>2
    <3>3. QED
      BY <1>5, <2>2, <3>1, <3>2
  <2>3. QED
    BY <1>1, <1>9, <2>1, <2>2 DEF GraphicsInv, Older
<1>13. Current' /\ Supported' /\ NothingLeftBehind'
  BY <1>1, <1>9 DEF GraphicsInv, Current, Supported, NothingLeftBehind
<1>14. QED
  BY <1>10, <1>11, <1>12, <1>13 DEF GraphicsInv

\* dispose clears everything that is listed, and everything that is shown is.
LEMMA DisposeKeeps == ASSUME GraphicsInv, Dispose PROVE GraphicsInv'
<1>1. /\ generation' = generation + 1 /\ snapshot' = NoSnapshot /\ disposed'
      /\ registrations' = [k \in FormulaKeys |-> 0] /\ visible' = [k \in FormulaKeys |-> 0]
      /\ pendingCleanup' = {} /\ disposed' = TRUE
      /\ UNCHANGED <<protocol, rasters, frames, op, instance, pendingGenerations>>
  BY DEF Dispose, hostVars
<1>2. /\ placed \subseteq Places /\ screen \subseteq Places /\ generation \in Nat /\ rasters \in Nat
      /\ writeBroken \in BOOLEAN /\ frames \in Seq(Nat) /\ pendingGenerations \in Seq(Nat)
  BY DEF GraphicsInv, RuntimeTyped
<1>3. /\ placed' \subseteq placed /\ screen' \subseteq screen /\ writeBroken' \in BOOLEAN
      /\ writeBroken => writeBroken'
      /\ ~writeBroken' => screen' = EraseAll(screen, placed)
  <2>1. EraseAll(screen, placed) \subseteq screen
    BY DEF EraseAll
  <2>2. QED
    BY <1>2, <2>1 DEF Dispose
<1>4. RuntimeTyped'
  BY <1>1, <1>2, <1>3 DEF GraphicsInv, RuntimeTyped, NoSnapshot
<1>5. FramesWait'
  <2>1. \A gens \in {frames, pendingGenerations} : InOrder(gens, generation')
    BY <1>1, <1>2, FrameJoins DEF GraphicsInv, FramesWait
  <2>2. QED
    BY <1>1, <1>3, <2>1 DEF GraphicsInv, FramesWait
<1>6. Older'
  <2>1. EachKeyOnce(op.todo)' /\ EachKeyOnce(snapshot.formulas)'
    BY <1>1 DEF GraphicsInv, Older, EachKeyOnce, NoSnapshot
  <2>2. \A p \in placed : p.gen \in Nat /\ p.gen <= generation
    BY <1>2 DEF GraphicsInv, Older, Places
  <2>3. QED
    BY <1>1, <1>2, <1>3, <2>1, <2>2 DEF GraphicsInv, Older
<1>7. Current'
  BY <1>1, <1>3 DEF GraphicsInv, Current
<1>8. Supported'
  BY <1>1 DEF Supported
<1>9. NothingLeftBehind'
  <2>1. ASSUME ~writeBroken' PROVE screen' = {}
    <3>1. screen \subseteq placed
      BY <1>3, <2>1 DEF GraphicsInv, NothingLeftBehind
    <3>2. QED
      BY <1>3, <2>1, <3>1 DEF EraseAll
  <2>2. QED
    BY <2>1 DEF NothingLeftBehind
<1>10. QED
  BY <1>4, <1>5, <1>6, <1>7, <1>8, <1>9 DEF GraphicsInv

LEMMA GraphicsInitInv == GraphicsInit => GraphicsInv
<1> SUFFICES ASSUME GraphicsInit PROVE GraphicsInv
  OBVIOUS
<1> USE DEF GraphicsInit
<1>1. /\ Fields \subseteq DOMAIN op /\ op.gen = 0 /\ op.stage = "done" /\ op.todo = {}
      /\ op.prev = [k \in FormulaKeys |-> None]
  BY DEF Resting, Fields
<1>2. RuntimeTyped
  <2>1. registrations \in [FormulaKeys -> 0..rasters] /\ visible \in [FormulaKeys -> 0..rasters]
    OBVIOUS
  <2>2. snapshot \in [gen : Nat, formulas : SUBSET Formulas]
    BY DEF NoSnapshot
  <2>3. /\ Fields \subseteq DOMAIN op /\ op.gen \in Nat /\ op.stage \in FrameStages
        /\ op.todo \subseteq Formulas /\ op.prev \in [FormulaKeys -> Places \cup {None}]
    BY <1>1 DEF FrameStages
  <2>4. frames \in Seq(Nat) /\ pendingGenerations \in Seq(Nat) /\ generation \in Nat /\ rasters \in Nat
    OBVIOUS
  <2>5. placed \subseteq Places /\ pendingCleanup \subseteq Places /\ screen \subseteq Places
    OBVIOUS
  <2>6. QED
    BY <2>1, <2>2, <2>3, <2>4, <2>5 DEF RuntimeTyped
<1>3. FramesWait
  BY <1>1 DEF FramesWait, InOrder
<1>4. Older
  BY <1>1 DEF Older, EachKeyOnce, NoSnapshot
<1>5. Current /\ Supported /\ NothingLeftBehind
  BY <1>1 DEF Current, Writing, Supported, NothingLeftBehind
<1>6. QED
  BY <1>2, <1>3, <1>4, <1>5 DEF GraphicsInv

LEMMA GraphicsNextInv == GraphicsInv /\ [GraphicsNext]_graphicsVars => GraphicsInv'
<1> SUFFICES ASSUME GraphicsInv, [GraphicsNext]_graphicsVars PROVE GraphicsInv'
  OBVIOUS
<1>1. CASE \E s \in Scrolls : Frame(s) \/ Microtask(s)
  BY <1>1, FrameKeeps
<1>2. CASE Mounted
  BY <1>2, MountedKeeps
<1>3. CASE Component \/ setStyle
  BY <1>3, ComponentsKeep DEF Component
<1>4. CASE FlushFails \/ FlushDone
  BY <1>4, FlushFailsKeeps, FlushDoneKeeps
<1>5. CASE EmitEnds \/ EmitGone \/ EmitOver \/ EmitWrite
  BY <1>5, EmitEndsKeeps, NotDrawnKeeps, EmitWriteKeeps
<1>6. CASE PerformWrite \/ Drained \/ StreamError
  BY <1>6, PerformWriteKeeps, DrainKeeps
<1>7. CASE ResumeStale \/ ResumeFailed \/ ResumeSuperseded \/ ResumeWritten
  BY <1>7, ResumeStaleKeeps, ResumeFailedKeeps, ResumeSupersededKeeps, ResumeWrittenKeeps
<1>8. CASE FrameEnds
  BY <1>8, FrameEndsKeeps
<1>9. CASE Dispose
  BY <1>9, DisposeKeeps
<1>10. CASE UNCHANGED graphicsVars
  <2>1. /\ UNCHANGED <<frames, pendingGenerations, op, placed, screen, writeBroken, disposed,
                       instance, protocol>>
        /\ UNCHANGED <<rasters, generation, snapshot, registrations, visible, pendingCleanup>>
    BY <1>10 DEF graphicsVars
  <2>2. registrations \in [FormulaKeys -> 0..rasters] /\ visible \in [FormulaKeys -> 0..rasters]
    BY DEF GraphicsInv, RuntimeTyped
  <2>3. QED
    BY <2>1, <2>2, ComponentStep
<1>11. QED
  BY <1>1, <1>2, <1>3, <1>4, <1>5, <1>6, <1>7, <1>8, <1>9, <1>10 DEF GraphicsNext, AfterFrame

LEMMA GraphicsInvAlways == GraphicsSpec => []GraphicsInv
BY GraphicsInitInv, GraphicsNextInv, PTL DEF GraphicsSpec

\* A formula whose source is hidden has its image on a Kitty terminal, whatever was superseded,
\* skipped, unregistered or blocked since it was drawn (emitFrame, beforeFrame).
THEOREM HiddenIsShown == GraphicsSpec => []ShownWhenHidden
<1>1. GraphicsInv => ShownWhenHidden
  BY DEF GraphicsInv, Supported, ShownWhenHidden
<1>2. QED
  BY <1>1, GraphicsInvAlways, PTL

\* Every image on the terminal is listed for its cleanup, and none is left after dispose, also
\* when a write was blocked or waiting for its turn.
THEOREM NoneLeftBehind == GraphicsSpec => []NothingLeftBehind
<1>1. GraphicsInv => NothingLeftBehind
  BY DEF GraphicsInv
<1>2. QED
  BY <1>1, GraphicsInvAlways, PTL

\* The frame a registration asks for is asked for once and not forgotten, also when it was made
\* while Ink's render() had not returned (requestRegistrationFrame, queueAfterFrame).
THEOREM RequestKept == GraphicsSpec => []RequestNotLost
<1>1. GraphicsInit => RequestNotLost
  BY DEF GraphicsInit, RequestNotLost
<1>2. RequestNotLost /\ [GraphicsNext]_graphicsVars => RequestNotLost'
  <2> SUFFICES ASSUME RequestNotLost, [GraphicsNext]_graphicsVars PROVE RequestNotLost'
    OBVIOUS
  <2> USE DEF RequestNotLost
  <2>1. ASSUME NEW s \in Scrolls, Frame(s) PROVE RequestNotLost'
    BY <2>1 DEF Frame
  <2>2. ASSUME NEW s \in Scrolls, Microtask(s) PROVE RequestNotLost'
    BY <2>2 DEF Microtask
  <2>3. CASE Mounted
    BY <2>3 DEF Mounted
  <2>4. ASSUME NEW k \in FormulaKeys, RasterReady(k) PROVE RequestNotLost'
    BY <2>4 DEF RasterReady, requestRegistrationFrame
  <2>5. ASSUME NEW k \in FormulaKeys, RasterFails(k) \/ Restart(k) \/ Unmount(k) \/ Remount(k)
        PROVE  RequestNotLost'
    BY <2>5 DEF RasterFails, Restart, Unmount, Remount, hostVars
  <2>6. CASE setStyle
    BY <2>6 DEF setStyle, requestRegistrationFrame
  <2>7. CASE AfterFrame
    BY <2>7 DEF AfterFrame, FlushFails, FlushDone, EmitEnds, EmitGone, EmitOver, EmitWrite,
       PerformWrite, Drained, StreamError, ResumeStale, ResumeFailed, ResumeSuperseded,
       ResumeWritten, FrameEnds, hostVars
  <2>8. CASE Dispose
    BY <2>8 DEF Dispose
  <2>9. CASE UNCHANGED graphicsVars
    BY <2>9 DEF graphicsVars
  <2>10. QED
    BY <2>1, <2>2, <2>3, <2>4, <2>5, <2>6, <2>7, <2>8, <2>9 DEF GraphicsNext, Component
<1>3. QED
  BY <1>1, <1>2, PTL DEF GraphicsSpec


(***************************************************************************)
(* The terminal probe.  A stretch of input is a sequence of tokens: which  *)
(* keys and which replies it has tokens of, and whether the keys are in    *)
(* the order of typing.                                                    *)
(***************************************************************************)
Byte == (UNION {ToSet(key) : key \in KeyPresses})
        \cup {"ESC", "underscore", "G", "31:OK", "31:ENOTSUP", "\\", "[", "?62:4", "c", "6:20:10", "t"}
Token == [b : Byte, by : {"user", "terminal"}, n : Nat]

KeysIn(x) == {x[i].n : i \in {j \in 1..Len(x) : x[j].by = "user"}}
RepliesIn(x) == {x[i].n : i \in {j \in 1..Len(x) : x[j].by = "terminal"}}
Ordered(x) ==
    \A i, j \in 1..Len(x) : i < j /\ x[i].by = "user" /\ x[j].by = "user" => x[i].n < x[j].n
Before(A, B) == \A a \in A, b \in B : a < b

LEMMA JoinedKeys ==
    ASSUME NEW x \in Seq(Token), NEW y \in Seq(Token)
    PROVE  /\ x \o y \in Seq(Token) /\ Len(x \o y) = Len(x) + Len(y)
           /\ KeysIn(x \o y) = KeysIn(x) \cup KeysIn(y)
           /\ RepliesIn(x \o y) = RepliesIn(x) \cup RepliesIn(y)
<1> DEFINE z == x \o y
<1>1. /\ z \in Seq(Token) /\ Len(z) = Len(x) + Len(y)
      /\ \A i \in 1..(Len(x) + Len(y)) : z[i] = IF i <= Len(x) THEN x[i] ELSE y[i - Len(x)]
  BY ConcatProperties
<1>2. Len(x) \in Nat /\ Len(y) \in Nat
  OBVIOUS
<1> HIDE DEF z
<1>3. \A i \in 1..Len(x) : i \in 1..Len(z) /\ z[i] = x[i]
  BY <1>1, <1>2
<1>4. ASSUME NEW i \in 1..Len(y) PROVE Len(x) + i \in 1..Len(z) /\ z[Len(x) + i] = y[i]
  <2> DEFINE j == Len(x) + i
  <2>1. j \in 1..(Len(x) + Len(y)) /\ ~(j <= Len(x)) /\ j - Len(x) = i
    BY <1>2
  <2> HIDE DEF j
  <2>2. z[j] = y[i]
    BY <1>1, <2>1
  <2>3. QED
    BY <1>1, <2>1, <2>2 DEF j
<1>5. ASSUME NEW i \in 1..Len(z)
      PROVE  \/ i \in 1..Len(x) /\ z[i] = x[i]
             \/ i - Len(x) \in 1..Len(y) /\ z[i] = y[i - Len(x)]
  <2>1. i \in 1..(Len(x) + Len(y))
    BY <1>1
  <2>2. i <= Len(x) => i \in 1..Len(x)
    BY <1>2
  <2>3. ~(i <= Len(x)) => i - Len(x) \in 1..Len(y)
    BY <1>2, <2>1
  <2>4. QED
    BY <1>1, <2>1, <2>2, <2>3
<1>6. KeysIn(z) = KeysIn(x) \cup KeysIn(y)
  <2>1. \A a \in KeysIn(z) : a \in KeysIn(x) \cup KeysIn(y)
    BY <1>5 DEF KeysIn
  <2>2. \A a \in KeysIn(x) : a \in KeysIn(z)
    BY <1>3 DEF KeysIn
  <2>3. \A a \in KeysIn(y) : a \in KeysIn(z)
    BY <1>4 DEF KeysIn
  <2>4. QED
    BY <2>1, <2>2, <2>3
<1>7. RepliesIn(z) = RepliesIn(x) \cup RepliesIn(y)
  <2>1. \A a \in RepliesIn(z) : a \in RepliesIn(x) \cup RepliesIn(y)
    BY <1>5 DEF RepliesIn
  <2>2. \A a \in RepliesIn(x) : a \in RepliesIn(z)
    BY <1>3 DEF RepliesIn
  <2>3. \A a \in RepliesIn(y) : a \in RepliesIn(z)
    BY <1>4 DEF RepliesIn
  <2>4. QED
    BY <2>1, <2>2, <2>3
<1>8. QED
  BY <1>1, <1>6, <1>7 DEF z

LEMMA JoinedOrder ==
    ASSUME NEW x \in Seq(Token), NEW y \in Seq(Token)
    PROVE  Ordered(x \o y) <=> Ordered(x) /\ Ordered(y) /\ Before(KeysIn(x), KeysIn(y))
<1> DEFINE z == x \o y
<1>1. /\ z \in Seq(Token) /\ Len(z) = Len(x) + Len(y)
      /\ \A i \in 1..(Len(x) + Len(y)) : z[i] = IF i <= Len(x) THEN x[i] ELSE y[i - Len(x)]
  BY ConcatProperties
<1>2. Len(x) \in Nat /\ Len(y) \in Nat
  OBVIOUS
<1> HIDE DEF z
<1>3. \A i \in 1..Len(x) : i \in 1..Len(z) /\ z[i] = x[i]
  BY <1>1, <1>2
<1>4. ASSUME NEW i \in 1..Len(y) PROVE Len(x) + i \in 1..Len(z) /\ z[Len(x) + i] = y[i]
  <2> DEFINE j == Len(x) + i
  <2>1. j \in 1..(Len(x) + Len(y)) /\ ~(j <= Len(x)) /\ j - Len(x) = i
    BY <1>2
  <2> HIDE DEF j
  <2>2. z[j] = y[i]
    BY <1>1, <2>1
  <2>3. QED
    BY <1>1, <2>1, <2>2 DEF j
<1>5. ASSUME Ordered(z) PROVE Ordered(x) /\ Ordered(y) /\ Before(KeysIn(x), KeysIn(y))
  <2>1. Ordered(x)
    BY <1>3, <1>5 DEF Ordered
  <2>2. ASSUME NEW i \in 1..Len(y), NEW j \in 1..Len(y), i < j, y[i].by = "user", y[j].by = "user"
        PROVE  y[i].n < y[j].n
    <3>1. Len(x) + i < Len(x) + j
      BY <1>2, <2>2
    <3>2. QED
      BY <1>4, <1>5, <2>2, <3>1 DEF Ordered
  <2>3. ASSUME NEW i \in 1..Len(x), NEW j \in 1..Len(y), x[i].by = "user", y[j].by = "user"
        PROVE  x[i].n < y[j].n
    <3>1. i < Len(x) + j
      BY <1>2
    <3>2. QED
      BY <1>3, <1>4, <1>5, <2>3, <3>1 DEF Ordered
  <2>4. QED
    BY <2>1, <2>2, <2>3 DEF Ordered, Before, KeysIn
<1>6. ASSUME Ordered(x), Ordered(y), Before(KeysIn(x), KeysIn(y)) PROVE Ordered(z)
  <2>1. SUFFICES ASSUME NEW i \in 1..Len(z), NEW j \in 1..Len(z), i < j,
                        z[i].by = "user", z[j].by = "user"
                 PROVE  z[i].n < z[j].n
    BY DEF Ordered
  <2>2. CASE j <= Len(x)
    <3>1. i \in 1..Len(x) /\ j \in 1..Len(x)
      BY <1>2, <2>1, <2>2
    <3>2. QED
      BY <1>3, <1>6, <2>1, <3>1 DEF Ordered
  <2>3. CASE i <= Len(x) /\ ~(j <= Len(x))
    <3>1. i \in 1..Len(x) /\ j - Len(x) \in 1..Len(y)
      BY <1>1, <1>2, <2>1, <2>3
    <3>2. z[i] = x[i] /\ z[j] = y[j - Len(x)]
      BY <1>1, <2>3, <3>1
    <3>3. z[i].n \in KeysIn(x) /\ z[j].n \in KeysIn(y)
      BY <2>1, <3>1, <3>2 DEF KeysIn
    <3>4. QED
      BY <1>6, <3>3 DEF Before
  <2>4. CASE ~(i <= Len(x))
    <3>1. i - Len(x) \in 1..Len(y) /\ j - Len(x) \in 1..Len(y) /\ i - Len(x) < j - Len(x)
          /\ ~(j <= Len(x))
      BY <1>1, <1>2, <2>1, <2>4
    <3>2. z[i] = y[i - Len(x)] /\ z[j] = y[j - Len(x)]
      BY <1>1, <2>4, <3>1
    <3>3. QED
      BY <1>6, <2>1, <3>1, <3>2 DEF Ordered
  <2>5. QED
    BY <2>2, <2>3, <2>4, <1>2, <2>1
<1>7. QED
  BY <1>5, <1>6 DEF z

LEMMA NoTokens ==
    /\ <<>> \in Seq(Token) /\ Len(<<>>) = 0
    /\ KeysIn(<<>>) = {} /\ RepliesIn(<<>>) = {} /\ Ordered(<<>>)
<1>1. Len(<<>>) = 0 /\ \A j \in 1..0 : FALSE
  OBVIOUS
<1>2. <<>> \in Seq(Token)
  OBVIOUS
<1>3. KeysIn(<<>>) = {} /\ RepliesIn(<<>>) = {} /\ Ordered(<<>>)
  BY <1>1 DEF KeysIn, RepliesIn, Ordered
<1>4. QED
  BY <1>1, <1>2, <1>3

LEMMA CutInTwo ==
    ASSUME NEW x \in Seq(Token), NEW k \in 0..Len(x)
    PROVE  /\ Take(x, k) \in Seq(Token) /\ Behind(x, k) \in Seq(Token)
           /\ Len(Take(x, k)) = k /\ Len(Behind(x, k)) = Len(x) - k
           /\ \A i \in 1..k : Take(x, k)[i] = x[i]
           /\ \A i \in 1..(Len(x) - k) : Behind(x, k)[i] = x[i + k]
           /\ Take(x, k) \o Behind(x, k) = x
<1>1. Len(x) \in Nat /\ k \in Nat
  OBVIOUS
<1>2. /\ Take(x, k) \in Seq(Token) /\ Len(Take(x, k)) = k
      /\ \A i \in 1..k : Take(x, k)[i] = x[i]
  BY <1>1 DEF Take
<1>3. /\ Behind(x, k) \in Seq(Token) /\ Len(Behind(x, k)) = Len(x) - k
  BY <1>1 DEF Behind
<1>4. ASSUME NEW i \in 1..(Len(x) - k) PROVE Behind(x, k)[i] = x[i + k]
  <2>1. i \in 1..(Len(x) - (k + 1) + 1) /\ k + 1 + i - 1 = i + k
    BY <1>1
  <2>2. SubSeq(x, k + 1, Len(x))[i] = x[k + 1 + i - 1]
    BY <1>1, <2>1
  <2>3. QED
    BY <2>1, <2>2 DEF Behind
<1>5. Take(x, k) \o Behind(x, k) = x
  <2>1. 1 \in 1..(Len(x) + 1) /\ k \in (1 - 1)..Len(x) /\ Len(x) \in k..Len(x)
    BY <1>1
  <2>2. SubSeq(x, 1, k) \o SubSeq(x, k + 1, Len(x)) = SubSeq(x, 1, Len(x))
    BY <2>1, ConcatAdjacentSubSeq
  <2>3. SubSeq(x, 1, Len(x)) = x
    BY SubSeqFull
  <2>4. QED
    BY <2>2, <2>3 DEF Take, Behind
<1>6. QED
  BY <1>2, <1>3, <1>4, <1>5

\* What becomes of a stretch: no key of it is lost, and none gets behind another.
Keeps(x, y) ==
    /\ x \in Seq(Token) /\ y \in Seq(Token)
    /\ KeysIn(y) = KeysIn(x) /\ RepliesIn(y) \subseteq RepliesIn(x)
    /\ Ordered(x) => Ordered(y)

LEMMA KeepsJoined ==
    ASSUME NEW x, NEW y, NEW u, NEW v, Keeps(x, y), Keeps(u, v)
    PROVE  Keeps(x \o u, y \o v)
<1>1. x \in Seq(Token) /\ y \in Seq(Token) /\ u \in Seq(Token) /\ v \in Seq(Token)
  BY DEF Keeps
<1>2. x \o u \in Seq(Token) /\ y \o v \in Seq(Token)
  BY <1>1, JoinedKeys
<1>3. KeysIn(y \o v) = KeysIn(x \o u) /\ RepliesIn(y \o v) \subseteq RepliesIn(x \o u)
  <2>1. KeysIn(x \o u) = KeysIn(x) \cup KeysIn(u) /\ KeysIn(y \o v) = KeysIn(y) \cup KeysIn(v)
    BY <1>1, JoinedKeys
  <2>2. /\ RepliesIn(x \o u) = RepliesIn(x) \cup RepliesIn(u)
        /\ RepliesIn(y \o v) = RepliesIn(y) \cup RepliesIn(v)
    BY <1>1, JoinedKeys
  <2>3. QED
    BY <2>1, <2>2 DEF Keeps
<1>4. Ordered(x \o u) => Ordered(y \o v)
  <2>1. Ordered(x \o u) => Ordered(x) /\ Ordered(u) /\ Before(KeysIn(x), KeysIn(u))
    BY <1>1, JoinedOrder
  <2>2. Ordered(y) /\ Ordered(v) /\ Before(KeysIn(y), KeysIn(v)) => Ordered(y \o v)
    BY <1>1, JoinedOrder
  <2>3. KeysIn(y) = KeysIn(x) /\ KeysIn(v) = KeysIn(u)
    BY DEF Keeps
  <2>4. QED
    BY <2>1, <2>2, <2>3 DEF Keeps
<1>5. QED
  BY <1>2, <1>3, <1>4 DEF Keeps

LEMMA KeepsItself ==
    ASSUME NEW x \in Seq(Token)
    PROVE  Keeps(x, x)
BY DEF Keeps

LEMMA KeepsOn ==
    ASSUME NEW x, NEW y, NEW z, Keeps(x, y), Keeps(y, z)
    PROVE  Keeps(x, z)
BY DEF Keeps

\* A stretch without a key may go.
LEMMA KeepsBehind ==
    ASSUME NEW x \in Seq(Token), NEW k \in 0..Len(x), KeysIn(Take(x, k)) = {}
    PROVE  Keeps(x, Behind(x, k))
<1> DEFINE a == Take(x, k)
           z == Behind(x, k)
<1>1. a \in Seq(Token) /\ z \in Seq(Token) /\ a \o z = x
  BY CutInTwo
<1>2. KeysIn(a) = {}
  OBVIOUS
<1> HIDE DEF a, z
<1>3. KeysIn(x) = KeysIn(a) \cup KeysIn(z) /\ RepliesIn(x) = RepliesIn(a) \cup RepliesIn(z)
  BY <1>1, JoinedKeys
<1>4. Ordered(x) => Ordered(z)
  BY <1>1, JoinedOrder
<1>5. QED
  BY <1>1, <1>2, <1>3, <1>4 DEF Keeps, z

(***************************************************************************)
(* The three replies, and where they stand.                                *)
(***************************************************************************)
\* A "_" here stands behind an ESC; any other one is a key like the rest.
Signs == {"underscore", "?62:4", "6:20:10"}

\* No key sends a byte that only a reply has: ESC _ begins one, and a CSI
\* sequence of a key has other parameters than the ones that were asked for.
NoTypedReply == \A key \in KeyPresses : ToSet(key) \cap Signs = {}

\* A key that sends ESC [ sends the byte that ends the sequence with it.
WholeSequences ==
    \A key \in KeyPresses : \A i \in 1..Len(key) :
        key[i] = "[" => i < Len(key) /\ key[i + 1] \notin NotFinal

ReplyAt(w, a, l) ==
    /\ a + l <= Len(w) + 1
    /\ \A j \in 0..(l - 1) : w[a + j].by = "terminal" /\ w[a + j].n = w[a].n
    /\ w[a].b = "ESC"
    /\ \/ /\ l = 6 /\ w[a + 1].b = "underscore" /\ w[a + 2].b = "G" /\ w[a + 3].b \in {"31:OK", "31:ENOTSUP"}
          /\ w[a + 4].b = "ESC" /\ w[a + 5].b = "\\"
       \/ /\ l = 4 /\ w[a + 1].b = "["
          /\ \/ w[a + 2].b = "?62:4" /\ w[a + 3].b = "c"
             \/ w[a + 2].b = "6:20:10" /\ w[a + 3].b = "t"

\* Replies are whole, and what was typed looks like none.
Aligned(w) ==
    /\ w \in Seq(Token)
    /\ \A i \in 1..Len(w) : w[i].by = "user" => w[i].b \notin Signs
    /\ \A i \in 1..Len(w) : w[i].by = "terminal"
           => \E a \in 1..i, l \in {4, 6} : ReplyAt(w, a, l) /\ i < a + l
    /\ WholeSequences => \A i \in 1..Len(w) : w[i].by = "user" /\ w[i].b = "["
                             => i < Len(w) /\ w[i + 1].b \notin NotFinal

LEMMA ReplySpelled ==
    ASSUME NEW w, NEW a \in Nat \ {0}, NEW l, ReplyAt(w, a, l)
    PROVE  /\ a + l <= Len(w) + 1 /\ l \in {4, 6}
           /\ w[a].by = "terminal" /\ w[a].b = "ESC" /\ w[a + 1].b \in {"underscore", "["}
           /\ l = 6 => /\ w[a + 1].b = "underscore" /\ w[a + 2].b = "G"
                       /\ w[a + 3].b \in {"31:OK", "31:ENOTSUP"}
                       /\ w[a + 4].b = "ESC" /\ w[a + 5].b = "\\"
           /\ l = 4 => /\ w[a + 1].b = "[" /\ w[a + 2].b \in {"?62:4", "6:20:10"}
                       /\ w[a + 3].b \in {"c", "t"}
<1>1. a + l <= Len(w) + 1 /\ l \in {4, 6} /\ w[a].b = "ESC"
  BY DEF ReplyAt
<1>2. w[a].by = "terminal"
  <2>1. 0 \in 0..(l - 1) /\ a + 0 = a
    BY <1>1
  <2>2. w[a + 0].by = "terminal"
    BY <2>1 DEF ReplyAt
  <2>3. QED
    BY <2>1, <2>2
<1>3. CASE l = 6
  BY <1>1, <1>2, <1>3 DEF ReplyAt
<1>4. CASE l = 4
  BY <1>1, <1>2, <1>4 DEF ReplyAt
<1>5. QED
  BY <1>1, <1>3, <1>4

LEMMA SignPlace ==
    ASSUME NEW w, Aligned(w), NEW i \in 1..Len(w)
    PROVE  /\ w[i].b = "underscore" => i - 1 \in 1..Len(w) /\ ReplyAt(w, i - 1, 6)
           /\ w[i].b \in {"?62:4", "6:20:10"} => i - 2 \in 1..Len(w) /\ ReplyAt(w, i - 2, 4)
           /\ w[i].by = "terminal" /\ w[i].b = "ESC" /\ i < Len(w) /\ w[i + 1].b = "["
                  => ReplyAt(w, i, 4)
<1>1. w \in Seq(Token) /\ Len(w) \in Nat /\ w[i] \in Token
  BY DEF Aligned
<1>2. w[i].by \in {"user", "terminal"}
  BY <1>1 DEF Token
<1>3. CASE w[i].by = "user"
  BY <1>3 DEF Aligned, Signs
<1>4. CASE w[i].by = "terminal"
  <2>1. PICK a \in 1..i, l \in {4, 6} : ReplyAt(w, a, l) /\ i < a + l
    BY <1>4 DEF Aligned
  <2>2. a \in Nat /\ i \in Nat /\ a <= i
    OBVIOUS
  <2>3. CASE l = 6
    <3>1. i = a \/ i = a + 1 \/ i = a + 2 \/ i = a + 3 \/ i = a + 4 \/ i = a + 5
      BY <2>1, <2>2, <2>3
    <3>2. /\ w[a].b = "ESC" /\ w[a + 1].b = "underscore" /\ w[a + 2].b = "G"
          /\ w[a + 3].b \in {"31:OK", "31:ENOTSUP"} /\ w[a + 4].b = "ESC" /\ w[a + 5].b = "\\"
      BY <2>1, <2>3 DEF ReplyAt
    <3>3. w[i].b = "underscore" => i = a + 1
      BY <3>1, <3>2
    <3>4. w[i].b \notin {"?62:4", "6:20:10"}
      BY <3>1, <3>2
    <3>5. w[i].b = "ESC" => w[i + 1].b # "["
      <4>1. w[i].b = "ESC" => i = a \/ i = a + 4
        BY <3>1, <3>2
      <4>2. i = a + 4 => i + 1 = a + 5
        BY <2>2
      <4>3. QED
        BY <3>2, <4>1, <4>2
    <3>6. i = a + 1 => i - 1 = a /\ a \in 1..Len(w)
      BY <1>1, <2>2
    <3>7. w[i].b = "underscore" => i - 1 \in 1..Len(w) /\ ReplyAt(w, i - 1, 6)
      BY <2>1, <2>3, <3>3, <3>6
    <3>8. QED
      BY <3>4, <3>5, <3>7
  <2>4. CASE l = 4
    <3>1. i = a \/ i = a + 1 \/ i = a + 2 \/ i = a + 3
      BY <2>1, <2>2, <2>4
    <3>2. /\ w[a].b = "ESC" /\ w[a + 1].b = "["
          /\ w[a + 2].b \in {"?62:4", "6:20:10"} /\ w[a + 3].b \in {"c", "t"}
      BY <2>1, <2>4 DEF ReplyAt
    <3>3. w[i].b # "underscore" /\ (w[i].b = "ESC" => i = a)
          /\ (w[i].b \in {"?62:4", "6:20:10"} => i = a + 2)
      BY <3>1, <3>2
    <3>4. i = a + 2 => i - 2 = a /\ a \in 1..Len(w)
      BY <1>1, <2>2
    <3>5. w[i].b \in {"?62:4", "6:20:10"} => i - 2 \in 1..Len(w) /\ ReplyAt(w, i - 2, 4)
      BY <2>1, <2>4, <3>3, <3>4
    <3>6. w[i].b = "ESC" => ReplyAt(w, i, 4)
      BY <2>1, <2>4, <3>3
    <3>7. QED
      BY <3>3, <3>5, <3>6
  <2>5. QED
    BY <2>3, <2>4
<1>5. QED
  BY <1>2, <1>3, <1>4

\* A reply that stands behind the cut is as whole as before.
LEMMA ReplyMoves ==
    ASSUME NEW w \in Seq(Token), NEW k \in 0..Len(w), NEW a \in (k + 1)..Len(w), NEW l \in {4, 6}
    PROVE  ReplyAt(w, a, l) <=> ReplyAt(Behind(w, k), a - k, l)
<1> DEFINE v == Behind(w, k)
           c == a - k
<1>1. /\ v \in Seq(Token) /\ Len(v) = Len(w) - k /\ \A i \in 1..(Len(w) - k) : v[i] = w[i + k]
  BY CutInTwo
<1>2. Len(w) \in Nat /\ k \in Nat /\ a \in Nat /\ k < a /\ l \in Nat
  OBVIOUS
<1>3. c + l <= Len(v) + 1 <=> a + l <= Len(w) + 1
  BY <1>1, <1>2
<1> HIDE DEF v
<1>4. ASSUME a + l <= Len(w) + 1, NEW j \in 0..(l - 1) PROVE v[c + j] = w[a + j]
  <2>1. c + j \in 1..(Len(w) - k) /\ (c + j) + k = a + j
    BY <1>2, <1>4
  <2>2. QED
    BY <1>1, <2>1
<1>5. ASSUME a + l <= Len(w) + 1
      PROVE  /\ v[c] = w[a] /\ v[c + 1] = w[a + 1] /\ v[c + 2] = w[a + 2] /\ v[c + 3] = w[a + 3]
             /\ l = 6 => v[c + 4] = w[a + 4] /\ v[c + 5] = w[a + 5]
  <2>1. 0 \in 0..(l - 1) /\ 1 \in 0..(l - 1) /\ 2 \in 0..(l - 1) /\ 3 \in 0..(l - 1)
        /\ (l = 6 => 4 \in 0..(l - 1) /\ 5 \in 0..(l - 1))
    OBVIOUS
  <2>2. c + 0 = c /\ a + 0 = a
    BY <1>2
  <2>3. QED
    BY <1>4, <1>5, <2>1, <2>2
<1>6. QED
  BY <1>3, <1>4, <1>5 DEF ReplyAt, v

LEMMA AlignedBehind ==
    ASSUME NEW w, Aligned(w), NEW k \in 0..Len(w),
           (\A i \in 1..k : w[i].by = "user") \/ (k \in {4, 6} /\ ReplyAt(w, 1, k))
    PROVE  Aligned(Behind(w, k))
<1> DEFINE v == Behind(w, k)
<1>1. w \in Seq(Token) /\ Len(w) \in Nat /\ k \in Nat
  BY DEF Aligned
<1>2. /\ v \in Seq(Token) /\ Len(v) = Len(w) - k /\ \A i \in 1..(Len(w) - k) : v[i] = w[i + k]
  BY <1>1, CutInTwo
<1>3. \A i \in 1..Len(v) : i + k \in (k + 1)..Len(w) /\ i + k \in 1..Len(w) /\ v[i] = w[i + k]
  BY <1>1, <1>2
<1> HIDE DEF v
<1>4. \A i \in 1..Len(v) : v[i].by = "user" => v[i].b \notin Signs
  BY <1>3 DEF Aligned
<1>5. ASSUME NEW i \in 1..Len(v), v[i].by = "terminal"
      PROVE  \E a \in 1..i, l \in {4, 6} : ReplyAt(v, a, l) /\ i < a + l
  <2>1. PICK a \in 1..(i + k), l \in {4, 6} : ReplyAt(w, a, l) /\ i + k < a + l
    BY <1>3, <1>5 DEF Aligned
  <2>2. a \in Nat /\ i \in Nat \ {0} /\ a + 0 = a /\ 0 \in 0..(l - 1) /\ 1 \in 0..(l - 1)
    BY <1>1
  <2>3. w[a].by = "terminal" /\ w[a].b = "ESC" /\ w[a + 1].b \in {"underscore", "["}
    <3>1. a \in Nat \ {0} /\ ReplyAt(w, a, l)
      BY <1>1, <2>1
    <3>2. QED
      BY <3>1, ReplySpelled
  <2>4. k < a
    <3>1. SUFFICES ASSUME a <= k PROVE FALSE
      BY <1>1, <2>2
    <3>2. a \in 1..k
      BY <1>1, <2>2, <3>1
    <3>3. k \in {4, 6} /\ ReplyAt(w, 1, k)
      BY <2>3, <3>2
    <3>4. /\ w[1].b = "ESC"
          /\ k = 6 => /\ w[2].b = "underscore" /\ w[3].b = "G" /\ w[4].b \in {"31:OK", "31:ENOTSUP"}
                      /\ w[5].b = "ESC" /\ w[6].b = "\\"
          /\ k = 4 => w[2].b = "[" /\ w[3].b \in {"?62:4", "6:20:10"} /\ w[4].b \in {"c", "t"}
      <4>1. 1 + 1 = 2 /\ 1 + 2 = 3 /\ 1 + 3 = 4 /\ 1 + 4 = 5 /\ 1 + 5 = 6 /\ 1 \in Nat \ {0}
        OBVIOUS
      <4>2. QED
        BY <3>3, <4>1, ReplySpelled
    <3>5. a = 1
      <4>1. CASE k = 6
        <5>1. a = 1 \/ a = 2 \/ a = 3 \/ a = 4 \/ a = 5 \/ a = 6
          BY <3>2, <4>1
        <5>2. a = 5 => a + 1 = 6
          OBVIOUS
        <5>3. QED
          BY <2>3, <3>4, <4>1, <5>1, <5>2
      <4>2. CASE k = 4
        <5>1. a = 1 \/ a = 2 \/ a = 3 \/ a = 4
          BY <3>2, <4>2
        <5>2. QED
          BY <2>3, <3>4, <4>2, <5>1
      <4>3. QED
        BY <3>3, <4>1, <4>2
    <3>6. l = k
      <4>1. 1 + 1 = 2 /\ 1 \in Nat \ {0} /\ ReplyAt(w, 1, l)
        BY <2>1, <3>5
      <4>2. (l = 6 => w[2].b = "underscore") /\ (l = 4 => w[2].b = "[")
        BY <4>1, ReplySpelled
      <4>3. QED
        BY <3>3, <3>4, <4>2
    <3>7. QED
      BY <1>1, <2>1, <2>2, <3>5, <3>6
  <2>5. a \in (k + 1)..Len(w) /\ a - k \in 1..i /\ i < (a - k) + l
    BY <1>1, <1>3, <2>1, <2>2, <2>4
  <2>6. ReplyAt(v, a - k, l)
    BY <1>1, <2>1, <2>5, ReplyMoves DEF v
  <2>7. QED
    BY <2>5, <2>6
<1>6. ASSUME WholeSequences, NEW i \in 1..Len(v), v[i].by = "user", v[i].b = "["
      PROVE  i < Len(v) /\ v[i + 1].b \notin NotFinal
  <2>1. i + k < Len(w) /\ w[i + k + 1].b \notin NotFinal
    BY <1>3, <1>6 DEF Aligned
  <2>2. i < Len(v) /\ i + 1 \in 1..Len(v) /\ (i + 1) + k = i + k + 1
    BY <1>1, <1>2, <2>1
  <2>3. QED
    BY <1>3, <2>1, <2>2
<1>7. QED
  BY <1>2, <1>4, <1>5, <1>6 DEF Aligned, v

LEMMA BehindJoined ==
    ASSUME NEW w \in Seq(Token), NEW u \in Seq(Token)
    PROVE  Behind(w \o u, Len(w)) = u
<1> DEFINE z == w \o u
           v == Behind(z, Len(w))
<1>1. Len(w) \in Nat /\ Len(u) \in Nat
  OBVIOUS
<1>2. /\ z \in Seq(Token) /\ Len(z) = Len(w) + Len(u)
      /\ \A i \in 1..(Len(w) + Len(u)) : z[i] = IF i <= Len(w) THEN w[i] ELSE u[i - Len(w)]
  BY <1>1, ConcatProperties
<1> HIDE DEF z
<1>3. Len(w) \in 0..Len(z) /\ Len(z) - Len(w) = Len(u)
  BY <1>1, <1>2
<1>4. /\ v \in Seq(Token) /\ Len(v) = Len(u)
      /\ \A i \in 1..Len(u) : v[i] = z[i + Len(w)]
  <2>1. /\ v \in Seq(Token) /\ Len(v) = Len(z) - Len(w)
        /\ \A i \in 1..(Len(z) - Len(w)) : v[i] = z[i + Len(w)]
    BY <1>2, <1>3, CutInTwo
  <2>2. QED
    BY <1>3, <2>1
<1>5. ASSUME NEW i \in 1..Len(u) PROVE v[i] = u[i]
  <2> DEFINE j == i + Len(w)
  <2>1. j \in 1..(Len(w) + Len(u)) /\ ~(j <= Len(w)) /\ j - Len(w) = i
    BY <1>1
  <2> HIDE DEF j, v
  <2>2. z[j] = u[i]
    BY <1>2, <2>1
  <2>3. QED
    BY <1>4, <2>2 DEF j
<1> HIDE DEF v
<1>6. v = u
  BY <1>1, <1>4, <1>5, SeqEqual
<1>7. QED
  BY <1>6 DEF v, z

LEMMA AlignedJoined ==
    ASSUME NEW w, NEW u, Aligned(w), Aligned(u)
    PROVE  Aligned(w \o u)
<1> DEFINE z == w \o u
<1>1. w \in Seq(Token) /\ u \in Seq(Token) /\ Len(w) \in Nat /\ Len(u) \in Nat
  BY DEF Aligned
<1>2. /\ z \in Seq(Token) /\ Len(z) = Len(w) + Len(u)
      /\ \A i \in 1..(Len(w) + Len(u)) : z[i] = IF i <= Len(w) THEN w[i] ELSE u[i - Len(w)]
  BY <1>1, ConcatProperties
<1> HIDE DEF z
<1>3. ASSUME NEW i \in 1..Len(z)
      PROVE  \/ i \in 1..Len(w) /\ z[i] = w[i]
             \/ i - Len(w) \in 1..Len(u) /\ z[i] = u[i - Len(w)]
  <2>1. i \in 1..(Len(w) + Len(u))
    BY <1>2
  <2>2. i <= Len(w) => i \in 1..Len(w)
    BY <1>1
  <2>3. ~(i <= Len(w)) => i - Len(w) \in 1..Len(u)
    BY <1>1, <2>1
  <2>4. QED
    BY <1>2, <2>1, <2>2, <2>3
<1>4. \A i \in 1..Len(w) : i \in 1..Len(z) /\ z[i] = w[i]
  BY <1>1, <1>2
<1>5. Behind(z, Len(w)) = u
  BY <1>1, BehindJoined DEF z
<1>6. \A i \in 1..Len(z) : z[i].by = "user" => z[i].b \notin Signs
  BY <1>3 DEF Aligned
<1>7. ASSUME NEW i \in 1..Len(z), z[i].by = "terminal"
      PROVE  \E a \in 1..i, l \in {4, 6} : ReplyAt(z, a, l) /\ i < a + l
  <2>1. CASE i \in 1..Len(w) /\ z[i] = w[i]
    <3>1. PICK a \in 1..i, l \in {4, 6} : ReplyAt(w, a, l) /\ i < a + l
      BY <1>7, <2>1 DEF Aligned
    <3>2. a \in Nat \ {0} /\ a + l <= Len(w) + 1
      BY <3>1 DEF ReplyAt
    <3>3. a + l <= Len(z) + 1
      BY <1>1, <1>2, <3>2
    <3>4. \A j \in 0..(l - 1) : a + j \in 1..Len(w) /\ z[a + j] = w[a + j]
      <4>1. \A j \in 0..(l - 1) : a + j \in 1..Len(w)
        BY <1>1, <3>2
      <4>2. QED
        BY <1>4, <4>1
    <3>5. /\ z[a] = w[a] /\ z[a + 1] = w[a + 1] /\ z[a + 2] = w[a + 2] /\ z[a + 3] = w[a + 3]
          /\ l = 6 => z[a + 4] = w[a + 4] /\ z[a + 5] = w[a + 5]
      <4>1. 0 \in 0..(l - 1) /\ 1 \in 0..(l - 1) /\ 2 \in 0..(l - 1) /\ 3 \in 0..(l - 1)
            /\ (l = 6 => 4 \in 0..(l - 1) /\ 5 \in 0..(l - 1)) /\ a + 0 = a
        BY <3>2
      <4>2. QED
        BY <3>4, <4>1
    <3>6. ReplyAt(z, a, l)
      BY <3>1, <3>3, <3>4, <3>5 DEF ReplyAt
    <3>7. QED
      BY <3>1, <3>6
  <2>2. CASE i - Len(w) \in 1..Len(u) /\ z[i] = u[i - Len(w)]
    <3>1. PICK c \in 1..(i - Len(w)), l \in {4, 6} : ReplyAt(u, c, l) /\ i - Len(w) < c + l
      BY <1>7, <2>2 DEF Aligned
    <3> DEFINE a == c + Len(w)
    <3>2. /\ Len(w) \in 0..Len(z) /\ a \in (Len(w) + 1)..Len(z) /\ a - Len(w) = c
          /\ a \in 1..i /\ i < a + l
      BY <1>1, <1>2, <2>2, <3>1
    <3> HIDE DEF a
    <3>3. ReplyAt(z, a, l)
      BY <1>2, <1>5, <3>1, <3>2, ReplyMoves
    <3>4. QED
      BY <3>2, <3>3
  <2>3. QED
    BY <1>3, <2>1, <2>2
<1>8. ASSUME WholeSequences, NEW i \in 1..Len(z), z[i].by = "user", z[i].b = "["
      PROVE  i < Len(z) /\ z[i + 1].b \notin NotFinal
  <2>1. CASE i \in 1..Len(w) /\ z[i] = w[i]
    <3>1. i < Len(w) /\ w[i + 1].b \notin NotFinal
      BY <1>8, <2>1 DEF Aligned
    <3>2. i + 1 \in 1..Len(w) /\ i < Len(z)
      BY <1>1, <1>2, <3>1
    <3>3. QED
      BY <1>4, <3>1, <3>2
  <2>2. CASE i - Len(w) \in 1..Len(u) /\ z[i] = u[i - Len(w)]
    <3> DEFINE c == i - Len(w)
    <3>1. c < Len(u) /\ u[c + 1].b \notin NotFinal
      BY <1>8, <2>2 DEF Aligned
    <3>2. /\ i + 1 \in 1..(Len(w) + Len(u)) /\ i < Len(z) /\ ~(i + 1 <= Len(w))
          /\ (i + 1) - Len(w) = c + 1
      BY <1>1, <1>2, <2>2, <3>1
    <3>3. z[i + 1] = u[c + 1]
      BY <1>2, <3>2
    <3>4. QED
      BY <3>1, <3>2, <3>3
  <2>3. QED
    BY <1>3, <2>1, <2>2
<1>9. QED
  BY <1>2, <1>6, <1>7, <1>8 DEF Aligned, z

LEMMA AlignedNothing == Aligned(<<>>)
BY NoTokens DEF Aligned

LEMMA Beginnings ==
    /\ Take(APC_START, 1) = <<"ESC">> /\ Take(APC_START, 2) = <<"ESC", "underscore">>
    /\ Take(CSI_START, 1) = <<"ESC">>
<1> DEFINE All == {"ESC", "underscore", "G", "["}
<1>1. /\ APC_START \in Seq(All) /\ Len(APC_START) = 3
      /\ APC_START[1] = "ESC" /\ APC_START[2] = "underscore" /\ APC_START[3] = "G"
      /\ CSI_START \in Seq(All) /\ Len(CSI_START) = 2 /\ CSI_START[1] = "ESC" /\ CSI_START[2] = "["
  BY DEF APC_START, CSI_START
<1> HIDE DEF All
<1>5. ASSUME NEW p \in Seq(All), Len(p) >= 1
      PROVE  Take(p, 1) = <<p[1]>>
  <2> DEFINE z == SubSeq(p, 1, 1)
  <2>1. z \in Seq(All) /\ Len(z) = 1 /\ z[1] = p[1]
    BY <1>5
  <2> HIDE DEF z
  <2>2. z = <<p[1]>>
    BY <2>1
  <2>3. QED
    BY <2>2 DEF z, Take
<1>6. Take(APC_START, 2) = <<"ESC", "underscore">>
  <2> DEFINE z == SubSeq(APC_START, 1, 2)
  <2>1. z \in Seq(All) /\ Len(z) = 2 /\ z[1] = "ESC" /\ z[2] = "underscore"
    BY <1>1
  <2> HIDE DEF z
  <2>2. z = <<"ESC", "underscore">>
    BY <2>1
  <2>3. QED
    BY <2>2 DEF z, Take
<1>2. Len(APC_START) >= 1 /\ Len(CSI_START) >= 1
  BY <1>1
<1>7. Take(APC_START, 1) = <<APC_START[1]>> /\ Take(CSI_START, 1) = <<CSI_START[1]>>
  BY <1>1, <1>2, <1>5
<1>8. QED
  BY <1>1, <1>6, <1>7

LEMMA StartPlaces ==
    ASSUME NEW buf \in Seq(Token), NEW i \in 1..Len(buf)
    PROVE  /\ StartsAt(buf, APC_START, i)
                <=> /\ buf[i].b = "ESC" /\ i + 2 <= Len(buf)
                    /\ buf[i + 1].b = "underscore" /\ buf[i + 2].b = "G"
           /\ StartsAt(buf, CSI_START, i)
                <=> buf[i].b = "ESC" /\ i + 1 <= Len(buf) /\ buf[i + 1].b = "["
           /\ StartsAt(buf, STRING_TERMINATOR, i)
                <=> buf[i].b = "ESC" /\ i + 1 <= Len(buf) /\ buf[i + 1].b = "\\"
<1>1. i \in Nat /\ Len(buf) \in Nat
  OBVIOUS
<1>2. ASSUME NEW p, Len(p) = 3
      PROVE  StartsAt(buf, p, i)
               <=> buf[i].b = "ESC" /\ i + 2 <= Len(buf) /\ buf[i + 1].b = p[2] /\ buf[i + 2].b = p[3]
  <2>1. i + Len(p) - 1 = i + 2 /\ 2..Len(p) = {2, 3} /\ i + 2 - 1 = i + 1 /\ i + 3 - 1 = i + 2
    BY <1>1, <1>2
  <2>2. QED
    BY <2>1 DEF StartsAt
<1>3. ASSUME NEW p, Len(p) = 2
      PROVE  StartsAt(buf, p, i)
               <=> buf[i].b = "ESC" /\ i + 1 <= Len(buf) /\ buf[i + 1].b = p[2]
  <2>1. i + Len(p) - 1 = i + 1 /\ 2..Len(p) = {2} /\ i + 2 - 1 = i + 1
    BY <1>1, <1>3
  <2>2. QED
    BY <2>1 DEF StartsAt
<1>4. Len(APC_START) = 3 /\ APC_START[2] = "underscore" /\ APC_START[3] = "G"
  BY DEF APC_START
<1>5. Len(CSI_START) = 2 /\ CSI_START[2] = "["
  BY DEF CSI_START
<1>6. Len(STRING_TERMINATOR) = 2 /\ STRING_TERMINATOR[2] = "\\"
  BY DEF STRING_TERMINATOR
<1>7. QED
  BY <1>2, <1>3, <1>4, <1>5, <1>6

\* How much is kept back at the end of a stretch.
LEMMA KeptBack ==
    ASSUME NEW buf \in Seq(Token)
    PROVE  protocolPrefixSuffixLength(buf) =
             IF Len(buf) >= 2 /\ buf[Len(buf) - 1].b = "ESC" /\ buf[Len(buf)].b = "underscore" THEN 2
             ELSE IF Len(buf) >= 1 /\ buf[Len(buf)].b = "ESC" THEN 1 ELSE 0
<1> DEFINE m == Len(buf)
<1>1. m \in Nat
  OBVIOUS
<1>2. ASSUME NEW n \in 1..2, n <= m
      PROVE  Bytes(Behind(buf, m - n)) = [i \in 1..n |-> buf[i + (m - n)].b]
  <2> DEFINE c == m - n
  <2>1. c \in 0..Len(buf) /\ Len(buf) - c = n
    BY <1>1, <1>2
  <2> HIDE DEF c
  <2>2. /\ Behind(buf, c) \in Seq(Token) /\ Len(Behind(buf, c)) = n
        /\ \A i \in 1..n : Behind(buf, c)[i] = buf[i + c]
    BY <2>1, CutInTwo
  <2>3. Bytes(Behind(buf, c)) = [i \in 1..n |-> buf[i + c].b]
    BY <2>2 DEF Bytes
  <2>4. QED
    BY <2>3 DEF c
<1>3. 1 <= m => (Bytes(Behind(buf, m - 1)) = <<"ESC">> <=> buf[m].b = "ESC")
  <2> SUFFICES ASSUME 1 <= m PROVE Bytes(Behind(buf, m - 1)) = <<"ESC">> <=> buf[m].b = "ESC"
    OBVIOUS
  <2> DEFINE z == Bytes(Behind(buf, m - 1))
  <2>1. 1 \in 1..2 /\ 1 + (m - 1) = m
    BY <1>1
  <2>2. z = [i \in 1..1 |-> buf[i + (m - 1)].b]
    BY <1>2, <2>1
  <2> HIDE DEF z
  <2>3. z = <<buf[m].b>>
    BY <2>1, <2>2
  <2>4. QED
    BY <2>3 DEF z
<1>4. 2 <= m => (Bytes(Behind(buf, m - 2)) = <<"ESC", "underscore">>
                 <=> buf[m - 1].b = "ESC" /\ buf[m].b = "underscore")
  <2> SUFFICES ASSUME 2 <= m
               PROVE  Bytes(Behind(buf, m - 2)) = <<"ESC", "underscore">>
                      <=> buf[m - 1].b = "ESC" /\ buf[m].b = "underscore"
    OBVIOUS
  <2> DEFINE z == Bytes(Behind(buf, m - 2))
  <2>1. 2 \in 1..2 /\ 1 + (m - 2) = m - 1 /\ 2 + (m - 2) = m
    BY <1>1
  <2>2. z = [i \in 1..2 |-> buf[i + (m - 2)].b]
    BY <1>2, <2>1
  <2> HIDE DEF z
  <2>3. z = <<buf[m - 1].b, buf[m].b>>
    BY <2>1, <2>2
  <2>4. QED
    BY <2>3 DEF z
<1> DEFINE kept == {n \in 1..2 : /\ n <= m
                                 /\ \/ Bytes(Behind(buf, m - n)) = Take(APC_START, n)
                                    \/ n < 2 /\ Bytes(Behind(buf, m - n)) = Take(CSI_START, n)}
<1>5. 1 \in kept <=> m >= 1 /\ buf[m].b = "ESC"
  BY <1>1, <1>3, Beginnings
<1>6. 2 \in kept <=> m >= 2 /\ buf[m - 1].b = "ESC" /\ buf[m].b = "underscore"
  <2>1. Take(APC_START, 2) = <<"ESC", "underscore">> /\ 2 \in 1..2 /\ ~(2 < 2)
    BY Beginnings
  <2> DEFINE z == Bytes(Behind(buf, m - 2))
  <2>2. 2 \in kept <=> 2 <= m /\ z = <<"ESC", "underscore">>
    BY <2>1
  <2>3. QED
    BY <1>1, <1>4, <2>2
<1>7. protocolPrefixSuffixLength(buf) = IF 2 \in kept THEN 2 ELSE IF 1 \in kept THEN 1 ELSE 0
  BY DEF protocolPrefixSuffixLength
<1> HIDE DEF kept
<1>8. QED
  BY <1>5, <1>6, <1>7

Four == {KittyReply("31:OK"), KittyReply("31:ENOTSUP"), Da1Reply, CellReply}

LEMMA TypedTokens ==
    ASSUME NoTypedReply, NEW key \in KeyPresses, NEW f \in Nat
    PROVE  /\ Aligned(ByUser(key, f)) /\ RepliesIn(ByUser(key, f)) = {}
           /\ Len(key) \in Nat
           /\ KeysIn(ByUser(key, f)) = (f + 1)..(f + Len(key)) /\ Ordered(ByUser(key, f))
<1> DEFINE w == ByUser(key, f)
<1>1. key \in Seq(ToSet(key)) /\ Len(key) \in Nat /\ ToSet(key) \subseteq Byte
  <2>1. key \in Seq(ToSet(key))
    BY KeysAssumption
  <2>2. ToSet(key) \subseteq Byte
    BY DEF Byte
  <2>3. QED
    BY <2>1, <2>2
<1>2. \A i \in 1..Len(key) : key[i] \in ToSet(key)
  BY <1>1
<1>3. /\ w = [i \in 1..Len(key) |-> [b |-> key[i], by |-> "user", n |-> f + i]]
  BY DEF ByUser
<1>4. \A i \in 1..Len(key) : [b |-> key[i], by |-> "user", n |-> f + i] \in Token
  BY <1>1, <1>2 DEF Token
<1> HIDE DEF w
<1>5. w \in Seq(Token) /\ Len(w) = Len(key)
  <2>1. w \in [1..Len(key) -> Token]
    BY <1>3, <1>4
  <2>2. QED
    BY <1>1, <2>1
<1>6. \A i \in 1..Len(w) : w[i].b = key[i] /\ w[i].by = "user" /\ w[i].n = f + i
  BY <1>3, <1>5
<1>7. \A i \in 1..Len(w) : w[i].by # "terminal"
  BY <1>6
<1>8. \A i \in 1..Len(w) : w[i].b \notin Signs
  BY <1>2, <1>5, <1>6 DEF NoTypedReply
<1>9. ASSUME WholeSequences, NEW i \in 1..Len(w), w[i].b = "["
      PROVE  i < Len(w) /\ w[i + 1].b \notin NotFinal
  <2>1. key[i] = "[" /\ i \in 1..Len(key)
    BY <1>5, <1>6, <1>9
  <2>2. i < Len(key) /\ key[i + 1] \notin NotFinal
    BY <1>9, <2>1 DEF WholeSequences
  <2>3. i + 1 \in 1..Len(w)
    BY <1>1, <1>5, <2>2
  <2>4. QED
    BY <1>5, <1>6, <2>2, <2>3
<1>10. Aligned(w)
  BY <1>5, <1>7, <1>8, <1>9 DEF Aligned
<1>11. RepliesIn(w) = {}
  BY <1>7 DEF RepliesIn
<1>12. KeysIn(w) = (f + 1)..(f + Len(key))
  <2>1. ASSUME NEW a \in KeysIn(w) PROVE a \in (f + 1)..(f + Len(key))
    <3>1. PICK i \in 1..Len(w) : a = w[i].n
      BY DEF KeysIn
    <3>2. QED
      BY <1>1, <1>5, <1>6, <3>1
  <2>2. ASSUME NEW a \in (f + 1)..(f + Len(key)) PROVE a \in KeysIn(w)
    <3> DEFINE c == a - f
    <3>1. c \in 1..Len(w) /\ f + c = a
      BY <1>1, <1>5
    <3> HIDE DEF c
    <3>2. w[c].n = a /\ w[c].by = "user"
      BY <1>6, <3>1
    <3>3. QED
      BY <3>1, <3>2 DEF KeysIn
  <2>3. QED
    BY <2>1, <2>2
<1>13. Ordered(w)
  BY <1>1, <1>5, <1>6 DEF Ordered
<1>14. QED
  BY <1>1, <1>10, <1>11, <1>12, <1>13 DEF w

LEMMA ReplyTokens ==
    ASSUME NEW reply \in Four, NEW r \in Nat
    PROVE  /\ Aligned(ByTerminal(reply, r)) /\ RepliesIn(ByTerminal(reply, r)) \subseteq {r}
           /\ KeysIn(ByTerminal(reply, r)) = {} /\ Ordered(ByTerminal(reply, r))
<1> DEFINE w == ByTerminal(reply, r)
<1>1. \/ /\ Len(reply) = 6 /\ reply[1] = "ESC" /\ reply[2] = "underscore" /\ reply[3] = "G"
         /\ reply[4] \in {"31:OK", "31:ENOTSUP"} /\ reply[5] = "ESC" /\ reply[6] = "\\"
      \/ /\ Len(reply) = 4 /\ reply[1] = "ESC" /\ reply[2] = "["
         /\ \/ reply[3] = "?62:4" /\ reply[4] = "c"
            \/ reply[3] = "6:20:10" /\ reply[4] = "t"
  BY DEF Four, KittyReply, Da1Reply, CellReply
<1>2. w = [i \in 1..Len(reply) |-> [b |-> reply[i], by |-> "terminal", n |-> r]]
  BY DEF ByTerminal
<1>3. ASSUME NEW i \in 1..Len(reply) PROVE [b |-> reply[i], by |-> "terminal", n |-> r] \in Token
  <2> DEFINE Fixed == {"ESC", "underscore", "G", "31:OK", "31:ENOTSUP", "\\", "[", "?62:4", "c",
                       "6:20:10", "t"}
  <2>1. reply[i] \in Fixed
    <3>1. CASE Len(reply) = 6
      <4>1. i = 1 \/ i = 2 \/ i = 3 \/ i = 4 \/ i = 5 \/ i = 6
        BY <3>1
      <4>2. QED
        BY <1>1, <3>1, <4>1
    <3>2. CASE Len(reply) = 4
      <4>1. i = 1 \/ i = 2 \/ i = 3 \/ i = 4
        BY <3>2
      <4>2. QED
        BY <1>1, <3>2, <4>1
    <3>3. QED
      BY <1>1, <3>1, <3>2
  <2>2. Fixed \subseteq Byte
    <3> DEFINE Keyed == UNION {ToSet(key) : key \in KeyPresses}
    <3>1. Byte = Keyed \cup Fixed
      BY DEF Byte
    <3> HIDE DEF Keyed, Fixed
    <3>2. QED
      BY <3>1
  <2> HIDE DEF Fixed
  <2>3. reply[i] \in Byte
    BY <2>1, <2>2
  <2>4. QED
    BY <2>3 DEF Token
<1> HIDE DEF w
<1>4. w \in Seq(Token) /\ Len(w) = Len(reply)
  <2>1. w \in [1..Len(reply) -> Token] /\ Len(reply) \in Nat
    BY <1>1, <1>2, <1>3
  <2>2. QED
    BY <2>1
<1>5. \A i \in 1..Len(w) : w[i].b = reply[i] /\ w[i].by = "terminal" /\ w[i].n = r
  BY <1>2, <1>4
<1>6. \A i \in 1..Len(w) : w[i].by # "user"
  BY <1>5
<1>7. Len(w) \in {4, 6} /\ ReplyAt(w, 1, Len(w))
  <2>1. CASE Len(w) = 6
    <3>1. /\ 1 \in 1..Len(w) /\ 2 \in 1..Len(w) /\ 3 \in 1..Len(w) /\ 4 \in 1..Len(w)
          /\ 5 \in 1..Len(w) /\ 6 \in 1..Len(w)
      BY <2>1
    <3>2. \A j \in 0..(Len(w) - 1) : 1 + j \in 1..Len(w)
      BY <2>1
    <3>3. \A j \in 0..(Len(w) - 1) : w[1 + j].by = "terminal" /\ w[1 + j].n = w[1].n
      BY <1>5, <3>1, <3>2
    <3>4. 1 + 1 = 2 /\ 1 + 2 = 3 /\ 1 + 3 = 4 /\ 1 + 4 = 5 /\ 1 + 5 = 6 /\ 1 + 6 <= Len(w) + 1
      BY <2>1
    <3>5. /\ w[1].b = "ESC" /\ w[2].b = "underscore" /\ w[3].b = "G"
          /\ w[4].b \in {"31:OK", "31:ENOTSUP"} /\ w[5].b = "ESC" /\ w[6].b = "\\"
      BY <1>1, <1>4, <1>5, <2>1, <3>1
    <3>6. QED
      BY <2>1, <3>3, <3>4, <3>5 DEF ReplyAt
  <2>2. CASE Len(w) = 4
    <3>1. 1 \in 1..Len(w) /\ 2 \in 1..Len(w) /\ 3 \in 1..Len(w) /\ 4 \in 1..Len(w)
      BY <2>2
    <3>2. \A j \in 0..(Len(w) - 1) : 1 + j \in 1..Len(w)
      BY <2>2
    <3>3. \A j \in 0..(Len(w) - 1) : w[1 + j].by = "terminal" /\ w[1 + j].n = w[1].n
      BY <1>5, <3>1, <3>2
    <3>4. 1 + 1 = 2 /\ 1 + 2 = 3 /\ 1 + 3 = 4 /\ 1 + 4 <= Len(w) + 1
      BY <2>2
    <3>5. /\ w[1].b = "ESC" /\ w[2].b = "["
          /\ \/ w[3].b = "?62:4" /\ w[4].b = "c"
             \/ w[3].b = "6:20:10" /\ w[4].b = "t"
      BY <1>1, <1>4, <1>5, <2>2, <3>1
    <3>6. QED
      BY <2>2, <3>3, <3>4, <3>5 DEF ReplyAt
  <2>3. QED
    BY <1>1, <1>4, <2>1, <2>2
<1>8. Aligned(w)
  <2>1. ASSUME NEW i \in 1..Len(w) PROVE \E a \in 1..i, l \in {4, 6} : ReplyAt(w, a, l) /\ i < a + l
    <3>1. 1 \in 1..i /\ i < 1 + Len(w)
      BY <1>7
    <3>2. QED
      BY <1>7, <3>1
  <2>2. QED
    BY <1>4, <1>6, <2>1 DEF Aligned
<1>9. RepliesIn(w) \subseteq {r} /\ KeysIn(w) = {} /\ Ordered(w)
  BY <1>5, <1>6 DEF RepliesIn, KeysIn, Ordered
<1>10. QED
  BY <1>8, <1>9 DEF w

LEMMA BehindFirst ==
    ASSUME NEW w \in Seq(Token), NEW u \in Seq(Token), NEW k \in 0..Len(w)
    PROVE  /\ Behind(w \o u, k) = Behind(w, k) \o u
           /\ k \in 0..Len(w \o u)
           /\ \A i \in 1..Len(w) : (w \o u)[i] = w[i]
<1> DEFINE a == Take(w, k)
           v == Behind(w, k)
<1>1. a \in Seq(Token) /\ v \in Seq(Token)
  BY CutInTwo
<1>9. a \o v = w /\ Len(a) = k
  BY CutInTwo
<1> HIDE DEF a, v
<1>2. w \o u = a \o (v \o u)
  <2>1. (a \o v) \o u = a \o (v \o u)
    <3>1. Together(a, v, u)
      BY <1>1, ConcatTogether
    <3>2. QED
      BY <3>1 DEF Together
  <2>2. QED
    BY <1>9, <2>1
<1>3. v \o u \in Seq(Token)
  BY <1>1
<1>4. Behind(a \o (v \o u), Len(a)) = v \o u
  BY <1>1, <1>3, BehindJoined
<1>5. Behind(w \o u, k) = v \o u
  BY <1>9, <1>2, <1>4
<1>6. Len(w \o u) = Len(w) + Len(u) /\ \A i \in 1..Len(w) : (w \o u)[i] = w[i]
  <2> DEFINE z == w \o u
  <2>1. /\ Len(z) = Len(w) + Len(u)
        /\ \A i \in 1..(Len(w) + Len(u)) : z[i] = IF i <= Len(w) THEN w[i] ELSE u[i - Len(w)]
    BY ConcatProperties
  <2>2. Len(w) \in Nat /\ Len(u) \in Nat
    OBVIOUS
  <2> HIDE DEF z
  <2>3. \A i \in 1..Len(w) : i \in 1..(Len(w) + Len(u)) /\ i <= Len(w)
    BY <2>2
  <2>4. QED
    BY <2>1, <2>3 DEF z
<1>7. k \in 0..Len(w \o u)
  BY <1>6
<1>8. QED
  BY <1>5, <1>6, <1>7 DEF v

LEMMA LeastIs ==
    ASSUME NEW S, S \subseteq Nat, S # {}
    PROVE  Least(S) \in S /\ \A j \in S : Least(S) <= j
<1>1. \E i \in S : \A j \in S : i <= j
  BY LeastElement
<1>2. QED
  BY <1>1 DEF Least

\* A reply that is not whole in buf goes on in the stream.
LEMMA ReplyGoesOn ==
    ASSUME NEW buf \in Seq(Token), NEW stream \in Seq(Token), NEW a \in 1..Len(buf), NEW l \in {4, 6},
           ReplyAt(buf \o stream, a, l), a + l - 1 > Len(buf)
    PROVE  buf[a].n \in RepliesIn(stream)
<1> DEFINE w == buf \o stream
           m == Len(buf)
           p == a + (l - 1)
<1>1. /\ w \in Seq(Token) /\ Len(w) = m + Len(stream)
      /\ \A i \in 1..(m + Len(stream)) : w[i] = IF i <= m THEN buf[i] ELSE stream[i - m]
  BY ConcatProperties
<1>2. m \in Nat /\ Len(stream) \in Nat /\ a \in Nat
  OBVIOUS
<1>3. /\ a + l <= Len(w) + 1
      /\ \A j \in 0..(l - 1) : w[a + j].by = "terminal" /\ w[a + j].n = w[a].n
  BY DEF ReplyAt
<1>4. l - 1 \in 0..(l - 1)
  OBVIOUS
<1>5. w[p].by = "terminal" /\ w[p].n = w[a].n
  BY <1>3, <1>4
<1> HIDE DEF w
<1>6. p \in 1..(m + Len(stream)) /\ ~(p <= m) /\ p - m \in 1..Len(stream) /\ a <= m
      /\ a \in 1..(m + Len(stream))
  BY <1>1, <1>2, <1>3
<1> HIDE DEF m, p
<1>7. w[p] = stream[p - m] /\ w[a] = buf[a]
  BY <1>1, <1>6
<1>8. QED
  BY <1>5, <1>6, <1>7 DEF RepliesIn

\* Where a token of the terminal stands there begins a reply, in front of it.
LEMMA InReply ==
    ASSUME NEW buf \in Seq(Token), NEW stream \in Seq(Token), Aligned(buf \o stream),
           NEW i \in 1..Len(buf), buf[i].by = "terminal"
    PROVE  \E a \in 1..i, l \in {4, 6} :
             /\ ReplyAt(buf \o stream, a, l) /\ i < a + l
             /\ buf[a].n = buf[i].n /\ buf[a].b = "ESC" /\ buf[a].by = "terminal"
             /\ a + 1 <= Len(buf) => buf[a + 1].b \in {"underscore", "["}
             /\ a + 2 <= Len(buf) /\ buf[a + 1].b = "underscore" => buf[a + 2].b = "G"
<1> DEFINE w == buf \o stream
<1>1. \A j \in 1..Len(buf) : w[j] = buf[j]
  <2>1. 0 \in 0..Len(buf)
    OBVIOUS
  <2>2. QED
    BY <2>1, BehindFirst
<1>2. Len(w) = Len(buf) + Len(stream) /\ i \in 1..Len(w)
  <2>1. Len(w) = Len(buf) + Len(stream)
    BY ConcatProperties
  <2>2. QED
    BY <2>1
<1> HIDE DEF w
<1>3. w[i].by = "terminal" /\ Aligned(w)
  BY <1>1 DEF w
<1>4. PICK a \in 1..i, l \in {4, 6} : ReplyAt(w, a, l) /\ i < a + l
  BY <1>2, <1>3 DEF Aligned
<1>5. a \in Nat \ {0} /\ a \in 1..Len(buf)
  OBVIOUS
<1>6. /\ w[a].by = "terminal" /\ w[a].b = "ESC" /\ w[a + 1].b \in {"underscore", "["}
      /\ w[a + 1].b = "underscore" => w[a + 2].b = "G"
  BY <1>4, <1>5, ReplySpelled
<1>7. w[i].n = w[a].n
  <2> DEFINE j == i - a
  <2>1. j \in 0..(l - 1) /\ a + j = i
    BY <1>4, <1>5
  <2> HIDE DEF j
  <2>2. w[a + j].n = w[a].n
    BY <1>4, <2>1 DEF ReplyAt
  <2>3. QED
    BY <2>1, <2>2
<1>8. (a + 1 <= Len(buf) => a + 1 \in 1..Len(buf)) /\ (a + 2 <= Len(buf) => a + 2 \in 1..Len(buf))
      /\ (a + 2 <= Len(buf) => a + 1 \in 1..Len(buf))
  BY <1>5
<1>9. QED
  BY <1>1, <1>4, <1>5, <1>6, <1>7, <1>8 DEF w

\* What is taken as ordinary input was typed.
LEMMA OrdinaryWasTyped ==
    ASSUME NEW buf \in Seq(Token), NEW stream \in Seq(Token), Aligned(buf \o stream)
    PROVE  /\ OrdinaryPrefix(buf) \in 0..Len(buf)
           /\ \A i \in 1..OrdinaryPrefix(buf) : buf[i].by = "user"
           /\ Candidates(buf) # {} /\ OrdinaryPrefix(buf) = 0 => 1 \in Candidates(buf)
           /\ Candidates(buf) \subseteq 1..Len(buf)
<1> DEFINE m == Len(buf)
           k == OrdinaryPrefix(buf)
<1>1. m \in Nat
  OBVIOUS
<1>2. Candidates(buf) = {i \in 1..m : StartsAt(buf, APC_START, i) \/ StartsAt(buf, CSI_START, i)}
  BY DEF Candidates, Occurrences
<1>3. Candidates(buf) \subseteq 1..m
  BY <1>2
<1>4. CASE Candidates(buf) = {}
  <2>1. k = m - protocolPrefixSuffixLength(buf)
    BY <1>4 DEF OrdinaryPrefix
  <2> DEFINE p == protocolPrefixSuffixLength(buf)
  <2>5. p = IF m >= 2 /\ buf[m - 1].b = "ESC" /\ buf[m].b = "underscore" THEN 2
            ELSE IF m >= 1 /\ buf[m].b = "ESC" THEN 1 ELSE 0
    BY KeptBack
  <2> HIDE DEF k, p
  <2>6. k = m - p
    BY <2>1 DEF p
  <2>7. p \in Nat /\ p <= m
    BY <1>1, <2>5
  <2>2. /\ k \in 0..m
        /\ m - k = IF m >= 2 /\ buf[m - 1].b = "ESC" /\ buf[m].b = "underscore" THEN 2
                   ELSE IF m >= 1 /\ buf[m].b = "ESC" THEN 1 ELSE 0
    <3>1. m - k = p /\ k \in 0..m
      BY <1>1, <2>6, <2>7
    <3>2. QED
      BY <2>5, <3>1
  <2>3. ASSUME NEW i \in 1..k, buf[i].by # "user" PROVE FALSE
    <3>1. i \in 1..m /\ buf[i] \in Token
      BY <1>1, <2>2
    <3>2. buf[i].by = "terminal"
      BY <2>3, <3>1 DEF Token
    <3>3. PICK a \in 1..i, l \in {4, 6} :
             /\ ReplyAt(buf \o stream, a, l) /\ i < a + l
             /\ buf[a].n = buf[i].n /\ buf[a].b = "ESC" /\ buf[a].by = "terminal"
             /\ a + 1 <= Len(buf) => buf[a + 1].b \in {"underscore", "["}
             /\ a + 2 <= Len(buf) /\ buf[a + 1].b = "underscore" => buf[a + 2].b = "G"
      BY <3>1, <3>2, InReply
    <3>4. a \in 1..m /\ a <= k /\ ~StartsAt(buf, APC_START, a) /\ ~StartsAt(buf, CSI_START, a)
      BY <1>2, <1>4, <2>2, <3>1
    <3>9. a + 1 <= m => buf[a + 1].b = "underscore"
      BY <3>3, <3>4, StartPlaces
    <3>10. ~(a + 2 <= m)
      <4>1. a + 2 <= m => a + 1 <= m
        BY <1>1, <3>4
      <4>2. QED
        BY <3>3, <3>4, <3>9, <4>1, StartPlaces
    <3>5. a = m \/ (a + 1 = m /\ buf[m].b = "underscore")
      <4>1. a = m \/ a + 1 = m
        BY <1>1, <3>4, <3>10
      <4>2. a + 1 = m => a + 1 <= m
        BY <1>1
      <4>3. QED
        BY <3>9, <4>1, <4>2
    <3>6. a = m => buf[m].b = "ESC"
      BY <3>3
    <3>7. a + 1 = m => m - 1 = a /\ m >= 2
      BY <1>1, <3>4
    <3>8. QED
      BY <1>1, <2>2, <3>3, <3>4, <3>5, <3>6, <3>7
  <2>4. QED
    BY <1>3, <1>4, <2>2, <2>3 DEF k
<1>5. CASE Candidates(buf) # {}
  <2> DEFINE c == Least(Candidates(buf))
  <2>1. k = c - 1
    BY <1>5 DEF OrdinaryPrefix
  <2>2. c \in Candidates(buf) /\ \A j \in Candidates(buf) : c <= j
    <3>1. Candidates(buf) \subseteq Nat
      BY <1>3
    <3>2. QED
      BY <1>5, <3>1, LeastIs
  <2> HIDE DEF k, c
  <2>3. c \in 1..m /\ k \in 0..m /\ buf[c].b = "ESC"
    BY <1>1, <1>2, <2>1, <2>2, StartPlaces
  <2>4. ASSUME NEW i \in 1..k, buf[i].by # "user" PROVE FALSE
    <3>1. i \in 1..m /\ buf[i] \in Token /\ i < c
      BY <1>1, <2>1, <2>3
    <3>2. buf[i].by = "terminal"
      BY <2>4, <3>1 DEF Token
    <3>3. PICK a \in 1..i, l \in {4, 6} :
             /\ ReplyAt(buf \o stream, a, l) /\ i < a + l
             /\ buf[a].n = buf[i].n /\ buf[a].b = "ESC" /\ buf[a].by = "terminal"
             /\ a + 1 <= Len(buf) => buf[a + 1].b \in {"underscore", "["}
             /\ a + 2 <= Len(buf) /\ buf[a + 1].b = "underscore" => buf[a + 2].b = "G"
      BY <3>1, <3>2, InReply
    <3>4. a \in 1..m /\ a < c /\ a \notin Candidates(buf)
      BY <2>2, <2>3, <3>1
    <3>5. ~StartsAt(buf, APC_START, a) /\ ~StartsAt(buf, CSI_START, a)
      BY <1>2, <3>4
    <3>6. a + 1 <= m /\ buf[a + 1].b = "underscore"
      <4>1. a + 1 <= m
        BY <1>1, <2>3, <3>4
      <4>2. buf[a + 1].b # "["
        BY <3>3, <3>4, <3>5, <4>1, StartPlaces
      <4>3. QED
        BY <3>3, <4>1, <4>2
    <3>7. c # a + 1
      BY <2>3, <3>6
    <3>8. a + 2 <= m
      BY <1>1, <2>3, <3>4, <3>7
    <3>9. QED
      BY <3>3, <3>4, <3>5, <3>6, <3>8, StartPlaces
  <2>5. k = 0 => 1 \in Candidates(buf)
    <3>1. k = 0 => c = 1
      BY <2>1, <2>3
    <3>2. QED
      BY <2>2, <3>1
  <2>6. QED
    BY <1>3, <2>3, <2>4, <2>5 DEF k
<1>6. QED
  BY <1>4, <1>5

\* What waits for more input: it takes nothing, and no reply in it is whole.
Stuck(buf, stream) ==
    /\ OrdinaryPrefix(buf) = 0
    /\ RepliesIn(buf) \subseteq RepliesIn(stream)
    /\ WholeSequences => KeysIn(buf) = {} \/ Len(buf) <= 2

LEMMA ReplyHasNoKeys ==
    ASSUME NEW buf \in Seq(Token), NEW stream \in Seq(Token), NEW k \in {4, 6}, k <= Len(buf),
           ReplyAt(buf \o stream, 1, k)
    PROVE  KeysIn(Take(buf, k)) = {}
<1> DEFINE w == buf \o stream
           v == Take(buf, k)
<1>1. k \in 0..Len(buf) /\ 0 \in 0..Len(buf)
  OBVIOUS
<1>2. \A i \in 1..Len(buf) : w[i] = buf[i]
  BY <1>1, BehindFirst
<1>3. Len(v) = k /\ \A i \in 1..k : v[i] = buf[i]
  BY <1>1, CutInTwo
<1>4. ASSUME NEW i \in 1..k PROVE w[i].by = "terminal"
  <2> DEFINE j == i - 1
  <2>1. j \in 0..(k - 1) /\ 1 + j = i
    OBVIOUS
  <2> HIDE DEF j
  <2>2. w[1 + j].by = "terminal"
    BY <2>1 DEF ReplyAt
  <2>3. QED
    BY <2>1, <2>2
<1> HIDE DEF w, v
<1>5. \A i \in 1..Len(v) : v[i].by = "terminal"
  <2>1. \A i \in 1..k : i \in 1..Len(buf)
    BY <1>1
  <2>2. QED
    BY <1>2, <1>3, <1>4, <2>1
<1>6. QED
  BY <1>5 DEF KeysIn, v

LEMMA WaitsForMore ==
    ASSUME NEW buf \in Seq(Token), NEW stream \in Seq(Token), Aligned(buf \o stream),
           Candidates(buf) = {}, OrdinaryPrefix(buf) = 0
    PROVE  Stuck(buf, stream)
<1> DEFINE m == Len(buf)
           p == protocolPrefixSuffixLength(buf)
<1>1. m \in Nat
  OBVIOUS
<1>2. p \in Nat /\ p <= 2
  <2>1. p = IF m >= 2 /\ buf[m - 1].b = "ESC" /\ buf[m].b = "underscore" THEN 2
            ELSE IF m >= 1 /\ buf[m].b = "ESC" THEN 1 ELSE 0
    BY KeptBack
  <2> HIDE DEF p
  <2>2. QED
    BY <2>1
<1>3. m - p = 0
  BY DEF OrdinaryPrefix
<1> HIDE DEF p
<1>4. m <= 2
  BY <1>1, <1>2, <1>3
<1>5. ASSUME NEW i \in 1..m, buf[i].by = "terminal" PROVE buf[i].n \in RepliesIn(stream)
  <2>1. PICK a \in 1..i, l \in {4, 6} : ReplyAt(buf \o stream, a, l) /\ buf[a].n = buf[i].n
    BY <1>5, InReply
  <2>2. a \in 1..Len(buf) /\ a + l - 1 > Len(buf)
    BY <1>4
  <2>3. buf[a].n \in RepliesIn(stream)
    BY <2>1, <2>2, ReplyGoesOn
  <2>4. QED
    BY <2>1, <2>3
<1>6. QED
  BY <1>4, <1>5 DEF Stuck, RepliesIn

LEMMA KittyFrame ==
    ASSUME NEW frame \in Seq(Token), Len(frame) = 6, frame[4].b \in {"31:OK", "31:ENOTSUP"}
    PROVE  parseKitty(frame) \in {"ok", "error"}
<1> DEFINE z == SubSeq(frame, 4, Len(frame) - 2)
           body == Bytes(z)
<1>1. Len(z) = 1 /\ z[1] = frame[4]
  <2>1. Len(frame) - 2 = 4
    OBVIOUS
  <2> DEFINE y == SubSeq(frame, 4, 4)
  <2>9. 4 \in 1..Len(frame)
    OBVIOUS
  <2>7. Len(y) = 1
    BY <2>9
  <2>8. y[1] = frame[4]
    BY <2>9
  <2>2. Len(y) = 1 /\ y[1] = frame[4]
    BY <2>7, <2>8
  <2> HIDE DEF y
  <2>3. z = y
    BY <2>1 DEF y
  <2> HIDE DEF z
  <2>4. QED
    BY <2>2, <2>3
<1> HIDE DEF z
<1>2. body = [i \in 1..1 |-> z[i].b]
  BY <1>1 DEF Bytes
<1> HIDE DEF body
<1>3. body = <<frame[4].b>>
  BY <1>1, <1>2
<1>4. Len(body) = 1 /\ body[1] = frame[4].b /\ body # <<>>
  BY <1>3
<1>5. \A i \in 1..Len(body) : body[i] # "ESC"
  BY <1>4
<1>6. CASE frame[4].b = "31:OK"
  <2>1. body = <<"31:OK">>
    BY <1>3, <1>6
  <2>2. QED
    BY <2>1 DEF parseKitty, body, z
<1>7. CASE frame[4].b = "31:ENOTSUP"
  <2>1. body # <<"31:OK">> /\ body[1] = "31:ENOTSUP"
    BY <1>3, <1>4, <1>7
  <2>2. QED
    BY <1>4, <1>5, <2>1 DEF parseKitty, body, z
<1>8. QED
  BY <1>6, <1>7

LEMMA KittyTurn ==
    ASSUME NEW buf \in Seq(Token), NEW stream \in Seq(Token), Aligned(buf \o stream),
           1 \in 1..Len(buf), StartsAt(buf, APC_START, 1), OrdinaryPrefix(buf) = 0,
           NEW ends, ends = Occurrences(buf, STRING_TERMINATOR, 4)
    PROVE  /\ ReplyAt(buf \o stream, 1, 6)
           /\ ends = {} => Stuck(buf, stream)
           /\ ends # {} => /\ Least(ends) + 1 = 6 /\ 6 <= Len(buf)
                           /\ parseKitty(Take(buf, 6)) \in {"ok", "error"}
<1> DEFINE w == buf \o stream
           m == Len(buf)
<1>1. m \in Nat /\ m >= 1
  OBVIOUS
<1>2. \A i \in 1..m : w[i] = buf[i]
  <2>1. 0 \in 0..Len(buf)
    OBVIOUS
  <2>2. QED
    BY <2>1, BehindFirst
<1>3. 2 \in 1..m /\ buf[2].b = "underscore"
  <2>1. 1 + 2 <= m /\ buf[1 + 1].b = "underscore"
    BY StartPlaces
  <2>2. QED
    BY <1>1, <2>1
<1>4. 2 \in 1..Len(w) /\ w[2].b = "underscore"
  <2>1. Len(w) = m + Len(stream)
    BY ConcatProperties
  <2>2. QED
    BY <1>2, <1>3, <2>1
<1>15. Aligned(w)
  OBVIOUS
<1> HIDE DEF w
<1>5. ReplyAt(w, 1, 6)
  <2>1. 2 - 1 = 1
    OBVIOUS
  <2>2. ReplyAt(w, 2 - 1, 6)
    BY <1>4, <1>15, SignPlace
  <2>3. QED
    BY <2>1, <2>2
<1>6. /\ w[3].b = "G" /\ w[4].b \in {"31:OK", "31:ENOTSUP"} /\ w[5].b = "ESC" /\ w[6].b = "\\"
  <2>1. 1 + 2 = 3 /\ 1 + 3 = 4 /\ 1 + 4 = 5 /\ 1 + 5 = 6 /\ 1 \in Nat \ {0}
    OBVIOUS
  <2>2. /\ w[1 + 2].b = "G" /\ w[1 + 3].b \in {"31:OK", "31:ENOTSUP"}
        /\ w[1 + 4].b = "ESC" /\ w[1 + 5].b = "\\"
    BY <1>5, <2>1, ReplySpelled
  <2>3. QED
    BY <2>1, <2>2
<1>7. \A i \in 1..6 : w[i].by = "terminal" /\ w[i].n = w[1].n
  <2> TAKE i \in 1..6
  <2> DEFINE j == i - 1
  <2>1. j \in 0..(6 - 1) /\ 1 + j = i
    OBVIOUS
  <2> HIDE DEF j
  <2>2. w[1 + j].by = "terminal" /\ w[1 + j].n = w[1].n
    BY <1>5, <2>1 DEF ReplyAt
  <2>3. QED
    BY <2>1, <2>2
<1>8. ends = {i \in 4..m : buf[i].b = "ESC" /\ i + 1 <= m /\ buf[i + 1].b = "\\"}
  <2>1. ends = {i \in 4..m : StartsAt(buf, STRING_TERMINATOR, i)}
    BY DEF Occurrences
  <2>2. \A i \in 4..m : i \in 1..m
    BY <1>1
  <2>3. QED
    BY <2>1, <2>2, StartPlaces
<1>9. m >= 6 => 5 \in ends
  <2> SUFFICES ASSUME m >= 6 PROVE 5 \in ends
    OBVIOUS
  <2>1. 5 \in 4..m /\ 5 \in 1..m /\ 6 \in 1..m /\ 5 + 1 = 6 /\ 5 + 1 <= m
    BY <1>1
  <2>2. QED
    BY <1>2, <1>6, <1>8, <2>1
<1>10. \A i \in ends : i \in Nat /\ i >= 5 /\ i + 1 <= m
  <2> TAKE i \in ends
  <2>1. i \in 4..m /\ buf[i].b = "ESC" /\ i + 1 <= m
    BY <1>8
  <2>2. i # 4
    <3>1. 4 \in 4..m => 4 \in 1..m
      OBVIOUS
    <3>2. QED
      BY <1>2, <1>6, <2>1, <3>1
  <2>3. QED
    BY <1>1, <2>1, <2>2
<1>11. ends # {} => Least(ends) = 5 /\ m >= 6
  <2> SUFFICES ASSUME ends # {} PROVE Least(ends) = 5 /\ m >= 6
    OBVIOUS
  <2>1. Least(ends) \in ends /\ \A j \in ends : Least(ends) <= j
    BY <1>10, LeastIs
  <2>2. m >= 6
    BY <1>1, <1>10, <2>1
  <2>3. QED
    BY <1>9, <1>10, <2>1, <2>2
<1>12. ends # {} => parseKitty(Take(buf, 6)) \in {"ok", "error"}
  <2> SUFFICES ASSUME ends # {} PROVE parseKitty(Take(buf, 6)) \in {"ok", "error"}
    OBVIOUS
  <2> DEFINE frame == Take(buf, 6)
  <2>1. 6 \in 0..m /\ 4 \in 1..6 /\ 4 \in 1..m
    BY <1>1, <1>11
  <2>2. frame \in Seq(Token) /\ Len(frame) = 6 /\ frame[4] = buf[4]
    BY <2>1, CutInTwo
  <2> HIDE DEF frame
  <2>3. frame[4].b \in {"31:OK", "31:ENOTSUP"}
    BY <1>2, <1>6, <2>1, <2>2
  <2>4. QED
    BY <2>2, <2>3, KittyFrame DEF frame
<1>13. ends = {} => Stuck(buf, stream)
  <2> SUFFICES ASSUME ends = {} PROVE Stuck(buf, stream)
    OBVIOUS
  <2>1. m < 6
    BY <1>1, <1>9
  <2>2. \A i \in 1..m : buf[i].by = "terminal" /\ buf[i].n = buf[1].n
    <3>1. \A i \in 1..m : i \in 1..6 /\ 1 \in 1..m
      BY <1>1, <2>1
    <3>2. QED
      BY <1>2, <1>7, <3>1
  <2>3. buf[1].n \in RepliesIn(stream)
    <3>1. 1 + 6 - 1 > Len(buf) /\ 6 \in {4, 6} /\ 1 \in 1..Len(buf)
      BY <1>1, <2>1
    <3>2. QED
      BY <1>5, <3>1, ReplyGoesOn DEF w
  <2>4. KeysIn(buf) = {} /\ RepliesIn(buf) \subseteq RepliesIn(stream)
    BY <2>2, <2>3 DEF KeysIn, RepliesIn
  <2>5. QED
    BY <2>4 DEF Stuck
<1>14. QED
  BY <1>5, <1>11, <1>12, <1>13 DEF w

LEMMA FrameBytes ==
    ASSUME NEW buf \in Seq(Token), NEW k \in 0..Len(buf)
    PROVE  /\ Len(Take(buf, k)) = k
           /\ Bytes(Take(buf, k)) = [i \in 1..k |-> buf[i].b]
BY CutInTwo DEF Bytes

LEMMA CsiTurn ==
    ASSUME NEW buf \in Seq(Token), NEW stream \in Seq(Token), Aligned(buf \o stream),
           1 \in 1..Len(buf), StartsAt(buf, CSI_START, 1), OrdinaryPrefix(buf) = 0,
           NEW finals, finals = {i \in 3..Len(buf) : buf[i].b \notin NotFinal}
    PROVE  /\ finals = {} => Stuck(buf, stream)
           /\ finals # {} =>
                /\ Least(finals) \in 3..Len(buf)
                /\ \/ /\ Least(finals) = 4 /\ ReplyAt(buf \o stream, 1, 4)
                      /\ \/ Bytes(Take(buf, Least(finals))) = Da1Reply
                         \/ Bytes(Take(buf, Least(finals))) = CellReply
                   \/ /\ buf[1].by = "user"
                      /\ Bytes(Take(buf, Least(finals))) # Da1Reply
                      /\ Bytes(Take(buf, Least(finals))) # CellReply
<1> DEFINE w == buf \o stream
           m == Len(buf)
           f == Least(finals)
<1>1. m \in Nat /\ m >= 1 /\ Len(stream) \in Nat
  OBVIOUS
<1>2. \A i \in 1..m : w[i] = buf[i]
  <2>1. 0 \in 0..Len(buf)
    OBVIOUS
  <2>2. QED
    BY <2>1, BehindFirst
<1>3. 2 \in 1..m /\ buf[1].b = "ESC" /\ buf[2].b = "["
  <2>1. 1 + 1 <= m /\ buf[1 + 1].b = "[" /\ buf[1].b = "ESC"
    BY StartPlaces
  <2>2. QED
    BY <1>1, <2>1
<1>4. Aligned(w) /\ Len(w) = m + Len(stream)
  BY ConcatProperties
<1>5. buf[1] \in Token
  OBVIOUS
<1> HIDE DEF w
<1>6. finals # {} => f \in finals /\ (\A j \in finals : f <= j)
  <2>1. finals \subseteq Nat
    BY <1>1
  <2>2. QED
    BY <2>1, LeastIs
<1> HIDE DEF f
<1>7. CASE buf[1].by = "terminal"
  <2>1. ReplyAt(w, 1, 4)
    <3>1. 1 \in 1..Len(w) /\ 1 < Len(w) /\ w[1 + 1].b = "[" /\ w[1].b = "ESC" /\ w[1].by = "terminal"
      BY <1>1, <1>2, <1>3, <1>4, <1>7
    <3>2. QED
      BY <1>4, <3>1, SignPlace
  <2>2. \/ w[3].b = "?62:4" /\ w[4].b = "c"
        \/ w[3].b = "6:20:10" /\ w[4].b = "t"
    <3>1. 1 + 2 = 3 /\ 1 + 3 = 4 /\ 4 # 6
      OBVIOUS
    <3>2. \/ w[1 + 2].b = "?62:4" /\ w[1 + 3].b = "c"
          \/ w[1 + 2].b = "6:20:10" /\ w[1 + 3].b = "t"
      BY <2>1, <3>1 DEF ReplyAt
    <3>3. QED
      BY <3>1, <3>2
  <2>3. \A i \in 1..4 : w[i].by = "terminal" /\ w[i].n = w[1].n
    <3> TAKE i \in 1..4
    <3> DEFINE j == i - 1
    <3>1. j \in 0..(4 - 1) /\ 1 + j = i
      OBVIOUS
    <3> HIDE DEF j
    <3>2. w[1 + j].by = "terminal" /\ w[1 + j].n = w[1].n
      BY <2>1, <3>1 DEF ReplyAt
    <3>3. QED
      BY <3>1, <3>2
  <2>4. 3 \notin finals
    <3>1. 3 \in finals => 3 \in 1..m /\ buf[3].b \notin NotFinal
      BY <1>1
    <3>2. QED
      BY <1>2, <2>2, <3>1 DEF NotFinal
  <2>5. m >= 4 => 4 \in finals
    <3> SUFFICES ASSUME m >= 4 PROVE 4 \in finals
      OBVIOUS
    <3>1. 4 \in 3..m /\ 4 \in 1..m
      BY <1>1
    <3>2. buf[4].b \in {"c", "t"}
      BY <1>2, <2>2, <3>1
    <3>3. QED
      BY <3>1, <3>2 DEF NotFinal
  <2>6. finals # {} => f = 4 /\ m >= 4
    <3> SUFFICES ASSUME finals # {} PROVE f = 4 /\ m >= 4
      OBVIOUS
    <3>1. f \in 3..m /\ f # 3
      BY <1>6, <2>4
    <3>2. QED
      BY <1>1, <1>6, <2>5, <3>1
  <2>7. finals = {} => Stuck(buf, stream)
    <3> SUFFICES ASSUME finals = {} PROVE Stuck(buf, stream)
      OBVIOUS
    <3>1. m < 4
      BY <1>1, <2>5
    <3>2. \A i \in 1..m : buf[i].by = "terminal" /\ buf[i].n = buf[1].n
      <4>1. \A i \in 1..m : i \in 1..4 /\ 1 \in 1..m
        BY <1>1, <3>1
      <4>2. QED
        BY <1>2, <2>3, <4>1
    <3>3. buf[1].n \in RepliesIn(stream)
      <4>1. 1 + 4 - 1 > Len(buf) /\ 4 \in {4, 6} /\ 1 \in 1..Len(buf)
        BY <1>1, <3>1
      <4>2. QED
        BY <2>1, <4>1, ReplyGoesOn DEF w
    <3>4. KeysIn(buf) = {} /\ RepliesIn(buf) \subseteq RepliesIn(stream)
      BY <3>2, <3>3 DEF KeysIn, RepliesIn
    <3>5. QED
      BY <3>4 DEF Stuck
  <2>8. ASSUME finals # {} PROVE Bytes(Take(buf, f)) = Da1Reply \/ Bytes(Take(buf, f)) = CellReply
    <3> DEFINE z == Bytes(Take(buf, f))
    <3>1. f = 4 /\ 4 \in 0..m /\ 3 \in 1..m /\ 4 \in 1..m
      BY <1>1, <2>6, <2>8
    <3>2. z = [i \in 1..4 |-> buf[i].b]
      BY <3>1, FrameBytes
    <3> HIDE DEF z
    <3>3. z = <<buf[1].b, buf[2].b, buf[3].b, buf[4].b>>
      BY <3>2
    <3>4. \/ buf[3].b = "?62:4" /\ buf[4].b = "c"
          \/ buf[3].b = "6:20:10" /\ buf[4].b = "t"
      BY <1>2, <2>2, <3>1
    <3>5. QED
      BY <1>3, <3>3, <3>4 DEF Da1Reply, CellReply, z
  <2>9. finals # {} => f \in 3..m
    BY <1>6
  <2>10. QED
    BY <2>1, <2>6, <2>7, <2>8, <2>9 DEF w, f
<1>8. CASE buf[1].by = "user"
  <2>1. buf[2].by = "user"
    <3> SUFFICES ASSUME buf[2].by # "user" PROVE FALSE
      OBVIOUS
    <3>1. buf[2].by = "terminal"
      <4>1. buf[2] \in Token
        BY <1>3
      <4>2. QED
        BY <4>1 DEF Token
    <3>2. PICK a \in 1..2, l \in {4, 6} : buf[a].b = "ESC" /\ buf[a].by = "terminal"
      BY <1>3, <3>1, InReply DEF w
    <3>3. a = 1 \/ a = 2
      OBVIOUS
    <3>4. QED
      BY <1>3, <1>8, <3>2, <3>3
  <2>2. ASSUME finals # {}, Bytes(Take(buf, f)) = Da1Reply \/ Bytes(Take(buf, f)) = CellReply
        PROVE  FALSE
    <3> DEFINE z == Bytes(Take(buf, f))
    <3>1. f \in 0..m /\ f \in 3..m /\ 3 \in 1..f /\ 3 \in 1..m
      BY <1>1, <1>6, <2>2
    <3>2. z = [i \in 1..f |-> buf[i].b]
      BY <3>1, FrameBytes
    <3>3. z[3] \in {"?62:4", "6:20:10"}
      BY <2>2 DEF Da1Reply, CellReply
    <3> HIDE DEF z
    <3>4. z[3] = buf[3].b
      BY <3>1, <3>2
    <3>5. 3 \in 1..Len(w) /\ w[3].b \in {"?62:4", "6:20:10"}
      BY <1>1, <1>2, <1>4, <3>1, <3>3, <3>4
    <3>6. ReplyAt(w, 1, 4)
      <4>1. 3 - 2 = 1
        OBVIOUS
      <4>2. ReplyAt(w, 3 - 2, 4)
        BY <1>4, <3>5, SignPlace
      <4>3. QED
        BY <4>1, <4>2
    <3>7. w[1].by = "terminal"
      <4>1. 1 \in Nat \ {0}
        OBVIOUS
      <4>2. QED
        BY <3>6, <4>1, ReplySpelled
    <3>8. QED
      BY <1>2, <1>8, <3>7
  <2>3. ASSUME finals = {} PROVE Stuck(buf, stream)
    <3>1. \A i \in 3..m : buf[i].b \in NotFinal
      BY <2>3
    <3>2. ASSUME NEW i \in 1..m, buf[i].by = "terminal" PROVE buf[i].n \in RepliesIn(stream)
      <4>1. PICK a \in 1..i, l \in {4, 6} :
               /\ ReplyAt(buf \o stream, a, l) /\ buf[a].n = buf[i].n /\ buf[a].by = "terminal"
               /\ a + 1 <= Len(buf) => buf[a + 1].b \in {"underscore", "["}
        BY <3>2, InReply DEF w
      <4>2. a # 1 /\ a # 2 /\ a \in 1..m
        BY <1>8, <2>1, <4>1
      <4>3. a + 1 <= m => a + 1 \in 3..m
        BY <1>1, <4>2
      <4>4. ~(a + 1 <= m)
        BY <3>1, <4>1, <4>3 DEF NotFinal
      <4>5. a + l - 1 > Len(buf)
        BY <1>1, <4>2, <4>4
      <4>6. QED
        BY <4>1, <4>2, <4>5, ReplyGoesOn
    <3>3. ASSUME WholeSequences PROVE m <= 2
      <4>1. 2 \in 1..Len(w) /\ w[2].by = "user" /\ w[2].b = "["
        BY <1>1, <1>2, <1>3, <1>4, <2>1
      <4>2. w[2 + 1].b \notin NotFinal
        BY <1>4, <3>3, <4>1 DEF Aligned
      <4>3. m >= 3 => 3 \in 3..m /\ 3 \in 1..m /\ 2 + 1 = 3
        BY <1>1
      <4>4. ~(m >= 3)
        BY <1>2, <3>1, <4>2, <4>3
      <4>5. QED
        BY <1>1, <4>4
    <3>4. QED
      BY <3>2, <3>3 DEF Stuck, RepliesIn
  <2>4. finals # {} => f \in 3..m
    BY <1>6
  <2>5. QED
    BY <1>8, <2>2, <2>3, <2>4 DEF f
<1>9. QED
  <2>1. buf[1].by \in {"user", "terminal"}
    BY <1>5 DEF Token
  <2>2. QED
    BY <1>7, <1>8, <2>1

ReplyKinds == {"none", "ok", "error", "da1", "cell"}

\* A turn: how many tokens it takes, whether as input or as a reply, and what
\* it means when it takes none.
Turned(buf, stream, t) ==
    /\ t.reply \in ReplyKinds
    /\ t.out \in Seq(Token) /\ t.rest \in Seq(Token)
    /\ RepliesIn(t.out) = {} /\ Keeps(buf, t.out \o t.rest)
    /\ Aligned(t.rest \o stream)
    /\ \/ Len(t.rest) < Len(buf)
       \/ t.out = <<>> /\ t.rest = buf /\ Stuck(buf, stream)

LEMMA TakesInput ==
    ASSUME NEW buf \in Seq(Token), NEW stream \in Seq(Token), Aligned(buf \o stream),
           NEW k \in 0..Len(buf), \A i \in 1..k : buf[i].by = "user", k = 0 => Stuck(buf, stream),
           NEW t, t.reply = "none", t.out = Take(buf, k), t.rest = Behind(buf, k)
    PROVE  Turned(buf, stream, t)
<1>1. /\ Take(buf, k) \in Seq(Token) /\ Behind(buf, k) \in Seq(Token)
      /\ Take(buf, k) \o Behind(buf, k) = buf
      /\ Len(Take(buf, k)) = k /\ Len(Behind(buf, k)) = Len(buf) - k
      /\ \A i \in 1..k : Take(buf, k)[i] = buf[i]
  BY CutInTwo
<1>2. RepliesIn(Take(buf, k)) = {}
  <2> DEFINE a == Take(buf, k)
  <2>1. \A i \in 1..Len(a) : a[i].by # "terminal"
    BY <1>1
  <2> HIDE DEF a
  <2>2. RepliesIn(a) = {}
    BY <2>1 DEF RepliesIn
  <2>3. QED
    BY <2>2 DEF a
<1>3. Aligned(Behind(buf, k) \o stream)
  <2>1. /\ Behind(buf \o stream, k) = Behind(buf, k) \o stream /\ k \in 0..Len(buf \o stream)
        /\ \A i \in 1..Len(buf) : (buf \o stream)[i] = buf[i]
    BY BehindFirst
  <2>2. \A i \in 1..k : (buf \o stream)[i].by = "user"
    BY <2>1
  <2>3. QED
    BY <2>1, <2>2, AlignedBehind
<1>4. k = 0 => t.out = <<>> /\ t.rest = buf
  <2> SUFFICES ASSUME k = 0 PROVE Take(buf, 0) = <<>> /\ Behind(buf, 0) = buf
    OBVIOUS
  <2>1. Take(buf, 0) = <<>>
    BY <1>1
  <2>2. Behind(buf, 0) = buf
    BY SubSeqFull DEF Behind
  <2>3. QED
    BY <2>1, <2>2
<1>5. k # 0 => Len(t.rest) < Len(buf)
  BY <1>1
<1>6. Keeps(buf, t.out \o t.rest)
  BY <1>1, KeepsItself
<1>7. QED
  BY <1>1, <1>2, <1>3, <1>4, <1>5, <1>6 DEF Turned, ReplyKinds

LEMMA TakesReply ==
    ASSUME NEW buf \in Seq(Token), NEW stream \in Seq(Token), Aligned(buf \o stream),
           NEW k \in {4, 6}, k <= Len(buf), ReplyAt(buf \o stream, 1, k),
           NEW t, t.reply \in ReplyKinds, t.out = <<>>, t.rest = Behind(buf, k)
    PROVE  Turned(buf, stream, t)
<1>1. k \in 0..Len(buf) /\ k > 0
  OBVIOUS
<1>2. Behind(buf, k) \in Seq(Token) /\ Len(Behind(buf, k)) = Len(buf) - k
  BY <1>1, CutInTwo
<1>3. Keeps(buf, Behind(buf, k))
  <2>1. KeysIn(Take(buf, k)) = {}
    BY ReplyHasNoKeys
  <2>2. QED
    BY <1>1, <2>1, KeepsBehind
<1>4. Aligned(Behind(buf, k) \o stream)
  <2>1. Behind(buf \o stream, k) = Behind(buf, k) \o stream /\ k \in 0..Len(buf \o stream)
    BY <1>1, BehindFirst
  <2>2. QED
    BY <2>1, AlignedBehind
<1>5. t.out \o t.rest = Behind(buf, k)
  BY <1>2, ConcatEmptySeq
<1>6. Len(t.rest) < Len(buf)
  BY <1>1, <1>2
<1>7. QED
  BY <1>2, <1>3, <1>4, <1>5, <1>6, NoTokens DEF Turned

LEMMA ScanTurn ==
    ASSUME NEW buf \in Seq(Token), NEW stream \in Seq(Token), Aligned(buf \o stream)
    PROVE  Turned(buf, stream, Scan(buf))
<1> DEFINE t == Scan(buf)
           k == OrdinaryPrefix(buf)
           ends == Occurrences(buf, STRING_TERMINATOR, 4)
           finals == {i \in 3..Len(buf) : buf[i].b \notin NotFinal}
<1>1. /\ k \in 0..Len(buf) /\ \A i \in 1..k : buf[i].by = "user"
      /\ Candidates(buf) # {} /\ k = 0 => 1 \in Candidates(buf)
      /\ Candidates(buf) \subseteq 1..Len(buf)
  BY OrdinaryWasTyped
<1>5. SUFFICES Turned(buf, stream, t)
  OBVIOUS
<1>6. Da1Reply # CellReply
  BY DEF Da1Reply, CellReply
<1>2. CASE k > 0 \/ Candidates(buf) = {}
  <2>5. ~StartsAt(buf, APC_START, 1) /\ ~StartsAt(buf, CSI_START, 1)
    <3>1. CASE 1 \in 1..Len(buf)
      <4>1. 1 \notin Candidates(buf)
        <5> SUFFICES ASSUME 1 \in Candidates(buf) PROVE FALSE
          OBVIOUS
        <5>1. Candidates(buf) \subseteq Nat /\ Candidates(buf) # {}
          BY <1>1
        <5> DEFINE c == Least(Candidates(buf))
        <5>2. c \in Candidates(buf) /\ c <= 1
          BY <5>1, LeastIs
        <5>3. k = c - 1
          BY <5>1 DEF OrdinaryPrefix
        <5> HIDE DEF c, k
        <5>4. QED
          BY <1>1, <1>2, <5>1, <5>2, <5>3
      <4>2. QED
        BY <3>1, <4>1 DEF Candidates, Occurrences
    <3>2. CASE 1 \notin 1..Len(buf)
      <4>1. Len(APC_START) = 3 /\ Len(CSI_START) = 2
        BY DEF APC_START, CSI_START
      <4>2. ~(1 + 3 - 1 <= Len(buf)) /\ ~(1 + 2 - 1 <= Len(buf))
        BY <3>2
      <4>3. QED
        BY <4>1, <4>2 DEF StartsAt
    <3>3. QED
      BY <3>1, <3>2
  <2>1. t = [out |-> Take(buf, k), rest |-> Behind(buf, k), reply |-> "none"]
    BY <1>2, <2>5 DEF Scan
  <2>2. t.reply = "none" /\ t.out = Take(buf, k) /\ t.rest = Behind(buf, k)
    BY <2>1
  <2>3. k = 0 => Stuck(buf, stream)
    BY <1>2, WaitsForMore
  <2>4. QED
    BY <1>1, <2>2, <2>3, TakesInput
<1>3. CASE ~(k > 0 \/ Candidates(buf) = {})
  <2>1. k = 0 /\ 1 \in Candidates(buf) /\ 1 \in 1..Len(buf)
    BY <1>1, <1>3
  <2>2. StartsAt(buf, APC_START, 1) \/ StartsAt(buf, CSI_START, 1)
    BY <2>1 DEF Candidates, Occurrences
  <2>3. ~(StartsAt(buf, APC_START, 1) /\ StartsAt(buf, CSI_START, 1))
    BY <2>1, StartPlaces
  <2> DEFINE Nothing == [out |-> Take(buf, 0), rest |-> Behind(buf, 0), reply |-> "none"]
  <2>4. ASSUME t = Nothing, Stuck(buf, stream) PROVE Turned(buf, stream, t)
    <3>1. t.reply = "none" /\ t.out = Take(buf, 0) /\ t.rest = Behind(buf, 0)
      BY <2>4
    <3>2. 0 \in 0..Len(buf) /\ \A i \in 1..0 : buf[i].by = "user"
      OBVIOUS
    <3> HIDE DEF t
    <3>3. QED
      BY <2>4, <3>1, <3>2, TakesInput
  <2>5. CASE StartsAt(buf, APC_START, 1)
    <3>1. /\ ReplyAt(buf \o stream, 1, 6)
          /\ ends = {} => Stuck(buf, stream)
          /\ ends # {} => /\ Least(ends) + 1 = 6 /\ 6 <= Len(buf)
                          /\ parseKitty(Take(buf, 6)) \in {"ok", "error"}
      BY <2>1, <2>5, KittyTurn
    <3>2. CASE ends = {}
      <4>1. t = Nothing
        BY <1>3, <2>3, <2>5, <3>2 DEF Scan
      <4>2. QED
        BY <2>4, <3>1, <3>2, <4>1
    <3>3. CASE ends # {}
      <4>1. t = [out |-> <<>>, rest |-> Behind(buf, 6), reply |-> parseKitty(Take(buf, 6))]
        <5>1. parseKitty(Take(buf, 6)) # "none"
          BY <3>1, <3>3
        <5>2. QED
          BY <1>3, <2>3, <2>5, <3>1, <3>3, <5>1 DEF Scan
      <4>2. t.out = <<>> /\ t.rest = Behind(buf, 6) /\ t.reply \in ReplyKinds
        BY <3>1, <3>3, <4>1 DEF ReplyKinds
      <4>3. 6 \in {4, 6}
        OBVIOUS
      <4> HIDE DEF t
      <4>4. QED
        BY <3>1, <3>3, <4>2, <4>3, TakesReply
    <3>4. QED
      BY <3>2, <3>3
  <2>6. CASE StartsAt(buf, CSI_START, 1)
    <3> DEFINE f == Least(finals)
               frame == Take(buf, f)
    <3>1. /\ finals = {} => Stuck(buf, stream)
          /\ finals # {} =>
                /\ f \in 3..Len(buf)
                /\ \/ /\ f = 4 /\ ReplyAt(buf \o stream, 1, 4)
                      /\ Bytes(frame) = Da1Reply \/ Bytes(frame) = CellReply
                   \/ /\ buf[1].by = "user"
                      /\ Bytes(frame) # Da1Reply /\ Bytes(frame) # CellReply
      BY <2>1, <2>6, CsiTurn
    <3>2. CASE finals = {}
      <4>1. t = Nothing
        BY <1>3, <2>3, <2>6, <3>2 DEF Scan
      <4>2. QED
        BY <2>4, <3>1, <3>2, <4>1
    <3>3. CASE finals # {} /\ Bytes(frame) # Da1Reply /\ Bytes(frame) # CellReply
      <4>1. t = [out |-> Take(buf, 1), rest |-> Behind(buf, 1), reply |-> "none"]
        BY <1>3, <2>3, <2>6, <3>3 DEF Scan
      <4>2. t.out = Take(buf, 1) /\ t.rest = Behind(buf, 1) /\ t.reply = "none"
        BY <4>1
      <4>3. 1 \in 0..Len(buf) /\ 1 # 0 /\ \A i \in 1..1 : buf[i].by = "user"
        BY <2>1, <3>1, <3>3
      <4> HIDE DEF t
      <4>4. QED
        BY <4>2, <4>3, TakesInput
    <3>4. CASE finals # {} /\ (Bytes(frame) = Da1Reply \/ Bytes(frame) = CellReply)
      <4>1. f = 4 /\ 4 <= Len(buf) /\ 4 \in 0..Len(buf) /\ ReplyAt(buf \o stream, 1, 4)
        BY <3>1, <3>4
      <4>2. Len(frame) = 4
        BY <4>1, CutInTwo
      <4>3. t.out = <<>> /\ t.rest = Behind(buf, 4) /\ t.reply \in ReplyKinds
        <5>1. CASE Bytes(frame) = Da1Reply
          <6>1. t = [out |-> <<>>, rest |-> Behind(buf, Len(frame)), reply |-> "da1"]
            BY <1>3, <1>6, <2>3, <2>6, <3>4, <5>1 DEF Scan
          <6>2. t.out = <<>> /\ t.rest = Behind(buf, Len(frame)) /\ t.reply = "da1"
            BY <6>1
          <6> HIDE DEF t, frame
          <6>3. QED
            BY <4>2, <6>2 DEF ReplyKinds
        <5>2. CASE Bytes(frame) # Da1Reply /\ Bytes(frame) = CellReply
          <6>1. t = [out |-> <<>>, rest |-> Behind(buf, Len(frame)), reply |-> "cell"]
            BY <1>3, <1>6, <2>3, <2>6, <3>4, <5>2 DEF Scan
          <6>2. t.out = <<>> /\ t.rest = Behind(buf, Len(frame)) /\ t.reply = "cell"
            BY <6>1
          <6> HIDE DEF t, frame
          <6>3. QED
            BY <4>2, <6>2 DEF ReplyKinds
        <5>3. QED
          BY <3>4, <5>1, <5>2
      <4>4. 4 \in {4, 6}
        OBVIOUS
      <4> HIDE DEF t
      <4>5. QED
        BY <4>1, <4>3, <4>4, TakesReply
    <3>5. QED
      BY <3>2, <3>3, <3>4
  <2>7. QED
    BY <2>2, <2>5, <2>6
<1>4. QED
  BY <1>2, <1>3

(***************************************************************************)
(* The loop of drainPending and drainLatePending.                          *)
(***************************************************************************)
LEMMA DrainSteps ==
    ASSUME NEW s, Len(s.pending) \in Nat
    PROVE  \E f : /\ f[0] = s /\ drainPending(s) = f[Len(s.pending)]
                  /\ \A i \in 1..Len(s.pending) : f[i] = drainTurn(f[i - 1])
<1> DEFINE n == Len(s.pending)
           Is(g, k) == g = [i \in 0..k |-> IF i = 0 THEN s ELSE drainTurn(g[i - 1])]
           Missing == {k \in Nat : ~ \E g : Is(g, k)}
<1>1. Missing = {}
  <2> SUFFICES ASSUME Missing # {} PROVE FALSE
    OBVIOUS
  <2>1. Missing \in SUBSET Nat
    OBVIOUS
  <2> HIDE DEF Is
  <2>2. PICK k \in Missing : \A j \in Missing : k <= j
    BY <2>1, LeastElement
  <2>3. k # 0
    <3>1. Is([i \in 0..0 |-> s], 0)
      BY DEF Is
    <3>2. QED
      BY <3>1
  <2>4. k \in Nat /\ k - 1 \in Nat /\ k - 1 \notin Missing
    BY <2>2, <2>3
  <2>5. PICK g : Is(g, k - 1)
    BY <2>4
  <2> DEFINE h == [i \in 0..k |-> IF i < k THEN g[i] ELSE drainTurn(g[k - 1])]
  <2>6. /\ g[0] = s
        /\ \A i \in 0..(k - 1) : i = 0 \/ g[i] = drainTurn(g[i - 1])
    BY <2>4, <2>5 DEF Is
  <2>7. \A i \in 0..k : h[i] = IF i = 0 THEN s ELSE drainTurn(h[i - 1])
    <3> TAKE i \in 0..k
    <3>1. CASE i = 0
      BY <2>3, <2>4, <2>6, <3>1
    <3>2. CASE i # 0 /\ i < k
      <4>1. h[i] = g[i] /\ h[i - 1] = g[i - 1] /\ g[i] = drainTurn(g[i - 1])
        BY <2>4, <2>6, <3>2
      <4>2. QED
        BY <3>2, <4>1
    <3>3. CASE i = k
      <4>1. h[k] = drainTurn(g[k - 1]) /\ h[k - 1] = g[k - 1]
        BY <2>3, <2>4
      <4>2. QED
        BY <2>3, <3>3, <4>1
    <3>4. QED
      BY <2>4, <3>1, <3>2, <3>3
  <2>8. h = [i \in 0..k |-> h[i]]
    OBVIOUS
  <2> HIDE DEF h
  <2>9. Is(h, k)
    BY <2>7, <2>8 DEF Is
  <2>10. QED
    BY <2>2, <2>9
<1>2. \E g : Is(g, n)
  BY <1>1
<1> DEFINE f == CHOOSE g : Is(g, n)
<1>3. Is(f, n)
  BY <1>2
<1>4. drainPending(s) = f[n]
  BY DEF drainPending
<1> HIDE DEF f
<1>5. QED
  <2>1. /\ f[0] = s
        /\ \A i \in 1..n : f[i] = drainTurn(f[i - 1])
    BY <1>3
  <2>2. QED
    BY <1>4, <2>1

LEMMA DrainLateSteps ==
    ASSUME NEW l, Len(l.pending) \in Nat
    PROVE  \E f : /\ f[0] = l /\ drainLatePending(l) = f[Len(l.pending)]
                  /\ \A i \in 1..Len(l.pending) : f[i] = drainLateTurn(f[i - 1])
<1> DEFINE n == Len(l.pending)
           Is(g, k) == g = [i \in 0..k |-> IF i = 0 THEN l ELSE drainLateTurn(g[i - 1])]
           Missing == {k \in Nat : ~ \E g : Is(g, k)}
<1>1. Missing = {}
  <2> SUFFICES ASSUME Missing # {} PROVE FALSE
    OBVIOUS
  <2>1. Missing \in SUBSET Nat
    OBVIOUS
  <2> HIDE DEF Is
  <2>2. PICK k \in Missing : \A j \in Missing : k <= j
    BY <2>1, LeastElement
  <2>3. k # 0
    <3>1. Is([i \in 0..0 |-> l], 0)
      BY DEF Is
    <3>2. QED
      BY <3>1
  <2>4. k \in Nat /\ k - 1 \in Nat /\ k - 1 \notin Missing
    BY <2>2, <2>3
  <2>5. PICK g : Is(g, k - 1)
    BY <2>4
  <2> DEFINE h == [i \in 0..k |-> IF i < k THEN g[i] ELSE drainLateTurn(g[k - 1])]
  <2>6. /\ g[0] = l
        /\ \A i \in 0..(k - 1) : i = 0 \/ g[i] = drainLateTurn(g[i - 1])
    BY <2>4, <2>5 DEF Is
  <2>7. \A i \in 0..k : h[i] = IF i = 0 THEN l ELSE drainLateTurn(h[i - 1])
    <3> TAKE i \in 0..k
    <3>1. CASE i = 0
      BY <2>3, <2>4, <2>6, <3>1
    <3>2. CASE i # 0 /\ i < k
      <4>1. h[i] = g[i] /\ h[i - 1] = g[i - 1] /\ g[i] = drainLateTurn(g[i - 1])
        BY <2>4, <2>6, <3>2
      <4>2. QED
        BY <3>2, <4>1
    <3>3. CASE i = k
      <4>1. h[k] = drainLateTurn(g[k - 1]) /\ h[k - 1] = g[k - 1]
        BY <2>3, <2>4
      <4>2. QED
        BY <2>3, <3>3, <4>1
    <3>4. QED
      BY <2>4, <3>1, <3>2, <3>3
  <2>8. h = [i \in 0..k |-> h[i]]
    OBVIOUS
  <2> HIDE DEF h
  <2>9. Is(h, k)
    BY <2>7, <2>8 DEF Is
  <2>10. QED
    BY <2>2, <2>9
<1>2. \E g : Is(g, n)
  BY <1>1
<1> DEFINE f == CHOOSE g : Is(g, n)
<1>3. Is(f, n)
  BY <1>2
<1>4. drainLatePending(l) = f[n]
  BY DEF drainLatePending
<1> HIDE DEF f
<1>5. QED
  <2>1. /\ f[0] = l
        /\ \A i \in 1..n : f[i] = drainLateTurn(f[i - 1])
    BY <1>3
  <2>2. QED
    BY <1>4, <2>1


Known == [kitty : {"none", "ok", "error"}, da1 : BOOLEAN, cell : BOOLEAN]

IsBuffers(s) ==
    s \in [pending : Seq(Token), replay : Seq(Token), handoff : Seq(Token), got : Known]

\* What has been taken as input.
Taken(s) == s.handoff \o s.replay

\* Buffers on their way from s0: no key is lost or overtaken, what has left
\* the pending ones was typed, and nothing is in both of the others.
Draining(s0, stream, s) ==
    /\ IsBuffers(s)
    /\ Keeps(Taken(s0) \o s0.pending, Taken(s) \o s.pending)
    /\ RepliesIn(Taken(s)) = {}
    /\ s.handoff # <<>> => s.replay = <<>>
    /\ Aligned(s.pending \o stream)

LEMMA LearnDoes ==
    ASSUME NEW known \in Known, NEW reply \in ReplyKinds
    PROVE  Learn(known, reply) \in Known
BY DEF Known, ReplyKinds, Learn

\* The buffers r of a turn that took some more input.
Longer(s, chars, r) ==
    /\ IsBuffers(r) /\ r.pending = s.pending /\ r.got = s.got
    /\ Taken(r) = Taken(s) \o chars
    /\ r.handoff # <<>> => r.replay = <<>>
    /\ chars = <<>> => r = s

LEMMA AppendDoes ==
    ASSUME NEW s, IsBuffers(s), s.handoff # <<>> => s.replay = <<>>,
           NEW chars \in Seq(Token)
    PROVE  Longer(s, chars, appendReplay(s, chars))
<1> DEFINE r == appendReplay(s, chars)
<1> SUFFICES Longer(s, chars, r)
  OBVIOUS
<1>1. /\ s.pending \in Seq(Token) /\ s.replay \in Seq(Token) /\ s.handoff \in Seq(Token)
      /\ s.got \in Known
  BY DEF IsBuffers
<1>6. r = appendReplay(s, chars)
  OBVIOUS
<1> HIDE DEF r
<1>2. CASE chars = <<>>
  <2>1. r = s
    BY <1>2, <1>6 DEF appendReplay
  <2>2. s.handoff \o s.replay \in Seq(Token)
    BY <1>1
  <2>3. s.handoff \o s.replay \o <<>> = s.handoff \o s.replay
    BY <2>2, ConcatEmptySeq
  <2>4. QED
    BY <1>2, <2>1, <2>3 DEF Taken, Longer
<1>3. CASE chars # <<>> /\ s.handoff # <<>>
  <2>1. s.replay = <<>>
    BY <1>3
  <2>2. r = [s EXCEPT !.handoff = @ \o chars]
    BY <1>3, <1>6 DEF appendReplay
  <2>4. s.handoff \o chars \in Seq(Token)
    BY <1>1
  <2>3. /\ r.handoff = s.handoff \o chars /\ r.replay = <<>> /\ r.pending = s.pending /\ r.got = s.got
        /\ IsBuffers(r)
    BY <1>1, <2>1, <2>2, <2>4 DEF IsBuffers
  <2>5. s.handoff \o s.replay = s.handoff /\ r.handoff \o r.replay = s.handoff \o chars
    <3>1. s.handoff \o <<>> = s.handoff /\ (s.handoff \o chars) \o <<>> = s.handoff \o chars
      BY <1>1, <2>4, ConcatEmptySeq
    <3>2. QED
      BY <2>1, <2>3, <3>1
  <2>6. QED
    BY <1>3, <2>3, <2>5 DEF Taken, Longer
<1>4. CASE chars # <<>> /\ s.handoff = <<>>
  <2>1. s.handoff \o s.replay = s.replay /\ s.replay \o chars \in Seq(Token)
    BY <1>1, <1>4, ConcatEmptySeq
  <2>2. CASE Len(s.replay) + Len(chars) <= MaxReplay \/ ~sink
    <3>1. r = [s EXCEPT !.replay = @ \o chars]
      BY <1>4, <2>2, <1>6 DEF appendReplay
    <3>2. /\ r.handoff = <<>> /\ r.replay = s.replay \o chars /\ r.pending = s.pending
          /\ r.got = s.got /\ IsBuffers(r)
      BY <1>1, <1>4, <2>1, <3>1 DEF IsBuffers
    <3>3. r.handoff \o r.replay = s.replay \o chars
      BY <2>1, <3>2, ConcatEmptySeq
    <3>4. QED
      BY <1>4, <2>1, <3>2, <3>3 DEF Taken, Longer
  <2>3. CASE ~(Len(s.replay) + Len(chars) <= MaxReplay \/ ~sink)
    <3>1. r = [s EXCEPT !.handoff = s.replay \o chars, !.replay = <<>>]
      BY <1>4, <2>3, <1>6 DEF appendReplay
    <3>2. /\ r.handoff = s.replay \o chars /\ r.replay = <<>> /\ r.pending = s.pending
          /\ r.got = s.got /\ IsBuffers(r)
      BY <1>1, <1>4, <2>1, <3>1 DEF IsBuffers
    <3>3. r.handoff \o r.replay = s.replay \o chars
      BY <2>1, <3>2, ConcatEmptySeq
    <3>4. QED
      BY <1>4, <2>1, <3>2, <3>3 DEF Taken, Longer
  <2>4. QED
    BY <2>2, <2>3
<1>5. QED
  BY <1>2, <1>3, <1>4

\* The next turn takes nothing.
Waits(x, stream) ==
    Scan(x.pending).rest = x.pending /\ Scan(x.pending).out = <<>> /\ Stuck(x.pending, stream)

LEMMA DrainStepDoes ==
    ASSUME NEW s0, NEW stream \in Seq(Token), NEW x, Draining(s0, stream, x), NEW y, y = drainStep(x)
    PROVE  /\ Draining(s0, stream, y)
           /\ Len(y.pending) < Len(x.pending) \/ Waits(x, stream)
<1> DEFINE t == Scan(x.pending)
           z == [x EXCEPT !.pending = t.rest, !.got = Learn(@, t.reply)]
<1>1. IsBuffers(x) /\ Aligned(x.pending \o stream)
  BY DEF Draining
<1>2. x.pending \in Seq(Token) /\ x.replay \in Seq(Token) /\ x.handoff \in Seq(Token) /\ x.got \in Known
  BY <1>1 DEF IsBuffers
<1>3. Turned(x.pending, stream, t)
  BY <1>1, <1>2, ScanTurn
<1>4. y = appendReplay(z, t.out)
  BY DEF drainStep
<1> HIDE DEF t
<1>5. t.out \in Seq(Token) /\ t.rest \in Seq(Token) /\ t.reply \in ReplyKinds
  BY <1>3 DEF Turned
<1>6. /\ z.pending = t.rest /\ z.replay = x.replay /\ z.handoff = x.handoff
      /\ z.got = Learn(x.got, t.reply) /\ IsBuffers(z)
  <2>1. Learn(x.got, t.reply) \in Known
    BY <1>2, <1>5, LearnDoes
  <2>2. QED
    BY <1>1, <1>2, <1>5, <2>1 DEF IsBuffers
<1> HIDE DEF z
<1>7. z.handoff # <<>> => z.replay = <<>>
  BY <1>6 DEF Draining
<1>8. /\ IsBuffers(y) /\ y.pending = t.rest /\ Taken(y) = Taken(x) \o t.out
      /\ y.handoff # <<>> => y.replay = <<>>
      /\ t.out = <<>> => y = z
  <2> DEFINE chars == t.out
  <2>1. IsBuffers(z) /\ chars \in Seq(Token) /\ y = appendReplay(z, chars)
    BY <1>4, <1>5, <1>6
  <2> HIDE DEF chars
  <2>2. Longer(z, chars, y)
    BY <1>7, <2>1, AppendDoes
  <2>3. QED
    <3>1. Taken(z) = Taken(x)
      BY <1>6 DEF Taken
    <3>2. QED
      BY <1>6, <2>2, <3>1 DEF chars, Longer
<1> DEFINE front == Taken(x)
<1>9. front \in Seq(Token)
  BY <1>2 DEF Taken
<1>10. Keeps(front \o x.pending, Taken(y) \o y.pending)
  <2>1. Keeps(x.pending, t.out \o t.rest)
    BY <1>3 DEF Turned
  <2>2. Keeps(front, front)
    BY <1>9, KeepsItself
  <2> HIDE DEF front
  <2>3. Keeps(front \o x.pending, front \o (t.out \o t.rest))
    BY <2>1, <2>2, KeepsJoined
  <2>4. front \o (t.out \o t.rest) = (front \o t.out) \o t.rest
    <3> DEFINE u == t.out
               v == t.rest
    <3>1. u \in Seq(Token) /\ v \in Seq(Token)
      BY <1>5
    <3> HIDE DEF u, v
    <3>2. Together(front, u, v)
      BY <1>9, <3>1, ConcatTogether
    <3>3. QED
      BY <3>2 DEF Together, u, v
  <2>5. Taken(y) \o y.pending = (front \o t.out) \o t.rest
    BY <1>8 DEF front
  <2>6. QED
    BY <2>3, <2>4, <2>5
<1>11. Keeps(Taken(s0) \o s0.pending, Taken(y) \o y.pending)
  BY <1>10, KeepsOn DEF Draining
<1>12. RepliesIn(Taken(y)) = {}
  <2>1. RepliesIn(front \o t.out) = RepliesIn(front) \cup RepliesIn(t.out)
    BY <1>5, <1>9, JoinedKeys
  <2>2. RepliesIn(front) = {} /\ RepliesIn(t.out) = {}
    BY <1>3 DEF Draining, Turned
  <2>3. QED
    BY <1>8, <2>1, <2>2
<1>13. Aligned(y.pending \o stream)
  BY <1>3, <1>8 DEF Turned
<1>14. Draining(s0, stream, y)
  BY <1>8, <1>11, <1>12, <1>13 DEF Draining
<1>15. CASE Len(t.rest) < Len(x.pending)
  BY <1>8, <1>14, <1>15
<1>16. CASE t.out = <<>> /\ t.rest = x.pending /\ Stuck(x.pending, stream)
  BY <1>14, <1>16 DEF t, Waits
<1>17. QED
  BY <1>3, <1>15, <1>16 DEF Turned

LEMMA NothingWaits ==
    ASSUME NEW stream
    PROVE  Stuck(<<>>, stream)
<1>1. Len(<<>>) = 0 /\ <<>> \in Seq(Token)
  OBVIOUS
<1>2. Candidates(<<>>) = {}
  <2>1. \A i : i \notin 1..Len(<<>>)
    BY <1>1
  <2>2. QED
    BY <2>1 DEF Candidates, Occurrences
<1>3. protocolPrefixSuffixLength(<<>>) = 0
  <2> DEFINE e == <<>>
  <2>1. e \in Seq(Token) /\ Len(e) = 0
    BY <1>1
  <2> HIDE DEF e
  <2> DEFINE p == protocolPrefixSuffixLength(e)
  <2>2. p = IF Len(e) >= 2 /\ e[Len(e) - 1].b = "ESC" /\ e[Len(e)].b = "underscore" THEN 2
            ELSE IF Len(e) >= 1 /\ e[Len(e)].b = "ESC" THEN 1 ELSE 0
    BY <2>1, KeptBack
  <2> HIDE DEF p
  <2>4. p = 0
    BY <2>1, <2>2
  <2>3. QED
    BY <2>4 DEF e, p
<1>4. OrdinaryPrefix(<<>>) = 0
  BY <1>1, <1>2, <1>3 DEF OrdinaryPrefix
<1>5. QED
  BY <1>1, <1>4, NoTokens DEF Stuck

\* The loop goes on until it waits for more or has outgrown the bound.
Idle(x, stream) == x.pending = <<>> \/ Overflow(x) \/ Waits(x, stream)

LEMMA WaitsOn ==
    ASSUME NEW s0, NEW stream \in Seq(Token), NEW x, Draining(s0, stream, x), Waits(x, stream),
           NEW y, y = drainStep(x)
    PROVE  y.pending = x.pending
<1> DEFINE t == Scan(x.pending)
           z == [x EXCEPT !.pending = t.rest, !.got = Learn(@, t.reply)]
<1>1. IsBuffers(x)
  BY DEF Draining
<1>2. t.rest = x.pending /\ t.out = <<>>
  BY DEF Waits
<1>3. y = appendReplay(z, <<>>)
  BY <1>2 DEF drainStep
<1> HIDE DEF t
<1>4. z.pending = x.pending
  BY <1>1, <1>2 DEF IsBuffers
<1> HIDE DEF z
<1>5. y = z
  BY <1>3 DEF appendReplay
<1>6. QED
  BY <1>4, <1>5

LEMMA DrainTurnDoes ==
    ASSUME NEW s0, NEW stream \in Seq(Token), NEW x, Draining(s0, stream, x), NEW y, y = drainTurn(x)
    PROVE  /\ Draining(s0, stream, y)
           /\ Len(y.pending) < Len(x.pending) \/ Idle(x, stream)
           /\ Idle(x, stream) => Idle(y, stream)
<1>1. CASE x.pending = <<>> \/ Overflow(x)
  <2>1. y = x
    BY <1>1 DEF drainTurn
  <2>2. QED
    BY <1>1, <2>1 DEF Idle
<1>2. CASE ~(x.pending = <<>> \/ Overflow(x)) /\ Candidates(x.pending) # {} /\ OrdinaryPrefix(x.pending) > 0
  <2> DEFINE z == drainStep(x)
  <2>1. y = drainStep(z)
    BY <1>2 DEF drainTurn
  <2>2. /\ Draining(s0, stream, z)
        /\ Len(z.pending) < Len(x.pending) \/ Waits(x, stream)
    BY DrainStepDoes
  <2>3. ~Waits(x, stream)
    BY <1>2 DEF Stuck, Waits
  <2> HIDE DEF z
  <2>4. Draining(s0, stream, y) /\ (Len(y.pending) < Len(z.pending) \/ Waits(z, stream))
    BY <2>1, <2>2, DrainStepDoes
  <2>5. Waits(z, stream) => y.pending = z.pending
    BY <2>1, <2>2, WaitsOn
  <2>6. Len(y.pending) \in Nat /\ Len(x.pending) \in Nat /\ Len(z.pending) \in Nat
    <3>1. y.pending \in Seq(Token) /\ x.pending \in Seq(Token) /\ z.pending \in Seq(Token)
      BY <2>2, <2>4 DEF Draining, IsBuffers
    <3>2. QED
      BY <3>1
  <2>7. Len(y.pending) < Len(x.pending)
    BY <2>2, <2>3, <2>4, <2>5, <2>6
  <2>8. ~Idle(x, stream)
    BY <1>2, <2>3 DEF Idle
  <2>9. QED
    BY <2>4, <2>7, <2>8
<1>3. CASE ~(x.pending = <<>> \/ Overflow(x)) /\ ~(Candidates(x.pending) # {} /\ OrdinaryPrefix(x.pending) > 0)
  <2>1. y = drainStep(x)
    BY <1>3 DEF drainTurn
  <2>2. Draining(s0, stream, y) /\ (Len(y.pending) < Len(x.pending) \/ Waits(x, stream))
    BY <2>1, DrainStepDoes
  <2>3. Waits(x, stream) => Waits(y, stream)
    BY <2>1, WaitsOn DEF Waits
  <2>4. Idle(x, stream) => Waits(x, stream)
    BY <1>3 DEF Idle
  <2>5. QED
    BY <2>2, <2>3, <2>4 DEF Idle
<1>4. QED
  BY <1>1, <1>2, <1>3

\* When the loop of drainPending ends, what is left waits for more, or the
\* bound is outgrown.
LEMMA DrainDoes ==
    ASSUME NEW s0, NEW stream \in Seq(Token), Draining(s0, stream, s0), NEW s, s = drainPending(s0)
    PROVE  /\ Draining(s0, stream, s)
           /\ Overflow(s) \/ Stuck(s.pending, stream)
<1> DEFINE n == Len(s0.pending)
<1>1. n \in Nat
  BY DEF Draining, IsBuffers
<1>2. PICK f : /\ f[0] = s0 /\ drainPending(s0) = f[n]
               /\ \A i \in 1..n : f[i] = drainTurn(f[i - 1])
  BY <1>1, DrainSteps
<1> DEFINE Fine(i) == /\ Draining(s0, stream, f[i])
                      /\ Len(f[i].pending) <= n - i \/ Idle(f[i], stream)
           Wrong == {i \in 0..n : ~Fine(i)}
<1>3. Wrong = {}
  <2> SUFFICES ASSUME Wrong # {} PROVE FALSE
    OBVIOUS
  <2>1. Wrong \in SUBSET Nat
    BY <1>1
  <2>2. PICK i \in Wrong : \A j \in Wrong : i <= j
    BY <2>1, LeastElement
  <2>3. i # 0
    <3>1. Fine(0)
      BY <1>1, <1>2
    <3>2. QED
      BY <3>1
  <2>4. i \in 1..n /\ i - 1 \in 0..n /\ i - 1 \notin Wrong
    BY <1>1, <2>2, <2>3
  <2> DEFINE x == f[i - 1]
             y == f[i]
  <2>5. Draining(s0, stream, x) /\ y = drainTurn(x)
    BY <1>2, <2>4
  <2>6. Len(x.pending) <= n - (i - 1) \/ Idle(x, stream)
    BY <2>4
  <2>7. ~Fine(i)
    OBVIOUS
  <2>8. ~(Draining(s0, stream, y) /\ (Len(y.pending) <= n - i \/ Idle(y, stream)))
    BY <2>7
  <2> HIDE DEF x, y, Wrong, Fine
  <2>9. /\ Draining(s0, stream, y)
        /\ Len(y.pending) < Len(x.pending) \/ Idle(x, stream)
        /\ Idle(x, stream) => Idle(y, stream)
    BY <2>5, DrainTurnDoes
  <2>10. Len(x.pending) \in Nat /\ Len(y.pending) \in Nat
    BY <2>5, <2>9 DEF Draining, IsBuffers
  <2>11. QED
    BY <1>1, <2>4, <2>6, <2>8, <2>9, <2>10
<1>4. Draining(s0, stream, s) /\ (Len(s.pending) <= n - n \/ Idle(s, stream))
  <2>1. n \in 0..n
    BY <1>1
  <2>2. Fine(n)
    BY <1>3, <2>1
  <2>3. QED
    BY <1>2, <2>2
<1>5. s.pending \in Seq(Token)
  BY <1>4 DEF Draining, IsBuffers
<1>6. s.pending = <<>> => Stuck(s.pending, stream)
  BY NothingWaits
<1>7. Len(s.pending) <= n - n => s.pending = <<>>
  BY <1>1, <1>5
<1>8. QED
  BY <1>4, <1>6, <1>7 DEF Idle, Waits

(***************************************************************************)
(* The same loop of the late broker.                                       *)
(***************************************************************************)
IsLate(l) == l \in [handoff : Seq(Token), replay : Seq(Token), pending : Seq(Token)]

LateDraining(l0, stream, l) ==
    /\ IsLate(l)
    /\ Keeps(Taken(l0) \o l0.pending, Taken(l) \o l.pending)
    /\ Aligned(l.pending \o stream)

LEMMA DrainLateTurnDoes ==
    ASSUME NEW l0, NEW stream \in Seq(Token), NEW x, LateDraining(l0, stream, x),
           NEW y, y = drainLateTurn(x)
    PROVE  LateDraining(l0, stream, y)
<1> DEFINE t == Scan(x.pending)
<1>1. CASE x.pending = <<>> \/ ~FitsLate(x, t.out)
  BY <1>1 DEF drainLateTurn
<1>2. CASE ~(x.pending = <<>> \/ ~FitsLate(x, t.out))
  <2>1. y = [x EXCEPT !.pending = t.rest, !.replay = @ \o t.out]
    BY <1>2 DEF drainLateTurn
  <2>2. IsLate(x) /\ Aligned(x.pending \o stream)
    BY DEF LateDraining
  <2>3. x.handoff \in Seq(Token) /\ x.replay \in Seq(Token) /\ x.pending \in Seq(Token)
    BY <2>2 DEF IsLate
  <2>4. Turned(x.pending, stream, t)
    BY <2>2, <2>3, ScanTurn
  <2> HIDE DEF t
  <2> DEFINE u == t.out
             v == t.rest
  <2>5. /\ u \in Seq(Token) /\ v \in Seq(Token) /\ Keeps(x.pending, u \o v)
        /\ Aligned(v \o stream)
    BY <2>4 DEF Turned
  <2>6. y = [x EXCEPT !.pending = v, !.replay = @ \o u]
    BY <2>1
  <2> HIDE DEF u, v
  <2>7. x.replay \o u \in Seq(Token)
    BY <2>3, <2>5
  <2>8. /\ IsLate(y) /\ y.handoff = x.handoff /\ y.replay = x.replay \o u /\ y.pending = v
    BY <2>2, <2>3, <2>5, <2>6, <2>7 DEF IsLate
  <2>9. Taken(y) = Taken(x) \o u
    <3> DEFINE a == x.handoff
               b == x.replay
    <3>1. a \in Seq(Token) /\ b \in Seq(Token)
      BY <2>3
    <3> HIDE DEF a, b
    <3>2. Together(a, b, u)
      BY <2>5, <3>1, ConcatTogether
    <3>3. (a \o b) \o u = a \o (b \o u)
      BY <3>2 DEF Together
    <3>4. QED
      BY <2>8, <3>3 DEF Taken, a, b
  <2>10. Taken(x) \in Seq(Token)
    BY <2>3 DEF Taken
  <2>11. Keeps(Taken(x) \o x.pending, Taken(y) \o y.pending)
    <3> DEFINE g == Taken(x)
    <3>1. g \in Seq(Token)
      BY <2>10
    <3> HIDE DEF g
    <3>2. Keeps(g \o x.pending, g \o (u \o v))
      BY <2>5, <3>1, KeepsItself, KeepsJoined
    <3>3. Together(g, u, v)
      BY <2>5, <3>1, ConcatTogether
    <3>4. (g \o u) \o v = g \o (u \o v)
      BY <3>3 DEF Together
    <3>5. Taken(y) \o y.pending = (g \o u) \o v
      BY <2>8, <2>9 DEF g
    <3>6. QED
      BY <3>2, <3>4, <3>5 DEF g
  <2>12. Keeps(Taken(l0) \o l0.pending, Taken(y) \o y.pending)
    BY <2>11, KeepsOn DEF LateDraining
  <2>13. QED
    BY <2>5, <2>8, <2>12 DEF LateDraining
<1>3. QED
  BY <1>1, <1>2

LEMMA DrainLateDoes ==
    ASSUME NEW l0, NEW stream \in Seq(Token), LateDraining(l0, stream, l0),
           NEW l, l = drainLatePending(l0)
    PROVE  LateDraining(l0, stream, l)
<1> DEFINE n == Len(l0.pending)
<1>1. n \in Nat
  BY DEF LateDraining, IsLate
<1>2. PICK f : /\ f[0] = l0 /\ drainLatePending(l0) = f[n]
               /\ \A i \in 1..n : f[i] = drainLateTurn(f[i - 1])
  BY <1>1, DrainLateSteps
<1> DEFINE Wrong == {i \in 0..n : ~LateDraining(l0, stream, f[i])}
<1>3. Wrong = {}
  <2> SUFFICES ASSUME Wrong # {} PROVE FALSE
    OBVIOUS
  <2>1. Wrong \in SUBSET Nat
    BY <1>1
  <2>2. PICK i \in Wrong : \A j \in Wrong : i <= j
    BY <2>1, LeastElement
  <2>3. i # 0
    BY <1>2
  <2>4. i \in 1..n /\ i - 1 \in 0..n /\ i - 1 \notin Wrong
    BY <1>1, <2>2, <2>3
  <2>5. LateDraining(l0, stream, f[i - 1]) /\ f[i] = drainLateTurn(f[i - 1])
    BY <1>2, <2>4
  <2>6. LateDraining(l0, stream, f[i])
    BY <2>5, DrainLateTurnDoes
  <2>7. QED
    BY <2>2, <2>6
<1>4. n \in 0..n
  BY <1>1
<1>5. QED
  BY <1>2, <1>3, <1>4

(***************************************************************************)
(* The whole line of input: what the application has, what the brokers     *)
(* hold and what the stream does.                                          *)
(***************************************************************************)
LineOf(a, l, r, p, u) == a \o (l.handoff \o l.replay \o l.pending \o r \o p) \o u

LEMMA LineIs == Line = LineOf(app, late, replay, pending, unread)
BY DEF Line, Held, LineOf

LEMMA NoLate ==
    /\ EmptyLate.handoff = <<>> /\ EmptyLate.replay = <<>> /\ EmptyLate.pending = <<>>
    /\ IsLate(EmptyLate)
<1>1. <<>> \in Seq(Token)
  BY NoTokens
<1>2. QED
  BY <1>1 DEF EmptyLate, IsLate

LEMMA ProbeLine ==
    ASSUME NEW r \in Seq(Token), NEW p \in Seq(Token), NEW u \in Seq(Token)
    PROVE  LineOf(<<>>, EmptyLate, r, p, u) = (r \o p) \o u
<1> DEFINE e == <<>>
<1>1. e \in Seq(Token)
  BY NoTokens
<1>2. e \o e = e /\ e \o r = r
  BY <1>1, ConcatEmptySeq
<1>3. r \o p \in Seq(Token)
  OBVIOUS
<1>4. e \o (r \o p) = r \o p
  BY <1>3, ConcatEmptySeq
<1>5. LineOf(e, EmptyLate, r, p, u) = e \o (e \o e \o e \o r \o p) \o u
  BY NoLate DEF LineOf
<1> HIDE DEF e
<1>6. LineOf(e, EmptyLate, r, p, u) = (r \o p) \o u
  BY <1>2, <1>4, <1>5
<1>7. QED
  BY <1>6 DEF e

LEMMA LateLine ==
    ASSUME NEW a \in Seq(Token), NEW l, IsLate(l), NEW u \in Seq(Token)
    PROVE  /\ LineOf(a, l, <<>>, <<>>, u) = (a \o (Taken(l) \o l.pending)) \o u
           /\ Taken(l) \in Seq(Token) /\ l.pending \in Seq(Token)
<1> DEFINE e == <<>>
           h == l.handoff
           r == l.replay
           p == l.pending
<1>1. e \in Seq(Token) /\ h \in Seq(Token) /\ r \in Seq(Token) /\ p \in Seq(Token)
  BY NoTokens DEF IsLate
<1>2. LineOf(a, l, e, e, u) = a \o (h \o r \o p \o e \o e) \o u /\ Taken(l) = h \o r
  BY DEF LineOf, Taken
<1> DEFINE z == h \o r \o p
<1>3. z \in Seq(Token) /\ h \o r \in Seq(Token)
  BY <1>1
<1> HIDE DEF h, r, p
<1>4. z \o e = z
  BY <1>3, ConcatEmptySeq
<1>5. LineOf(a, l, e, e, u) = a \o (z \o e \o e) \o u
  BY <1>2
<1> HIDE DEF z, e
<1>6. LineOf(a, l, e, e, u) = (a \o z) \o u
  BY <1>4, <1>5
<1>7. z = Taken(l) \o p
  BY <1>2 DEF z
<1>8. LineOf(a, l, e, e, u) = (a \o (Taken(l) \o p)) \o u
  BY <1>6, <1>7
<1>9. QED
  BY <1>1, <1>2, <1>3, <1>8 DEF p, e

LEMMA PlainLine ==
    ASSUME NEW a \in Seq(Token), NEW u \in Seq(Token)
    PROVE  LineOf(a, EmptyLate, <<>>, <<>>, u) = a \o u
<1> DEFINE e == <<>>
<1>1. e \in Seq(Token)
  BY NoTokens
<1>2. e \o e = e /\ a \o e = a
  BY <1>1, ConcatEmptySeq
<1>3. LineOf(a, EmptyLate, e, e, u) = a \o (e \o e \o e \o e \o e) \o u
  BY NoLate DEF LineOf
<1> HIDE DEF e
<1>4. LineOf(a, EmptyLate, e, e, u) = a \o u
  BY <1>2, <1>3
<1>5. QED
  BY <1>4 DEF e

(***************************************************************************)
(* The inductive invariant.                                                *)
(***************************************************************************)
ProbeFacts ==
    /\ mode \in {"start", "probing", "resolved", "mounted", "closed"}
    /\ answer \in Seq(Four) /\ sent \in Nat /\ typed \in Nat
    /\ unread \in Seq(Token) /\ app \in Seq(Token)
    /\ pending \in Seq(Token) /\ replay \in Seq(Token) /\ got \in Known
    /\ IsLate(late) /\ lateActive \in BOOLEAN /\ sink \in BOOLEAN
    /\ mode # "probing" => pending = <<>> /\ replay = <<>>
    /\ ~lateActive => late = EmptyLate
    /\ mode \in {"start", "probing"} => ~lateActive /\ result.reason = "none" /\ app = <<>>
    /\ heard \subseteq 1..sent

\* The keys that are nowhere: those typed next to each other, and only when
\* the third reply came.
Lacking(line, k) == (1..k) \ KeysIn(line)
LineFine(line, k, reason) ==
    /\ line \in Seq(Token) /\ k \in Nat
    /\ Ordered(line) /\ KeysIn(line) \subseteq 1..k
    /\ reason # "answered" => Lacking(line, k) = {}
    /\ \A i, j \in Lacking(line, k) : \A m \in i..j : m \in Lacking(line, k)
    /\ WholeSequences => \A i, j \in Lacking(line, k) : j - i <= 1

\* What a broker holds back waits for the rest of a reply.
ProbeWaits ==
    /\ mode \in {"start", "probing"} => Aligned(pending \o unread)
    /\ mode = "probing" => RepliesIn(replay) = {} /\ Stuck(pending, unread)
    /\ lateActive => Aligned(late.pending \o unread)

ProbeInv ==
    /\ ProbeFacts /\ ProbeWaits
    /\ LineFine(Line, typed, result.reason)
    /\ RepliesIn(Line) \cap heard = {}

LEMMA LineKept ==
    ASSUME NEW x, NEW y, NEW k, NEW reason, NEW how, LineFine(x, k, reason), Keeps(x, y),
           reason # "answered" \/ how = reason
    PROVE  LineFine(y, k, how)
<1>1. KeysIn(y) = KeysIn(x) /\ Ordered(y) /\ y \in Seq(Token)
  BY DEF LineFine, Keeps
<1>2. Lacking(y, k) = Lacking(x, k)
  BY <1>1 DEF Lacking
<1>3. QED
  BY <1>1, <1>2 DEF LineFine

LEMMA LineTyped ==
    ASSUME NoTypedReply, NEW x, NEW k, NEW reason, LineFine(x, k, reason), NEW key \in KeyPresses
    PROVE  /\ LineFine(x \o ByUser(key, k), k + Len(key), reason)
           /\ RepliesIn(x \o ByUser(key, k)) = RepliesIn(x)
<1> DEFINE y == ByUser(key, k)
           n == k + Len(key)
<1>1. x \in Seq(Token) /\ k \in Nat
  BY DEF LineFine
<1>2. /\ y \in Seq(Token) /\ RepliesIn(y) = {} /\ KeysIn(y) = (k + 1)..(k + Len(key)) /\ Ordered(y)
      /\ Len(key) \in Nat
  BY <1>1, TypedTokens DEF Aligned
<1> HIDE DEF y
<1>3. /\ x \o y \in Seq(Token) /\ KeysIn(x \o y) = KeysIn(x) \cup KeysIn(y)
      /\ RepliesIn(x \o y) = RepliesIn(x) \cup RepliesIn(y)
  BY <1>1, <1>2, JoinedKeys
<1>4. KeysIn(x) \subseteq 1..k
  BY DEF LineFine
<1>5. Before(KeysIn(x), KeysIn(y))
  BY <1>1, <1>2, <1>4 DEF Before
<1>6. Ordered(x \o y)
  BY <1>1, <1>2, <1>5, JoinedOrder DEF LineFine
<1>7. Lacking(x \o y, n) = Lacking(x, k) /\ KeysIn(x \o y) \subseteq 1..n
  <2>1. \A a : a \in 1..n <=> a \in 1..k \/ a \in (k + 1)..(k + Len(key))
    BY <1>1, <1>2
  <2>2. \A a \in (k + 1)..(k + Len(key)) : a \notin 1..k
    BY <1>1, <1>2
  <2> HIDE DEF n
  <2>3. KeysIn(x \o y) = KeysIn(x) \cup ((k + 1)..(k + Len(key)))
    BY <1>2, <1>3
  <2>4. QED
    BY <1>4, <2>1, <2>2, <2>3 DEF Lacking
<1>8. n \in Nat
  BY <1>1, <1>2
<1> HIDE DEF n
<1>9. LineFine(x \o y, n, reason)
  BY <1>3, <1>6, <1>7, <1>8 DEF LineFine
<1>10. QED
  BY <1>2, <1>3, <1>9 DEF y, n

LEMMA LineReplied ==
    ASSUME NEW x, NEW k, NEW reason, LineFine(x, k, reason), NEW reply \in Four, NEW r \in Nat
    PROVE  /\ LineFine(x \o ByTerminal(reply, r), k, reason)
           /\ RepliesIn(x \o ByTerminal(reply, r)) \subseteq RepliesIn(x) \cup {r}
<1> DEFINE y == ByTerminal(reply, r)
<1>1. x \in Seq(Token)
  BY DEF LineFine
<1>2. y \in Seq(Token) /\ RepliesIn(y) \subseteq {r} /\ KeysIn(y) = {} /\ Ordered(y)
  BY ReplyTokens DEF Aligned
<1> HIDE DEF y
<1>3. /\ x \o y \in Seq(Token) /\ KeysIn(x \o y) = KeysIn(x) \cup KeysIn(y)
      /\ RepliesIn(x \o y) = RepliesIn(x) \cup RepliesIn(y)
  BY <1>1, <1>2, JoinedKeys
<1>4. Before(KeysIn(x), KeysIn(y))
  BY <1>2 DEF Before
<1>5. Ordered(x \o y)
  BY <1>1, <1>2, <1>4, JoinedOrder DEF LineFine
<1>6. KeysIn(x \o y) = KeysIn(x)
  BY <1>2, <1>3
<1>7. Lacking(x \o y, k) = Lacking(x, k)
  BY <1>6 DEF Lacking
<1>8. LineFine(x \o y, k, reason)
  BY <1>3, <1>5, <1>6, <1>7 DEF LineFine
<1>9. QED
  BY <1>2, <1>3, <1>8 DEF y

\* What finish drops is in one place.
LEMMA LineCut ==
    ASSUME NEW a \in Seq(Token), NEW p \in Seq(Token), NEW u \in Seq(Token), NEW k, NEW reason,
           LineFine((a \o p) \o u, k, reason), reason # "answered",
           WholeSequences => KeysIn(p) = {} \/ Len(p) <= 2
    PROVE  LineFine(a \o u, k, "answered") /\ RepliesIn(a \o u) \subseteq RepliesIn((a \o p) \o u)
<1> DEFINE x == (a \o p) \o u
           y == a \o u
<1>1. a \o p \in Seq(Token) /\ k \in Nat
  BY DEF LineFine
<1>2. /\ KeysIn(x) = KeysIn(a) \cup KeysIn(p) \cup KeysIn(u)
      /\ RepliesIn(x) = RepliesIn(a) \cup RepliesIn(p) \cup RepliesIn(u)
  <2>1. KeysIn(x) = KeysIn(a \o p) \cup KeysIn(u) /\ RepliesIn(x) = RepliesIn(a \o p) \cup RepliesIn(u)
    BY <1>1, JoinedKeys
  <2>2. /\ KeysIn(a \o p) = KeysIn(a) \cup KeysIn(p)
        /\ RepliesIn(a \o p) = RepliesIn(a) \cup RepliesIn(p)
    BY JoinedKeys
  <2>3. QED
    BY <2>1, <2>2
<1>3. /\ y \in Seq(Token) /\ KeysIn(y) = KeysIn(a) \cup KeysIn(u)
      /\ RepliesIn(y) = RepliesIn(a) \cup RepliesIn(u)
  BY JoinedKeys
<1>4. /\ Ordered(a) /\ Ordered(u) /\ Before(KeysIn(a), KeysIn(p))
      /\ Before(KeysIn(a) \cup KeysIn(p), KeysIn(u))
  <2>1. Ordered(x)
    BY DEF LineFine
  <2>2. Ordered(a \o p) /\ Ordered(u) /\ Before(KeysIn(a \o p), KeysIn(u))
    BY <1>1, <2>1, JoinedOrder
  <2>3. Ordered(a) /\ Before(KeysIn(a), KeysIn(p))
    BY <2>2, JoinedOrder
  <2>4. KeysIn(a \o p) = KeysIn(a) \cup KeysIn(p)
    BY JoinedKeys
  <2>5. QED
    BY <2>2, <2>3, <2>4
<1>5. Ordered(y)
  <2>1. Before(KeysIn(a), KeysIn(u))
    BY <1>4 DEF Before
  <2>2. QED
    BY <1>4, <2>1, JoinedOrder
<1>6. KeysIn(x) = 1..k
  BY DEF LineFine, Lacking
<1> HIDE DEF x, y
<1>7. KeysIn(p) \subseteq Nat /\ KeysIn(a) \subseteq Nat /\ KeysIn(u) \subseteq Nat
  BY <1>1, <1>2, <1>6
<1>8. Lacking(y, k) = KeysIn(p)
  <2>1. \A b \in KeysIn(p) : b \notin KeysIn(a) /\ b \notin KeysIn(u)
    BY <1>4, <1>7 DEF Before
  <2>2. QED
    BY <1>2, <1>3, <1>6, <2>1 DEF Lacking
<1>9. ASSUME NEW i \in KeysIn(p), NEW j \in KeysIn(p), NEW m \in i..j PROVE m \in KeysIn(p)
  <2>1. m \in 1..k /\ i \in Nat /\ j \in Nat /\ m \in Nat /\ i <= m /\ m <= j
    <3>1. i \in 1..k /\ j \in 1..k
      BY <1>2, <1>6
    <3>2. QED
      BY <1>1, <3>1
  <2>2. m \in KeysIn(a) => m < i
    BY <1>4 DEF Before
  <2>3. m \in KeysIn(u) => j < m
    BY <1>4 DEF Before
  <2>4. QED
    BY <1>2, <1>6, <2>1, <2>2, <2>3
<1>10. ASSUME WholeSequences, NEW i \in KeysIn(p), NEW j \in KeysIn(p) PROVE j - i <= 1
  <2>1. Len(p) <= 2
    BY <1>10
  <2>2. SUFFICES ASSUME j > i + 1 PROVE FALSE
    BY <1>7
  <2>3. i + 1 \in i..j
    BY <1>7, <2>2
  <2>4. i + 1 \in KeysIn(p)
    BY <1>9, <2>3
  <2>5. \A c \in KeysIn(p) : c = p[1].n \/ c = p[2].n
    <3>1. \A b \in 1..Len(p) : b = 1 \/ b = 2
      BY <2>1
    <3>2. QED
      BY <3>1 DEF KeysIn
  <2>6. i # j /\ i + 1 # i /\ i + 1 # j
    BY <1>7, <2>2
  <2>7. QED
    BY <2>4, <2>5, <2>6
<1>11. KeysIn(y) \subseteq 1..k
  BY <1>2, <1>3, <1>6
<1>12. LineFine(y, k, "answered")
  <2>1. \A i, j \in Lacking(y, k) : \A m \in i..j : m \in Lacking(y, k)
    BY <1>8, <1>9
  <2>2. WholeSequences => \A i, j \in Lacking(y, k) : j - i <= 1
    BY <1>8, <1>10
  <2>3. QED
    BY <1>1, <1>3, <1>5, <1>11, <2>1, <2>2 DEF LineFine
<1>13. QED
  BY <1>2, <1>3, <1>12 DEF x, y

(***************************************************************************)
(* A chunk that the probe reads, and its deadline.                         *)
(***************************************************************************)
LEMMA HandedOn ==
    ASSUME NEW chars \in Seq(Token), NEW stream \in Seq(Token), app = <<>>, Handed(chars, stream)
    PROVE  app' \in Seq(Token) /\ unread' \in Seq(Token) /\ app' \o unread' = chars \o stream
<1> DEFINE both == chars \o stream
<1>1. both \in Seq(Token) /\ <<>> \in Seq(Token)
  BY NoTokens
<1>2. <<>> \o both = both /\ <<>> \o chars = chars
  BY <1>1, ConcatEmptySeq
<1>3. CASE sink
  <2>1. app' = <<>> /\ unread' = both
    BY <1>3 DEF Handed
  <2>2. QED
    BY <1>1, <1>2, <2>1
<1>4. CASE ~sink
  <2>1. app' = chars /\ unread' = stream
    BY <1>2, <1>4 DEF Handed
  <2>2. QED
    BY <2>1
<1>5. QED
  BY <1>3, <1>4

LEMMA HeardApart ==
    ASSUME NEW S, NEW stream \in Seq(Token), S \subseteq RepliesIn(stream)
    PROVE  S \cap ReadWhole(stream) = {} /\ ReadWhole(stream) \subseteq 1..sent
<1>1. ASSUME NEW r \in S, r \in ReadWhole(stream) PROVE FALSE
  <2>1. PICK i \in 1..Len(stream) : stream[i].by = "terminal" /\ stream[i].n = r
    BY DEF RepliesIn
  <2>2. QED
    BY <1>1, <2>1 DEF ReadWhole
<1>2. QED
  BY <1>1 DEF ReadWhole

LEMMA FlushedDoes ==
    ASSUME NEW x, IsBuffers(x), x.handoff # <<>> => x.replay = <<>>,
           NEW f, f = [appendReplay(x, x.pending) EXCEPT !.pending = <<>>]
    PROVE  IsBuffers(f) /\ Taken(f) = Taken(x) \o x.pending
<1> DEFINE chars == x.pending
           r == appendReplay(x, chars)
<1>1. chars \in Seq(Token)
  BY DEF IsBuffers
<1>2. f = [r EXCEPT !.pending = <<>>]
  OBVIOUS
<1> HIDE DEF chars
<1>3. Longer(x, chars, r)
  BY <1>1, AppendDoes
<1> HIDE DEF r
<1>4. IsBuffers(r) /\ Taken(r) = Taken(x) \o chars
  BY <1>3 DEF Longer
<1>5. f.handoff = r.handoff /\ f.replay = r.replay /\ IsBuffers(f)
  BY <1>2, <1>4, NoTokens DEF IsBuffers
<1>6. Taken(f) = Taken(r)
  BY <1>5 DEF Taken
<1>7. QED
  BY <1>4, <1>5, <1>6 DEF chars

\* The probe ends and keeps no late broker.
LEMMA FinishDoes ==
    ASSUME ProbeFacts, mode = "probing", NEW s, IsBuffers(s), NEW stream \in Seq(Token),
           NEW reason, reason # "timeout", finish(s, EmptyLate, stream, reason),
           sent' = sent, typed' = typed, answer' = answer, sink' = sink
    PROVE  /\ Line' = Taken(s) \o stream /\ result'.reason = reason
           /\ ProbeFacts' /\ ProbeWaits'
<1>1. /\ mode' = "resolved" /\ pending' = <<>> /\ replay' = <<>> /\ got' = s.got
      /\ lateActive' = FALSE /\ late' = EmptyLate /\ result'.reason = reason
      /\ heard' = IF reason \in {"response", "replay"} THEN heard ELSE ReadWhole(stream)
  BY DEF finish
<1> DEFINE e == <<>>
           chars == s.handoff \o s.replay
<1>2. Handed(s.handoff \o s.replay \o e \o e \o e, stream)
  BY NoLate DEF finish
<1>3. e \in Seq(Token) /\ chars \in Seq(Token) /\ s.got \in Known
  BY NoTokens DEF IsBuffers
<1>4. chars \o e = chars
  BY <1>3, ConcatEmptySeq
<1>5. Handed(chars \o e \o e \o e, stream)
  BY <1>2
<1> HIDE DEF chars, e
<1>6. Handed(chars, stream)
  BY <1>4, <1>5
<1>7. app' \in Seq(Token) /\ unread' \in Seq(Token) /\ app' \o unread' = chars \o stream
  BY <1>3, <1>6, HandedOn DEF ProbeFacts
<1>8. Line' = LineOf(app', late', replay', pending', unread')
  BY DEF Line, Held, LineOf
<1>9. Line' = app' \o unread'
  BY <1>1, <1>7, <1>8, PlainLine
<1>10. heard' \subseteq 1..sent
  BY <1>1 DEF ReadWhole, ProbeFacts
<1>11. ProbeFacts'
  BY <1>1, <1>3, <1>7, <1>10, NoLate, NoTokens DEF ProbeFacts
<1>12. ProbeWaits'
  BY <1>1 DEF ProbeWaits
<1>13. QED
  BY <1>1, <1>7, <1>9, <1>11, <1>12 DEF chars, Taken

LEMMA DataStep ==
    ASSUME ProbeInv, NEW n \in 1..Len(unread), onData(n)
    PROVE  ProbeInv'
<1> DEFINE stream == Behind(unread, n)
           s0 == [Buffers EXCEPT !.pending = @ \o Take(unread, n)]
           s == drainPending(s0)
           flushed(x) == [appendReplay(x, x.pending) EXCEPT !.pending = <<>>]
<1>1. /\ ProbeFacts /\ ProbeWaits /\ LineFine(Line, typed, result.reason)
      /\ RepliesIn(Line) \cap heard = {}
  BY DEF ProbeInv
<1>2. /\ mode = "probing" /\ app = <<>> /\ ~lateActive /\ late = EmptyLate /\ result.reason = "none"
      /\ unread \in Seq(Token) /\ pending \in Seq(Token) /\ replay \in Seq(Token) /\ got \in Known
      /\ RepliesIn(replay) = {} /\ Aligned(pending \o unread)
  BY <1>1 DEF onData, ProbeFacts, ProbeWaits
<1>3. \/ /\ Len(s0.pending) > MaxResponse
         /\ finish(flushed(s0), EmptyLate, stream, "response")
      \/ Overflow(s) /\ finish(flushed(s), EmptyLate, stream, "replay")
      \/ ~Overflow(s) /\ finish(s, EmptyLate, stream, "answered")
      \/ /\ ~Overflow(s)
         /\ pending' = s.pending /\ replay' = s.replay /\ got' = s.got
         /\ unread' = stream /\ heard' = ReadWhole(stream)
         /\ UNCHANGED <<mode, app, raw, lateActive, late, result>>
  BY DEF onData
<1>4. UNCHANGED <<sink, answer, sent, typed>>
  BY DEF onData
<1> DEFINE chunk == Take(unread, n)
<1>5. /\ stream \in Seq(Token) /\ chunk \in Seq(Token) /\ chunk \o stream = unread
  BY <1>2, CutInTwo
<1> HIDE DEF stream
<1>6. /\ s0.pending = pending \o chunk /\ s0.replay = replay /\ s0.handoff = <<>> /\ IsBuffers(s0)
  <2> DEFINE b == Buffers
             more == pending \o chunk
  <2>1. more \in Seq(Token) /\ <<>> \in Seq(Token)
    BY <1>2, <1>5, NoTokens
  <2>2. b.pending = pending /\ b.replay = replay /\ b.handoff = <<>> /\ IsBuffers(b)
    BY <1>2, <2>1 DEF Buffers, IsBuffers
  <2>3. s0 = [b EXCEPT !.pending = @ \o chunk]
    OBVIOUS
  <2> HIDE DEF b, s0, chunk
  <2>4. s0 = [b EXCEPT !.pending = more]
    BY <2>2, <2>3 DEF IsBuffers
  <2> HIDE DEF more
  <2>5. s0.pending = more /\ s0.replay = replay /\ s0.handoff = <<>> /\ IsBuffers(s0)
    BY <2>1, <2>2, <2>4 DEF IsBuffers
  <2>6. QED
    BY <2>5 DEF more
<1> HIDE DEF s0, chunk
<1>7. s0.pending \o stream = pending \o unread
  <2>1. (pending \o chunk) \o stream = pending \o (chunk \o stream)
    <3>1. pending \in Seq(Token) /\ chunk \in Seq(Token) /\ stream \in Seq(Token)
      BY <1>2, <1>5
    <3>2. Together(pending, chunk, stream)
      BY <3>1, ConcatTogether
    <3>3. QED
      BY <3>2 DEF Together
  <2>2. QED
    BY <1>5, <1>6, <2>1
<1>8. Taken(s0) = replay
  BY <1>2, <1>6, ConcatEmptySeq DEF Taken
<1>9. Draining(s0, stream, s0)
  <2>1. Taken(s0) \o s0.pending \in Seq(Token)
    <3> DEFINE g == Taken(s0)
               p == s0.pending
    <3>1. g \in Seq(Token) /\ p \in Seq(Token)
      BY <1>2, <1>6, <1>8 DEF IsBuffers
    <3> HIDE DEF g, p
    <3>2. g \o p \in Seq(Token)
      BY <3>1
    <3>3. QED
      BY <3>2 DEF g, p
  <2>2. Keeps(Taken(s0) \o s0.pending, Taken(s0) \o s0.pending)
    BY <2>1, KeepsItself
  <2>3. Aligned(s0.pending \o stream)
    BY <1>2, <1>7
  <2>4. QED
    BY <1>2, <1>6, <1>8, <2>2, <2>3 DEF Draining
<1>10. Line = (Taken(s0) \o s0.pending) \o stream
  <2>1. Line = (replay \o pending) \o unread
    BY <1>2, LineIs, ProbeLine
  <2>2. (replay \o pending) \o unread = replay \o (pending \o unread)
    <3>1. replay \in Seq(Token) /\ pending \in Seq(Token) /\ unread \in Seq(Token)
      BY <1>2
    <3>2. Together(replay, pending, unread)
      BY <3>1, ConcatTogether
    <3>3. QED
      BY <3>2 DEF Together
  <2>3. (replay \o s0.pending) \o stream = replay \o (s0.pending \o stream)
    <3> DEFINE p == s0.pending
    <3>1. p \in Seq(Token) /\ replay \in Seq(Token) /\ stream \in Seq(Token)
      BY <1>2, <1>5, <1>6 DEF IsBuffers
    <3> HIDE DEF p
    <3>2. Together(replay, p, stream)
      BY <3>1, ConcatTogether
    <3>3. QED
      BY <3>2 DEF Together, p
  <2>4. QED
    BY <1>7, <1>8, <2>1, <2>2, <2>3
<1>11. Draining(s0, stream, s) /\ (Overflow(s) \/ Stuck(s.pending, stream))
  BY <1>5, <1>9, DrainDoes
<1> HIDE DEF s
<1>12. /\ IsBuffers(s) /\ Keeps(Taken(s0) \o s0.pending, Taken(s) \o s.pending)
       /\ RepliesIn(Taken(s)) = {} /\ Aligned(s.pending \o stream)
       /\ s.handoff # <<>> => s.replay = <<>>
  BY <1>11 DEF Draining
<1>13. Keeps(Line, (Taken(s) \o s.pending) \o stream)
  <2>1. Keeps(stream, stream)
    BY <1>5, KeepsItself
  <2>2. QED
    BY <1>10, <1>12, <2>1, KeepsJoined
<1>14. Taken(s) \in Seq(Token) /\ s.pending \in Seq(Token) /\ s.replay \in Seq(Token)
  BY <1>12 DEF IsBuffers, Taken
<1>15. CASE Len(s0.pending) > MaxResponse /\ finish(flushed(s0), EmptyLate, stream, "response")
  <2> DEFINE f == flushed(s0)
  <2>1. IsBuffers(f) /\ Taken(f) = Taken(s0) \o s0.pending
    BY <1>6, FlushedDoes
  <2>2. finish(f, EmptyLate, stream, "response")
    BY <1>15
  <2> HIDE DEF f
  <2>3. Line' = Taken(f) \o stream /\ result'.reason = "response" /\ ProbeFacts' /\ ProbeWaits'
    BY <1>1, <1>2, <1>4, <1>5, <2>1, <2>2, FinishDoes
  <2>4. Line' = Line /\ heard' = heard
    BY <1>10, <2>1, <2>2, <2>3 DEF finish
  <2>5. Keeps(Line, Line)
    BY <1>1, KeepsItself DEF LineFine
  <2>6. LineFine(Line', typed, "response")
    BY <1>1, <1>2, <2>4, <2>5, LineKept
  <2>7. QED
    BY <1>1, <1>4, <2>3, <2>4, <2>6 DEF ProbeInv
<1>16. CASE Overflow(s) /\ finish(flushed(s), EmptyLate, stream, "replay")
  <2> DEFINE f == flushed(s)
  <2>1. IsBuffers(f) /\ Taken(f) = Taken(s) \o s.pending
    BY <1>12, FlushedDoes
  <2>2. finish(f, EmptyLate, stream, "replay")
    BY <1>16
  <2> HIDE DEF f
  <2>3. Line' = Taken(f) \o stream /\ result'.reason = "replay" /\ ProbeFacts' /\ ProbeWaits'
    BY <1>1, <1>2, <1>4, <1>5, <2>1, <2>2, FinishDoes
  <2>4. Keeps(Line, Line') /\ heard' = heard
    BY <1>13, <2>1, <2>2, <2>3 DEF finish
  <2>5. LineFine(Line', typed, "replay")
    BY <1>1, <1>2, <2>4, LineKept
  <2>6. RepliesIn(Line') \cap heard' = {}
    BY <1>1, <2>4 DEF Keeps
  <2>7. QED
    BY <1>4, <2>3, <2>5, <2>6 DEF ProbeInv
<1>17. CASE ~Overflow(s) /\ finish(s, EmptyLate, stream, "answered")
  <2>1. Line' = Taken(s) \o stream /\ result'.reason = "answered" /\ ProbeFacts' /\ ProbeWaits'
    BY <1>1, <1>2, <1>4, <1>5, <1>12, <1>17, FinishDoes
  <2>2. heard' = ReadWhole(stream)
    BY <1>17 DEF finish
  <2>3. LineFine((Taken(s) \o s.pending) \o stream, typed, "none")
    BY <1>1, <1>2, <1>13, LineKept
  <2>4. WholeSequences => KeysIn(s.pending) = {} \/ Len(s.pending) <= 2
    BY <1>11, <1>17 DEF Stuck
  <2>5. LineFine(Taken(s) \o stream, typed, "answered")
    <3> DEFINE a == Taken(s)
               p == s.pending
    <3>1. a \in Seq(Token) /\ p \in Seq(Token)
      BY <1>14
    <3>2. LineFine((a \o p) \o stream, typed, "none") /\ (WholeSequences => KeysIn(p) = {} \/ Len(p) <= 2)
      BY <2>3, <2>4
    <3> HIDE DEF a, p
    <3>3. LineFine(a \o stream, typed, "answered")
      BY <1>5, <3>1, <3>2, LineCut
    <3>4. QED
      BY <3>3 DEF a
  <2>6. RepliesIn(Line') \cap heard' = {}
    <3>1. RepliesIn(Taken(s) \o stream) = RepliesIn(Taken(s)) \cup RepliesIn(stream)
      BY <1>5, <1>14, JoinedKeys
    <3>2. RepliesIn(Line') \subseteq RepliesIn(stream)
      BY <1>12, <2>1, <3>1
    <3>3. QED
      BY <1>5, <2>2, <3>2, HeardApart
  <2>7. QED
    BY <1>4, <2>1, <2>5, <2>6 DEF ProbeInv
<1>18. CASE /\ ~Overflow(s)
            /\ pending' = s.pending /\ replay' = s.replay /\ got' = s.got
            /\ unread' = stream /\ heard' = ReadWhole(stream)
            /\ UNCHANGED <<mode, app, raw, lateActive, late, result>>
  <2>1. Taken(s) = s.replay
    <3>1. s.handoff = <<>>
      BY <1>18 DEF Overflow
    <3>2. QED
      BY <1>14, <3>1, ConcatEmptySeq DEF Taken
  <2>2. Line' = LineOf(app', late', replay', pending', unread')
    BY DEF Line, Held, LineOf
  <2>3. Line' = (s.replay \o s.pending) \o stream
    <3> DEFINE r == s.replay
               p == s.pending
    <3>1. r \in Seq(Token) /\ p \in Seq(Token) /\ Line' = LineOf(<<>>, EmptyLate, r, p, stream)
      BY <1>2, <1>14, <1>18, <2>2
    <3> HIDE DEF r, p
    <3>2. LineOf(<<>>, EmptyLate, r, p, stream) = (r \o p) \o stream
      BY <1>5, <3>1, ProbeLine
    <3>3. QED
      BY <3>1, <3>2 DEF r, p
  <2>4. Keeps(Line, Line')
    BY <1>13, <2>1, <2>3
  <2>5. LineFine(Line', typed, "none")
    BY <1>1, <1>2, <2>4, LineKept
  <2>6. Stuck(s.pending, stream)
    BY <1>11, <1>18
  <2>7. RepliesIn(Line') \subseteq RepliesIn(stream)
    <3> DEFINE r == s.replay
               p == s.pending
    <3>1. r \in Seq(Token) /\ p \in Seq(Token) /\ r \o p \in Seq(Token)
      BY <1>14
    <3>2. RepliesIn(r) = {} /\ RepliesIn(p) \subseteq RepliesIn(stream)
      BY <1>12, <2>1, <2>6 DEF Stuck
    <3>3. Line' = (r \o p) \o stream
      BY <2>3
    <3> HIDE DEF r, p
    <3>4. /\ RepliesIn((r \o p) \o stream) = RepliesIn(r \o p) \cup RepliesIn(stream)
          /\ RepliesIn(r \o p) = RepliesIn(r) \cup RepliesIn(p)
      BY <1>5, <3>1, JoinedKeys
    <3>5. QED
      BY <3>2, <3>3, <3>4
  <2>8. RepliesIn(Line') \cap heard' = {} /\ heard' \subseteq 1..sent
    BY <1>5, <1>18, <2>7, HeardApart
  <2>9. ProbeFacts'
    <3>1. s.got \in Known
      BY <1>12 DEF IsBuffers
    <3>2. QED
      BY <1>1, <1>2, <1>4, <1>5, <1>14, <1>18, <2>8, <3>1 DEF ProbeFacts
  <2>10. ProbeWaits'
    <3>1. RepliesIn(s.replay) = {}
      BY <1>12, <2>1
    <3>2. QED
      BY <1>2, <1>12, <1>18, <2>6, <3>1 DEF ProbeWaits
  <2>11. QED
    BY <1>2, <1>4, <1>18, <2>5, <2>8, <2>9, <2>10 DEF ProbeInv
<1>19. QED
  BY <1>3, <1>15, <1>16, <1>17, <1>18

\* The deadline: what waits goes to the late broker with the rest, or back.
LEMMA TimeoutStep ==
    ASSUME ProbeInv, Timeout
    PROVE  ProbeInv'
<1> DEFINE s == [Buffers EXCEPT !.pending = <<>>]
           l == preservePendingForLate
           e == <<>>
           promote == sink /\ l.pending # <<>>
           empty == s.handoff = <<>> /\ s.replay = <<>> /\ l = EmptyLate
           keep == promote \/ (sink /\ empty)
           back == s.handoff \o s.replay \o l.handoff \o l.replay \o l.pending
<1>1. /\ ProbeFacts /\ ProbeWaits /\ LineFine(Line, typed, result.reason)
      /\ RepliesIn(Line) \cap heard = {}
  BY DEF ProbeInv
<1>2. /\ mode = "probing" /\ app = <<>> /\ ~lateActive /\ late = EmptyLate /\ result.reason = "none"
      /\ unread \in Seq(Token) /\ pending \in Seq(Token) /\ replay \in Seq(Token) /\ got \in Known
      /\ RepliesIn(replay) = {} /\ Aligned(pending \o unread) /\ Stuck(pending, unread)
  BY <1>1 DEF Timeout, ProbeFacts, ProbeWaits
<1>3. /\ UNCHANGED <<sink, answer, sent, typed>>
      /\ mode' = "resolved" /\ pending' = <<>> /\ replay' = <<>> /\ got' = s.got
      /\ lateActive' = keep /\ late' = IF promote THEN promoted(s, l) ELSE EmptyLate
      /\ Handed(IF keep THEN <<>> ELSE back, unread)
      /\ result'.reason = "timeout" /\ heard' = ReadWhole(unread)
  BY DEF Timeout, finish
<1>4. s.handoff = <<>> /\ s.replay = replay /\ s.got = got
  BY DEF Buffers
<1>5. l.handoff = <<>> /\ l.replay = <<>> /\ l.pending = pending /\ IsLate(l)
      /\ (pending = <<>> => l = EmptyLate)
  <2>1. OrdinaryPrefix(pending) = 0
    BY <1>2 DEF Stuck
  <2>2. Take(pending, 0) = <<>> /\ Behind(pending, 0) = pending
    <3>1. Take(pending, 0) = <<>>
      <4>1. 0 \in 0..Len(pending)
        BY <1>2
      <4>2. Take(pending, 0) \in Seq(Token) /\ Len(Take(pending, 0)) = 0
        BY <1>2, <4>1, CutInTwo
      <4>3. QED
        BY <4>2
    <3>2. Behind(pending, 0) = pending
      BY <1>2, SubSeqFull DEF Behind
    <3>3. QED
      BY <3>1, <3>2
  <2>3. l = [[EmptyLate EXCEPT !.pending = pending] EXCEPT !.replay = <<>>]
    BY <2>1, <2>2 DEF preservePendingForLate, FitsLate
  <2> HIDE DEF l
  <2>4. l = [handoff |-> <<>>, replay |-> <<>>, pending |-> pending]
    BY <2>3 DEF EmptyLate
  <2>5. QED
    BY <1>2, <2>4, NoTokens DEF IsLate, EmptyLate
<1> HIDE DEF s, l
<1>6. Line = (replay \o pending) \o unread
  BY <1>2, LineIs, ProbeLine
<1>7. replay \o pending \in Seq(Token)
  BY <1>2
<1>8. Line' = LineOf(app', late', replay', pending', unread')
  BY DEF Line, Held, LineOf
<1>9. RepliesIn(Line) \subseteq RepliesIn(unread)
  <2>1. RepliesIn(Line) = RepliesIn(replay \o pending) \cup RepliesIn(unread)
    BY <1>2, <1>6, <1>7, JoinedKeys
  <2>2. RepliesIn(replay \o pending) = RepliesIn(replay) \cup RepliesIn(pending)
    BY <1>2, JoinedKeys
  <2>3. QED
    BY <1>2, <2>1, <2>2 DEF Stuck
<1>10. SUFFICES /\ Line' = Line /\ app' \in Seq(Token) /\ unread' \in Seq(Token) /\ IsLate(late')
                /\ (~lateActive' => late' = EmptyLate)
                /\ (lateActive' => Aligned(late'.pending \o unread'))
  <2> SUFFICES ASSUME /\ Line' = Line /\ app' \in Seq(Token) /\ unread' \in Seq(Token) /\ IsLate(late')
                      /\ (~lateActive' => late' = EmptyLate)
                      /\ (lateActive' => Aligned(late'.pending \o unread'))
               PROVE  ProbeInv'
    OBVIOUS
  <2>1. Keeps(Line, Line)
    BY <1>1, KeepsItself DEF LineFine
  <2>2. LineFine(Line', typed', result'.reason)
    BY <1>1, <1>2, <1>3, <2>1, LineKept
  <2>3. RepliesIn(Line') \cap heard' = {} /\ heard' \subseteq 1..sent
    BY <1>2, <1>3, <1>9, HeardApart
  <2>4. ProbeFacts'
    BY <1>1, <1>2, <1>3, <1>4, <2>3, NoTokens DEF ProbeFacts
  <2>5. ProbeWaits'
    BY <1>3 DEF ProbeWaits
  <2>6. QED
    BY <2>2, <2>3, <2>4, <2>5 DEF ProbeInv
<1>11. CASE promote
  <2>1. late' = promoted(s, l) /\ lateActive' /\ Handed(<<>>, unread) /\ sink
    BY <1>3, <1>11
  <2>2. app' = <<>> /\ unread' = unread
    <3>1. <<>> \o unread = unread
      BY <1>2, ConcatEmptySeq
    <3>2. QED
      BY <1>2, <2>1, <3>1 DEF Handed
  <2>3. /\ <<>> \o <<>> = <<>> /\ replay \o <<>> = replay /\ <<>> \o replay = replay
        /\ <<>> \in Seq(Token)
    <3>1. <<>> \in Seq(Token)
      BY NoTokens
    <3>2. QED
      BY <1>2, <3>1, ConcatEmptySeq
  <2>4. \/ late' = [l EXCEPT !.handoff = @ \o s.handoff, !.replay = s.replay \o @]
        \/ late' = [l EXCEPT !.handoff = @ \o s.handoff \o s.replay \o l.replay, !.replay = <<>>]
    BY <2>1 DEF promoted
  <2>5. IsLate(late') /\ late'.pending = pending /\ Taken(late') = replay
    <3>1. CASE late' = [l EXCEPT !.handoff = @ \o s.handoff, !.replay = s.replay \o @]
      <4>1. late' = [l EXCEPT !.handoff = <<>>, !.replay = replay]
        BY <1>4, <1>5, <2>3, <3>1 DEF IsLate
      <4>2. late'.handoff = <<>> /\ late'.replay = replay /\ late'.pending = pending /\ IsLate(late')
        BY <1>2, <1>5, <2>3, <4>1 DEF IsLate
      <4>3. QED
        BY <2>3, <4>2 DEF Taken
    <3>2. CASE late' = [l EXCEPT !.handoff = @ \o s.handoff \o s.replay \o l.replay, !.replay = <<>>]
      <4>1. late' = [l EXCEPT !.handoff = replay, !.replay = <<>>]
        BY <1>4, <1>5, <2>3, <3>2 DEF IsLate
      <4>2. late'.handoff = replay /\ late'.replay = <<>> /\ late'.pending = pending /\ IsLate(late')
        BY <1>2, <1>5, <2>3, <4>1 DEF IsLate
      <4>3. QED
        BY <2>3, <4>2 DEF Taken
    <3>3. QED
      BY <2>4, <3>1, <3>2
  <2>6. Line' = Line
    <3>1. LineOf(app', late', <<>>, <<>>, unread') = (<<>> \o (replay \o pending)) \o unread
      BY <1>2, <2>2, <2>3, <2>5, LateLine
    <3>2. <<>> \o (replay \o pending) = replay \o pending
      BY <1>7, ConcatEmptySeq
    <3>3. QED
      BY <1>3, <1>6, <1>8, <3>1, <3>2
  <2>7. Aligned(late'.pending \o unread')
    BY <1>2, <2>2, <2>5
  <2>8. QED
    BY <1>2, <2>1, <2>2, <2>3, <2>5, <2>6, <2>7
<1>12. CASE ~promote /\ keep
  <2>1. sink /\ replay = <<>> /\ pending = <<>>
    BY <1>4, <1>5, <1>12, NoLate
  <2>2. late' = EmptyLate /\ lateActive' /\ Handed(<<>>, unread)
    BY <1>3, <1>12
  <2>3. <<>> \o unread = unread /\ <<>> \in Seq(Token) /\ <<>> \o <<>> = <<>>
    BY <1>2, ConcatEmptySeq, NoTokens
  <2>4. app' = <<>> /\ unread' = unread
    BY <1>2, <2>1, <2>2, <2>3 DEF Handed
  <2>5. Line' = Line
    BY <1>2, <1>3, <1>8, <2>1, <2>2, <2>4, LineIs
  <2>6. Aligned(late'.pending \o unread')
    BY <1>2, <2>1, <2>2, <2>4, NoLate
  <2>7. QED
    BY <1>2, <2>2, <2>3, <2>4, <2>5, <2>6, NoLate
<1>13. CASE ~keep
  <2>1. late' = EmptyLate /\ ~lateActive' /\ Handed(back, unread)
    BY <1>3, <1>13
  <2>2. back = replay \o pending
    <3>1. <<>> \in Seq(Token)
      BY NoTokens
    <3>2. <<>> \o replay = replay /\ replay \o <<>> = replay
      BY <1>2, ConcatEmptySeq
    <3>3. back = <<>> \o replay \o <<>> \o <<>> \o pending
      BY <1>4, <1>5
    <3>4. QED
      BY <3>2, <3>3
  <2> HIDE DEF back, keep, promote
  <2>3. app' \in Seq(Token) /\ unread' \in Seq(Token) /\ app' \o unread' = back \o unread
    BY <1>2, <1>7, <2>1, <2>2, HandedOn
  <2>4. Line' = app' \o unread'
    BY <1>3, <1>8, <2>1, <2>3, PlainLine
  <2>5. Line' = Line
    BY <1>6, <2>2, <2>3, <2>4
  <2>6. QED
    BY <2>1, <2>3, <2>5, NoLate
<1>14. QED
  BY <1>11, <1>12, <1>13

(***************************************************************************)
(* The late broker.                                                        *)
(***************************************************************************)
LEMMA Regroup ==
    ASSUME NEW x \in Seq(Token), NEW y \in Seq(Token), NEW z \in Seq(Token)
    PROVE  (x \o y) \o z = x \o (y \o z)
BY ConcatTogether DEF Together

Regrouped(x, y, c, d) == (x \o y) \o (c \o d) = (x \o (y \o c)) \o d
LEMMA RegroupAll ==
    ASSUME NEW x \in Seq(Token), NEW y \in Seq(Token), NEW c \in Seq(Token), NEW d \in Seq(Token)
    PROVE  Regrouped(x, y, c, d)
<1>1. (x \o y) \o c = x \o (y \o c)
  BY Regroup, Zenon
<1>2. ASSUME NEW z \in Seq(Token) PROVE (z \o c) \o d = z \o (c \o d)
  BY Regroup, Zenon
<1>3. x \o y \in Seq(Token)
  OBVIOUS
<1>4. ((x \o y) \o c) \o d = (x \o y) \o (c \o d)
  BY <1>2, <1>3
<1>5. QED
  BY <1>1, <1>4 DEF Regrouped

LEMMA LateKept ==
    ASSUME ProbeInv, lateActive,
           UNCHANGED <<mode, sink, answer, sent, typed, app, pending, replay, got, result, heard>>,
           unread' \in Seq(Token), IsLate(late'), lateActive' \in BOOLEAN,
           ~lateActive' => late' = EmptyLate,
           lateActive' => Aligned(late'.pending \o unread'),
           Keeps(Line, Line')
    PROVE  ProbeInv'
<1>1. /\ ProbeFacts /\ LineFine(Line, typed, result.reason)
      /\ RepliesIn(Line) \cap heard = {}
  BY DEF ProbeInv
<1>2. mode \notin {"start", "probing"}
  BY <1>1 DEF ProbeFacts
<1>3. LineFine(Line', typed, result.reason)
  BY <1>1, LineKept
<1>4. RepliesIn(Line') \cap heard = {}
  BY <1>1 DEF Keeps
<1>5. ProbeFacts'
  BY <1>1, <1>2 DEF ProbeFacts
<1>6. ProbeWaits'
  BY <1>2 DEF ProbeWaits
<1>7. QED
  BY <1>3, <1>4, <1>5, <1>6 DEF ProbeInv

\* The late broker gives all it holds back to the stream.
LEMMA Retired ==
    ASSUME NEW l, IsLate(l), NEW extra \in Seq(Token), NEW stream \in Seq(Token),
           retireLateBroker(l, extra, stream), app \in Seq(Token), app' = app,
           pending' = <<>>, replay' = <<>>
    PROVE  /\ unread' \in Seq(Token) /\ late' = EmptyLate /\ lateActive' = FALSE
           /\ Line' = app \o ((Taken(l) \o l.pending) \o (extra \o stream))
<1> DEFINE g == Taken(l)
           p == l.pending
<1>1. g \in Seq(Token) /\ p \in Seq(Token) /\ unread' = g \o p \o extra \o stream
      /\ late' = EmptyLate /\ lateActive' = FALSE
  BY DEF Taken, IsLate, retireLateBroker
<1>2. Line' = LineOf(app', late', replay', pending', unread')
  BY DEF Line, Held, LineOf
<1> HIDE DEF g, p
<1> DEFINE z == g \o p
<1>3. z \in Seq(Token)
  BY <1>1
<1>4. unread' = z \o extra \o stream
  BY <1>1
<1> HIDE DEF z
<1>5. (z \o extra) \o stream = z \o (extra \o stream) /\ z \o (extra \o stream) \in Seq(Token)
  <2>1. (z \o extra) \o stream = z \o (extra \o stream)
    BY <1>3, Regroup, Zenon
  <2>2. extra \o stream \in Seq(Token)
    OBVIOUS
  <2>3. z \o (extra \o stream) \in Seq(Token)
    BY <1>3, <2>2
  <2>4. QED
    BY <2>1, <2>3
<1>6. unread' \in Seq(Token) /\ unread' = (g \o p) \o (extra \o stream)
  BY <1>4, <1>5 DEF z
<1>7. Line' = app \o unread'
  BY <1>1, <1>2, <1>6, PlainLine
<1>8. QED
  BY <1>1, <1>6, <1>7 DEF g, p

LEMMA LateTimeoutStep ==
    ASSUME ProbeInv, LateTimeout
    PROVE  ProbeInv'
<1>1. /\ ProbeFacts /\ LineFine(Line, typed, result.reason)
  BY DEF ProbeInv
<1>2. /\ lateActive /\ mode \notin {"start", "probing"} /\ IsLate(late)
      /\ unread \in Seq(Token) /\ app \in Seq(Token) /\ pending = <<>> /\ replay = <<>>
  BY <1>1 DEF ProbeFacts, LateTimeout
<1>3. /\ retireLateBroker(late, <<>>, unread)
      /\ UNCHANGED <<mode, sink, answer, sent, typed, app, pending, replay, got, result, heard>>
  BY DEF LateTimeout
<1>4. <<>> \in Seq(Token) /\ <<>> \o unread = unread
  BY <1>2, NoTokens, ConcatEmptySeq
<1>5. /\ unread' \in Seq(Token) /\ late' = EmptyLate /\ lateActive' = FALSE
      /\ Line' = app \o ((Taken(late) \o late.pending) \o (<<>> \o unread))
  <2> DEFINE e == <<>>
  <2>1. e \in Seq(Token) /\ retireLateBroker(late, e, unread)
    BY <1>3, <1>4
  <2>2. app' = app /\ pending' = <<>> /\ replay' = <<>>
    BY <1>2, <1>3
  <2> HIDE DEF e
  <2>3. /\ unread' \in Seq(Token) /\ late' = EmptyLate /\ lateActive' = FALSE
        /\ Line' = app \o ((Taken(late) \o late.pending) \o (e \o unread))
    BY <1>2, <2>1, <2>2, Retired
  <2>4. QED
    BY <2>3 DEF e
<1>6. Line' = Line
  <2> DEFINE z == Taken(late) \o late.pending
  <2>1. Line = (app \o z) \o unread /\ Taken(late) \in Seq(Token) /\ late.pending \in Seq(Token)
    BY <1>2, LineIs, LateLine
  <2>2. z \in Seq(Token)
    BY <2>1
  <2>3. Line' = app \o (z \o unread)
    BY <1>4, <1>5
  <2> HIDE DEF z
  <2>4. (app \o z) \o unread = app \o (z \o unread)
    BY <1>2, <2>2, Regroup, Zenon
  <2>5. QED
    BY <2>1, <2>3, <2>4
<1>7. Keeps(Line, Line')
  BY <1>1, <1>6, KeepsItself DEF LineFine
<1>8. QED
  BY <1>2, <1>3, <1>5, <1>7, NoLate, LateKept

LEMMA LateDataStep ==
    ASSUME ProbeInv, NEW n \in 1..Len(unread), onLateReadable(n)
    PROVE  ProbeInv'
<1> DEFINE stream == Behind(unread, n)
           chunk == Take(unread, n)
           l0 == [late EXCEPT !.pending = @ \o chunk]
           l == drainLatePending(l0)
<1>1. /\ ProbeFacts /\ ProbeWaits /\ LineFine(Line, typed, result.reason)
  BY DEF ProbeInv
<1>2. /\ lateActive /\ mode \notin {"start", "probing"} /\ IsLate(late)
      /\ unread \in Seq(Token) /\ app \in Seq(Token) /\ pending = <<>> /\ replay = <<>>
      /\ Aligned(late.pending \o unread)
  BY <1>1 DEF ProbeFacts, ProbeWaits, onLateReadable
<1>3. /\ \/ retireLateBroker(late, chunk, stream)
         \/ retireLateBroker(l, <<>>, stream)
         \/ late' = l /\ unread' = stream /\ UNCHANGED lateActive
      /\ UNCHANGED <<mode, sink, answer, sent, typed, app, pending, replay, got, result, heard>>
  BY DEF onLateReadable
<1> HIDE DEF l, l0
<1>4. stream \in Seq(Token) /\ chunk \in Seq(Token) /\ chunk \o stream = unread
  <2>1. n \in 0..Len(unread)
    BY <1>2
  <2>2. QED
    BY <1>2, <2>1, CutInTwo
<1> HIDE DEF stream
<1>5. IsLate(l0) /\ l0.pending = late.pending \o chunk /\ Taken(l0) = Taken(late)
  <2> DEFINE more == late.pending \o chunk
  <2>1. more \in Seq(Token)
    <3> DEFINE p == late.pending
    <3>1. p \in Seq(Token)
      BY <1>2 DEF IsLate
    <3> HIDE DEF p, chunk
    <3>2. p \o chunk \in Seq(Token)
      BY <1>4, <3>1
    <3>3. QED
      BY <3>2 DEF p
  <2>2. l0 = [late EXCEPT !.pending = more]
    BY <1>2 DEF IsLate, l0
  <2> HIDE DEF more
  <2>3. IsLate(l0) /\ l0.pending = more /\ l0.handoff = late.handoff /\ l0.replay = late.replay
    BY <1>2, <2>1, <2>2 DEF IsLate
  <2>4. QED
    BY <2>3 DEF Taken, more
<1> HIDE DEF chunk
<1> DEFINE g == Taken(late)
           p == late.pending
<1>6. /\ g \in Seq(Token) /\ p \in Seq(Token)
      /\ Line = (app \o (g \o p)) \o unread
  BY <1>2, LineIs, LateLine
<1>7. l0.pending = p \o chunk /\ Taken(l0) = g
  BY <1>5
<1>8. Aligned(p \o unread)
  BY <1>2
<1> HIDE DEF g, p
<1>9. (p \o chunk) \o stream = p \o unread
  <2>1. p \in Seq(Token) /\ chunk \in Seq(Token) /\ stream \in Seq(Token)
    BY <1>4, <1>6
  <2>2. (p \o chunk) \o stream = p \o (chunk \o stream)
    BY <2>1, Regroup, Zenon
  <2>3. QED
    BY <1>4, <2>2
<1>10. /\ Line = app \o ((g \o p) \o (chunk \o stream))
       /\ (g \o p) \o (chunk \o stream) = (g \o (p \o chunk)) \o stream
  <2>1. (g \o p) \o (chunk \o stream) = (g \o (p \o chunk)) \o stream
    <3>1. g \in Seq(Token) /\ p \in Seq(Token) /\ chunk \in Seq(Token) /\ stream \in Seq(Token)
      BY <1>4, <1>6
    <3>2. Regrouped(g, p, chunk, stream)
      BY <3>1, RegroupAll
    <3>3. QED
      BY <3>2 DEF Regrouped
  <2>2. ASSUME NEW z \in Seq(Token) PROVE (app \o z) \o unread = app \o (z \o unread)
    BY <1>2, Regroup, Zenon
  <2>3. g \o p \in Seq(Token)
    BY <1>6
  <2>4. (app \o (g \o p)) \o unread = app \o ((g \o p) \o unread)
    BY <2>2, <2>3
  <2>5. QED
    BY <1>4, <1>6, <2>1, <2>4
<1>12. LateDraining(l0, stream, l0)
  <2>1. p \o chunk \in Seq(Token)
    BY <1>4, <1>6
  <2>2. g \o (p \o chunk) \in Seq(Token)
    BY <1>6, <2>1
  <2>3. Keeps(Taken(l0) \o l0.pending, Taken(l0) \o l0.pending)
    BY <1>7, <2>2, KeepsItself
  <2>4. QED
    BY <1>5, <1>7, <1>8, <1>9, <2>3 DEF LateDraining
<1>13. LateDraining(l0, stream, l)
  BY <1>4, <1>12, DrainLateDoes DEF l
<1>14. IsLate(l) /\ Keeps(g \o (p \o chunk), Taken(l) \o l.pending) /\ Aligned(l.pending \o stream)
  BY <1>7, <1>13 DEF LateDraining
<1>15. Keeps(Line, app \o ((Taken(l) \o l.pending) \o stream))
  <2>1. Keeps(app, app) /\ Keeps(stream, stream)
    BY <1>2, <1>4, KeepsItself
  <2>2. Keeps((g \o (p \o chunk)) \o stream, (Taken(l) \o l.pending) \o stream)
    BY <1>14, <2>1, KeepsJoined
  <2>3. Keeps(app \o ((g \o (p \o chunk)) \o stream), app \o ((Taken(l) \o l.pending) \o stream))
    BY <2>1, <2>2, KeepsJoined
  <2>4. QED
    BY <1>10, <2>3
<1>16. CASE retireLateBroker(late, chunk, stream)
  <2>1. app' = app /\ pending' = <<>> /\ replay' = <<>>
    BY <1>2, <1>3
  <2>2. /\ unread' \in Seq(Token) /\ late' = EmptyLate /\ lateActive' = FALSE
        /\ Line' = app \o ((Taken(late) \o late.pending) \o (chunk \o stream))
    BY <1>2, <1>4, <1>16, <2>1, Retired
  <2>3. Line' = Line
    BY <1>10, <2>2 DEF g, p
  <2>4. Keeps(Line, Line')
    BY <1>1, <2>3, KeepsItself DEF LineFine
  <2>5. QED
    BY <1>2, <1>3, <2>2, <2>4, NoLate, LateKept
<1>17. CASE retireLateBroker(l, <<>>, stream)
  <2> DEFINE e == <<>>
  <2>1. app' = app /\ pending' = <<>> /\ replay' = <<>>
    BY <1>2, <1>3
  <2>2. e \in Seq(Token) /\ retireLateBroker(l, e, stream) /\ e \o stream = stream
    BY <1>4, <1>17, NoTokens, ConcatEmptySeq
  <2> HIDE DEF e
  <2>3. /\ unread' \in Seq(Token) /\ late' = EmptyLate /\ lateActive' = FALSE
        /\ Line' = app \o ((Taken(l) \o l.pending) \o (e \o stream))
    BY <1>2, <1>4, <1>14, <2>1, <2>2, Retired
  <2>4. Keeps(Line, Line')
    BY <1>15, <2>2, <2>3
  <2>5. QED
    BY <1>2, <1>3, <2>3, <2>4, NoLate, LateKept
<1>18. CASE late' = l /\ unread' = stream /\ UNCHANGED lateActive
  <2> DEFINE z == Taken(l) \o l.pending
  <2>1. Line' = LineOf(app', late', replay', pending', unread')
    BY DEF Line, Held, LineOf
  <2>2. Line' = (app \o z) \o stream /\ Taken(l) \in Seq(Token) /\ l.pending \in Seq(Token)
    <3>1. Line' = LineOf(app, l, <<>>, <<>>, stream)
      BY <1>2, <1>3, <1>18, <2>1
    <3>2. QED
      BY <1>2, <1>4, <1>14, <3>1, LateLine
  <2>3. z \in Seq(Token)
    BY <2>2
  <2>4. Keeps(Line, app \o (z \o stream))
    BY <1>15
  <2> HIDE DEF z
  <2>5. (app \o z) \o stream = app \o (z \o stream)
    <3>1. app \in Seq(Token) /\ stream \in Seq(Token)
      BY <1>2, <1>4
    <3>2. QED
      BY <2>3, <3>1, Regroup, Zenon
  <2>6. Keeps(Line, Line')
    BY <2>2, <2>4, <2>5
  <2>7. /\ unread' \in Seq(Token) /\ IsLate(late') /\ lateActive' = lateActive
        /\ Aligned(late'.pending \o unread')
    BY <1>4, <1>14, <1>18
  <2>8. QED
    BY <1>2, <1>3, <2>6, <2>7, LateKept
<1>19. QED
  BY <1>3, <1>16, <1>17, <1>18

(***************************************************************************)
(* startTui around the probe, the user and the terminal.                   *)
(***************************************************************************)
LEMMA QuietStep ==
    ASSUME ProbeInv,
           UNCHANGED <<sink, sent, typed, unread, app, pending, replay, got, lateActive, late, heard>>,
           answer' \in Seq(Four),
           \/ mode = "start" /\ mode' = "probing" /\ result' = result
           \/ mode \in {"start", "resolved", "mounted"} /\ mode' \in {"resolved", "mounted", "closed"}
              /\ (result' = result \/ mode = "start")
           \/ mode' = mode /\ result' = result
    PROVE  ProbeInv'
<1>1. /\ ProbeFacts /\ ProbeWaits /\ LineFine(Line, typed, result.reason)
      /\ RepliesIn(Line) \cap heard = {}
  BY DEF ProbeInv
<1>2. Line' = Line
  BY LineIs DEF Line, Held
<1>3. Keeps(Line, Line)
  BY <1>1, KeepsItself DEF LineFine
<1>4. LineFine(Line', typed, result'.reason)
  <2>1. result.reason # "answered" \/ result' = result
    BY <1>1 DEF ProbeFacts
  <2>2. QED
    BY <1>1, <1>2, <1>3, <2>1, LineKept
<1>5. mode = "start" => RepliesIn(replay) = {} /\ pending = <<>>
  BY <1>1, NoTokens DEF ProbeFacts
<1>6. Stuck(<<>>, unread)
  BY NothingWaits
<1>7. ProbeFacts'
  BY <1>1 DEF ProbeFacts
<1>8. ProbeWaits'
  BY <1>1, <1>5, <1>6 DEF ProbeWaits
<1>9. QED
  BY <1>1, <1>2, <1>4, <1>7, <1>8 DEF ProbeInv

LEMMA AppReadsStep ==
    ASSUME ProbeInv, AppReads
    PROVE  ProbeInv'
<1>1. /\ ProbeFacts /\ LineFine(Line, typed, result.reason)
      /\ RepliesIn(Line) \cap heard = {}
  BY DEF ProbeInv
<1>2. /\ mode = "mounted" /\ ~lateActive /\ late = EmptyLate /\ pending = <<>> /\ replay = <<>>
      /\ app \in Seq(Token) /\ unread \in Seq(Token)
      /\ app' = app \o unread /\ unread' = <<>>
      /\ UNCHANGED <<mode, sink, answer, sent, typed, pending, replay, got, lateActive, late, result, heard>>
  BY <1>1 DEF AppReads, ProbeFacts
<1>3. Line = app \o unread
  BY <1>2, LineIs, PlainLine
<1> DEFINE z == app \o unread
<1>4. z \in Seq(Token) /\ z = app'
  BY <1>2
<1>5. Line' = z
  <2>1. Line' = LineOf(app', late', replay', pending', unread')
    BY DEF Line, Held, LineOf
  <2>2. Line' = LineOf(z, EmptyLate, <<>>, <<>>, <<>>)
    BY <1>2, <1>4, <2>1
  <2> HIDE DEF z
  <2>3. z \o <<>> = z
    BY <1>4, ConcatEmptySeq
  <2>4. LineOf(z, EmptyLate, <<>>, <<>>, <<>>) = z \o <<>>
    <3> DEFINE e == <<>>
    <3>1. e \in Seq(Token)
      BY NoTokens
    <3> HIDE DEF e
    <3>2. LineOf(z, EmptyLate, <<>>, <<>>, e) = z \o e
      BY <1>4, <3>1, PlainLine
    <3>3. QED
      BY <3>2 DEF e
  <2>5. QED
    BY <2>2, <2>3, <2>4
<1>6. Line' = Line
  BY <1>3, <1>5
<1>7. LineFine(Line', typed', result'.reason)
  BY <1>1, <1>2, <1>6
<1>8. ProbeFacts'
  BY <1>1, <1>2, <1>4, NoTokens DEF ProbeFacts
<1>9. ProbeWaits'
  BY <1>2 DEF ProbeWaits
<1>10. QED
  BY <1>1, <1>2, <1>6, <1>7, <1>8, <1>9 DEF ProbeInv

\* The stream grows by a key press or a reply.
LEMMA StreamGrows ==
    ASSUME ProbeInv, NEW y, Aligned(y), unread' = unread \o y,
           UNCHANGED <<mode, app, pending, replay, lateActive, late>>
    PROVE  Line' = Line \o y /\ unread' \in Seq(Token) /\ ProbeWaits'
<1>1. ProbeFacts /\ ProbeWaits
  BY DEF ProbeInv
<1>2. /\ unread \in Seq(Token) /\ app \in Seq(Token) /\ pending \in Seq(Token) /\ replay \in Seq(Token)
      /\ IsLate(late)
  BY <1>1 DEF ProbeFacts
<1>3. y \in Seq(Token)
  BY DEF Aligned
<1> DEFINE more == unread \o y
<1>4. more \in Seq(Token) /\ unread' = more
  BY <1>2, <1>3
<1>5. Line' = LineOf(app, late, replay, pending, more)
  <2>1. Line' = LineOf(app', late', replay', pending', unread')
    BY DEF Line, Held, LineOf
  <2>2. QED
    BY <1>4, <2>1
<1>6. ASSUME NEW x \in Seq(Token) PROVE x \o more = (x \o unread) \o y
  <2>1. (x \o unread) \o y = x \o (unread \o y)
    BY <1>2, <1>3, Regroup
  <2>2. QED
    BY <2>1
<1>7. ASSUME NEW x, Aligned(x \o unread), x \in Seq(Token) PROVE Aligned(x \o more)
  <2>1. Aligned((x \o unread) \o y)
    BY <1>7, AlignedJoined
  <2>2. QED
    BY <1>6, <1>7, <2>1
<1>8. RepliesIn(unread) \subseteq RepliesIn(more)
  BY <1>2, <1>3, JoinedKeys
<1> HIDE DEF more
<1>9. Line' = Line \o y
  <2> DEFINE held == late.handoff \o late.replay \o late.pending \o replay \o pending
             before == app \o held
  <2>1. before \in Seq(Token)
    <3> DEFINE h == late.handoff
               r == late.replay
               p == late.pending
    <3>1. h \in Seq(Token) /\ r \in Seq(Token) /\ p \in Seq(Token)
      BY <1>2 DEF IsLate
    <3> HIDE DEF h, r, p
    <3>2. h \o r \o p \o replay \o pending \in Seq(Token)
      BY <1>2, <3>1
    <3>3. held \in Seq(Token)
      BY <3>2 DEF h, r, p
    <3> HIDE DEF held
    <3>4. QED
      BY <1>2, <3>3
  <2>2. Line' = before \o more /\ Line = before \o unread
    BY <1>5, LineIs DEF LineOf
  <2> HIDE DEF before
  <2>3. QED
    BY <1>6, <2>1, <2>2
<1>10. ProbeWaits'
  <2>1. mode \in {"start", "probing"} => Aligned(pending \o more)
    BY <1>1, <1>2, <1>7 DEF ProbeWaits
  <2>2. lateActive => Aligned(late.pending \o more)
    <3>1. late.pending \in Seq(Token)
      BY <1>2 DEF IsLate
    <3>2. QED
      BY <1>1, <1>7, <3>1 DEF ProbeWaits
  <2>3. mode = "probing" => RepliesIn(replay) = {} /\ Stuck(pending, more)
    BY <1>1, <1>8 DEF ProbeWaits, Stuck
  <2>4. QED
    BY <1>4, <2>1, <2>2, <2>3 DEF ProbeWaits
<1>11. QED
  BY <1>4, <1>9, <1>10

LEMMA TypeStep ==
    ASSUME NoTypedReply, ProbeInv, NEW key \in KeyPresses, Type(key)
    PROVE  ProbeInv'
<1> DEFINE y == ByUser(key, typed)
<1>1. /\ ProbeFacts /\ LineFine(Line, typed, result.reason)
      /\ RepliesIn(Line) \cap heard = {}
  BY DEF ProbeInv
<1>2. /\ unread' = unread \o y /\ typed' = typed + Len(key)
      /\ UNCHANGED <<mode, sink, answer, sent, app, pending, replay, got, lateActive, late, result, heard>>
  BY DEF Type
<1>3. typed \in Nat
  BY <1>1 DEF ProbeFacts
<1>4. Aligned(y) /\ Len(key) \in Nat
  BY <1>3, TypedTokens
<1>5. /\ LineFine(Line \o y, typed + Len(key), result.reason)
      /\ RepliesIn(Line \o y) = RepliesIn(Line)
  BY <1>1, LineTyped
<1> HIDE DEF y
<1>6. Line' = Line \o y /\ unread' \in Seq(Token) /\ ProbeWaits'
  BY <1>2, <1>4, StreamGrows
<1>7. ProbeFacts'
  BY <1>1, <1>2, <1>3, <1>4, <1>6 DEF ProbeFacts
<1>8. QED
  BY <1>1, <1>2, <1>5, <1>6, <1>7 DEF ProbeInv

LEMMA ReplyStep ==
    ASSUME ProbeInv, Reply
    PROVE  ProbeInv'
<1> DEFINE r == sent + 1
           reply == answer[r]
           y == ByTerminal(reply, r)
<1>1. /\ ProbeFacts /\ LineFine(Line, typed, result.reason)
      /\ RepliesIn(Line) \cap heard = {}
  BY DEF ProbeInv
<1>2. /\ sent < Len(answer) /\ sent' = sent + 1 /\ unread' = unread \o y
      /\ UNCHANGED <<mode, sink, answer, typed, app, pending, replay, got, lateActive, late, result, heard>>
  BY DEF Reply
<1>3. sent \in Nat /\ answer \in Seq(Four) /\ heard \subseteq 1..sent
  BY <1>1 DEF ProbeFacts
<1>4. r \in Nat /\ reply \in Four
  <2>1. r \in 1..Len(answer)
    BY <1>2, <1>3
  <2>2. QED
    BY <1>3, <2>1
<1> HIDE DEF reply
<1>5. Aligned(y)
  BY <1>4, ReplyTokens
<1>6. LineFine(Line \o y, typed, result.reason) /\ RepliesIn(Line \o y) \subseteq RepliesIn(Line) \cup {r}
  BY <1>1, <1>4, LineReplied
<1> HIDE DEF y
<1>7. Line' = Line \o y /\ unread' \in Seq(Token) /\ ProbeWaits'
  BY <1>2, <1>5, StreamGrows
<1>8. r \notin heard /\ heard \subseteq 1..(sent + 1)
  BY <1>3
<1>9. RepliesIn(Line') \cap heard = {}
  BY <1>1, <1>6, <1>7, <1>8
<1>10. sent + 1 \in Nat
  BY <1>3
<1> HIDE DEF r
<1>11. ProbeFacts'
  BY <1>1, <1>2, <1>7, <1>8, <1>10 DEF ProbeFacts
<1>12. QED
  BY <1>1, <1>2, <1>6, <1>7, <1>9, <1>11 DEF ProbeInv

(***************************************************************************)
(* What holds of the probe at every moment.                                *)
(***************************************************************************)
LEMMA ProbeStarts ==
    ASSUME ProbeInit
    PROVE  ProbeInv
<1>1. /\ mode = "start" /\ sink \in BOOLEAN /\ sent = 0 /\ typed = 0
      /\ unread = <<>> /\ app = <<>> /\ pending = <<>> /\ replay = <<>> /\ got = NothingKnown
      /\ lateActive = FALSE /\ late = EmptyLate /\ result.reason = "none" /\ heard = {}
      /\ answer \in Seq(Four)
  BY AnswersAssumption DEF ProbeInit, Four
<1>2. <<>> \in Seq(Token) /\ <<>> \o <<>> = <<>>
  BY NoTokens, ConcatEmptySeq
<1>3. Line = <<>>
  <2> DEFINE e == <<>>
  <2>1. Line = LineOf(e, EmptyLate, e, e, e)
    BY <1>1, LineIs
  <2>2. e \in Seq(Token) /\ e \o e = e
    BY <1>2
  <2> HIDE DEF e
  <2>3. LineOf(e, EmptyLate, e, e, e) = (e \o e) \o e
    <3>1. LineOf(<<>>, EmptyLate, e, e, e) = (e \o e) \o e
      BY <2>2, ProbeLine
    <3>2. QED
      BY <3>1 DEF e
  <2>4. Line = e
    BY <2>1, <2>2, <2>3
  <2>5. QED
    BY <2>4 DEF e
<1>4. got \in Known
  BY <1>1 DEF NothingKnown, Known
<1>5. ProbeFacts
  BY <1>1, <1>2, <1>4, NoLate DEF ProbeFacts
<1>6. ProbeWaits
  BY <1>1, <1>2, AlignedNothing DEF ProbeWaits
<1>7. LineFine(<<>>, 0, result.reason)
  <2>1. Lacking(<<>>, 0) = {}
    BY DEF Lacking
  <2>2. QED
    BY <1>2, <2>1, NoTokens DEF LineFine
<1>8. QED
  BY <1>1, <1>3, <1>5, <1>6, <1>7 DEF ProbeInv

LEMMA ProbeStep ==
    ASSUME NoTypedReply, ProbeInv, [ProbeNext]_probeVars
    PROVE  ProbeInv'
<1>1. answer \in Seq(Four) /\ <<>> \in Seq(Four)
  BY DEF ProbeInv, ProbeFacts
<1>2. CASE StartProbe
  BY <1>1, <1>2, QuietStep DEF StartProbe
<1>3. CASE SkipProbe
  BY <1>1, <1>3, QuietStep DEF SkipProbe
<1>4. CASE WriteFails
  BY <1>1, <1>4, QuietStep DEF WriteFails
<1>5. CASE \E n \in 1..Len(unread) : onData(n) \/ onLateReadable(n)
  BY <1>5, DataStep, LateDataStep
<1>6. CASE Timeout
  BY <1>6, TimeoutStep
<1>7. CASE LateTimeout
  BY <1>7, LateTimeoutStep
<1>8. CASE Mount
  BY <1>1, <1>8, QuietStep DEF Mount
<1>9. CASE Leave
  BY <1>1, <1>9, QuietStep DEF Leave
<1>10. CASE AppReads
  BY <1>10, AppReadsStep
<1>11. CASE \E key \in KeyPresses : Type(key)
  BY <1>11, TypeStep
<1>12. CASE Reply
  BY <1>12, ReplyStep
<1>13. CASE UNCHANGED probeVars
  BY <1>1, <1>13, QuietStep DEF probeVars
<1>14. QED
  BY <1>2, <1>3, <1>4, <1>5, <1>6, <1>7, <1>8, <1>9, <1>10, <1>11, <1>12, <1>13 DEF ProbeNext

LEMMA ProbeInvAlways == NoTypedReply => (ProbeSpec => []ProbeInv)
<1>1. ProbeInit => ProbeInv
  BY ProbeStarts
<1>2. NoTypedReply /\ ProbeInv /\ [ProbeNext]_probeVars => ProbeInv'
  BY ProbeStep
<1>3. SUFFICES ASSUME NoTypedReply PROVE ProbeSpec => []ProbeInv
  OBVIOUS
<1>4. ProbeInv /\ [ProbeNext]_probeVars => ProbeInv'
  BY <1>2, <1>3
<1>5. QED
  BY <1>1, <1>4, PTL DEF ProbeSpec

LEMMA LostIs == Lost = Lacking(Line, typed) /\ (TypingOrder <=> Ordered(Line))
<1>1. TypingOrder <=> Ordered(Line)
  BY DEF TypingOrder, Ordered, WasTyped
<1>2. \A k : (\E i \in 1..Len(Line) : WasTyped(i) /\ Line[i].n = k) <=> k \in KeysIn(Line)
  BY DEF KeysIn, WasTyped
<1>3. QED
  BY <1>1, <1>2 DEF Lost, Lacking

\* What finish drops lies in one place.
OneGap ==
    /\ TypingOrder
    /\ result.reason # "answered" => Lost = {}
    /\ \A i, j \in Lost : \A m \in i..j : m \in Lost

\* However chunks, the deadline and the late broker's window fall, the keys
\* keep their order and none is doubled, and none is lost but one stretch of
\* neighbours, in the chunk that completes the three replies (onData, finish).
\* A key may be cut anywhere, and the chars of one CSI sequence may be several
\* key presses.
THEOREM LossIsOneStretch == NoTypedReply => (ProbeSpec => []OneGap)
<1>1. ProbeInv => OneGap
  BY LostIs DEF ProbeInv, LineFine, OneGap
<1>2. SUFFICES ASSUME NoTypedReply PROVE ProbeSpec => []OneGap
  OBVIOUS
<1>3. ProbeSpec => []ProbeInv
  BY <1>2, ProbeInvAlways
<1>4. QED
  BY <1>1, <1>3, PTL

LEMMA FewLost ==
    ASSUME NEW S, NEW k \in Nat, S \subseteq 1..k, \A i, j \in S : j - i <= 1
    PROVE  \E m \in 0..k : S \subseteq {m + 1, m + 2}
<1>1. CASE S = {}
  <2>1. 0 \in 0..k /\ S \subseteq {0 + 1, 0 + 2}
    BY <1>1
  <2>2. QED
    BY <2>1
<1>2. CASE S # {}
  <2>1. S \subseteq Nat
    OBVIOUS
  <2>2. PICK a \in S : \A b \in S : a <= b
    BY <1>2, <2>1, LeastElement
  <2>3. a \in 1..k
    OBVIOUS
  <2> DEFINE m == a - 1
  <2>4. m \in 0..k
    BY <2>3
  <2>5. ASSUME NEW b \in S PROVE b = m + 1 \/ b = m + 2
    <3>1. b - a <= 1 /\ a <= b /\ b \in 1..k
      BY <2>2
    <3>2. QED
      BY <2>3, <3>1
  <2> HIDE DEF m
  <2>6. QED
    BY <2>4, <2>5
<1>3. QED
  BY <1>1, <1>2

\* When a key that begins a CSI sequence also sends the byte that ends it,
\* that stretch is two chars at most, for any keys, answers and bounds
\* (protocolPrefixSuffixLength, drainPending, finish).
THEOREM KeysStayInOrder == NoTypedReply /\ WholeSequences => (ProbeSpec => []KeysInOrder)
<1>1. ASSUME WholeSequences, ProbeInv PROVE KeysInOrder
  <2> DEFINE S == Lacking(Line, typed)
  <2>1. /\ TypingOrder /\ Lost = S /\ typed \in Nat
        /\ result.reason # "answered" => S = {}
        /\ \A i, j \in S : j - i <= 1
    BY <1>1, LostIs DEF ProbeInv, LineFine
  <2>2. S \subseteq 1..typed
    BY DEF Lacking
  <2> HIDE DEF S
  <2>3. \E m \in 0..typed : S \subseteq {m + 1, m + 2}
    BY <2>1, <2>2, FewLost
  <2>4. QED
    BY <2>1, <2>3 DEF KeysInOrder
<1>2. SUFFICES ASSUME NoTypedReply, WholeSequences PROVE ProbeSpec => []KeysInOrder
  OBVIOUS
<1>3. ProbeInv => KeysInOrder
  BY <1>1, <1>2
<1>4. ProbeSpec => []ProbeInv
  BY <1>2, ProbeInvAlways
<1>5. QED
  BY <1>3, <1>4, PTL

\* However the terminal's replies are cut into chunks and mixed with keys, a
\* reply that the probe had time to read whole is never handed back as input,
\* by the probe, by what it replays or by the late broker (drainPending, Scan).
THEOREM RepliesSwallowed == NoTypedReply => (ProbeSpec => []NoReplyTyped)
<1>1. ASSUME ProbeInv PROVE NoReplyTyped
  <2>1. /\ ProbeFacts /\ LineFine(Line, typed, result.reason) /\ RepliesIn(Line) \cap heard = {}
    BY <1>1 DEF ProbeInv
  <2>2. /\ app \in Seq(Token) /\ unread \in Seq(Token) /\ replay \in Seq(Token) /\ pending \in Seq(Token)
        /\ IsLate(late)
    BY <2>1 DEF ProbeFacts
  <2> DEFINE held == late.handoff \o late.replay \o late.pending \o replay \o pending
  <2>3. held \in Seq(Token)
    <3> DEFINE h == late.handoff
               r == late.replay
               p == late.pending
    <3>1. h \in Seq(Token) /\ r \in Seq(Token) /\ p \in Seq(Token)
      BY <2>2 DEF IsLate
    <3> HIDE DEF h, r, p
    <3>2. h \o r \o p \o replay \o pending \in Seq(Token)
      BY <2>2, <3>1
    <3>3. QED
      BY <3>2 DEF h, r, p
  <2>4. Line = (app \o held) \o unread
    BY LineIs DEF LineOf
  <2> HIDE DEF held
  <2>5. app \o held \in Seq(Token)
    BY <2>2, <2>3
  <2>6. RepliesIn(Line) = RepliesIn(app \o held) \cup RepliesIn(unread)
    BY <2>2, <2>4, <2>5, JoinedKeys
  <2>7. RepliesIn(app) \subseteq RepliesIn(Line)
    BY <2>2, <2>3, <2>6, JoinedKeys
  <2>8. \A i \in 1..Len(app) : app[i].by = "terminal" => app[i].n \in RepliesIn(app)
    BY DEF RepliesIn
  <2>9. QED
    BY <2>1, <2>7, <2>8 DEF NoReplyTyped
<1>2. SUFFICES ASSUME NoTypedReply PROVE ProbeSpec => []NoReplyTyped
  OBVIOUS
<1>3. ProbeSpec => []ProbeInv
  BY <1>2, ProbeInvAlways
<1>4. QED
  BY <1>1, <1>3, PTL
=============================================================================
