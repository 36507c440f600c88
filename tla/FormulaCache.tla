---------------------------- MODULE FormulaCache ----------------------------
(***************************************************************************)
(* FormulaRasterCache (packages/cli/src/tui/formula-renderer.ts): a        *)
(* bounded LRU of rasters in front of a store on disk and of the LaTeX     *)
(* renderer, whose callers share the operation that fills a key and may    *)
(* give up one by one.                                                     *)
(*                                                                         *)
(* An operation is named after the call of render() that started it.  A    *)
(* step is one synchronous stretch of JavaScript.  A raster is its key;    *)
(* what the store on disk holds is any raster, none or a broken file at    *)
(* any time (FormulaStore has the directory).  Calls refused before they   *)
(* reach the cache and the counters of getStats() other than the bytes are *)
(* left out, and the codes a failed operation may be classified as are     *)
(* one.                                                                    *)
(***************************************************************************)
EXTENDS Naturals, Sequences, SequencesExt

CONSTANTS
    Calls,      \* the calls of render()
    Keys,       \* formulaRasterKey: formula, style and renderer version
    NoCall,     \* no operation
    Key,        \* the key of each call
    Weight,     \* PNG and RGBA bytes of the raster of each key
    HasStore,   \* was the cache built with a persistent store?
    MaxEntries, \* #maxEntries
    MaxBytes    \* #maxBytes

ASSUME CacheAssumption ==
    /\ NoCall \notin Calls
    /\ Key \in [Calls -> Keys]
    /\ Weight \in [Keys -> Nat \ {0}]
    /\ HasStore \in BOOLEAN
    /\ MaxEntries \in Nat \ {0}
    /\ MaxBytes \in Nat \ {0}

Outcomes == {"unmade", "waiting", "ok", "failed", "aborted"}
Stages == {"none", "reading", "discarding", "deleting", "rendering",
           "writing", "settled"}

VARIABLES
    cache,      \* #cache: its keys, the least recently used one first
    bytes,      \* #stats.bytes
    inFlight,   \* #inFlight: the operation of each key
    stage,      \* what the operation started by a call waits for
    cancelled,  \* the operations whose controller was aborted
    consumers,  \* the calls that wait for each operation
    outcome,    \* what each call was answered
    signalled   \* the calls whose own signal aborted while they waited

vars == <<cache, bytes, inFlight, stage, cancelled, consumers, outcome,
          signalled>>

Cached == ToSet(cache)
TotalWeight(keys) == FoldSeq(LAMBDA k, sum : Weight[k] + sum, 0, keys)

Working(o) == stage[o] \notin {"none", "settled"}

-----------------------------------------------------------------------------
Init ==
    /\ cache = <<>> /\ bytes = 0
    /\ inFlight = [k \in Keys |-> NoCall]
    /\ stage = [c \in Calls |-> "none"]
    /\ cancelled = {}
    /\ consumers = [c \in Calls |-> {}]
    /\ outcome = [c \in Calls |-> "unmade"]
    /\ signalled = {}

-----------------------------------------------------------------------------
(***************************************************************************)
(* The LRU.                                                                *)
(***************************************************************************)
Touched(k) == Append(RemoveFirst(cache, k), k)

Drop(keys, n) == SubSeq(keys, n + 1, Len(keys))

\* The keys that stay when the oldest ones make room for w more bytes, used
\* bytes being taken: nothing may be left, whatever its size.
Room(keys, used, w) ==
    LET Taken(n) == used - TotalWeight(SubSeq(keys, 1, n))
        Enough(n) == /\ Len(keys) - n < MaxEntries
                     /\ Taken(n) + w <= MaxBytes
        n == CHOOSE m \in 0..Len(keys) :
                 /\ Enough(m) \/ m = Len(keys)
                 /\ \A less \in 0..(m - 1) : ~Enough(less)
    IN  [keys |-> Drop(keys, n), bytes |-> Taken(n)]

Insert(k) ==
    LET others == RemoveFirst(cache, k)
        used == IF k \in Cached THEN bytes - Weight[k] ELSE bytes
        room == Room(others, used, Weight[k])
    IN  /\ cache' = Append(room.keys, k)
        /\ bytes' = room.bytes + Weight[k]

-----------------------------------------------------------------------------
(***************************************************************************)
(* The callers.                                                            *)
(***************************************************************************)
Hit(c) ==
    /\ Key[c] \in Cached
    /\ cache' = Touched(Key[c])
    /\ outcome' = [outcome EXCEPT ![c] = "ok"]
    /\ UNCHANGED <<bytes, inFlight, stage, cancelled, consumers>>

Subscribe(c, o) ==
    /\ consumers' = [consumers EXCEPT ![o] = @ \cup {c}]
    /\ outcome' = [outcome EXCEPT ![c] = "waiting"]

Coalesce(c) ==
    /\ Key[c] \notin Cached
    /\ inFlight[Key[c]] # NoCall
    /\ Subscribe(c, inFlight[Key[c]])
    /\ UNCHANGED <<cache, bytes, inFlight, stage, cancelled>>

StartOperation(c) ==
    /\ Key[c] \notin Cached
    /\ inFlight[Key[c]] = NoCall
    /\ inFlight' = [inFlight EXCEPT ![Key[c]] = c]
    /\ stage' = [stage EXCEPT ![c] = IF HasStore THEN "reading" ELSE "rendering"]
    /\ Subscribe(c, c)
    /\ UNCHANGED <<cache, bytes, cancelled>>

Render(c) ==
    /\ outcome[c] = "unmade"
    /\ Hit(c) \/ Coalesce(c) \/ StartOperation(c)
    /\ UNCHANGED signalled

\* Is nobody left once c has gone?  (cancel, after finish.)
LastConsumer(c, o) == Working(o) /\ consumers[o] = {c}

\* Mutant: whatever is listed for the key is taken off the map.
UnlistedBug(o) == [inFlight EXCEPT ![Key[o]] = NoCall]

\* The map without o, if o is what it holds for its key.
Unlisted(o) ==
    IF inFlight[Key[o]] = o THEN [inFlight EXCEPT ![Key[o]] = NoCall]
                            ELSE inFlight

Abort(c) ==
    \E o \in Calls :
        /\ c \in consumers[o]
        /\ consumers' = [consumers EXCEPT ![o] = @ \ {c}]
        /\ signalled' = signalled \cup {c}
        /\ outcome' = [outcome EXCEPT ![c] = "aborted"]
        /\ IF LastConsumer(c, o)
           THEN cancelled' = cancelled \cup {o} /\ inFlight' = Unlisted(o)
           ELSE UNCHANGED <<cancelled, inFlight>>
        /\ UNCHANGED <<cache, bytes, stage>>

Listed == {o \in Calls : inFlight[Key[o]] = o}

Clear ==
    /\ cancelled' = cancelled \cup Listed
    /\ outcome' = [c \in Calls |->
           IF \E o \in Listed : c \in consumers[o] THEN "aborted" ELSE outcome[c]]
    /\ consumers' = [o \in Calls |-> IF o \in Listed THEN {} ELSE consumers[o]]
    /\ inFlight' = [k \in Keys |-> NoCall]
    /\ cache' = <<>>
    /\ bytes' = 0
    /\ UNCHANGED <<stage, signalled>>

-----------------------------------------------------------------------------
(***************************************************************************)
(* The operations.                                                         *)
(***************************************************************************)
\* Mutant: only the call that started the operation is answered.
SettleBug(o, verdict) ==
    /\ stage' = [stage EXCEPT ![o] = "settled"]
    /\ inFlight' = Unlisted(o)
    /\ consumers' = [consumers EXCEPT ![o] = @ \ {o}]
    /\ outcome' = [outcome EXCEPT ![o] = IF o \in consumers[o] THEN verdict ELSE @]

\* #settlePending, and finish for each subscriber.
Settle(o, verdict) ==
    /\ stage' = [stage EXCEPT ![o] = "settled"]
    /\ inFlight' = Unlisted(o)
    /\ consumers' = [consumers EXCEPT ![o] = {}]
    /\ outcome' = [c \in Calls |->
           IF c \in consumers[o] THEN verdict ELSE outcome[c]]

Goto(o, next) ==
    /\ stage' = [stage EXCEPT ![o] = next]
    /\ UNCHANGED <<inFlight, consumers, outcome>>

Untouched == UNCHANGED <<cache, bytes>>

\* Mutant: the signal is not read again.
IsAbortedBug(o) == FALSE

\* controller.signal.aborted, as the operation reads it after an await.
IsAborted(o) == o \in cancelled

\* With nothing usable on disk, the renderer is asked.
Missed(o) ==
    /\ Untouched
    /\ IF IsAborted(o) THEN Settle(o, "aborted") ELSE Goto(o, "rendering")

\* A stored raster; one above #maxBytes is deleted and rendered anew.
Found(o) ==
    IF IsAborted(o) THEN Untouched /\ Settle(o, "aborted")
    ELSE IF Weight[Key[o]] <= MaxBytes THEN Insert(Key[o]) /\ Settle(o, "ok")
    ELSE Untouched /\ Goto(o, "deleting")

\* store.get() finds a raster, nothing usable, or a file it has to discard
\* before it returns; an error of the file system is a miss.
ReadStored(o) ==
    /\ stage[o] = "reading"
    /\ \/ Found(o)
       \/ Missed(o)
       \/ Untouched /\ Goto(o, "discarding")
    /\ UNCHANGED <<cancelled, signalled>>

DiscardStored(o) ==
    /\ stage[o] = "discarding"
    /\ Missed(o)
    /\ UNCHANGED <<cancelled, signalled>>

\* The signal is not read here: the renderer refuses an aborted one.
DeleteStored(o) ==
    /\ stage[o] = "deleting"
    /\ Untouched
    /\ Goto(o, "rendering")
    /\ UNCHANGED <<cancelled, signalled>>

\* The renderer fails or returns something that is not a raster.
RenderFails(o) == Untouched /\ Settle(o, "failed")

RenderSucceeds(o) ==
    IF Weight[Key[o]] > MaxBytes THEN Untouched /\ Settle(o, "failed")
    ELSE /\ Insert(Key[o])
         /\ IF HasStore THEN Goto(o, "writing") ELSE Settle(o, "ok")

RenderDone(o) ==
    /\ stage[o] = "rendering"
    /\ IF IsAborted(o) THEN Untouched /\ Settle(o, "aborted")
       ELSE RenderFails(o) \/ RenderSucceeds(o)
    /\ UNCHANGED <<cancelled, signalled>>

\* store.set() ended, well or not: the callers waited for it.
WriteStored(o) ==
    /\ stage[o] = "writing"
    /\ Settle(o, "ok")
    /\ Untouched
    /\ UNCHANGED <<cancelled, signalled>>

Advance(o) ==
    \/ ReadStored(o) \/ DiscardStored(o) \/ DeleteStored(o)
    \/ RenderDone(o) \/ WriteStored(o)

Next ==
    \/ \E c \in Calls : Render(c) \/ Abort(c)
    \/ \E o \in Calls : Advance(o)
    \/ Clear

Spec == Init /\ [][Next]_vars

\* File operations end, and so does a call of the renderer (RendererPool).
FairSpec == Spec /\ \A o \in Calls : WF_vars(Advance(o))

-----------------------------------------------------------------------------
(***************************************************************************)
(* Properties.                                                             *)
(***************************************************************************)
TypeOK ==
    /\ cache \in Seq(Keys)
    /\ bytes \in Nat
    /\ inFlight \in [Keys -> Calls \cup {NoCall}]
    /\ stage \in [Calls -> Stages]
    /\ cancelled \in SUBSET Calls
    /\ consumers \in [Calls -> SUBSET Calls]
    /\ \A o \in Calls : \A c \in consumers[o] : Key[c] = Key[o]
    /\ outcome \in [Calls -> Outcomes]
    /\ signalled \in SUBSET Calls

Live(o) == Working(o) /\ ~IsAborted(o)

\* A key is filled by one operation at a time, which callers can find as long
\* as it may still succeed; and none fills a key that is already there.
OneOperationPerKey ==
    /\ \A o \in Calls : Live(o) <=> inFlight[Key[o]] = o
    /\ \A o \in Calls :
           Live(o) /\ Key[o] \in Cached => stage[o] = "writing"

\* "Each caller owns its abort outcome": the cache does what RasterService
\* promises, among it that nobody is told "aborted" because another caller
\* left, and that a raster nobody waits for any more, after the last caller
\* left or clear() ran, is not put into the cache.
Service == INSTANCE RasterService WITH have <- Cached, left <- signalled
ServiceSpec == Service!Spec

\* Every caller is answered.
EveryCallAnswered ==
    \A c \in Calls : outcome[c] = "waiting" ~> outcome[c] # "waiting"
=============================================================================
