------------------------------ MODULE DataFiles ------------------------------
(***************************************************************************)
(* The files under the per-user data root that several operations share:   *)
(* one file per session (SessionStore: writes and deletes queued per path) *)
(* and one per rendered formula (PersistentFormulaRasterStore: no queue, a *)
(* prune after every write, possibly several processes at once).  Every    *)
(* write goes to a temporary file of its own and is renamed.  Each await   *)
(* on the file system is a step, so reads, writes, prunes and crashes      *)
(* interleave.                                                             *)
(*                                                                         *)
(* A file holds [of, n, ok, size, at]: the path it was written for, the    *)
(* number of the operation that wrote it, whether it passes the checks of  *)
(* isSession or decodeRecord, its size and its modification time.          *)
(***************************************************************************)
EXTENDS Naturals, Sequences, FiniteSets, FiniteSetsExt, SequencesExt

CONSTANTS
  Sessions, Formulas,
  Rank,            \* Rank[f]: the order of formula file names
  Sizes,           \* sizes of rasters
  MaxEntries, MaxBytes,
  Calls,
  MaxOps,          \* bound: operations started
  MaxTroubles      \* bound: failed file operations and crashes

Paths == Sessions \cup Formulas

\* Sessions and rasters have directories of their own, and a directory is finite.
ASSUME FilesAssumption ==
  /\ Sessions \cap Formulas = {} /\ "none" \notin Paths
  /\ IsFiniteSet(Formulas) /\ Rank \in [Formulas -> Nat]
  /\ Sizes \subseteq Nat /\ {MaxEntries, MaxBytes} \subseteq Nat

Missing == [of |-> "none", n |-> 0, ok |-> FALSE, size |-> 0, at |-> 0]
Garbage(p) == [of |-> p, n |-> 0, ok |-> FALSE, size |-> 1, at |-> 0]
CopyOf(p) == [of |-> p, n |-> 0, ok |-> TRUE, size |-> 1, at |-> 0]

VARIABLES
  files,
  temps,        \* temporary files: the calls that still own theirs, "orphan" for lost ones
  queue,        \* SessionStore's writeQueues, per path
  calls,
  ops,          \* operations started: the number of the last one
  now,          \* the clock of the file system
  lapse,        \* history: whether a prune was cut short, or missed something, with none after it
                \* to make up for that; and the prunes that read the directory since
  troubles

vars == <<files, temps, queue, calls, ops, now, lapse, troubles>>

Idle == [op |-> "none", path |-> "none", n |-> 0, size |-> 0, pc |-> "idle", value |-> Missing,
         todo |-> {}, seen |-> {}]

Exists(p) == files[p] # Missing
\* A raster carries the digest of its key; a session file is not compared with its name.
Readable(p, file) == file.ok /\ (p \in Formulas => file.of = p)
Goto(c, pc) == [calls EXCEPT ![c].pc = pc]
Done(c) == [calls EXCEPT ![c] = Idle]
Trouble == troubles < MaxTroubles /\ troubles' = troubles + 1

\* The rasters in the directory, and its limits.
Weight(entries) == MapThenSumSet(LAMBDA e : e.size, entries)
Held == {[path |-> f, size |-> files[f].size] : f \in {g \in Formulas : Exists(g)}}
WithinLimits == Cardinality(Held) <= MaxEntries /\ Weight(Held) <= MaxBytes

\* What is there was left by processes that had ended their prunes.
Init ==
  /\ \E good \in SUBSET Formulas : files =
       [p \in Paths |-> IF p \in Sessions THEN (IF good = {} THEN Garbage(p) ELSE Missing)
                         ELSE IF p \in good THEN Missing
                         ELSE IF \A f \in Formulas : Rank[p] <= Rank[f] THEN Garbage(p)
                         ELSE CopyOf(CHOOSE f \in Formulas : f # p)]
  /\ WithinLimits
  /\ temps = {} /\ queue = [s \in Sessions |-> <<>>]
  /\ calls = [c \in Calls |-> Idle]
  /\ ops = 0 /\ now = 0 /\ troubles = 0
  /\ lapse = [open |-> FALSE, whole |-> {}]

----------------------------------------------------------------------------
(* Operations begin *)

Begin(c, op, path, pc, size) ==
  /\ calls[c].pc = "idle" /\ ops < MaxOps
  /\ ops' = ops + 1
  /\ calls' = [calls EXCEPT ![c] = [Idle EXCEPT !.op = op, !.path = path, !.pc = pc, !.n = ops + 1,
                                                !.size = size]]

\* saveSession (a record that is not valid is refused before the queue) and deleteSession.
QueueSession(c, s, op) ==
  /\ Begin(c, op, s, "waiting", 1)
  /\ queue' = [queue EXCEPT ![s] = Append(@, c)]
  /\ UNCHANGED <<files, temps, now, lapse, troubles>>

\* set: a raster that cannot fit is not written at all.
SetRaster(c, f, size) ==
  /\ size <= MaxBytes
  /\ Begin(c, "set", f, "waiting", size)
  /\ UNCHANGED <<files, temps, queue, now, lapse, troubles>>

Lookup(c, p) ==
  /\ Begin(c, "get", p, "stat", 0)
  /\ UNCHANGED <<files, temps, queue, now, lapse, troubles>>

\* readdir: the session files there are now; temporary files have another suffix.
ListSessions(c) ==
  /\ calls[c].pc = "idle" /\ ops < MaxOps /\ ops' = ops + 1
  /\ calls' = [calls EXCEPT ![c] = [Idle EXCEPT
                 !.op = "list", !.pc = "each", !.n = ops + 1, !.todo = {s \in Sessions : Exists(s)}]]
  /\ UNCHANGED <<files, temps, queue, now, lapse, troubles>>

----------------------------------------------------------------------------
(* Writing *)

\* Mutant: the writes of a session do not wait for one another.
MyTurnBug(c) == TRUE

\* enqueueWrite: after every earlier operation on that path has settled; rasters do not queue.
MyTurn(c) == IF calls[c].path \in Formulas THEN TRUE ELSE Head(queue[calls[c].path]) = c

Unqueue(c) ==
  queue' = [s \in Sessions |-> IF s = calls[c].path THEN RemoveFirst(queue[s], c)
                                                    ELSE queue[s]]

Content(c) == [of |-> calls[c].path, n |-> calls[c].n, ok |-> TRUE, size |-> calls[c].size,
               at |-> now']

\* writeFile of the temporary file: its modification time is the one the entry will have.
WriteTemp(c) ==
  /\ calls[c].pc = "waiting" /\ calls[c].op \in {"save", "set"} /\ MyTurn(c)
  /\ now' \in {now} \cup (IF calls[c].op = "set" THEN {now + 1} ELSE {})
  /\ temps' = temps \cup {c}
  /\ calls' = [calls EXCEPT ![c].pc = "rename", ![c].value = Content(c)]
  /\ UNCHANGED <<files, queue, ops, lapse, troubles>>

\* rename over the target; a raster is then pruned, a session's next write may begin.
Rename(c) ==
  LET call == calls[c]
  IN  /\ call.pc = "rename"
      /\ files' = [files EXCEPT ![call.path] = call.value]
      /\ temps' = temps \ {c}
      /\ \/ call.op = "save" /\ calls' = Done(c) /\ Unqueue(c)
         \/ call.op = "set" /\ calls' = Goto(c, "readdir") /\ UNCHANGED queue
      /\ UNCHANGED <<ops, now, lapse, troubles>>

\* A step of a write, or the rm of a delete, fails: the failure is reported and the queue goes on.
\* The temporary file of a write is removed, unless that fails as well.
WriteFails(c) ==
  /\ calls[c].pc \in {"waiting", "rename"} /\ MyTurn(c)
  /\ Trouble
  /\ \/ temps' = temps \ {c}
     \/ calls[c].op # "delete" /\ temps' = (temps \ {c}) \cup {"orphan"}
  /\ calls' = Done(c) /\ Unqueue(c)
  /\ UNCHANGED <<files, ops, now, lapse>>

DeleteSession(c) ==
  /\ calls[c].pc = "waiting" /\ calls[c].op = "delete" /\ MyTurn(c)
  /\ files' = [files EXCEPT ![calls[c].path] = Missing]
  /\ calls' = Done(c) /\ Unqueue(c)
  /\ UNCHANGED <<temps, ops, now, lapse, troubles>>

----------------------------------------------------------------------------
(* Reading *)

\* loadSession and get: stat, then readFile; a file that went away in between is a miss.
StatFile(c) ==
  /\ calls[c].pc = "stat"
  /\ calls' = IF Exists(calls[c].path) THEN Goto(c, "read") ELSE Done(c)
  /\ UNCHANGED <<files, temps, queue, ops, now, lapse, troubles>>

Taken(p, file) == Readable(p, file)

\* A record that does not pass is a miss; a raster file is discarded as well.
ReadFile(c) ==
  LET p == calls[c].path
  IN  /\ calls[c].pc = "read"
      /\ calls' = IF Exists(p) /\ Taken(p, files[p])
                  THEN [calls EXCEPT ![c].value = files[p], ![c].pc = "found"]
                  ELSE IF Exists(p) /\ p \in Formulas THEN Goto(c, "discard") ELSE Done(c)
      /\ UNCHANGED <<files, temps, queue, ops, now, lapse, troubles>>

Found(c) ==
  /\ calls[c].pc = "found" /\ calls' = Done(c)
  /\ UNCHANGED <<files, temps, queue, ops, now, lapse, troubles>>

\* rm of the path, whatever is there by now; an error of it is swallowed.
Discard(c) ==
  /\ calls[c].pc = "discard"
  /\ \/ files' = [files EXCEPT ![calls[c].path] = Missing] /\ UNCHANGED troubles
     \/ Trouble /\ UNCHANGED files
  /\ calls' = Done(c)
  /\ UNCHANGED <<temps, queue, ops, now, lapse>>

\* stat, readFile or readdir fails: get answers that there is none, loadSession and listSessions
\* throw or answer that there is none.
ReadFails(c) ==
  /\ calls[c].pc \in {"stat", "read", "each"}
  /\ Trouble
  /\ calls' = Done(c)
  /\ UNCHANGED <<files, temps, queue, ops, now, lapse>>

\* readAllSessions: one file after the other, in the order of the directory; a missing, corrupt or
\* invalid one is skipped.
ListOne(c) ==
  /\ calls[c].pc = "each" /\ calls[c].todo # {}
  /\ \E s \in calls[c].todo :
       calls' = [calls EXCEPT ![c].todo = @ \ {s},
                              ![c].seen = IF Readable(s, files[s]) THEN @ \cup {files[s]} ELSE @]
  /\ UNCHANGED <<files, temps, queue, ops, now, lapse, troubles>>

ListDone(c) ==
  /\ calls[c].pc = "each" /\ calls[c].todo = {}
  /\ calls' = Done(c)
  /\ UNCHANGED <<files, temps, queue, ops, now, lapse, troubles>>

----------------------------------------------------------------------------
(* Pruning *)

\* A step of a prune did what it was for.
Through(next) == calls' = next /\ UNCHANGED troubles

\* It failed, which #prune swallows: no prune under way is known to have seen everything any more.
MissedBy(next) ==
  Trouble /\ calls' = next /\ lapse' = [open |-> TRUE, whole |-> {}]

\* readdir; when it fails nothing is pruned.
ReadDir(c) ==
  /\ calls[c].pc = "readdir"
  /\ \/ /\ Through([calls EXCEPT ![c].todo = {f \in Formulas : Exists(f)}, ![c].pc = "measure"])
        /\ lapse' = [lapse EXCEPT !.whole = @ \cup {c}]
     \/ MissedBy(Done(c))
  /\ UNCHANGED <<files, temps, queue, ops, now>>

\* stat of each entry; one that a concurrent cleanup removed is left out, and so is one that cannot
\* be read.
Measure(c) ==
  /\ calls[c].pc = "measure" /\ calls[c].todo # {}
  /\ LET f == CHOOSE f \in calls[c].todo : \A g \in calls[c].todo : Rank[f] <= Rank[g]
         entry == [path |-> f, size |-> files[f].size, at |-> files[f].at]
     IN  \/ /\ Through([calls EXCEPT ![c].todo = @ \ {f},
                                     ![c].seen = IF Exists(f) THEN @ \cup {entry} ELSE @])
            /\ UNCHANGED lapse
         \/ MissedBy([calls EXCEPT ![c].todo = @ \ {f}])
  /\ UNCHANGED <<files, temps, queue, ops, now>>

Before(a, b) == a.at < b.at \/ (a.at = b.at /\ Rank[a.path] <= Rank[b.path])

\* Mutant: the entries are counted, their sizes are not added up.
TooManyBug(entries) == Cardinality(entries) > MaxEntries

TooMany(entries) == Cardinality(entries) > MaxEntries \/ Weight(entries) > MaxBytes

\* The oldest entries seen go, by name, until both limits hold; one whose rm fails counts as gone.
PruneOne(c) ==
  LET seen == calls[c].seen
      oldest == CHOOSE a \in seen : \A b \in seen : Before(a, b)
      left == [calls EXCEPT ![c].seen = @ \ {oldest}]
  IN  /\ calls[c].pc = "measure" /\ calls[c].todo = {} /\ TooMany(seen)
      /\ \/ files' = [files EXCEPT ![oldest.path] = Missing] /\ Through(left) /\ UNCHANGED lapse
         \/ UNCHANGED files /\ MissedBy(left)
      /\ UNCHANGED <<temps, queue, ops, now>>

PruneDone(c) ==
  /\ calls[c].pc = "measure" /\ calls[c].todo = {} /\ ~TooMany(calls[c].seen)
  /\ calls' = Done(c)
  /\ lapse' = [open |-> lapse.open /\ c \notin lapse.whole, whole |-> lapse.whole \ {c}]
  /\ UNCHANGED <<files, temps, queue, ops, now, troubles>>

----------------------------------------------------------------------------

Pruning == {c \in Calls : calls[c].pc \in {"readdir", "measure"}}

\* The process dies: what was renamed stays, what was written and not renamed is left behind, and
\* nothing ever looks at it again.
Crash ==
  /\ Trouble
  /\ temps' = IF temps = {} THEN {} ELSE {"orphan"}
  /\ lapse' = [open |-> lapse.open \/ Pruning # {}, whole |-> {}]
  /\ calls' = [c \in Calls |-> Idle] /\ queue' = [s \in Sessions |-> <<>>]
  /\ UNCHANGED <<files, ops, now>>

Start(c) ==
  \/ \E s \in Sessions : QueueSession(c, s, "save") \/ QueueSession(c, s, "delete")
  \/ \E f \in Formulas, size \in Sizes : SetRaster(c, f, size)
  \/ \E p \in Paths : Lookup(c, p)
  \/ ListSessions(c)

Write(c) == WriteTemp(c) \/ Rename(c) \/ WriteFails(c) \/ DeleteSession(c)
Read(c) == StatFile(c) \/ ReadFile(c) \/ Found(c) \/ Discard(c) \/ ReadFails(c)
           \/ ListOne(c) \/ ListDone(c)
Prune(c) == ReadDir(c) \/ Measure(c) \/ PruneOne(c) \/ PruneDone(c)

Next == Crash \/ \E c \in Calls : Start(c) \/ Write(c) \/ Read(c) \/ Prune(c)

Spec == Init /\ [][Next]_vars

----------------------------------------------------------------------------
(* Properties *)

\* Type invariant; a session's queue holds the operations on it that have not ended, a temporary
\* file belongs to a write that has not been renamed or to a crash.
TypeOK ==
  /\ \A p \in Paths : files[p].of \in Paths \cup {"none"} /\ files[p].n \in 0..ops
  /\ \A c \in Calls : calls[c].pc \in {"idle", "waiting", "rename", "stat", "read", "found", "discard",
                                      "each", "readdir", "measure"}
  /\ \A s \in Sessions :
       ToSet(queue[s]) = {c \in Calls : calls[c].path = s /\ calls[c].pc \in {"waiting", "rename"}}
  /\ temps \subseteq {c \in Calls : calls[c].pc = "rename"} \cup {"orphan"}
  /\ ops \in 0..MaxOps /\ now \in Nat
  /\ lapse.open \in BOOLEAN
  /\ lapse.whole \subseteq {c \in Calls : calls[c].pc = "measure"}

\* Once no prune is under way the cache is within both limits, however the sets and their prunes,
\* of one process or several, were interleaved.  Only a crash before the end of a prune, or a
\* readdir, stat or rm of one that fails, leaves more, and that only until a prune has gone through
\* that read the directory afterwards: what one prune could not remove another one does.
DirectoryBounded == Pruning = {} /\ ~lapse.open => WithinLimits

\* The file of a session never goes back to an older save: writes land in the order of the calls.
NeverOlder ==
  [][\A s \in Sessions : files'[s] # Missing /\ Exists(s) => files'[s].n >= files[s].n]_vars

=============================================================================
