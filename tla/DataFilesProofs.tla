---------------------------- MODULE DataFilesProofs ----------------------------
(***************************************************************************)
(* Theorems about DataFiles for any sessions, rasters, limits, calls,      *)
(* failures and crashes: the file of a session never goes back to an older *)
(* save, and the directory of rasters stays within its limits.             *)
(***************************************************************************)
EXTENDS DataFiles, BasicLemmas, FiniteSetTheorems

\* The queue without the operation at its head.
LEMMA RemoveHead ==
    ASSUME NEW S, NEW s \in Seq(S), Len(s) >= 1
    PROVE  /\ RemoveFirst(s, s[1]) \in Seq(S) /\ Len(RemoveFirst(s, s[1])) = Len(s) - 1
           /\ \A i \in 1..(Len(s) - 1) : RemoveFirst(s, s[1])[i] = s[i + 1]
<1> DEFINE e == s[1]
           I == {i \in 1..Len(s) : s[i] = e}
<1>1. 1 \in I /\ I \in SUBSET Nat /\ \A i \in I : 1 <= i
  OBVIOUS
<1>2. SelectInSeq(s, LAMBDA v : v = e) = 1
  <2>1. I # {} /\ Min(I) = 1
    BY <1>1 DEF Min
  <2>2. QED
    BY <2>1 DEF SelectInSeq
<1>3. RemoveFirst(s, e) = RemoveAt(s, 1)
  BY <1>1, <1>2 DEF RemoveFirst
<1>4. QED
  BY <1>3, RemoveAtPlaces

(***************************************************************************)
(* Operations on a session wait in the order they were started in, and     *)
(* what is in the file was written by an earlier one.                      *)
(***************************************************************************)
Fields == {"op", "path", "n", "size", "pc", "value", "todo", "seen"}
InQueue == {"waiting", "rename"}

Shapes ==
    /\ DOMAIN files = Paths /\ DOMAIN calls = Calls
    /\ \A c \in Calls : Fields \subseteq DOMAIN calls[c]
    /\ queue \in [Sessions -> Seq(Calls)]
    /\ ops \in Nat
    /\ \A s \in Sessions : files[s].n \in 0..ops

\* The operations in the queue of a session.
Queued ==
    \A s \in Sessions : \A i \in 1..Len(queue[s]) :
        LET call == calls[queue[s][i]] IN
        /\ call.pc \in InQueue /\ call.op \in {"save", "delete"} /\ call.path = s
        /\ call.n \in Nat /\ files[s].n < call.n /\ call.n <= ops

Ordered ==
    \A s \in Sessions : \A i, j \in 1..Len(queue[s]) :
        i < j => calls[queue[s][i]].n < calls[queue[s][j]].n

\* Those that wait or write are in one; only the first of a queue writes.
Waiting ==
    \A c \in Calls : calls[c].pc \in InQueue =>
        \/ calls[c].op = "set" /\ calls[c].path \in Formulas
        \/ /\ calls[c].op \in {"save", "delete"} /\ calls[c].path \in Sessions
           /\ \E i \in 1..Len(queue[calls[c].path]) : queue[calls[c].path][i] = c
           /\ calls[c].pc = "rename" => /\ queue[calls[c].path][1] = c
                                        /\ calls[c].value.n = calls[c].n

IInv == Shapes /\ Queued /\ Ordered /\ Waiting

\* A step that neither starts nor ends an operation on a session and writes
\* no session's file; deleting a file is not writing it.
LEMMA QuietStep ==
    ASSUME IInv, UNCHANGED queue, ops' \in {ops, ops + 1},
           DOMAIN files' = Paths, DOMAIN calls' = Calls,
           \A s \in Sessions : files'[s].n = files[s].n \/ files'[s] = Missing,
           \A c \in Calls : Fields \subseteq DOMAIN calls'[c],
           \A c \in Calls :
               \/ calls'[c] = calls[c]
               \/ /\ calls[c].pc \notin InQueue \/ calls[c].op = "set"
                  /\ \/ calls'[c].pc \notin InQueue
                     \/ calls'[c].op = "set" /\ calls'[c].path \in Formulas
    PROVE  IInv'
<1>1. \A s \in Sessions : files'[s].n \in Nat /\ files'[s].n <= files[s].n
  BY DEF IInv, Shapes, Missing
<1>2. \A s \in Sessions : \A i \in 1..Len(queue[s]) :
          queue[s][i] \in Calls /\ calls'[queue[s][i]] = calls[queue[s][i]]
  <2> TAKE s \in Sessions
  <2> TAKE i \in 1..Len(queue[s])
  <2>1. queue[s][i] \in Calls
    BY DEF IInv, Shapes
  <2>2. calls[queue[s][i]].pc \in InQueue /\ calls[queue[s][i]].op # "set"
    BY DEF IInv, Queued
  <2>3. QED
    BY <2>1, <2>2
<1>3. Shapes'
  BY <1>1 DEF IInv, Shapes
<1>4. Queued'
  <2>1. SUFFICES ASSUME NEW s \in Sessions, NEW i \in 1..Len(queue[s])
                 PROVE  LET call == calls[queue[s][i]] IN
                        /\ call.pc \in InQueue /\ call.op \in {"save", "delete"}
                        /\ call.path = s
                        /\ call.n \in Nat /\ files'[s].n < call.n /\ call.n <= ops'
    BY <1>2 DEF Queued
  <2>2. QED
    BY <1>1 DEF IInv, Queued, Shapes
<1>5. Ordered'
  BY <1>2 DEF IInv, Ordered
<1>6. Waiting'
  <2>1. ASSUME NEW c \in Calls, calls'[c].pc \in InQueue, calls'[c] # calls[c]
        PROVE  calls'[c].op = "set" /\ calls'[c].path \in Formulas
    BY <2>1 DEF IInv, Waiting
  <2>2. QED
    BY <2>1 DEF IInv, Waiting
<1>7. QED
  BY <1>3, <1>4, <1>5, <1>6 DEF IInv

\* The operation at the head of a queue ends.
LEMMA HeadEnds ==
    ASSUME IInv, NEW c \in Calls, calls[c].op # "set", calls[c].pc \in InQueue,
           MyTurn(c), calls' = Done(c), Unqueue(c), UNCHANGED ops,
           \/ UNCHANGED files
           \/ /\ calls[c].pc = "rename"
              /\ files' = [files EXCEPT ![calls[c].path] = calls[c].value]
           \/ files' = [files EXCEPT ![calls[c].path] = Missing]
    PROVE  IInv'
<1> DEFINE s == calls[c].path
           q == queue[s]
<1>1. s \in Sessions /\ q \in Seq(Calls) /\ \E i \in 1..Len(q) : q[i] = c
  BY DEF IInv, Waiting, Shapes
<1>2. Len(q) >= 1 /\ q[1] = c
  <2>1. s \notin Formulas
    BY <1>1, FilesAssumption
  <2>2. Head(q) = c
    BY <2>1 DEF MyTurn
  <2>3. QED
    BY <1>1, <2>2
<1>3. /\ queue' = [queue EXCEPT ![s] = RemoveFirst(q, c)]
      /\ RemoveFirst(q, c) \in Seq(Calls) /\ Len(RemoveFirst(q, c)) = Len(q) - 1
      /\ \A i \in 1..(Len(q) - 1) : RemoveFirst(q, c)[i] = q[i + 1]
  <2>1. queue' = [t \in Sessions |-> IF t = s THEN RemoveFirst(queue[t], c) ELSE queue[t]]
    BY DEF Unqueue
  <2>2. queue' = [queue EXCEPT ![s] = RemoveFirst(q, c)]
    BY <1>1, <2>1 DEF IInv, Shapes
  <2>3. QED
    BY <1>1, <1>2, <2>2, RemoveHead
<1> DEFINE rest == queue'[s]
<1>4. /\ rest \in Seq(Calls) /\ Len(rest) = Len(q) - 1
      /\ \A i \in 1..(Len(q) - 1) : rest[i] = q[i + 1]
      /\ queue' \in [Sessions -> Seq(Calls)]
      /\ \A t \in Sessions : t # s => queue'[t] = queue[t]
  BY <1>1, <1>3 DEF IInv, Shapes
<1>5. calls'[c] = Idle /\ DOMAIN calls' = Calls
      /\ \A d \in Calls : d # c => calls'[d] = calls[d]
  BY DEF Done, IInv, Shapes
<1>6. \A i \in 2..Len(q) : q[i] \in Calls /\ q[i] # c /\ calls[q[i]].n > calls[c].n
  <2> TAKE i \in 2..Len(q)
  <2>1. calls[q[1]].n < calls[q[i]].n /\ calls[q[1]].n \in Nat
    BY <1>1, <1>2 DEF IInv, Ordered, Queued
  <2>2. QED
    BY <1>1, <1>2, <2>1
<1>7. \A t \in Sessions : t # s => \A i \in 1..Len(queue[t]) : queue[t][i] # c
  BY DEF IInv, Queued
<1>8. \A t \in Sessions : t # s => files'[t] = files[t]
  <2> TAKE t \in Sessions
  <2>1. t \in DOMAIN files
    BY DEF IInv, Shapes, Paths
  <2>2. QED
    BY <2>1
<1>9. files'[s].n \in Nat /\ files'[s].n <= calls[c].n /\ calls[c].n \in Nat /\ calls[c].n <= ops
  <2>1. calls[c].n \in Nat /\ files[s].n < calls[c].n /\ calls[c].n <= ops
        /\ files[s].n \in Nat
    BY <1>1, <1>2 DEF IInv, Queued, Shapes
  <2>2. CASE UNCHANGED files
    BY <2>1, <2>2
  <2>3. CASE calls[c].pc = "rename" /\ files' = [files EXCEPT ![s] = calls[c].value]
    <3>1. files'[s] = calls[c].value
      BY <1>1, <2>3 DEF IInv, Shapes, Paths
    <3>2. calls[c].value.n = calls[c].n
      BY <2>3 DEF IInv, Waiting
    <3>3. QED
      BY <2>1, <3>1, <3>2
  <2>4. CASE files' = [files EXCEPT ![s] = Missing]
    <3>1. files'[s] = Missing
      BY <1>1, <2>4 DEF IInv, Shapes, Paths
    <3>2. QED
      BY <2>1, <3>1 DEF Missing
  <2>5. QED
    BY <2>2, <2>3, <2>4
<1> HIDE DEF rest
<1>10. Shapes'
  <2>1. DOMAIN files' = Paths
    BY DEF IInv, Shapes
  <2>2. \A d \in Calls : Fields \subseteq DOMAIN calls'[d]
    BY <1>5 DEF IInv, Shapes, Fields, Idle
  <2>3. \A t \in Sessions : files'[t].n \in 0..ops
    BY <1>8, <1>9 DEF IInv, Shapes
  <2>4. QED
    BY <1>4, <1>5, <2>1, <2>2, <2>3 DEF IInv, Shapes
<1>11. Queued'
  <2>1. SUFFICES ASSUME NEW t \in Sessions, NEW i \in 1..Len(queue'[t])
                 PROVE  LET call == calls'[queue'[t][i]] IN
                        /\ call.pc \in InQueue /\ call.op \in {"save", "delete"}
                        /\ call.path = t
                        /\ call.n \in Nat /\ files'[t].n < call.n /\ call.n <= ops
    BY DEF Queued
  <2>2. CASE t = s
    <3>1. i + 1 \in 2..Len(q) /\ queue'[t][i] = q[i + 1]
      BY <1>1, <1>4, <2>2 DEF rest
    <3>2. calls'[q[i + 1]] = calls[q[i + 1]] /\ calls[q[i + 1]].n > calls[c].n
      BY <1>5, <1>6, <3>1
    <3>3. LET call == calls[q[i + 1]] IN
          /\ call.pc \in InQueue /\ call.op \in {"save", "delete"}
          /\ call.path = t /\ call.n \in Nat /\ call.n <= ops
      <4>1. i + 1 \in 1..Len(queue[s]) /\ t = s
        BY <2>2, <3>1
      <4>2. QED
        BY <1>1, <4>1 DEF IInv, Queued
    <3>4. calls'[queue'[t][i]] = calls[q[i + 1]]
      BY <3>1, <3>2
    <3>5. files'[t].n < calls[q[i + 1]].n
      BY <1>9, <2>2, <3>2, <3>3, SMTT(15)
    <3>6. QED
      BY <3>3, <3>4, <3>5
  <2>3. CASE t # s
    <3>1. i \in 1..Len(queue[t]) /\ queue'[t][i] = queue[t][i] /\ queue[t][i] # c
          /\ queue[t][i] \in Calls
      BY <1>4, <1>7, <2>3 DEF IInv, Shapes
    <3>2. calls'[queue[t][i]] = calls[queue[t][i]] /\ files'[t] = files[t]
      BY <1>5, <1>8, <2>3, <3>1
    <3>3. QED
      BY <3>1, <3>2 DEF IInv, Queued
  <2>4. QED
    BY <2>2, <2>3
<1>12. Ordered'
  <2>1. SUFFICES ASSUME NEW t \in Sessions, NEW i \in 1..Len(queue'[t]),
                        NEW j \in 1..Len(queue'[t]), i < j
                 PROVE  calls'[queue'[t][i]].n < calls'[queue'[t][j]].n
    BY DEF Ordered
  <2>2. CASE t = s
    <3>1. ASSUME NEW k \in 1..Len(queue'[t])
          PROVE  k + 1 \in 2..Len(q) /\ queue'[t][k] = q[k + 1]
      BY <1>1, <1>4, <2>2 DEF rest
    <3>2. calls'[q[i + 1]] = calls[q[i + 1]] /\ calls'[q[j + 1]] = calls[q[j + 1]]
      BY <1>5, <1>6, <3>1
    <3>3. calls[q[i + 1]].n < calls[q[j + 1]].n
      <4>1. i + 1 \in 1..Len(q) /\ j + 1 \in 1..Len(q) /\ i + 1 < j + 1
        BY <1>1, <1>4, <2>1, <2>2 DEF rest
      <4>2. QED
        BY <1>1, <4>1 DEF IInv, Ordered
    <3>4. QED
      BY <3>1, <3>2, <3>3
  <2>3. CASE t # s
    <3>1. queue'[t] = queue[t]
      BY <1>4, <2>3
    <3>2. queue[t][i] # c /\ queue[t][i] \in Calls /\ queue[t][j] # c /\ queue[t][j] \in Calls
      BY <1>7, <2>3, <3>1 DEF IInv, Shapes
    <3>3. calls[queue[t][i]].n < calls[queue[t][j]].n
      BY <2>1, <3>1 DEF IInv, Ordered
    <3>4. QED
      BY <1>5, <3>1, <3>2, <3>3
  <2>4. QED
    BY <2>2, <2>3
<1>13. Waiting'
  <2>1. SUFFICES ASSUME NEW d \in Calls, calls'[d].pc \in InQueue
                 PROVE  \/ calls'[d].op = "set" /\ calls'[d].path \in Formulas
                        \/ /\ calls'[d].op \in {"save", "delete"} /\ calls'[d].path \in Sessions
                           /\ \E i \in 1..Len(queue'[calls'[d].path]) : queue'[calls'[d].path][i] = d
                           /\ calls'[d].pc = "rename" => /\ queue'[calls'[d].path][1] = d
                                                         /\ calls'[d].value.n = calls'[d].n
    BY DEF Waiting
  <2>2. d # c /\ calls'[d] = calls[d]
    BY <1>5, <2>1 DEF Idle, InQueue
  <2>3. CASE calls[d].op = "set"
    BY <2>1, <2>2, <2>3 DEF IInv, Waiting
  <2>4. CASE calls[d].path = s /\ calls[d].op # "set"
    <3>1. PICK i \in 1..Len(q) : q[i] = d
      BY <2>1, <2>2, <2>4 DEF IInv, Waiting
    <3>2. i - 1 \in 1..Len(rest) /\ rest[i - 1] = d
      <4>1. Len(q) \in Nat /\ i # 1
        BY <1>1, <1>2, <2>2, <3>1
      <4>2. i - 1 \in 1..(Len(q) - 1) /\ (i - 1) + 1 = i
        BY <4>1
      <4>3. QED
        BY <1>4, <3>1, <4>2
    <3>3. calls[d].op \in {"save", "delete"} /\ calls[d].pc # "rename"
      BY <1>2, <2>1, <2>2, <2>4 DEF IInv, Waiting
    <3>4. QED
      BY <1>1, <2>2, <2>4, <3>2, <3>3 DEF rest
  <2>5. CASE calls[d].path # s /\ calls[d].op # "set"
    <3>1. calls[d].path \in Sessions
      BY <2>1, <2>2, <2>5 DEF IInv, Waiting
    <3>2. queue'[calls[d].path] = queue[calls[d].path]
      BY <1>4, <2>5, <3>1
    <3>3. QED
      BY <2>1, <2>2, <2>5, <3>1, <3>2 DEF IInv, Waiting
  <2>6. QED
    BY <2>3, <2>4, <2>5
<1>14. QED
  BY <1>10, <1>11, <1>12, <1>13 DEF IInv

\* An operation on a session starts, and waits for those before it.
LEMMA QueueStep ==
    ASSUME IInv, NEW c \in Calls, NEW s \in Sessions, NEW op \in {"save", "delete"},
           QueueSession(c, s, op)
    PROVE  IInv'
<1> DEFINE q == queue[s]
<1>1. /\ calls[c].pc = "idle" /\ ops' = ops + 1 /\ UNCHANGED files
      /\ calls' = [calls EXCEPT ![c] = [Idle EXCEPT !.op = op, !.path = s, !.pc = "waiting",
                                                    !.n = ops + 1, !.size = 1]]
      /\ queue' = [queue EXCEPT ![s] = Append(q, c)]
  BY DEF QueueSession, Begin
<1>2. /\ calls'[c].op = op /\ calls'[c].path = s /\ calls'[c].pc = "waiting"
      /\ calls'[c].n = ops + 1 /\ Fields \subseteq DOMAIN calls'[c]
      /\ DOMAIN calls' = Calls /\ \A d \in Calls : d # c => calls'[d] = calls[d]
  BY <1>1 DEF IInv, Shapes, Idle, Fields
<1>3. /\ q \in Seq(Calls) /\ queue' \in [Sessions -> Seq(Calls)] /\ queue'[s] = Append(q, c)
      /\ \A t \in Sessions : t # s => queue'[t] = queue[t]
  BY <1>1 DEF IInv, Shapes
<1>4. /\ Len(queue'[s]) = Len(q) + 1 /\ queue'[s][Len(q) + 1] = c
      /\ \A i \in 1..Len(q) : queue'[s][i] = q[i]
  BY <1>3
<1>5. \A t \in Sessions : \A i \in 1..Len(queue[t]) :
          queue[t][i] \in Calls /\ queue[t][i] # c
  <2> TAKE t \in Sessions
  <2> TAKE i \in 1..Len(queue[t])
  <2>1. calls[queue[t][i]].pc \in InQueue
    BY DEF IInv, Queued
  <2>2. queue[t][i] \in Calls
    BY DEF IInv, Shapes
  <2>3. QED
    BY <1>1, <2>1, <2>2 DEF InQueue
<1>6. Shapes'
  <2>1. \A d \in Calls : Fields \subseteq DOMAIN calls'[d]
    BY <1>2 DEF IInv, Shapes
  <2>2. QED
    BY <1>1, <1>2, <1>3, <2>1 DEF IInv, Shapes
<1> DEFINE Good(t, d) == /\ calls'[d].pc \in InQueue /\ calls'[d].op \in {"save", "delete"}
                         /\ calls'[d].path = t
                         /\ calls'[d].n \in Nat /\ files'[t].n < calls'[d].n
                         /\ calls'[d].n <= ops'
<1>7. ASSUME NEW t \in Sessions, NEW i \in 1..Len(queue[t])
      PROVE  Good(t, queue[t][i]) /\ calls'[queue[t][i]].n <= ops
  <2>1. calls'[queue[t][i]] = calls[queue[t][i]]
    BY <1>2, <1>5
  <2>2. ops \in Nat /\ files'[t].n = files[t].n
    BY <1>1 DEF IInv, Shapes
  <2>3. LET call == calls[queue[t][i]] IN
        /\ call.pc \in InQueue /\ call.op \in {"save", "delete"} /\ call.path = t
        /\ call.n \in Nat /\ files[t].n < call.n /\ call.n <= ops
    BY DEF IInv, Queued
  <2>4. calls'[queue[t][i]].n <= ops'
    BY <1>1, <2>1, <2>2, <2>3
  <2>5. QED
    BY <2>1, <2>2, <2>3, <2>4
<1>8. Good(s, c)
  BY <1>1, <1>2 DEF IInv, Shapes, InQueue
<1>9. ASSUME NEW t \in Sessions, NEW i \in 1..Len(queue'[t])
      PROVE  \/ i \in 1..Len(queue[t]) /\ queue'[t][i] = queue[t][i]
             \/ t = s /\ i = Len(q) + 1 /\ queue'[t][i] = c
  <2>1. CASE t = s
    <3>1. Len(q) \in Nat /\ i \in 1..(Len(q) + 1)
      BY <1>3, <1>4, <2>1
    <3>2. QED
      BY <1>4, <2>1, <3>1
  <2>2. CASE t # s
    BY <1>3, <2>2
  <2>3. QED
    BY <2>1, <2>2
<1> HIDE DEF Good
<1>10. Queued'
  <2>1. ASSUME NEW t \in Sessions, NEW i \in 1..Len(queue'[t]) PROVE Good(t, queue'[t][i])
    BY <1>7, <1>8, <1>9
  <2>2. QED
    BY <2>1 DEF Queued, Good
<1>11. Ordered'
  <2>1. SUFFICES ASSUME NEW t \in Sessions, NEW i \in 1..Len(queue'[t]),
                        NEW j \in 1..Len(queue'[t]), i < j
                 PROVE  calls'[queue'[t][i]].n < calls'[queue'[t][j]].n
    BY DEF Ordered
  <2>2. i \in 1..Len(queue[t]) /\ queue'[t][i] = queue[t][i]
    BY <1>3, <1>4, <1>9, <2>1
  <2>3. CASE j \in 1..Len(queue[t]) /\ queue'[t][j] = queue[t][j]
    <3>1. calls[queue[t][i]].n < calls[queue[t][j]].n
      BY <2>1, <2>2, <2>3 DEF IInv, Ordered
    <3>2. QED
      BY <1>2, <1>5, <2>2, <2>3, <3>1
  <2>4. CASE queue'[t][j] = c
    <3>1. calls'[queue[t][i]].n <= ops /\ calls'[queue[t][i]].n \in Nat /\ ops \in Nat
      BY <1>7, <2>2 DEF Good, IInv, Shapes
    <3>2. QED
      BY <1>2, <2>2, <2>4, <3>1
  <2>5. QED
    BY <1>9, <2>3, <2>4
<1>12. Waiting'
  <2>1. SUFFICES ASSUME NEW d \in Calls, calls'[d].pc \in InQueue
                 PROVE  \/ calls'[d].op = "set" /\ calls'[d].path \in Formulas
                        \/ /\ calls'[d].op \in {"save", "delete"} /\ calls'[d].path \in Sessions
                           /\ \E i \in 1..Len(queue'[calls'[d].path]) : queue'[calls'[d].path][i] = d
                           /\ calls'[d].pc = "rename" => /\ queue'[calls'[d].path][1] = d
                                                         /\ calls'[d].value.n = calls'[d].n
    BY DEF Waiting
  <2>2. CASE d = c
    <3>1. Len(q) + 1 \in 1..Len(queue'[s]) /\ queue'[s][Len(q) + 1] = c
      BY <1>3, <1>4
    <3>2. QED
      BY <1>2, <2>2, <3>1
  <2>3. CASE d # c /\ calls[d].op = "set"
    BY <1>2, <2>1, <2>3 DEF IInv, Waiting
  <2>4. CASE d # c /\ calls[d].op # "set"
    <3> DEFINE p == calls[d].path
    <3>1. calls'[d] = calls[d]
      BY <1>2, <2>4
    <3>2. p \in Sessions /\ calls[d].op \in {"save", "delete"}
      BY <2>1, <2>4, <3>1 DEF IInv, Waiting
    <3>3. PICK i \in 1..Len(queue[p]) : queue[p][i] = d
      BY <2>1, <2>4, <3>1 DEF IInv, Waiting
    <3>4. calls[d].pc = "rename" => queue[p][1] = d /\ calls[d].value.n = calls[d].n
      BY <2>4 DEF IInv, Waiting, InQueue
    <3>5. \A k \in 1..Len(queue[p]) : k \in 1..Len(queue'[p]) /\ queue'[p][k] = queue[p][k]
      <4>1. CASE p = s
        <5>1. queue[p] = q /\ queue'[p] = queue'[s] /\ Len(q) \in Nat
          BY <4>1 DEF IInv, Shapes
        <5>2. \A k \in 1..Len(q) : k \in 1..Len(queue'[s])
          BY <1>4, <5>1
        <5>3. QED
          BY <1>4, <5>1, <5>2
      <4>2. CASE p # s
        BY <1>3, <3>2, <4>2
      <4>3. QED
        BY <4>1, <4>2
    <3>6. 1 \in 1..Len(queue[p])
      BY <3>2, <3>3 DEF IInv, Shapes
    <3>7. QED
      BY <3>1, <3>2, <3>3, <3>4, <3>5, <3>6
  <2>5. QED
    BY <2>2, <2>3, <2>4
<1>13. QED
  BY <1>6, <1>10, <1>11, <1>12 DEF IInv

\* The save at the head of its queue has written its temporary file.
LEMMA TempStep ==
    ASSUME IInv, NEW c \in Calls, WriteTemp(c), calls[c].op = "save"
    PROVE  IInv'
<1>1. calls[c].pc = "waiting" /\ MyTurn(c) /\ UNCHANGED <<files, queue, ops>>
      /\ calls' = [calls EXCEPT ![c].pc = "rename", ![c].value = Content(c)]
  BY DEF WriteTemp
<1>2. /\ DOMAIN calls' = Calls /\ \A d \in Calls : d # c => calls'[d] = calls[d]
      /\ calls'[c].pc = "rename" /\ calls'[c].value = Content(c)
      /\ calls'[c].op = calls[c].op /\ calls'[c].path = calls[c].path
      /\ calls'[c].n = calls[c].n /\ DOMAIN calls'[c] = DOMAIN calls[c]
  BY <1>1 DEF IInv, Shapes, Fields
<1>3. \A d \in Calls : /\ calls'[d].op = calls[d].op /\ calls'[d].path = calls[d].path
                       /\ calls'[d].n = calls[d].n
                       /\ calls'[d].pc \in InQueue <=> calls[d].pc \in InQueue
                       /\ DOMAIN calls'[d] = DOMAIN calls[d]
  BY <1>1, <1>2 DEF InQueue
<1>4. Shapes'
  BY <1>1, <1>2, <1>3 DEF IInv, Shapes
<1>5. \A s \in Sessions : \A i \in 1..Len(queue[s]) : queue[s][i] \in Calls
  BY DEF IInv, Shapes
<1>6. Queued'
  <2>1. SUFFICES ASSUME NEW s \in Sessions, NEW i \in 1..Len(queue[s])
                 PROVE  LET call == calls'[queue[s][i]] IN
                        /\ call.pc \in InQueue /\ call.op \in {"save", "delete"}
                        /\ call.path = s
                        /\ call.n \in Nat /\ files[s].n < call.n /\ call.n <= ops
    <3>1. queue' = queue /\ files' = files /\ ops' = ops
      BY <1>1
    <3>2. QED
      BY <3>1 DEF Queued
  <2>2. QED
    BY <1>3, <1>5 DEF IInv, Queued
<1>7. Ordered'
  <2>1. SUFFICES ASSUME NEW s \in Sessions, NEW i \in 1..Len(queue[s]),
                        NEW j \in 1..Len(queue[s]), i < j
                 PROVE  calls'[queue[s][i]].n < calls'[queue[s][j]].n
    <3>1. queue' = queue
      BY <1>1
    <3>2. QED
      BY <3>1 DEF Ordered
  <2>2. QED
    BY <1>3, <1>5, <2>1 DEF IInv, Ordered
<1>8. Waiting'
  <2>1. SUFFICES ASSUME NEW d \in Calls, calls'[d].pc \in InQueue
                 PROVE  \/ calls'[d].op = "set" /\ calls'[d].path \in Formulas
                        \/ /\ calls'[d].op \in {"save", "delete"} /\ calls'[d].path \in Sessions
                           /\ \E i \in 1..Len(queue[calls'[d].path]) : queue[calls'[d].path][i] = d
                           /\ calls'[d].pc = "rename" => /\ queue[calls'[d].path][1] = d
                                                         /\ calls'[d].value.n = calls'[d].n
    <3>1. queue' = queue
      BY <1>1
    <3>2. QED
      BY <3>1 DEF Waiting
  <2>2. CASE d # c
    BY <1>2, <2>1, <2>2 DEF IInv, Waiting
  <2>3. CASE d = c
    <3>1. /\ calls[c].path \in Sessions
          /\ \E i \in 1..Len(queue[calls[c].path]) : queue[calls[c].path][i] = c
      BY <1>1 DEF IInv, Waiting, InQueue
    <3>2. Head(queue[calls[c].path]) = c
      BY <1>1, <3>1, FilesAssumption DEF MyTurn
    <3>3. queue[calls[c].path][1] = c
      BY <3>1, <3>2 DEF IInv, Shapes
    <3>4. calls'[c].value.n = calls[c].n
      BY <1>2 DEF Content
    <3>5. QED
      BY <1>2, <2>3, <3>1, <3>3, <3>4
  <2>4. QED
    BY <2>2, <2>3
<1>9. QED
  BY <1>4, <1>6, <1>7, <1>8 DEF IInv

LEMMA InitIInv == Init => IInv
<1> SUFFICES ASSUME Init PROVE IInv
  OBVIOUS
<1>1. /\ calls = [c \in Calls |-> Idle] /\ queue = [s \in Sessions |-> <<>>] /\ ops = 0
      /\ DOMAIN files = Paths
  BY DEF Init
<1>2. ASSUME NEW s \in Sessions PROVE files[s].n = 0
  <2>1. s \in Paths
    BY DEF Paths
  <2>2. PICK good : files[s] = IF good = {} THEN Garbage(s) ELSE Missing
    BY <2>1 DEF Init
  <2>3. QED
    BY <2>2 DEF Garbage, Missing
<1>3. Shapes
  <2>1. queue \in [Sessions -> Seq(Calls)]
    BY <1>1
  <2>2. \A c \in Calls : Fields \subseteq DOMAIN calls[c]
    BY <1>1 DEF Idle, Fields
  <2>3. QED
    BY <1>1, <1>2, <2>1, <2>2 DEF Shapes
<1>4. Queued /\ Ordered
  BY <1>1 DEF Queued, Ordered
<1>5. Waiting
  BY <1>1 DEF Waiting, Idle, InQueue
<1>6. QED
  BY <1>3, <1>4, <1>5 DEF IInv

\* What the calls are after a step that changes one of them.
LEMMA OneCall ==
    ASSUME Shapes, NEW c \in Calls, NEW new, calls' = [calls EXCEPT ![c] = new],
           Fields \subseteq DOMAIN new
    PROVE  /\ calls'[c] = new /\ DOMAIN calls' = Calls
           /\ \A d \in Calls : d # c => calls'[d] = calls[d]
           /\ \A d \in Calls : Fields \subseteq DOMAIN calls'[d]
BY DEF Shapes

LEMMA StartStep ==
    ASSUME IInv, NEW c \in Calls, Start(c)
    PROVE  IInv'
<1>1. ASSUME NEW new, Fields \subseteq DOMAIN new, calls' = [calls EXCEPT ![c] = new],
             UNCHANGED <<files, queue>>, ops' = ops + 1, calls[c].pc = "idle",
             \/ new.pc \notin InQueue
             \/ new.op = "set" /\ new.path \in Formulas
      PROVE  IInv'
  <2>1. /\ calls'[c] = new /\ DOMAIN calls' = Calls
        /\ \A d \in Calls : d # c => calls'[d] = calls[d]
        /\ \A d \in Calls : Fields \subseteq DOMAIN calls'[d]
    BY <1>1, OneCall DEF IInv
  <2>2. DOMAIN files' = Paths
    BY <1>1 DEF IInv, Shapes
  <2>3. calls[c].pc \notin InQueue
    BY <1>1 DEF InQueue
  <2>4. QED
    BY <1>1, <2>1, <2>2, <2>3, QuietStep
<1>2. ASSUME NEW s \in Sessions, QueueSession(c, s, "save") \/ QueueSession(c, s, "delete")
      PROVE  IInv'
  BY <1>2, QueueStep
<1>3. ASSUME NEW f \in Formulas, NEW size, SetRaster(c, f, size) PROVE IInv'
  <2> DEFINE new == [Idle EXCEPT !.op = "set", !.path = f, !.pc = "waiting", !.n = ops + 1,
                                 !.size = size]
  <2>1. new.op = "set" /\ new.path = f /\ Fields \subseteq DOMAIN new
    BY DEF Idle, Fields
  <2>2. calls[c].pc = "idle" /\ calls' = [calls EXCEPT ![c] = new] /\ ops' = ops + 1
        /\ UNCHANGED <<files, queue>>
    BY <1>3 DEF SetRaster, Begin
  <2> HIDE DEF new
  <2>3. QED
    BY <1>1, <2>1, <2>2
<1>4. ASSUME NEW p \in Paths, Lookup(c, p) PROVE IInv'
  <2> DEFINE new == [Idle EXCEPT !.op = "get", !.path = p, !.pc = "stat", !.n = ops + 1,
                                 !.size = 0]
  <2>1. new.pc \notin InQueue /\ Fields \subseteq DOMAIN new
    BY DEF Idle, Fields, InQueue
  <2>2. calls[c].pc = "idle" /\ calls' = [calls EXCEPT ![c] = new] /\ ops' = ops + 1
        /\ UNCHANGED <<files, queue>>
    BY <1>4 DEF Lookup, Begin
  <2> HIDE DEF new
  <2>3. QED
    BY <1>1, <2>1, <2>2
<1>5. CASE ListSessions(c)
  <2> DEFINE new == [Idle EXCEPT !.op = "list", !.pc = "each", !.n = ops + 1,
                                 !.todo = {s \in Sessions : Exists(s)}]
  <2>1. new.pc \notin InQueue /\ Fields \subseteq DOMAIN new
    BY DEF Idle, Fields, InQueue
  <2>2. calls[c].pc = "idle" /\ calls' = [calls EXCEPT ![c] = new] /\ ops' = ops + 1
        /\ UNCHANGED <<files, queue>>
    BY <1>5 DEF ListSessions
  <2> HIDE DEF new
  <2>3. QED
    BY <1>1, <2>1, <2>2
<1>6. QED
  BY <1>2, <1>3, <1>4, <1>5 DEF Start

\* A step of a call that is not in the queue of a session.
LEMMA OutsideStep ==
    ASSUME IInv, NEW c \in Calls, NEW new, Fields \subseteq DOMAIN new,
           calls' = [calls EXCEPT ![c] = new],
           calls[c].pc \notin InQueue \/ calls[c].op = "set",
           new.pc \notin InQueue \/ (new.op = "set" /\ new.path \in Formulas),
           UNCHANGED <<queue, ops>>,
           DOMAIN files' = Paths,
           \A s \in Sessions : files'[s].n = files[s].n \/ files'[s] = Missing
    PROVE  IInv'
<1>1. /\ calls'[c] = new /\ DOMAIN calls' = Calls
      /\ \A d \in Calls : d # c => calls'[d] = calls[d]
      /\ \A d \in Calls : Fields \subseteq DOMAIN calls'[d]
  BY OneCall DEF IInv
<1>2. QED
  BY <1>1, QuietStep

\* A step of a call that keeps its fields or is over.
LEMMA NewFields ==
    ASSUME IInv, NEW c \in Calls
    PROVE  /\ Fields \subseteq DOMAIN calls[c] /\ Fields \subseteq DOMAIN Idle
           /\ Idle.pc = "idle" /\ "idle" \notin InQueue
BY DEF IInv, Shapes, Idle, Fields, InQueue

\* An operation on a raster is written, fails or is pruned after, an operation
\* on a session is written or ends.
LEMMA WriteStep ==
    ASSUME IInv, NEW c \in Calls, Write(c)
    PROVE  IInv'
<1>1. ASSUME calls[c].pc \in InQueue, calls[c].op # "set"
      PROVE  calls[c].op \in {"save", "delete"} /\ calls[c].path \in Sessions
             /\ (calls[c].pc = "rename" => MyTurn(c))
  <2>1. /\ calls[c].op \in {"save", "delete"} /\ calls[c].path \in Sessions
        /\ calls[c].pc = "rename" => queue[calls[c].path][1] = c
    BY <1>1 DEF IInv, Waiting
  <2>2. calls[c].path \notin Formulas /\ queue[calls[c].path] \in Seq(Calls)
    BY <2>1, FilesAssumption DEF IInv, Shapes
  <2>3. QED
    BY <2>1, <2>2 DEF MyTurn
<1>2. ASSUME calls[c].pc \in InQueue, calls[c].op = "set"
      PROVE  calls[c].path \in Formulas /\ calls[c].path \notin Sessions
  BY <1>2, FilesAssumption DEF IInv, Waiting
<1>3. ASSUME calls[c].op = "set", calls[c].pc \in InQueue, Unqueue(c)
      PROVE  UNCHANGED queue
  <2>1. queue' = [s \in Sessions |-> IF s = calls[c].path THEN RemoveFirst(queue[s], c)
                                                          ELSE queue[s]]
    BY <1>3 DEF Unqueue
  <2>2. queue' = [s \in Sessions |-> queue[s]]
    BY <1>2, <1>3, <2>1
  <2>3. QED
    BY <2>2 DEF IInv, Shapes
<1>4. CASE WriteTemp(c) /\ calls[c].op = "set"
  <2> DEFINE new == [calls[c] EXCEPT !.pc = "rename", !.value = Content(c)]
  <2>1. calls' = [calls EXCEPT ![c] = new] /\ UNCHANGED <<files, queue, ops>>
        /\ calls[c].pc = "waiting"
    BY <1>4 DEF WriteTemp
  <2>2. new.op = "set" /\ new.path = calls[c].path /\ Fields \subseteq DOMAIN new
    BY <1>4, NewFields DEF Fields
  <2> HIDE DEF new
  <2>3. new.path \in Formulas
    BY <1>2, <1>4, <2>1, <2>2 DEF InQueue
  <2>4. DOMAIN files' = Paths
    BY <2>1 DEF IInv, Shapes
  <2>5. QED
    BY <1>4, <2>1, <2>2, <2>3, <2>4, OutsideStep
<1>5. CASE WriteTemp(c) /\ calls[c].op # "set"
  <2>1. calls[c].op = "save"
    BY <1>5 DEF WriteTemp
  <2>2. QED
    BY <1>5, <2>1, TempStep
<1>6. CASE Rename(c) /\ calls[c].op = "set"
  <2> DEFINE new == [calls[c] EXCEPT !.pc = "readdir"]
  <2>1. calls' = [calls EXCEPT ![c] = new] /\ UNCHANGED <<queue, ops>>
        /\ calls[c].pc = "rename"
        /\ files' = [files EXCEPT ![calls[c].path] = calls[c].value]
    BY <1>6 DEF Rename, Goto
  <2>2. new.pc \notin InQueue /\ Fields \subseteq DOMAIN new
    BY <1>6, NewFields DEF Fields, InQueue
  <2> HIDE DEF new
  <2>3. DOMAIN files' = Paths
    BY <2>1 DEF IInv, Shapes
  <2>4. \A s \in Sessions : files'[s] = files[s]
    <3>1. calls[c].path \notin Sessions
      BY <1>2, <1>6, <2>1 DEF InQueue
    <3>2. QED
      BY <2>1, <3>1 DEF IInv, Shapes, Paths
  <2>5. QED
    BY <1>6, <2>1, <2>2, <2>3, <2>4, OutsideStep
<1>7. CASE Rename(c) /\ calls[c].op # "set"
  <2>1. /\ calls[c].pc = "rename" /\ calls' = Done(c) /\ Unqueue(c) /\ UNCHANGED ops
        /\ files' = [files EXCEPT ![calls[c].path] = calls[c].value]
    BY <1>7 DEF Rename
  <2>2. MyTurn(c) /\ calls[c].pc \in InQueue
    BY <1>1, <1>7, <2>1 DEF InQueue
  <2>3. QED
    BY <1>7, <2>1, <2>2, HeadEnds
<1>8. CASE WriteFails(c)
  <2>1. /\ calls[c].pc \in InQueue /\ MyTurn(c) /\ calls' = Done(c) /\ Unqueue(c)
        /\ UNCHANGED <<files, ops>>
    BY <1>8 DEF WriteFails, InQueue
  <2>2. CASE calls[c].op = "set"
    <3>1. calls' = [calls EXCEPT ![c] = Idle] /\ UNCHANGED queue /\ DOMAIN files' = Paths
      BY <1>3, <2>1, <2>2 DEF Done, IInv, Shapes
    <3>2. QED
      BY <2>1, <2>2, <3>1, NewFields, OutsideStep
  <2>3. CASE calls[c].op # "set"
    BY <2>1, <2>3, HeadEnds
  <2>4. QED
    BY <2>2, <2>3
<1>9. CASE DeleteSession(c)
  <2>1. /\ calls[c].pc \in InQueue /\ calls[c].op # "set" /\ MyTurn(c) /\ calls' = Done(c)
        /\ Unqueue(c) /\ UNCHANGED ops
        /\ files' = [files EXCEPT ![calls[c].path] = Missing]
    BY <1>9 DEF DeleteSession, InQueue
  <2>2. QED
    BY <2>1, HeadEnds
<1>10. QED
  BY <1>4, <1>5, <1>6, <1>7, <1>8, <1>9 DEF Write

\* The entry a prune measures is the first it has not; one that is there, and whose stat goes
\* through, is seen from then on.
NextOf(todo) == CHOOSE f \in todo : \A g \in todo : Rank[f] <= Rank[g]

LEMMA MeasureCalls ==
    ASSUME IInv, NEW c \in Calls, Measure(c)
    PROVE  \E seen :
             /\ calls' = [calls EXCEPT ![c] = [calls[c] EXCEPT !.todo = @ \ {NextOf(calls[c].todo)},
                                                              !.seen = seen]]
             /\ \/ seen = calls[c].seen /\ lapse' = [open |-> TRUE, whole |-> {}]
                \/ /\ UNCHANGED lapse
                   /\ seen = IF Exists(NextOf(calls[c].todo))
                             THEN calls[c].seen \cup
                                    {[path |-> NextOf(calls[c].todo),
                                      size |-> files[NextOf(calls[c].todo)].size,
                                      at |-> files[NextOf(calls[c].todo)].at]}
                             ELSE calls[c].seen
<1> DEFINE f == NextOf(calls[c].todo)
           entry == [path |-> f, size |-> files[f].size, at |-> files[f].at]
           more == IF Exists(f) THEN calls[c].seen \cup {entry} ELSE calls[c].seen
<1>1. f = CHOOSE f_1 \in calls[c].todo : \A g \in calls[c].todo : Rank[f_1] <= Rank[g]
  BY DEF NextOf
<1>2. \/ /\ calls' = [calls EXCEPT ![c].todo = @ \ {f},
                                   ![c].seen = IF Exists(f) THEN @ \cup {entry} ELSE @]
         /\ UNCHANGED lapse
      \/ /\ calls' = [calls EXCEPT ![c].todo = @ \ {f}]
         /\ lapse' = [open |-> TRUE, whole |-> {}]
  BY <1>1 DEF Measure, Through, MissedBy
<1> HIDE DEF f, entry
<1>3. ASSUME calls' = [calls EXCEPT ![c].todo = @ \ {f},
                                    ![c].seen = IF Exists(f) THEN @ \cup {entry} ELSE @]
      PROVE  calls' = [calls EXCEPT ![c] = [calls[c] EXCEPT !.todo = @ \ {f}, !.seen = more]]
  BY <1>3 DEF IInv, Shapes
<1>4. ASSUME calls' = [calls EXCEPT ![c].todo = @ \ {f}]
      PROVE  calls' = [calls EXCEPT ![c] = [calls[c] EXCEPT !.todo = @ \ {f},
                                                            !.seen = calls[c].seen]]
  <2>1. [calls[c] EXCEPT !.todo = @ \ {f}]
          = [calls[c] EXCEPT !.todo = @ \ {f}, !.seen = calls[c].seen]
    BY DEF IInv, Shapes, Fields
  <2>2. QED
    BY <1>4, <2>1
<1>5. QED
  BY <1>2, <1>3, <1>4 DEF f, entry

\* What is read or pruned is no operation of a queue.
LEMMA ReadStep ==
    ASSUME IInv, NEW c \in Calls, Read(c) \/ Prune(c)
    PROVE  IInv'
<1>1. ASSUME NEW new, Fields \subseteq DOMAIN new, calls' = [calls EXCEPT ![c] = new],
             calls[c].pc \notin InQueue, new.pc \notin InQueue, UNCHANGED <<queue, ops>>,
             UNCHANGED files \/ \E p : files' = [files EXCEPT ![p] = Missing]
      PROVE  IInv'
  <2>1. DOMAIN files' = Paths
    BY <1>1 DEF IInv, Shapes
  <2>2. \A s \in Sessions : files'[s] = files[s] \/ files'[s] = Missing
    BY <1>1 DEF IInv, Shapes, Paths
  <2>3. QED
    BY <1>1, <2>1, <2>2, OutsideStep
<1>2. Fields \subseteq DOMAIN calls[c] /\ Fields \subseteq DOMAIN Idle /\ Idle.pc \notin InQueue
  BY NewFields
<1>3. ASSUME NEW pc \in {"read", "discard", "found", "measure"}
      PROVE  [calls[c] EXCEPT !.pc = pc].pc \notin InQueue
             /\ Fields \subseteq DOMAIN [calls[c] EXCEPT !.pc = pc]
  BY <1>2 DEF Fields, InQueue
<1>4. CASE StatFile(c)
  BY <1>1, <1>2, <1>3, <1>4 DEF StatFile, Goto, Done, InQueue
<1>5. CASE ReadFile(c)
  <2> DEFINE p == calls[c].path
             new == [calls[c] EXCEPT !.value = files[p], !.pc = "found"]
  <2>1. calls[c].pc \notin InQueue /\ UNCHANGED <<files, queue, ops>>
    BY <1>5 DEF ReadFile, InQueue
  <2>2. CASE calls' = [calls EXCEPT ![c] = new]
    <3>1. new.pc \notin InQueue /\ Fields \subseteq DOMAIN new
      BY <1>2 DEF Fields, InQueue
    <3>2. QED
      BY <1>1, <2>1, <2>2, <3>1
  <2>3. CASE calls' = Goto(c, "discard") \/ calls' = Done(c)
    BY <1>1, <1>2, <1>3, <2>1, <2>3 DEF Goto, Done
  <2>4. QED
    BY <1>5, <2>2, <2>3 DEF ReadFile
<1>6. CASE Found(c) \/ ReadFails(c) \/ ListDone(c) \/ PruneDone(c)
  BY <1>1, <1>2, <1>6 DEF Found, ReadFails, ListDone, PruneDone, Done, InQueue
<1>7. CASE Discard(c)
  BY <1>1, <1>2, <1>7 DEF Discard, Done, InQueue
<1>8. CASE ListOne(c)
  <2>1. PICK s : calls' = [calls EXCEPT ![c].todo = @ \ {s},
                              ![c].seen = IF Readable(s, files[s]) THEN @ \cup {files[s]} ELSE @]
    BY <1>8 DEF ListOne
  <2> DEFINE new == [calls[c] EXCEPT !.todo = @ \ {s},
                              !.seen = IF Readable(s, files[s]) THEN @ \cup {files[s]} ELSE @]
  <2>2. calls[c].pc = "each" /\ UNCHANGED <<files, queue, ops>> /\ calls' = [calls EXCEPT ![c] = new]
    BY <1>8, <2>1 DEF ListOne
  <2>3. new.pc = calls[c].pc /\ Fields \subseteq DOMAIN new
    BY <1>2 DEF Fields
  <2> HIDE DEF new
  <2>4. QED
    BY <1>1, <2>2, <2>3 DEF InQueue
<1>9. CASE ReadDir(c)
  <2> DEFINE new == [calls[c] EXCEPT !.todo = {f \in Formulas : Exists(f)}, !.pc = "measure"]
  <2>1. /\ calls[c].pc = "readdir" /\ UNCHANGED <<files, queue, ops>>
        /\ calls' = [calls EXCEPT ![c] = new] \/ calls' = [calls EXCEPT ![c] = Idle]
    BY <1>9 DEF ReadDir, Through, MissedBy, Done
  <2>2. new.pc = "measure" /\ Fields \subseteq DOMAIN new
    BY <1>2 DEF Fields
  <2> HIDE DEF new
  <2>3. QED
    BY <1>1, <1>2, <2>1, <2>2 DEF InQueue
<1>10. CASE Measure(c)
  <2> DEFINE f == NextOf(calls[c].todo)
  <2>1. PICK seen : calls' = [calls EXCEPT ![c] = [calls[c] EXCEPT !.todo = @ \ {f},
                                                                   !.seen = seen]]
    BY <1>10, MeasureCalls
  <2> HIDE DEF f
  <2> DEFINE new == [calls[c] EXCEPT !.todo = @ \ {f}, !.seen = seen]
  <2>2. calls' = [calls EXCEPT ![c] = new]
    BY <2>1
  <2>3. calls[c].pc = "measure" /\ UNCHANGED <<files, queue, ops>>
    BY <1>10 DEF Measure
  <2>4. new.pc = calls[c].pc /\ Fields \subseteq DOMAIN new
    BY <1>2 DEF Fields
  <2> HIDE DEF new
  <2>5. QED
    BY <1>1, <2>2, <2>3, <2>4 DEF InQueue
<1>11. CASE PruneOne(c)
  <2>1. PICK oldest :
            /\ files' = [files EXCEPT ![oldest.path] = Missing] \/ UNCHANGED files
            /\ calls' = [calls EXCEPT ![c] = [calls[c] EXCEPT !.seen = calls[c].seen \ {oldest}]]
    BY <1>11 DEF PruneOne, Through, MissedBy
  <2> DEFINE new == [calls[c] EXCEPT !.seen = calls[c].seen \ {oldest}]
  <2>2. calls[c].pc = "measure" /\ UNCHANGED <<queue, ops>>
    BY <1>11 DEF PruneOne
  <2>3. new.pc = calls[c].pc /\ Fields \subseteq DOMAIN new
    BY <1>2 DEF Fields
  <2> HIDE DEF new
  <2>4. QED
    BY <1>1, <2>1, <2>2, <2>3 DEF InQueue, new
<1>12. QED
  BY <1>4, <1>5, <1>6, <1>7, <1>8, <1>9, <1>10, <1>11 DEF Read, Prune

LEMMA CrashStep ==
    ASSUME IInv, Crash
    PROVE  IInv'
<1>1. /\ calls' = [c \in Calls |-> Idle] /\ queue' = [s \in Sessions |-> <<>>]
      /\ UNCHANGED <<files, ops>>
  BY DEF Crash
<1>2. Shapes'
  <2>1. queue' \in [Sessions -> Seq(Calls)] /\ DOMAIN calls' = Calls
    BY <1>1
  <2>2. \A c \in Calls : Fields \subseteq DOMAIN calls'[c]
    BY <1>1 DEF Idle, Fields
  <2>3. QED
    BY <1>1, <2>1, <2>2 DEF IInv, Shapes
<1>3. Queued' /\ Ordered'
  BY <1>1 DEF Queued, Ordered
<1>4. Waiting'
  BY <1>1 DEF Waiting, Idle, InQueue
<1>5. QED
  BY <1>2, <1>3, <1>4 DEF IInv

LEMMA NextIInv == IInv /\ [Next]_vars => IInv'
<1> SUFFICES ASSUME IInv, [Next]_vars PROVE IInv'
  OBVIOUS
<1>1. CASE UNCHANGED vars
  BY <1>1 DEF vars, IInv, Shapes, Queued, Ordered, Waiting
<1>2. QED
  BY <1>1, StartStep, WriteStep, ReadStep, CrashStep DEF Next

(***************************************************************************)
(* The file of a session never goes back to an older save, for any number  *)
(* of sessions, calls, failures and crashes: what waits for a session was  *)
(* asked for after what is in its file (enqueueWrite).                     *)
(***************************************************************************)
THEOREM NeverOlderFiles == Spec => NeverOlder
<1> DEFINE Step == \A s \in Sessions :
                       files'[s] # Missing /\ Exists(s) => files'[s].n >= files[s].n
<1>1. IInv /\ [Next]_vars => [Step]_vars
  <2> SUFFICES ASSUME IInv, Next, NEW s \in Sessions, files'[s] # Missing
               PROVE  files'[s].n >= files[s].n
    BY DEF Step
  <2>1. files[s].n \in Nat /\ DOMAIN files = Paths /\ s \in Paths
    BY DEF IInv, Shapes, Paths
  <2>2. CASE files'[s] = files[s]
    BY <2>1, <2>2
  <2>3. ASSUME NEW c \in Calls, Rename(c), files'[s] # files[s] PROVE files'[s].n >= files[s].n
    <3>1. calls[c].pc = "rename" /\ calls[c].path = s /\ files'[s] = calls[c].value
      BY <2>1, <2>3 DEF Rename
    <3>2. calls[c].value.n = calls[c].n /\ queue[s][1] = c
          /\ \E i \in 1..Len(queue[s]) : queue[s][i] = c
      BY <3>1, FilesAssumption DEF IInv, Waiting, InQueue
    <3>3. calls[c].n \in Nat /\ files[s].n < calls[c].n
      BY <3>2 DEF IInv, Queued
    <3>4. QED
      BY <2>1, <3>1, <3>2, <3>3
  <2>4. ASSUME NEW p, files' = [files EXCEPT ![p] = Missing] PROVE files'[s] = files[s]
    BY <2>1, <2>4
  <2>5. CASE Crash
    BY <2>2, <2>5 DEF Crash
  <2>6. ASSUME NEW c \in Calls, Start(c) PROVE files' = files
    BY <2>6 DEF Start, QueueSession, SetRaster, Lookup, ListSessions
  <2>7. ASSUME NEW c \in Calls, Write(c), ~Rename(c)
        PROVE  files' = files \/ \E p : files' = [files EXCEPT ![p] = Missing]
    BY <2>7 DEF Write, WriteTemp, WriteFails, DeleteSession
  <2>8. ASSUME NEW c \in Calls, Read(c)
        PROVE  files' = files \/ \E p : files' = [files EXCEPT ![p] = Missing]
    BY <2>8 DEF Read, StatFile, ReadFile, Found, Discard, ReadFails, ListOne, ListDone
  <2>9. ASSUME NEW c \in Calls, Prune(c)
        PROVE  files' = files \/ \E p : files' = [files EXCEPT ![p] = Missing]
    BY <2>9 DEF Prune, ReadDir, Measure, PruneOne, PruneDone
  <2>10. QED
    BY <2>2, <2>3, <2>4, <2>5, <2>6, <2>7, <2>8, <2>9 DEF Next
<1>2. NeverOlder <=> [][Step]_vars
  BY DEF NeverOlder
<1> HIDE DEF Step
<1>3. QED
  BY <1>1, <1>2, InitIInv, NextIInv, PTL DEF Spec

(***************************************************************************)
(* What a set of entries weighs.  Weight is a fold: that it has a value,   *)
(* and that this is a sum, is shown by induction on the size of the set.   *)
(***************************************************************************)
IsSum(g, S) ==
    g = [s \in SUBSET S |-> IF s = {} THEN 0
                            ELSE LET x == CHOOSE x \in s : TRUE IN x.size + g[s \ {x}]]

LEMMA WeightDef == ASSUME NEW S PROVE Weight(S) = (CHOOSE g : IsSum(g, S))[S]
BY DEF Weight, MapThenSumSet, MapThenFoldSet, IsSum

Sized(S) == IsFiniteSet(S) /\ \A e \in S : e.size \in Nat

Chosen(s) == CHOOSE x \in s : TRUE

LEMMA Smaller ==
    ASSUME NEW s, IsFiniteSet(s), NEW x \in s
    PROVE  /\ IsFiniteSet(s \ {x})
           /\ Cardinality(s) \in Nat /\ Cardinality(s \ {x}) = Cardinality(s) - 1
           /\ Cardinality(s \ {x}) \in Nat
BY FS_RemoveElement, FS_CardinalityType

LEMMA SumExists == ASSUME NEW S, Sized(S) PROVE \E g \in [SUBSET S -> Nat] : IsSum(g, S)
<1> DEFINE Adds(g, s) == g[s] = IF s = {} THEN 0 ELSE Chosen(s).size + g[s \ {Chosen(s)}]
           UpTo(g, n) == \A s \in SUBSET S : Cardinality(s) <= n => Adds(g, s)
           Bad == {n \in Nat : ~\E g \in [SUBSET S -> Nat] : UpTo(g, n)}
<1>1. \A s \in SUBSET S : IsFiniteSet(s) /\ Cardinality(s) \in Nat
  BY FS_Subset, FS_CardinalityType DEF Sized
<1>2. \A s \in SUBSET S : s # {} =>
          /\ Chosen(s) \in s /\ Chosen(s).size \in Nat /\ s \ {Chosen(s)} \in SUBSET S
          /\ Cardinality(s \ {Chosen(s)}) = Cardinality(s) - 1
  <2> TAKE s \in SUBSET S
  <2> HAVE s # {}
  <2>1. Chosen(s) \in s
    BY DEF Chosen
  <2>2. QED
    BY <1>1, <2>1, Smaller DEF Sized
<1>3. Bad = {}
  <2> SUFFICES ASSUME Bad # {} PROVE FALSE
    OBVIOUS
  <2>1. Bad \in SUBSET Nat
    OBVIOUS
  <2> HIDE DEF Bad
  <2>2. PICK m \in Bad : \A k \in Bad : m <= k
    BY <2>1, LeastElement
  <2>3. m # 0
    <3> DEFINE g == [s \in SUBSET S |-> 0]
    <3>1. UpTo(g, 0)
      <4>1. ASSUME NEW s \in SUBSET S, Cardinality(s) <= 0 PROVE Adds(g, s)
        <5>1. s = {}
          BY <1>1, <4>1, FS_EmptySet
        <5>2. QED
          BY <5>1
      <4>2. QED
        BY <4>1
    <3>2. g \in [SUBSET S -> Nat]
      OBVIOUS
    <3> HIDE DEF g, UpTo
    <3>3. QED
      BY <3>1, <3>2 DEF Bad
  <2>4. m - 1 \in Nat /\ m - 1 \notin Bad
    BY <2>1, <2>2, <2>3
  <2>5. PICK g \in [SUBSET S -> Nat] : UpTo(g, m - 1)
    BY <2>4 DEF Bad
  <2> DEFINE h == [s \in SUBSET S |-> IF Cardinality(s) <= m - 1 THEN g[s]
                                     ELSE Chosen(s).size + g[s \ {Chosen(s)}]]
  <2>6. h \in [SUBSET S -> Nat]
    <3>1. ASSUME NEW s \in SUBSET S, ~(Cardinality(s) <= m - 1)
          PROVE  Chosen(s).size + g[s \ {Chosen(s)}] \in Nat
      <4>1. s # {}
        BY <2>4, <3>1, FS_EmptySet
      <4>2. Chosen(s).size \in Nat /\ s \ {Chosen(s)} \in SUBSET S
        BY <1>2, <4>1
      <4>3. g[s \ {Chosen(s)}] \in Nat
        BY <4>2
      <4>4. QED
        BY <4>2, <4>3
    <3>2. QED
      BY <3>1
  <2>7. UpTo(h, m)
    <3>1. SUFFICES ASSUME NEW s \in SUBSET S, Cardinality(s) <= m PROVE Adds(h, s)
      OBVIOUS
    <3>2. CASE s = {}
      <4>1. Cardinality(s) <= m - 1 /\ h[s] = g[s] /\ Adds(g, s)
        BY <2>4, <2>5, <3>2, FS_EmptySet
      <4>2. QED
        BY <3>2, <4>1
    <3>3. CASE s # {}
      <4> DEFINE r == s \ {Chosen(s)}
      <4>1. r \in SUBSET S /\ Cardinality(r) <= m - 1
        BY <1>1, <1>2, <2>1, <2>4, <3>1, <3>3
      <4>2. h[r] = g[r]
        BY <4>1
      <4>3. CASE Cardinality(s) <= m - 1
        BY <2>5, <3>3, <4>2, <4>3
      <4>4. CASE ~(Cardinality(s) <= m - 1)
        BY <3>3, <4>2, <4>4
      <4>5. QED
        BY <4>3, <4>4
    <3>4. QED
      BY <3>2, <3>3
  <2> HIDE DEF h, UpTo
  <2>8. QED
    BY <2>1, <2>2, <2>6, <2>7 DEF Bad
<1>4. PICK g \in [SUBSET S -> Nat] : UpTo(g, Cardinality(S))
  <2>1. Cardinality(S) \in Nat
    BY <1>1
  <2>2. QED
    BY <1>3, <2>1
<1>5. ASSUME NEW s \in SUBSET S PROVE Adds(g, s)
  <2>1. Cardinality(s) <= Cardinality(S)
    BY FS_Subset DEF Sized
  <2>2. QED
    BY <1>4, <2>1
<1>6. QED
  BY <1>5 DEF IsSum, Chosen

LEMMA SumsAgree ==
    ASSUME NEW S, NEW T \in SUBSET S, Sized(S), NEW g, NEW h, IsSum(g, S), IsSum(h, T)
    PROVE  \A s \in SUBSET T : g[s] = h[s]
<1> DEFINE Bad == {n \in Nat : \E s \in SUBSET T : Cardinality(s) = n /\ g[s] # h[s]}
<1>1. ASSUME NEW s \in SUBSET T
      PROVE  IsFiniteSet(s) /\ Cardinality(s) \in Nat
  BY FS_Subset, FS_CardinalityType DEF Sized
<1>2. Bad = {}
  <2> SUFFICES ASSUME Bad # {} PROVE FALSE
    OBVIOUS
  <2>1. PICK m \in Bad : \A k \in Bad : m <= k
    <3>1. Bad \in SUBSET Nat
      OBVIOUS
    <3> HIDE DEF Bad
    <3>2. QED
      BY <3>1, LeastElement
  <2>2. PICK s \in SUBSET T : Cardinality(s) = m /\ g[s] # h[s]
    OBVIOUS
  <2>3. s # {} /\ Chosen(s) \in s
    BY <2>2 DEF IsSum, Chosen
  <2> DEFINE r == s \ {Chosen(s)}
  <2>4. r \in SUBSET T /\ Cardinality(r) \in Nat /\ Cardinality(r) < m
    BY <1>1, <2>2, <2>3, Smaller
  <2>5. g[r] = h[r]
    BY <2>1, <2>4
  <2>6. g[s] = Chosen(s).size + g[r] /\ h[s] = Chosen(s).size + h[r]
    BY <2>3 DEF IsSum, Chosen
  <2>7. QED
    BY <2>2, <2>5, <2>6
<1>3. QED
  BY <1>1, <1>2

LEMMA WeightSum ==
    ASSUME NEW S, Sized(S), NEW T \in SUBSET S, NEW g, IsSum(g, S)
    PROVE  Weight(T) = g[T]
<1>1. Sized(T)
  BY FS_Subset DEF Sized
<1> DEFINE h == CHOOSE k : IsSum(k, T)
<1>2. IsSum(h, T)
  BY <1>1, SumExists
<1>3. Weight(T) = h[T]
  BY WeightDef
<1> HIDE DEF h
<1>4. g[T] = h[T]
  BY <1>2, SumsAgree
<1>5. QED
  BY <1>3, <1>4

\* The weight of any entry can be set aside.
LEMMA WeightOf ==
    /\ Weight({}) = 0
    /\ \A S : Sized(S) => Weight(S) \in Nat
    /\ \A S : Sized(S) => \A y \in S : Weight(S) = y.size + Weight(S \ {y})
<1>1. Weight({}) = 0
  <2>1. Sized({})
    BY FS_EmptySet DEF Sized
  <2>2. PICK g : IsSum(g, {})
    BY <2>1, SumExists
  <2>3. g[{}] = 0 /\ {} \in SUBSET {}
    BY <2>2 DEF IsSum
  <2>4. QED
    BY <2>1, <2>2, <2>3, WeightSum
<1>2. ASSUME NEW S, Sized(S) PROVE Weight(S) \in Nat
  <2>1. PICK g \in [SUBSET S -> Nat] : IsSum(g, S)
    BY <1>2, SumExists
  <2>2. QED
    BY <1>2, <2>1, WeightSum
<1>3. ASSUME NEW S, Sized(S), S # {}
      PROVE  Chosen(S) \in S /\ Weight(S) = Chosen(S).size + Weight(S \ {Chosen(S)})
  <2>1. PICK g : IsSum(g, S)
    BY <1>3, SumExists
  <2>2. Chosen(S) \in S
    BY <1>3 DEF Chosen
  <2>3. Weight(S) = g[S] /\ Weight(S \ {Chosen(S)}) = g[S \ {Chosen(S)}]
    BY <1>3, <2>1, WeightSum
  <2>4. QED
    BY <1>3, <2>1, <2>2, <2>3 DEF IsSum, Chosen
<1> DEFINE Bad == {n \in Nat : \E S : /\ Sized(S) /\ Cardinality(S) = n
                                      /\ \E y \in S : Weight(S) # y.size + Weight(S \ {y})}
<1>4. Bad = {}
  <2> SUFFICES ASSUME Bad # {} PROVE FALSE
    OBVIOUS
  <2>1. PICK m \in Bad : \A k \in Bad : m <= k
    <3>1. Bad \in SUBSET Nat
      OBVIOUS
    <3> HIDE DEF Bad
    <3>2. QED
      BY <3>1, LeastElement
  <2>2. PICK S : /\ Sized(S) /\ Cardinality(S) = m
                 /\ \E y \in S : Weight(S) # y.size + Weight(S \ {y})
    OBVIOUS
  <2>3. PICK y \in S : Weight(S) # y.size + Weight(S \ {y})
    BY <2>2
  <2> DEFINE x == Chosen(S)
  <2>4. x \in S /\ x # y /\ Weight(S) = x.size + Weight(S \ {x})
    BY <1>3, <2>2, <2>3
  <2> HIDE DEF x
  <2>5. ASSUME NEW z \in S
        PROVE  Sized(S \ {z}) /\ Cardinality(S \ {z}) \in Nat /\ ~(m <= Cardinality(S \ {z}))
    <3>1. IsFiniteSet(S) /\ Cardinality(S) = m /\ \A e \in S : e.size \in Nat
      BY <2>2 DEF Sized
    <3>2. /\ IsFiniteSet(S \ {z}) /\ Cardinality(S) \in Nat
          /\ Cardinality(S \ {z}) = Cardinality(S) - 1 /\ Cardinality(S \ {z}) \in Nat
      BY <3>1, Smaller
    <3>3. QED
      BY <3>1, <3>2 DEF Sized
  <2>10. ASSUME NEW z \in S, NEW t \in S \ {z}
        PROVE  Weight(S \ {z}) = t.size + Weight((S \ {z}) \ {t})
    <3>1. Cardinality(S \ {z}) \notin Bad
      <4> HIDE DEF Bad
      <4>1. QED
        BY <2>1, <2>5
    <3>2. QED
      BY <2>5, <3>1
  <2>6. Weight(S \ {x}) = y.size + Weight((S \ {x}) \ {y})
    BY <2>4, <2>10
  <2>7. Weight(S \ {y}) = x.size + Weight((S \ {y}) \ {x})
    BY <2>4, <2>10
  <2>8. (S \ {x}) \ {y} = (S \ {y}) \ {x} /\ Sized((S \ {x}) \ {y})
    BY <2>2, FS_Subset DEF Sized
  <2>9. Weight((S \ {x}) \ {y}) \in Nat /\ x.size \in Nat /\ y.size \in Nat
    BY <1>2, <2>2, <2>4, <2>8 DEF Sized
  <2> HIDE DEF Bad
  <2> DEFINE w == Weight((S \ {x}) \ {y})
  <2>11. Weight(S) = x.size + (y.size + w) /\ Weight(S \ {y}) = x.size + w
    BY <2>4, <2>6, <2>7, <2>8
  <2>12. w \in Nat
    BY <2>9
  <2> HIDE DEF w
  <2>13. QED
    BY <2>3, <2>9, <2>11, <2>12
<1>5. ASSUME NEW S, Sized(S), NEW y \in S PROVE Weight(S) = y.size + Weight(S \ {y})
  <2>1. Cardinality(S) \in Nat
    BY <1>5, FS_CardinalityType DEF Sized
  <2>2. QED
    BY <1>4, <1>5, <2>1
<1>6. QED
  BY <1>1, <1>2, <1>5

\* What covers files, each with an entry of its size, weighs and counts at least as much.
LEMMA CoverBounds ==
    ASSUME NEW A, NEW B, Sized(A), Sized(B),
           \A a, b \in A : a.path = b.path => a = b,
           \A a \in A : \E b \in B : b.path = a.path /\ b.size = a.size
    PROVE  Weight(A) <= Weight(B) /\ Cardinality(A) <= Cardinality(B)
<1> DEFINE Covers(C, D) ==
             /\ Sized(C) /\ Sized(D)
             /\ \A a, b \in C : a.path = b.path => a = b
             /\ \A a \in C : \E b \in D : b.path = a.path /\ b.size = a.size
           Below(C, D) == Weight(C) <= Weight(D) /\ Cardinality(C) <= Cardinality(D)
           Bad == {n \in Nat : \E C, D : Covers(C, D) /\ Cardinality(C) = n /\ ~Below(C, D)}
<1>1. Bad = {}
  <2> SUFFICES ASSUME Bad # {} PROVE FALSE
    OBVIOUS
  <2>1. PICK m \in Bad : \A k \in Bad : m <= k
    <3>1. Bad \in SUBSET Nat
      OBVIOUS
    <3> HIDE DEF Bad
    <3>2. QED
      BY <3>1, LeastElement
  <2>2. PICK C, D : Covers(C, D) /\ Cardinality(C) = m /\ ~Below(C, D)
    OBVIOUS
  <2>3. Cardinality(C) \in Nat /\ Cardinality(D) \in Nat
    BY <2>2, FS_CardinalityType DEF Sized
  <2>4. C # {}
    <3>1. SUFFICES ASSUME C = {} PROVE Below(C, D)
      BY <2>2
    <3>2. Weight(C) = 0 /\ Cardinality(C) = 0 /\ Weight(D) \in Nat
      BY <2>2, <3>1, WeightOf, FS_EmptySet
    <3>3. QED
      BY <2>3, <3>2
  <2>5. PICK a \in C : TRUE
    BY <2>4
  <2>6. PICK b \in D : b.path = a.path /\ b.size = a.size
    BY <2>2
  <2> DEFINE E == C \ {a}
             F == D \ {b}
  <2>7. /\ Sized(E) /\ Sized(F)
        /\ Cardinality(E) = m - 1 /\ Cardinality(F) = Cardinality(D) - 1
        /\ m - 1 \in Nat /\ Cardinality(F) \in Nat
    <3>1. IsFiniteSet(C) /\ IsFiniteSet(D) /\ Cardinality(C) = m
      BY <2>2 DEF Sized
    <3>2. /\ IsFiniteSet(E) /\ Cardinality(E) = m - 1 /\ Cardinality(E) \in Nat
          /\ IsFiniteSet(F) /\ Cardinality(F) = Cardinality(D) - 1 /\ Cardinality(F) \in Nat
      BY <2>5, <2>6, <3>1, Smaller
    <3>3. QED
      BY <2>2, <3>2 DEF Sized
  <2>8. Covers(E, F)
    <3>1. ASSUME NEW e \in E PROVE \E f \in F : f.path = e.path /\ f.size = e.size
      <4>1. PICK f \in D : f.path = e.path /\ f.size = e.size
        BY <2>2
      <4>2. f # b
        BY <2>2, <2>6, <4>1
      <4>3. QED
        BY <4>1, <4>2
    <3>2. QED
      BY <2>2, <2>7, <3>1
  <2>9. Below(E, F)
    <3> HIDE DEF E, F, Covers, Below
    <3>1. ~(m <= m - 1)
      BY <2>7
    <3>2. m - 1 \notin Bad
      BY <2>1, <3>1
    <3>3. QED
      BY <2>7, <2>8, <3>2
  <2>10. /\ Weight(C) = a.size + Weight(E) /\ Weight(D) = b.size + Weight(F)
         /\ a.size \in Nat /\ Weight(E) \in Nat /\ Weight(F) \in Nat
    <3>1. Sized(C) /\ Sized(D) /\ a.size \in Nat
      BY <2>2 DEF Sized
    <3> HIDE DEF E, F
    <3>2. Weight(E) \in Nat /\ Weight(F) \in Nat
      BY <2>7, WeightOf
    <3>3. Weight(C) = a.size + Weight(E) /\ Weight(D) = b.size + Weight(F)
      BY <3>1, WeightOf DEF E, F
    <3>4. QED
      BY <3>1, <3>2, <3>3
  <2>11. Below(C, D)
    <3> HIDE DEF E, F, Covers
    <3>1. QED
      BY <2>2, <2>3, <2>6, <2>7, <2>9, <2>10
  <2>12. QED
    BY <2>2, <2>11
<1>2. Covers(A, B) /\ Cardinality(A) \in Nat
  BY FS_CardinalityType DEF Sized
<1> HIDE DEF Covers
<1>3. QED
  BY <1>1, <1>2

(***************************************************************************)
(* The directory of rasters.  Of the prunes under way the last one that    *)
(* read the directory has, or will measure, every raster that is there,    *)
(* and what is written later is read by a prune of its own.                *)
(***************************************************************************)
PruneStages == {"readdir", "measure"}
Begun == {"waiting", "rename"}

Entries ==
    /\ \A f \in Formulas : files[f].size \in Nat
    /\ \A c \in Calls :
        /\ calls[c].pc \in Begun => calls[c].seen = {} /\ calls[c].size \in Nat
        /\ calls[c].pc = "rename" => calls[c].value.size \in Nat
        /\ calls[c].pc \in PruneStages => Sized(calls[c].seen)
        /\ calls[c].pc = "measure" => calls[c].todo \subseteq Formulas

\* A prune that knows, or will measure, every raster that is there.
Scanned(c) ==
    /\ calls[c].pc = "measure"
    /\ \A f \in Formulas : Exists(f) =>
        \/ f \in calls[c].todo
        \/ \E e \in calls[c].seen : e.path = f /\ e.size = files[f].size

Watched ==
    \/ \E c \in Calls : calls[c].pc = "readdir"
    \/ \E c \in Calls : Scanned(c)
    \/ WithinLimits
    \/ lapse.open /\ lapse.whole = {}

DirectoryInv == Entries /\ Watched

LEMMA ImageFinite ==
    ASSUME NEW S, IsFiniteSet(S), NEW g, DOMAIN g = S
    PROVE  IsFiniteSet({g[x] : x \in S})
<1> DEFINE T == {g[x] : x \in S}
           h == [x \in S |-> g[x]]
<1>1. h \in Surjection(S, T)
  BY DEF Surjection
<1>2. QED
  BY <1>1, FS_Surjection

LEMMA HeldSized ==
    ASSUME \A f \in Formulas : files[f].size \in Nat
    PROVE  Sized(Held) /\ \A a, b \in Held : a.path = b.path => a = b
<1> DEFINE S == {f \in Formulas : Exists(f)}
           g == [f \in S |-> [path |-> f, size |-> files[f].size]]
<1>1. Held = {g[f] : f \in S}
  BY DEF Held
<1>2. IsFiniteSet(S)
  BY FilesAssumption, FS_Subset
<1>3. IsFiniteSet(Held)
  <2> HIDE DEF S
  <2>1. DOMAIN g = S
    OBVIOUS
  <2> HIDE DEF g
  <2>2. QED
    BY <1>1, <1>2, <2>1, ImageFinite
<1>4. \A e \in Held : e.size \in Nat
  BY DEF Held
<1>5. \A a, b \in Held : a.path = b.path => a = b
  BY DEF Held
<1>6. QED
  BY <1>3, <1>4, <1>5 DEF Sized

\* Removing files keeps a directory within its limits.
LEMMA FewerFiles ==
    ASSUME \A f \in Formulas : files[f].size \in Nat,
           \A f \in Formulas : files'[f] = files[f] \/ files'[f] = Missing
    PROVE  /\ \A f \in Formulas : files'[f].size \in Nat
           /\ WithinLimits => WithinLimits'
<1>1. \A f \in Formulas : files'[f].size \in Nat
  BY DEF Missing
<1>2. Sized(Held) /\ \A a, b \in Held : a.path = b.path => a = b
  BY HeldSized
<1>3. Held' \subseteq Held
  BY DEF Held, Exists
<1>4. Sized(Held')
  BY <1>2, <1>3, FS_Subset DEF Sized
<1>5. Weight(Held') <= Weight(Held) /\ Cardinality(Held') <= Cardinality(Held)
  BY <1>2, <1>3, <1>4, CoverBounds
<1>6. Weight(Held') \in Nat /\ Weight(Held) \in Nat
      /\ Cardinality(Held') \in Nat /\ Cardinality(Held) \in Nat
  BY <1>2, <1>4, WeightOf, FS_CardinalityType DEF Sized
<1>7. WithinLimits => WithinLimits'
  <2>1. WithinLimits' <=> Cardinality(Held') <= MaxEntries /\ Weight(Held') <= MaxBytes
    BY DEF WithinLimits
  <2>2. MaxEntries \in Nat /\ MaxBytes \in Nat
    BY FilesAssumption
  <2>3. QED
    BY <1>5, <1>6, <2>1, <2>2 DEF WithinLimits
<1>8. QED
  BY <1>1, <1>7

\* A prune that knows everything ends with the directory within its limits.
LEMMA ScannedEnds ==
    ASSUME Entries, NEW c \in Calls, Scanned(c), calls[c].todo = {}, ~TooMany(calls[c].seen)
    PROVE  WithinLimits
<1> DEFINE seen == calls[c].seen
<1>1. Sized(Held) /\ \A a, b \in Held : a.path = b.path => a = b
  BY HeldSized DEF Entries
<1>2. Sized(seen)
  BY DEF Entries, Scanned, PruneStages
<1>3. \A a \in Held : \E e \in seen : e.path = a.path /\ e.size = a.size
  BY DEF Held, Scanned
<1>4. Weight(Held) <= Weight(seen) /\ Cardinality(Held) <= Cardinality(seen)
  BY <1>1, <1>2, <1>3, CoverBounds
<1>5. Weight(Held) \in Nat /\ Weight(seen) \in Nat
      /\ Cardinality(Held) \in Nat /\ Cardinality(seen) \in Nat
  BY <1>1, <1>2, WeightOf, FS_CardinalityType DEF Sized
<1>6. ~(Cardinality(seen) > MaxEntries) /\ ~(Weight(seen) > MaxBytes)
  BY DEF TooMany
<1>7. MaxEntries \in Nat /\ MaxBytes \in Nat
  BY FilesAssumption
<1> HIDE DEF seen
<1>8. QED
  BY <1>4, <1>5, <1>6, <1>7 DEF WithinLimits

\* A step that neither begins, advances nor ends a prune, and writes no raster.
LEMMA OtherFiles ==
    ASSUME DirectoryInv, UNCHANGED lapse,
           \A f \in Formulas : files'[f] = files[f] \/ files'[f] = Missing,
           \A c \in Calls :
               \/ calls'[c] = calls[c]
               \/ /\ calls[c].pc \notin PruneStages /\ calls'[c].pc \notin PruneStages
                  /\ calls'[c].pc \in Begun => calls'[c].seen = {} /\ calls'[c].size \in Nat
                  /\ calls'[c].pc = "rename" => calls'[c].value.size \in Nat
    PROVE  DirectoryInv'
<1>1. Entries'
  <2>1. \A f \in Formulas : files'[f].size \in Nat
    BY FewerFiles DEF DirectoryInv, Entries
  <2>2. ASSUME NEW c \in Calls
        PROVE  /\ calls'[c].pc \in Begun => calls'[c].seen = {} /\ calls'[c].size \in Nat
               /\ calls'[c].pc = "rename" => calls'[c].value.size \in Nat
               /\ calls'[c].pc \in PruneStages => Sized(calls'[c].seen)
               /\ calls'[c].pc = "measure" => calls'[c].todo \subseteq Formulas
    <3>1. CASE calls'[c] = calls[c]
      BY <3>1 DEF DirectoryInv, Entries
    <3>2. CASE calls'[c] # calls[c]
      BY <3>2 DEF PruneStages
    <3>3. QED
      BY <3>1, <3>2
  <2>3. QED
    BY <2>1, <2>2 DEF Entries
<1>2. WithinLimits => WithinLimits'
  BY FewerFiles DEF DirectoryInv, Entries
<1>3. ASSUME NEW c \in Calls, calls[c].pc \in PruneStages PROVE calls'[c] = calls[c]
  BY <1>3
<1>4. ASSUME NEW c \in Calls, Scanned(c) PROVE Scanned(c)'
  <2>1. calls'[c] = calls[c]
    BY <1>3, <1>4 DEF Scanned, PruneStages
  <2>2. \A f \in Formulas : Exists(f)' => Exists(f) /\ files'[f] = files[f]
    BY DEF Exists
  <2>3. QED
    BY <1>4, <2>1, <2>2 DEF Scanned
<1>6. Watched'
  <2>1. CASE \E c \in Calls : calls[c].pc = "readdir"
    BY <1>3, <2>1 DEF Watched, PruneStages
  <2>2. CASE \E c \in Calls : Scanned(c)
    BY <1>4, <2>2 DEF Watched
  <2>3. CASE WithinLimits
    BY <1>2, <2>3 DEF Watched
  <2>4. CASE lapse.open /\ lapse.whole = {}
    BY <2>4 DEF Watched
  <2>5. QED
    BY <2>1, <2>2, <2>3, <2>4 DEF DirectoryInv, Watched
<1>7. QED
  BY <1>1, <1>6 DEF DirectoryInv

\* The operations that are no prune, and the reads.
LEMMA StartFiles ==
    ASSUME IInv, DirectoryInv, NEW c \in Calls, Start(c)
    PROVE  DirectoryInv'
<1>1. calls[c].pc = "idle" /\ UNCHANGED <<files, lapse>>
  BY DEF Start, QueueSession, SetRaster, Lookup, ListSessions, Begin
<1>2. \E new : calls' = [calls EXCEPT ![c] = new] /\ new.seen = {} /\ new.size \in Nat
               /\ new.pc \in {"waiting", "stat", "each"}
  <2> DEFINE Opened(op, path, pc, size) ==
               [Idle EXCEPT !.op = op, !.path = path, !.pc = pc, !.n = ops + 1, !.size = size]
  <2>1. ASSUME NEW op, NEW path, NEW pc \in {"waiting", "stat"}, NEW size \in Nat,
               Begin(c, op, path, pc, size)
        PROVE  /\ calls' = [calls EXCEPT ![c] = Opened(op, path, pc, size)]
               /\ Opened(op, path, pc, size).seen = {} /\ Opened(op, path, pc, size).size \in Nat
               /\ Opened(op, path, pc, size).pc \in {"waiting", "stat"}
    BY <2>1 DEF Begin, Idle
  <2>2. ASSUME NEW s \in Sessions, NEW op \in {"save", "delete"}, QueueSession(c, s, op)
        PROVE  Begin(c, op, s, "waiting", 1)
    BY <2>2 DEF QueueSession
  <2>3. ASSUME NEW f \in Formulas, NEW size \in Sizes, SetRaster(c, f, size)
        PROVE  Begin(c, "set", f, "waiting", size) /\ size \in Nat
    BY <2>3, FilesAssumption DEF SetRaster
  <2>4. ASSUME NEW p \in Paths, Lookup(c, p) PROVE Begin(c, "get", p, "stat", 0)
    BY <2>4 DEF Lookup
  <2>5. CASE ListSessions(c)
    <3> DEFINE new == [Idle EXCEPT !.op = "list", !.pc = "each", !.n = ops + 1,
                                   !.todo = {s \in Sessions : Exists(s)}]
    <3>1. calls' = [calls EXCEPT ![c] = new]
      BY <2>5 DEF ListSessions
    <3>2. new.seen = {} /\ new.size \in Nat /\ new.pc = "each"
      BY DEF Idle
    <3> HIDE DEF new
    <3>3. QED
      BY <3>1, <3>2
  <2> HIDE DEF Opened
  <2>6. QED
    BY <2>1, <2>2, <2>3, <2>4, <2>5 DEF Start
<1>3. PICK new : calls' = [calls EXCEPT ![c] = new] /\ new.seen = {} /\ new.size \in Nat
                 /\ new.pc \in {"waiting", "stat", "each"}
  BY <1>2
<1>4. calls'[c] = new /\ \A d \in Calls : d # c => calls'[d] = calls[d]
  BY <1>3 DEF IInv, Shapes
<1>5. QED
  BY <1>1, <1>3, <1>4, OtherFiles DEF PruneStages, Begun

LEMMA ReadFiles ==
    ASSUME IInv, DirectoryInv, NEW c \in Calls, Read(c)
    PROVE  DirectoryInv'
<1>1. calls[c].pc \in {"stat", "read", "found", "discard", "each"} /\ UNCHANGED lapse
  BY DEF Read, StatFile, ReadFile, Found, Discard, ReadFails, ListOne, ListDone
<1>2. \A f \in Formulas : files'[f] = files[f] \/ files'[f] = Missing
  <2>1. files' = files \/ \E p : files' = [files EXCEPT ![p] = Missing]
    BY DEF Read, StatFile, ReadFile, Found, Discard, ReadFails, ListOne, ListDone
  <2>2. QED
    BY <2>1 DEF IInv, Shapes, Paths
<1>3. \E new : calls' = [calls EXCEPT ![c] = new] /\ new.pc \notin PruneStages \cup Begun
  <2>1. ASSUME NEW pc \in {"read", "discard"}
        PROVE  [calls[c] EXCEPT !.pc = pc].pc \notin PruneStages \cup Begun
    BY DEF IInv, Shapes, Fields, PruneStages, Begun
  <2>2. Idle.pc \notin PruneStages \cup Begun
    BY DEF Idle, PruneStages, Begun
  <2>3. ASSUME NEW value
        PROVE  [calls[c] EXCEPT !.value = value, !.pc = "found"].pc \notin PruneStages \cup Begun
    BY DEF IInv, Shapes, Fields, PruneStages, Begun
  <2>4. ASSUME NEW todo, NEW seen, calls[c].pc = "each"
        PROVE  [calls[c] EXCEPT !.todo = todo, !.seen = seen].pc \notin PruneStages \cup Begun
    BY <2>4 DEF IInv, Shapes, Fields, PruneStages, Begun
  <2>5. CASE StatFile(c)
    BY <2>1, <2>2, <2>5 DEF StatFile, Goto, Done
  <2>6. CASE ReadFile(c)
    <3>1. calls' \in {[calls EXCEPT ![c].value = files[calls[c].path], ![c].pc = "found"],
                      Goto(c, "discard"), Done(c)}
      BY <2>6 DEF ReadFile
    <3>2. CASE calls' = [calls EXCEPT ![c].value = files[calls[c].path], ![c].pc = "found"]
      <4> DEFINE new == [calls[c] EXCEPT !.value = files[calls[c].path], !.pc = "found"]
      <4>1. calls' = [calls EXCEPT ![c] = new]
        BY <3>2 DEF IInv, Shapes
      <4>2. new.pc \notin PruneStages \cup Begun
        BY <2>3
      <4> HIDE DEF new
      <4>3. QED
        BY <4>1, <4>2
    <3>3. CASE calls' = Goto(c, "discard")
      BY <2>1, <3>3 DEF Goto
    <3>4. CASE calls' = Done(c)
      BY <2>2, <3>4 DEF Done
    <3>5. QED
      BY <3>1, <3>2, <3>3, <3>4
  <2>7. CASE Found(c) \/ Discard(c) \/ ReadFails(c) \/ ListDone(c)
    BY <2>2, <2>7 DEF Found, Discard, ReadFails, ListDone, Done
  <2>8. CASE ListOne(c)
    <3>1. PICK s \in calls[c].todo :
              calls' = [calls EXCEPT ![c].todo = calls[c].todo \ {s},
                                     ![c].seen = IF Readable(s, files[s])
                                                 THEN calls[c].seen \cup {files[s]}
                                                 ELSE calls[c].seen]
      BY <2>8 DEF ListOne
    <3> DEFINE new == [calls[c] EXCEPT !.todo = calls[c].todo \ {s},
                                       !.seen = IF Readable(s, files[s])
                                                THEN calls[c].seen \cup {files[s]}
                                                ELSE calls[c].seen]
    <3>2. calls' = [calls EXCEPT ![c] = new]
      BY <3>1 DEF IInv, Shapes
    <3>3. calls[c].pc = "each"
      BY <2>8 DEF ListOne
    <3>4. new.pc \notin PruneStages \cup Begun
      BY <2>4, <3>3
    <3> HIDE DEF new
    <3>5. QED
      BY <3>2, <3>4
  <2>9. QED
    BY <2>5, <2>6, <2>7, <2>8 DEF Read
<1>4. PICK new : calls' = [calls EXCEPT ![c] = new] /\ new.pc \notin PruneStages \cup Begun
  BY <1>3
<1>5. calls'[c] = new /\ \A d \in Calls : d # c => calls'[d] = calls[d]
  BY <1>4 DEF IInv, Shapes
<1>6. QED
  BY <1>1, <1>2, <1>4, <1>5, OtherFiles DEF PruneStages, Begun

\* A raster that was written is one its own prune will read.
LEMMA WriteFiles ==
    ASSUME IInv, DirectoryInv, NEW c \in Calls, Write(c)
    PROVE  DirectoryInv'
<1>1. calls[c].pc \in Begun /\ UNCHANGED lapse
  BY DEF Write, WriteTemp, Rename, WriteFails, DeleteSession, Begun
<1>2. calls[c].seen = {} /\ calls[c].size \in Nat
      /\ (calls[c].pc = "rename" => calls[c].value.size \in Nat)
  BY <1>1 DEF DirectoryInv, Entries, Begun
<1>3. calls[c].op = "set" => calls[c].path \in Formulas
  BY <1>1 DEF IInv, Waiting, Begun, InQueue
<1>4. calls[c].op # "set" => calls[c].path \in Sessions
  BY <1>1 DEF IInv, Waiting, Begun, InQueue
<1>5. ASSUME NEW new, calls' = [calls EXCEPT ![c] = new], new.pc \notin PruneStages,
             new.pc \in Begun => new.seen = {} /\ new.size \in Nat,
             new.pc = "rename" => new.value.size \in Nat,
             \A f \in Formulas : files'[f] = files[f] \/ files'[f] = Missing
      PROVE  DirectoryInv'
  <2>1. calls'[c] = new /\ \A d \in Calls : d # c => calls'[d] = calls[d]
    BY <1>5 DEF IInv, Shapes
  <2>2. calls[c].pc \notin PruneStages
    BY <1>1 DEF Begun, PruneStages
  <2>3. QED
    BY <1>1, <1>5, <2>1, <2>2, OtherFiles
<1>6. ASSUME calls' = Done(c),
             \A f \in Formulas : files'[f] = files[f] \/ files'[f] = Missing
      PROVE  DirectoryInv'
  <2>1. calls' = [calls EXCEPT ![c] = Idle]
    BY <1>6 DEF Done
  <2>2. Idle.pc \notin PruneStages /\ Idle.pc \notin Begun /\ Idle.pc # "rename"
    BY DEF Idle, PruneStages, Begun
  <2>3. QED
    BY <1>5, <1>6, <2>1, <2>2
<1>7. CASE WriteTemp(c)
  <2> DEFINE new == [calls[c] EXCEPT !.pc = "rename", !.value = Content(c)]
  <2>1. calls' = [calls EXCEPT ![c] = new] /\ UNCHANGED files
    BY <1>7 DEF WriteTemp, IInv, Shapes
  <2>2. new.pc = "rename" /\ new.seen = {} /\ new.size \in Nat /\ new.value = Content(c)
    BY <1>2 DEF IInv, Shapes, Fields
  <2>3. Content(c).size \in Nat
    BY <1>2 DEF Content
  <2> HIDE DEF new
  <2>4. QED
    BY <1>5, <2>1, <2>2, <2>3 DEF PruneStages
<1>8. CASE WriteFails(c)
  BY <1>6, <1>8 DEF WriteFails
<1>9. CASE DeleteSession(c)
  <2>1. \A f \in Formulas : files'[f] = files[f] \/ files'[f] = Missing
    BY <1>9 DEF DeleteSession, IInv, Shapes, Paths
  <2>2. QED
    BY <1>6, <1>9, <2>1 DEF DeleteSession
<1>10. CASE Rename(c) /\ calls' = Done(c) /\ calls[c].op = "save"
  <2>1. \A f \in Formulas : files'[f] = files[f]
    BY <1>4, <1>10, FilesAssumption DEF Rename, IInv, Shapes, Paths
  <2>2. QED
    BY <1>6, <1>10, <2>1
<1>11. CASE Rename(c) /\ calls' = Goto(c, "readdir") /\ calls[c].op = "set"
  <2>1. /\ calls'[c] = [calls[c] EXCEPT !.pc = "readdir"]
        /\ \A d \in Calls : d # c => calls'[d] = calls[d]
    BY <1>11 DEF Goto, IInv, Shapes
  <2>2. calls'[c].pc = "readdir" /\ calls'[c].seen = {} /\ calls'[c].todo = calls[c].todo
    BY <1>2, <2>1 DEF IInv, Shapes, Fields
  <2>3. \A f \in Formulas : files'[f].size \in Nat
    BY <1>2, <1>3, <1>11 DEF Rename, IInv, Shapes, Paths, DirectoryInv, Entries
  <2>4. Sized({})
    BY FS_EmptySet DEF Sized
  <2>5. Entries'
    <3>1. ASSUME NEW d \in Calls
          PROVE  /\ calls'[d].pc \in Begun => calls'[d].seen = {} /\ calls'[d].size \in Nat
                 /\ calls'[d].pc = "rename" => calls'[d].value.size \in Nat
                 /\ calls'[d].pc \in PruneStages => Sized(calls'[d].seen)
                 /\ calls'[d].pc = "measure" => calls'[d].todo \subseteq Formulas
      <4>1. CASE d = c
        BY <2>2, <2>4, <4>1 DEF Begun
      <4>2. CASE d # c
        BY <2>1, <4>2 DEF DirectoryInv, Entries
      <4>3. QED
        BY <4>1, <4>2
    <3>2. QED
      BY <2>3, <3>1 DEF Entries
  <2>6. QED
    BY <2>2, <2>5 DEF DirectoryInv, Watched
<1>12. QED
  BY <1>7, <1>8, <1>9, <1>10, <1>11 DEF Write, Rename

\* What a prune knows of a raster stays true while the file is there.
LEMMA OthersScan ==
    ASSUME NEW c \in Calls, Scanned(c), calls'[c] = calls[c],
           \A f \in Formulas : files'[f] = files[f] \/ files'[f] = Missing
    PROVE  Scanned(c)'
BY DEF Scanned, Exists

\* When a prune misses something the lapse is open until one has read the directory since.
LEMMA MissedFiles ==
    ASSUME lapse' = [open |-> TRUE, whole |-> {}]
    PROVE  Watched'
BY DEF Watched

LEMMA ReadDirFiles ==
    ASSUME IInv, DirectoryInv, NEW c \in Calls, ReadDir(c)
    PROVE  DirectoryInv'
<1> DEFINE new == [calls[c] EXCEPT !.todo = {f \in Formulas : Exists(f)}, !.pc = "measure"]
<1>1. calls[c].pc = "readdir" /\ UNCHANGED files
  BY DEF ReadDir
<1>2. /\ new.pc = "measure" /\ new.seen = calls[c].seen
      /\ new.todo = {f \in Formulas : Exists(f)}
  BY DEF IInv, Shapes, Fields
<1>3. CASE calls' = [calls EXCEPT ![c] = new]
  <2> HIDE DEF new
  <2>1. calls'[c] = new /\ \A d \in Calls : d # c => calls'[d] = calls[d]
    BY <1>3 DEF IInv, Shapes
  <2>2. Entries'
    BY <1>1, <1>2, <2>1 DEF DirectoryInv, Entries, PruneStages, Begun
  <2>3. Scanned(c)'
    BY <1>1, <1>2, <2>1 DEF Scanned, Exists
  <2>4. QED
    BY <2>2, <2>3 DEF DirectoryInv, Watched
<1>4. CASE calls' = [calls EXCEPT ![c] = Idle] /\ lapse' = [open |-> TRUE, whole |-> {}]
  <2>1. calls'[c] = Idle /\ \A d \in Calls : d # c => calls'[d] = calls[d]
    BY <1>4 DEF IInv, Shapes
  <2>2. Entries'
    BY <1>1, <2>1 DEF DirectoryInv, Entries, PruneStages, Begun, Idle
  <2>3. QED
    BY <1>4, <2>2, MissedFiles DEF DirectoryInv
<1>5. \/ calls' = [calls EXCEPT ![c] = new]
      \/ calls' = [calls EXCEPT ![c] = Idle] /\ lapse' = [open |-> TRUE, whole |-> {}]
  BY DEF ReadDir, Through, MissedBy, Done, IInv, Shapes
<1>6. QED
  BY <1>3, <1>4, <1>5

\* The next entry of the directory is one of it.
LEMMA NextEntry ==
    ASSUME NEW S \in SUBSET Formulas, S # {}
    PROVE  (CHOOSE f \in S : \A g \in S : Rank[f] <= Rank[g]) \in S
<1> DEFINE R == {Rank[f] : f \in S}
<1>1. R \in SUBSET Nat /\ R # {}
  BY FilesAssumption
<1>2. PICK m \in R : \A k \in R : m <= k
  <2> HIDE DEF R
  <2>1. QED
    BY <1>1, LeastElement
<1>3. PICK f \in S : m = Rank[f]
  OBVIOUS
<1>4. \A g \in S : Rank[f] <= Rank[g]
  BY <1>2, <1>3
<1>5. QED
  BY <1>4

LEMMA MeasureFiles ==
    ASSUME IInv, DirectoryInv, NEW c \in Calls, Measure(c)
    PROVE  DirectoryInv'
<1> DEFINE todo == calls[c].todo
           f == NextOf(todo)
           entry == [path |-> f, size |-> files[f].size, at |-> files[f].at]
           more == IF Exists(f) THEN calls[c].seen \cup {entry} ELSE calls[c].seen
<1>1. calls[c].pc = "measure" /\ todo # {} /\ UNCHANGED files
  BY DEF Measure
<1>2. PICK seen : /\ calls' = [calls EXCEPT ![c] = [calls[c] EXCEPT !.todo = @ \ {f}, !.seen = seen]]
                  /\ \/ seen = calls[c].seen /\ lapse' = [open |-> TRUE, whole |-> {}]
                     \/ UNCHANGED lapse /\ seen = more
  BY MeasureCalls
<1> DEFINE new == [calls[c] EXCEPT !.todo = @ \ {f}, !.seen = seen]
<1>3. todo \subseteq Formulas
  BY <1>1 DEF DirectoryInv, Entries
<1>4. f \in todo /\ f \in Formulas
  BY <1>1, <1>3, NextEntry DEF NextOf
<1> HIDE DEF f
<1>5. new.pc = "measure" /\ new.todo = todo \ {f} /\ new.seen = seen
  BY <1>1 DEF IInv, Shapes, Fields
<1>6. Sized(seen)
  <2>1. Sized(calls[c].seen)
    BY <1>1 DEF DirectoryInv, Entries, PruneStages
  <2>2. files[f].size \in Nat
    BY <1>4 DEF DirectoryInv, Entries
  <2>3. IsFiniteSet(calls[c].seen \cup {entry})
    BY <2>1, FS_AddElement DEF Sized
  <2>4. \A e \in calls[c].seen \cup {entry} : e.size \in Nat
    BY <2>1, <2>2 DEF Sized
  <2>5. seen \in {calls[c].seen, calls[c].seen \cup {entry}}
    BY <1>2
  <2> HIDE DEF entry
  <2>6. QED
    BY <2>1, <2>3, <2>4, <2>5 DEF Sized
<1>7. ASSUME seen = more, NEW g \in Formulas, Exists(g),
             g \in todo \/ \E e \in calls[c].seen : e.path = g /\ e.size = files[g].size
      PROVE  g \in new.todo \/ \E e \in new.seen : e.path = g /\ e.size = files[g].size
  <2>1. CASE g = f
    <3>1. entry \in new.seen /\ entry.path = g /\ entry.size = files[g].size
      BY <1>5, <1>7, <2>1
    <3> HIDE DEF entry, new
    <3>2. QED
      BY <3>1
  <2>2. CASE g # f
    BY <1>5, <1>7, <2>2
  <2>3. QED
    BY <2>1, <2>2
<1>8. calls'[c] = new /\ \A d \in Calls : d # c => calls'[d] = calls[d]
  BY <1>2 DEF IInv, Shapes
<1> HIDE DEF new, more, entry
<1>9. Entries'
  BY <1>1, <1>3, <1>5, <1>6, <1>8 DEF DirectoryInv, Entries, PruneStages, Begun
<1>10. seen = more /\ Scanned(c) => Scanned(c)'
  BY <1>1, <1>5, <1>7, <1>8 DEF Scanned, Exists
<1>11. \A d \in Calls : d # c /\ Scanned(d) => Scanned(d)'
  BY <1>1, <1>8, OthersScan
<1>12. ASSUME UNCHANGED lapse, seen = more PROVE Watched'
  <2>1. CASE \E d \in Calls : calls[d].pc = "readdir"
    BY <1>1, <1>8, <2>1 DEF Watched
  <2>2. CASE \E d \in Calls : Scanned(d)
    BY <1>10, <1>11, <1>12, <2>2 DEF Watched
  <2>3. CASE WithinLimits
    BY <1>1, <2>3 DEF Watched, WithinLimits, Held, Exists
  <2>4. CASE lapse.open /\ lapse.whole = {}
    BY <1>12, <2>4 DEF Watched
  <2>5. QED
    BY <2>1, <2>2, <2>3, <2>4 DEF DirectoryInv, Watched
<1>13. QED
  BY <1>2, <1>9, <1>12, MissedFiles DEF DirectoryInv

LEMMA PruneOneFiles ==
    ASSUME IInv, DirectoryInv, NEW c \in Calls, PruneOne(c)
    PROVE  DirectoryInv'
<1>1. PICK oldest :
          /\ \/ files' = [files EXCEPT ![oldest.path] = Missing] /\ UNCHANGED lapse
             \/ UNCHANGED files /\ lapse' = [open |-> TRUE, whole |-> {}]
          /\ calls' = [calls EXCEPT ![c] = [calls[c] EXCEPT !.seen = calls[c].seen \ {oldest}]]
  BY DEF PruneOne, Through, MissedBy
<1> DEFINE new == [calls[c] EXCEPT !.seen = calls[c].seen \ {oldest}]
<1>2. calls[c].pc = "measure"
  BY DEF PruneOne
<1>3. new.pc = "measure" /\ new.todo = calls[c].todo /\ new.seen = calls[c].seen \ {oldest}
  BY <1>2 DEF IInv, Shapes, Fields
<1>4. calls'[c] = new /\ \A d \in Calls : d # c => calls'[d] = calls[d]
  BY <1>1 DEF IInv, Shapes
<1> HIDE DEF new
<1>5. \A f \in Formulas :
          /\ files'[f] = files[f] \/ files'[f] = Missing
          /\ UNCHANGED lapse /\ lapse' # [open |-> TRUE, whole |-> {}] /\ files'[f] # Missing
               => files'[f] = files[f] /\ f # oldest.path
  BY <1>1 DEF IInv, Shapes, Paths
<1>6. Sized(new.seen)
  <2>1. Sized(calls[c].seen)
    BY <1>2 DEF DirectoryInv, Entries, PruneStages
  <2>2. QED
    BY <1>3, <2>1, FS_RemoveElement DEF Sized
<1>7. (\A f \in Formulas : files'[f].size \in Nat) /\ (WithinLimits => WithinLimits')
  BY <1>5, FewerFiles DEF DirectoryInv, Entries
<1>8. Entries'
  BY <1>2, <1>3, <1>4, <1>6, <1>7 DEF DirectoryInv, Entries, PruneStages, Begun
<1>9. Scanned(c) /\ lapse' # [open |-> TRUE, whole |-> {}] => Scanned(c)'
  <2>1. SUFFICES ASSUME Scanned(c), lapse' # [open |-> TRUE, whole |-> {}], NEW f \in Formulas, files'[f] # Missing, f \notin calls'[c].todo
                 PROVE  \E e \in calls'[c].seen : e.path = f /\ e.size = files'[f].size
    BY <1>3, <1>4 DEF Scanned, Exists
  <2>2. Exists(f) /\ files'[f] = files[f] /\ f # oldest.path /\ f \notin calls[c].todo
    BY <1>1, <1>3, <1>4, <1>5, <2>1 DEF Exists
  <2>3. PICK e \in calls[c].seen : e.path = f /\ e.size = files[f].size
    BY <2>1, <2>2 DEF Scanned
  <2>4. e # oldest
    BY <2>2, <2>3
  <2>5. QED
    BY <1>3, <1>4, <2>2, <2>3, <2>4
<1>10. \A d \in Calls : d # c /\ Scanned(d) => Scanned(d)'
  BY <1>4, <1>5, OthersScan
<1>11. ASSUME lapse' # [open |-> TRUE, whole |-> {}] PROVE Watched'
  <2>1. CASE \E d \in Calls : calls[d].pc = "readdir"
    BY <1>2, <1>4, <2>1 DEF Watched
  <2>2. CASE \E d \in Calls : Scanned(d)
    BY <1>9, <1>10, <1>11, <2>2 DEF Watched
  <2>3. CASE lapse.open /\ lapse.whole = {}
    BY <1>1, <1>11, <2>3 DEF Watched
  <2>4. QED
    BY <1>7, <2>1, <2>2, <2>3 DEF DirectoryInv, Watched
<1>12. QED
  BY <1>8, <1>11, MissedFiles DEF DirectoryInv

LEMMA PruneDoneFiles ==
    ASSUME IInv, DirectoryInv, NEW c \in Calls, PruneDone(c)
    PROVE  DirectoryInv'
<1>1. /\ calls[c].pc = "measure" /\ calls[c].todo = {} /\ ~TooMany(calls[c].seen)
      /\ calls' = [calls EXCEPT ![c] = Idle] /\ UNCHANGED files
  BY DEF PruneDone, Done
<1>2. calls'[c] = Idle /\ \A d \in Calls : d # c => calls'[d] = calls[d]
  BY <1>1 DEF IInv, Shapes
<1>3. Entries'
  BY <1>1, <1>2 DEF DirectoryInv, Entries, PruneStages, Begun, Idle
<1>4. WithinLimits => WithinLimits'
  BY <1>1 DEF WithinLimits, Held, Exists
<1>5. Watched'
  <2>1. CASE \E d \in Calls : calls[d].pc = "readdir"
    BY <1>1, <1>2, <2>1 DEF Watched
  <2>2. CASE Scanned(c)
    BY <1>1, <1>4, <2>2, ScannedEnds DEF Watched, DirectoryInv
  <2>3. CASE \E d \in Calls : d # c /\ Scanned(d)
    BY <1>1, <1>2, <2>3, OthersScan DEF Watched
  <2>4. CASE lapse.open /\ lapse.whole = {}
    <3>1. lapse'.open /\ lapse'.whole = {}
      BY <2>4 DEF PruneDone
    <3>2. QED
      BY <3>1 DEF Watched
  <2>5. QED
    BY <1>4, <2>1, <2>2, <2>3, <2>4 DEF DirectoryInv, Watched
<1>6. QED
  BY <1>3, <1>5 DEF DirectoryInv

LEMMA CrashFiles ==
    ASSUME DirectoryInv, Crash
    PROVE  DirectoryInv'
<1>1. /\ calls' = [c \in Calls |-> Idle] /\ UNCHANGED files
      /\ lapse' = [open |-> lapse.open \/ Pruning # {}, whole |-> {}]
  BY DEF Crash
<1>2. Entries'
  BY <1>1 DEF DirectoryInv, Entries, PruneStages, Begun, Idle
<1>3. (\E c \in Calls : calls[c].pc = "readdir") \/ (\E c \in Calls : Scanned(c))
        => Pruning # {}
  BY DEF Pruning, Scanned
<1>4. WithinLimits => WithinLimits'
  BY <1>1 DEF WithinLimits, Held, Exists
<1>5. Watched'
  BY <1>1, <1>3, <1>4 DEF DirectoryInv, Watched, Scanned
<1>6. QED
  BY <1>2, <1>5 DEF DirectoryInv

LEMMA InitFiles == Init => DirectoryInv
<1> SUFFICES ASSUME Init PROVE DirectoryInv
  OBVIOUS
<1>1. \A f \in Formulas : files[f].size \in Nat
  BY DEF Init, Garbage, CopyOf, Missing, Paths
<1>2. Entries
  BY <1>1 DEF Entries, Init, Idle, Begun, PruneStages
<1>3. QED
  BY <1>2 DEF DirectoryInv, Watched, Init

LEMMA NextFiles == IInv /\ DirectoryInv /\ [Next]_vars => DirectoryInv'
<1> SUFFICES ASSUME IInv, DirectoryInv, [Next]_vars PROVE DirectoryInv'
  OBVIOUS
<1>1. CASE UNCHANGED vars
  BY <1>1 DEF vars, DirectoryInv, Entries, Watched, Scanned, WithinLimits, Held, Exists
<1>2. QED
  BY <1>1, StartFiles, WriteFiles, ReadFiles, ReadDirFiles, MeasureFiles, PruneOneFiles,
     PruneDoneFiles, CrashFiles DEF Next, Prune

(***************************************************************************)
(* However the writes and prunes of one process or several interleave, and *)
(* whichever of them fail, the rasters on disk are within both limits as   *)
(* soon as no prune is under way.  A crash in a prune, or a readdir, stat  *)
(* or rm of one that fails, suspends this until a prune that reads the     *)
(* directory afterwards ends without one (set, #prune): for any number of  *)
(* rasters, calls, sizes and failures.                                     *)
(***************************************************************************)
THEOREM DirectoryWithinLimits == Spec => []DirectoryBounded
<1>1. DirectoryInv => DirectoryBounded
  BY DEF DirectoryInv, Watched, Scanned, DirectoryBounded, Pruning
<1>2. QED
  BY <1>1, InitIInv, NextIInv, InitFiles, NextFiles, PTL DEF Spec
================================================================================
