--------------------------- MODULE TerminalProbe ---------------------------
(* The graphics probe of rendering/terminal-query.ts inside startTui of       *)
(* tui.tsx: three queries are written to the terminal before the interface    *)
(* mounts, and the replies are picked out of the byte stream the keyboard     *)
(* writes to as well.  What is no reply goes back to the input, in order.     *)
(* When the probe times out on a half-received reply, a late broker keeps     *)
(* reading for a short window after the interface has started.                *)
(*                                                                            *)
(* A token stands for a byte, except that the body of a Kitty reply and the   *)
(* parameters of a CSI reply are one token each: "31:OK" stands for the body   *)
(* i=31;OK, "?62:4" for the parameters ?62;4.  "underscore" is the _ behind    *)
(* an ESC.  A token knows who sent it: a typed one its place among the typed   *)
(* ones, another the number of its reply.                                     *)
EXTENDS Naturals, Sequences, FiniteSets, SequencesExt

CONSTANTS KeyPresses,   \* the byte sequences one key press may send
          Answers,      \* the sequences of replies the terminal may give
          MaxTyped,     \* bound of the model: tokens typed
          MaxResponse,  \* maxResponseBytes
          MaxReplay,    \* maxReplayBytes
          Env           \* "iterm2", "windows_terminal" or "plain"

ASSUME KeysAssumption == \A key \in KeyPresses : key # <<>> /\ key \in Seq(ToSet(key))
ASSUME BoundsAssumption == MaxTyped \in Nat /\ MaxResponse \in Nat \ {0} /\ MaxReplay \in Nat \ {0}

VARIABLES mode,         \* where startTui is
          sink,         \* whether the caller passed options.replay
          answer, sent, \* the replies of this terminal, and how many it has sent
          typed,        \* the number of tokens typed
          unread,       \* what the input stream holds
          app,          \* what the caller has received of the input
          raw,          \* the terminal is in raw mode
          pending, replay, got,       \* the probe's buffers and the replies it knows
          lateActive, late,           \* the late broker
          result,

          heard         \* history: the replies read whole while the probe ran within its bounds

probeVars == <<mode, sink, answer, sent, typed, unread, app, raw, pending, replay, got,
          lateActive, late, result, heard>>

----------------------------------------------------------------------------
APC_START == <<"ESC", "underscore", "G">>
CSI_START == <<"ESC", "[">>
STRING_TERMINATOR == <<"ESC", "\\">>

KittyReply(body) == <<"ESC", "underscore", "G", body, "ESC", "\\">>
Da1Reply == <<"ESC", "[", "?62:4", "c">>
CellReply == <<"ESC", "[", "6:20:10", "t">>
NotFinal == {"ESC", "?62:4", "6:20:10"}

\* What a terminal says to the three queries.
ASSUME AnswersAssumption ==
  Answers \subseteq Seq({KittyReply("31:OK"), KittyReply("31:ENOTSUP"), Da1Reply, CellReply})

ByUser(bytes, first) == [i \in 1..Len(bytes) |-> [b |-> bytes[i], by |-> "user", n |-> first + i]]
ByTerminal(bytes, r) == [i \in 1..Len(bytes) |-> [b |-> bytes[i], by |-> "terminal", n |-> r]]
Bytes(buf) == [i \in 1..Len(buf) |-> buf[i].b]

StartsAt(buf, pattern, i) ==
  /\ buf[i].b = "ESC" /\ i + Len(pattern) - 1 <= Len(buf)
  /\ \A j \in 2..Len(pattern) : buf[i + j - 1].b = pattern[j]

Occurrences(buf, pattern, from) == {i \in from..Len(buf) : StartsAt(buf, pattern, i)}
Least(S) == CHOOSE i \in S : \A j \in S : i <= j
Behind(buf, n) == SubSeq(buf, n + 1, Len(buf))
Take(buf, n) == SubSeq(buf, 1, n)

\* Only a suffix that can still become a reply is kept back.
\* Mutant: nothing is kept, a reply cut after its ESC is replayed in two pieces.
protocolPrefixSuffixLengthBug(buf) == 0

protocolPrefixSuffixLength(buf) ==
  LET kept == {n \in 1..2 : /\ n <= Len(buf)
                            /\ \/ Bytes(Behind(buf, Len(buf) - n)) = Take(APC_START, n)
                               \/ n < 2 /\ Bytes(Behind(buf, Len(buf) - n)) = Take(CSI_START, n)}
  IN IF 2 \in kept THEN 2 ELSE IF 1 \in kept THEN 1 ELSE 0

\* parseKittyGraphicsResponse on a whole frame: our identifier and a message
\* of printable bytes; only the literal OK is a yes.
parseKitty(frame) ==
  LET body == Bytes(SubSeq(frame, 4, Len(frame) - 2))
  IN CASE body = <<"31:OK">> -> "ok"
       [] body # <<>> /\ body # <<"31:OK">> /\ body[1] \in {"31:OK", "31:ENOTSUP"}
          /\ \A i \in 1..Len(body) : body[i] # "ESC" -> "error"
       [] OTHER -> "none"

Candidates(buf) == Occurrences(buf, APC_START, 1) \cup Occurrences(buf, CSI_START, 1)

\* What stands before the first thing that may be a reply.
OrdinaryPrefix(buf) ==
  IF Candidates(buf) = {} THEN Len(buf) - protocolPrefixSuffixLength(buf)
  ELSE Least(Candidates(buf)) - 1

\* One turn of the loop that drainPending and drainLatePending share: what is
\* ordinary input, what is left, and which reply was found.  A turn that takes
\* nothing is the loop's return: it waits for more.
Scan(buf) ==
  LET turn(n, r) == [out |-> IF r = "none" THEN Take(buf, n) ELSE <<>>,
                     rest |-> Behind(buf, n), reply |-> r]
      ends == Occurrences(buf, STRING_TERMINATOR, 4)
      finals == {i \in 3..Len(buf) : buf[i].b \notin NotFinal}
      frame == Take(buf, Least(finals))
  IN CASE OrdinaryPrefix(buf) > 0 \/ Candidates(buf) = {} -> turn(OrdinaryPrefix(buf), "none")
       [] StartsAt(buf, APC_START, 1) ->
            IF ends = {} THEN turn(0, "none")
            ELSE turn(Least(ends) + 1, parseKitty(Take(buf, Least(ends) + 1)))
       [] StartsAt(buf, CSI_START, 1) ->
            IF finals = {} THEN turn(0, "none")
            ELSE CASE Bytes(frame) = Da1Reply -> turn(Len(frame), "da1")
                   [] Bytes(frame) = CellReply -> turn(Len(frame), "cell")
                   [] OTHER -> turn(1, "none")

Learn(known, reply) ==
  CASE reply \in {"ok", "error"} -> [known EXCEPT !.kitty = reply]
    [] reply = "da1" -> [known EXCEPT !.da1 = TRUE]
    [] reply = "cell" -> [known EXCEPT !.cell = TRUE]
    [] OTHER -> known

NothingKnown == [kitty |-> "none", da1 |-> FALSE, cell |-> FALSE]
Answered(known) == known.kitty = "ok" /\ known.da1 /\ known.cell

----------------------------------------------------------------------------
(* The probe.  Its buffers during one handler: what is not yet understood,    *)
(* the ordinary input within the replay bound, and what has outgrown it.      *)
Buffers == [pending |-> pending, replay |-> replay, handoff |-> <<>>, got |-> got]
Overflow(s) == s.handoff # <<>> \/ Len(s.replay) > MaxReplay

appendReplay(s, bytes) ==
  CASE bytes = <<>> -> s
    [] bytes # <<>> /\ s.handoff # <<>> -> [s EXCEPT !.handoff = @ \o bytes]
    [] bytes # <<>> /\ s.handoff = <<>> ->
         IF Len(s.replay) + Len(bytes) <= MaxReplay \/ ~sink
         THEN [s EXCEPT !.replay = @ \o bytes]
         ELSE [s EXCEPT !.handoff = s.replay \o bytes, !.replay = <<>>]

\* An iteration goes on with the candidate behind the ordinary input it takes,
\* also when that outgrew the bound.
drainStep(x) ==
  LET t == Scan(x.pending)
  IN appendReplay([x EXCEPT !.pending = t.rest, !.got = Learn(@, t.reply)], t.out)

drainTurn(x) ==
  IF x.pending = <<>> \/ Overflow(x) THEN x
  ELSE IF Candidates(x.pending) # {} /\ OrdinaryPrefix(x.pending) > 0 THEN drainStep(drainStep(x))
  ELSE drainStep(x)

drainPending(s) ==
  LET after[k \in 0..Len(s.pending)] == IF k = 0 THEN s ELSE drainTurn(after[k - 1])
  IN after[Len(s.pending)]

EmptyLate == [handoff |-> <<>>, replay |-> <<>>, pending |-> <<>>]
FitsLate(l, bytes) == bytes = <<>> \/ Len(l.replay) + Len(bytes) <= MaxReplay

\* preservePendingForLate: on the deadline, an unfinished reply is set apart.
preservePendingForLate ==
  LET cut == OrdinaryPrefix(pending)
      rest == [EmptyLate EXCEPT !.pending = Behind(pending, cut)]
  IN IF FitsLate(EmptyLate, Take(pending, cut)) THEN [rest EXCEPT !.replay = Take(pending, cut)]
     ELSE [rest EXCEPT !.handoff = Take(pending, cut)]

\* finish, when it keeps a late broker and with what.
promoted(s, l) ==
  IF FitsLate(l, s.replay) THEN [l EXCEPT !.handoff = @ \o s.handoff, !.replay = s.replay \o @]
  ELSE [l EXCEPT !.handoff = @ \o s.handoff \o s.replay \o l.replay, !.replay = <<>>]

chosenProtocol(known) ==
  CASE Answered(known) -> "kitty"
    [] ~Answered(known) /\ Env = "iterm2" -> "iterm2"
    [] ~Answered(known) /\ Env = "windows_terminal" /\ known.da1 /\ known.cell -> "sixel"
    [] OTHER -> "unsupported"

\* Input goes back to the stream through the caller's replay sink; without
\* one the caller takes it from the result.
Handed(bytes, stream) ==
  /\ unread' = IF sink THEN bytes \o stream ELSE stream
  /\ app' = IF sink THEN app ELSE app \o bytes

ReadWhole(stream) ==
  {r \in 1..sent : \A i \in 1..Len(stream) : stream[i].by = "user" \/ stream[i].n # r}

finish(s, l, stream, reason) ==
  LET timedOut == reason = "timeout"
      promote == timedOut /\ sink /\ l.pending # <<>>
      empty == s.handoff = <<>> /\ s.replay = <<>> /\ l = EmptyLate
      keep == promote \/ (timedOut /\ sink /\ empty)
  IN /\ mode' = "resolved"
     /\ raw' = FALSE
     /\ pending' = <<>> /\ replay' = <<>>
     /\ got' = s.got
     /\ lateActive' = keep
     /\ late' = IF promote THEN promoted(s, l) ELSE EmptyLate
     /\ Handed(IF keep THEN <<>> ELSE s.handoff \o s.replay \o l.handoff \o l.replay \o l.pending, stream)
     /\ result' = [protocol |-> chosenProtocol(s.got), reason |-> reason]
     /\ heard' = IF reason \in {"response", "replay"} THEN heard ELSE ReadWhole(stream)

\* The data listener: a chunk of the input stream.
onData(n) ==
  /\ mode = "probing" /\ n \in 1..Len(unread)
  /\ LET stream == Behind(unread, n)
         s0 == [Buffers EXCEPT !.pending = @ \o Take(unread, n)]
         s == drainPending(s0)
         flushed(x) == [appendReplay(x, x.pending) EXCEPT !.pending = <<>>]
     IN IF Len(s0.pending) > MaxResponse
        THEN finish(flushed(s0), EmptyLate, stream, "response")
        ELSE IF Overflow(s) THEN finish(flushed(s), EmptyLate, stream, "replay")
        ELSE IF Answered(s.got) THEN finish(s, EmptyLate, stream, "answered")
        ELSE /\ pending' = s.pending /\ replay' = s.replay /\ got' = s.got
             /\ unread' = stream /\ heard' = ReadWhole(stream)
             /\ UNCHANGED <<mode, app, raw, lateActive, late, result>>
  /\ UNCHANGED <<sink, answer, sent, typed>>

\* The deadline of the probe.
Timeout ==
  /\ mode = "probing"
  /\ finish([Buffers EXCEPT !.pending = <<>>], preservePendingForLate, unread, "timeout")
  /\ UNCHANGED <<sink, answer, sent, typed>>

----------------------------------------------------------------------------
(* The late broker.                                                           *)
retireLateBroker(l, extra, stream) ==
  /\ lateActive' = FALSE
  /\ late' = EmptyLate
  /\ unread' = l.handoff \o l.replay \o l.pending \o extra \o stream

drainLateTurn(x) ==
  LET t == Scan(x.pending)
  IN IF x.pending = <<>> \/ ~FitsLate(x, t.out) THEN x
     ELSE [x EXCEPT !.pending = t.rest, !.replay = @ \o t.out]

drainLatePending(l) ==
  LET after[k \in 0..Len(l.pending)] == IF k = 0 THEN l ELSE drainLateTurn(after[k - 1])
  IN after[Len(l.pending)]

\* A chunk read by the late broker.
\* Mutant: the chunk that outgrows the bound is not handed back with the rest.
onLateReadableBug(n) ==
  /\ lateActive /\ n \in 1..Len(unread)
  /\ LET stream == Behind(unread, n)
         l == drainLatePending([late EXCEPT !.pending = @ \o Take(unread, n)])
     IN IF Len(late.pending) + n > MaxResponse
        THEN retireLateBroker(late, <<>>, stream)
        ELSE IF l.pending = <<>> \/ ~FitsLate(l, Scan(l.pending).out)
        THEN retireLateBroker(l, <<>>, stream)
        ELSE late' = l /\ unread' = stream /\ UNCHANGED lateActive
  /\ UNCHANGED <<mode, sink, answer, sent, typed, app, raw, pending, replay, got, result, heard>>

onLateReadable(n) ==
  /\ lateActive /\ n \in 1..Len(unread)
  /\ LET stream == Behind(unread, n)
         l == drainLatePending([late EXCEPT !.pending = @ \o Take(unread, n)])
     IN IF Len(late.pending) + n > MaxResponse
        THEN retireLateBroker(late, Take(unread, n), stream)
        ELSE IF l.pending = <<>> \/ ~FitsLate(l, Scan(l.pending).out)
        THEN retireLateBroker(l, <<>>, stream)
        ELSE late' = l /\ unread' = stream /\ UNCHANGED lateActive
  /\ UNCHANGED <<mode, sink, answer, sent, typed, app, raw, pending, replay, got, result, heard>>

\* Mutant: the broker of a probe that heard nothing has no deadline.
LateTimeoutBug ==
  /\ lateActive /\ late.pending # <<>>
  /\ retireLateBroker(late, <<>>, unread)
  /\ UNCHANGED <<mode, sink, answer, sent, typed, app, raw, pending, replay, got, result, heard>>

LateTimeout ==
  /\ lateActive
  /\ retireLateBroker(late, <<>>, unread)
  /\ UNCHANGED <<mode, sink, answer, sent, typed, app, raw, pending, replay, got, result, heard>>

----------------------------------------------------------------------------
(* startTui around the probe.                                                 *)
StartProbe ==
  /\ mode = "start"
  /\ mode' = "probing" /\ raw' = TRUE
  /\ UNCHANGED <<sink, answer, sent, typed, unread, app, pending, replay, got,
                 lateActive, late, result, heard>>

\* Not eligible, or a gate of the probe.
SkipProbe ==
  /\ mode = "start"
  /\ mode' = "resolved"
  /\ answer' = <<>>
  /\ result' = [protocol |-> IF Env = "iterm2" THEN Env ELSE "unsupported", reason |-> "gate"]
  /\ UNCHANGED <<sink, sent, typed, unread, app, raw, pending, replay, got,
                 lateActive, late, heard>>

\* The queries cannot be written.
WriteFails ==
  /\ mode = "start"
  /\ answer' = <<>>
  /\ mode' = "resolved"
  /\ result' = [protocol |-> chosenProtocol(NothingKnown), reason |-> "write"]
  /\ UNCHANGED <<sink, sent, typed, unread, app, raw, pending, replay, got,
                 lateActive, late, heard>>

\* Ink mounts and puts the terminal in raw mode.
Mount ==
  /\ mode = "resolved"
  /\ mode' = "mounted" /\ raw' = TRUE
  /\ UNCHANGED <<sink, answer, sent, typed, unread, app, pending, replay, got,
                 lateActive, late, result, heard>>

Leave ==
  /\ mode \in {"resolved", "mounted"}
  /\ mode' = "closed" /\ raw' = FALSE
  /\ UNCHANGED <<sink, answer, sent, typed, unread, app, pending, replay, got,
                 lateActive, late, result, heard>>

\* Ink reads; the late broker's listener is older and reads first.
AppReads ==
  /\ mode = "mounted" /\ ~lateActive /\ unread # <<>>
  /\ app' = app \o unread /\ unread' = <<>>
  /\ UNCHANGED <<mode, sink, answer, sent, typed, raw, pending, replay, got,
                 lateActive, late, result, heard>>

\* The user presses a key; the terminal answers the next query.
Type(key) ==
  /\ mode # "closed" /\ typed + Len(key) <= MaxTyped
  /\ unread' = unread \o ByUser(key, typed)
  /\ typed' = typed + Len(key)
  /\ UNCHANGED <<mode, sink, answer, sent, app, raw, pending, replay, got,
                 lateActive, late, result, heard>>

Reply ==
  /\ mode \notin {"start", "closed"} /\ sent < Len(answer)
  /\ sent' = sent + 1
  /\ unread' = unread \o ByTerminal(answer[sent + 1], sent + 1)
  /\ UNCHANGED <<mode, sink, answer, typed, app, raw, pending, replay, got,
                 lateActive, late, result, heard>>

ProbeInit ==
  /\ mode = "start" /\ sink \in BOOLEAN /\ raw = FALSE
  /\ answer \in Answers /\ sent = 0 /\ typed = 0
  /\ unread = <<>> /\ app = <<>>
  /\ pending = <<>> /\ replay = <<>> /\ got = NothingKnown
  /\ lateActive = FALSE /\ late = EmptyLate
  /\ result = [protocol |-> "unsupported", reason |-> "none"] /\ heard = {}

ProbeNext ==
  \/ StartProbe \/ SkipProbe \/ WriteFails
  \/ \E n \in 1..Len(unread) : onData(n) \/ onLateReadable(n)
  \/ Timeout \/ LateTimeout
  \/ Mount \/ Leave \/ AppReads
  \/ \E key \in KeyPresses : Type(key)
  \/ Reply

\* The two timers fire; startTui goes on until the interface runs, and Ink
\* reads what there is to read.
Fairness ==
  /\ WF_probeVars(StartProbe \/ SkipProbe \/ WriteFails)
  /\ WF_probeVars(Timeout) /\ WF_probeVars(LateTimeout)
  /\ WF_probeVars(mode = "resolved" /\ (Mount \/ Leave))
  /\ WF_probeVars(AppReads)

ProbeSpec == ProbeInit /\ [][ProbeNext]_probeVars /\ Fairness

----------------------------------------------------------------------------
(* Properties.                                                                *)

\* Types; the probe's buffers are the probe's only, and the terminal is in raw
\* mode only while the probe or Ink reads it.
ProbeTypeOK ==
  /\ mode \in {"start", "probing", "resolved", "mounted", "closed"}
  /\ sink \in BOOLEAN /\ lateActive \in BOOLEAN
  /\ raw = (mode \in {"probing", "mounted"})
  /\ sent \in 0..Len(answer) /\ typed \in 0..MaxTyped
  /\ got \in [kitty : {"none", "ok", "error"}, da1 : BOOLEAN, cell : BOOLEAN]
  /\ (mode # "probing" => pending = <<>> /\ replay = <<>>)
  /\ (~lateActive => late = EmptyLate)
  /\ (lateActive => sink /\ result.reason = "timeout")
  /\ result.protocol \in {"kitty", "iterm2", "sixel", "unsupported"}

Held == late.handoff \o late.replay \o late.pending \o replay \o pending
Line == app \o Held \o unread
WasTyped(i) == Line[i].by = "user"
Lost == {k \in 1..typed : ~ \E i \in 1..Len(Line) : WasTyped(i) /\ Line[i].n = k}
Parked(k) == \E buf \in {late.handoff, late.replay, late.pending, replay, pending, unread} :
                \E i \in 1..Len(buf) : buf[i].by = "user" /\ buf[i].n = k

TypingOrder == \A i, j \in 1..Len(Line) : i < j /\ WasTyped(i) /\ WasTyped(j) => Line[i].n < Line[j].n

\* "Replays probe bytes before Ink subscribes to stdin, preserving user input
\* byte-for-byte" (tui.tsx:110): every key pressed so far is, exactly once and
\* in the order of typing, with the application, in one of the brokers'
\* buffers or still in the stream.  finish drops what onData has pending when
\* the last reply arrives.
KeysKept == TypingOrder /\ Lost = {}

\* What does hold: whatever is cut, replayed, promoted and handed off, keys
\* stay in their order and none is doubled; and none is lost but the unfinished
\* sequence at the end of the chunk that completes the three replies: at most
\* two bytes, as long as a key that begins a CSI sequence ends it too
\* (appendReplay, finish, drainLatePending, retireLateBroker).
KeysInOrder ==
  /\ TypingOrder
  /\ IF result.reason = "answered" THEN \E k \in 0..typed : Lost \subseteq {k + 1, k + 2}
     ELSE Lost = {}

\* A reply that was read whole while the probe ran never reaches the
\* application as keystrokes, however it was cut into chunks and whatever was
\* typed around it, unless the very chunk that ends it overruns a bound
\* (drainPending, Scan).
NoReplyTyped ==
  \A i \in 1..Len(app) : app[i].by = "terminal" => app[i].n \notin heard

\* Nothing the user typed stays with a broker or in the stream for ever, unless
\* the interface is gone: the two timers retire the brokers, and Ink reads.
NothingStuck ==
  \A k \in 1..MaxTyped : Parked(k) ~> (~Parked(k) \/ mode = "closed")
=============================================================================
