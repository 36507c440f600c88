------------------------------ MODULE ChatRun ------------------------------
(***************************************************************************)
(* One response: TuiController.runChat (packages/cli/src/tui/              *)
(* controller.ts) or executeChat of the one-shot command (packages/cli/    *)
(* src/run.ts) pulling the events of Harness.run (packages/harness), which *)
(* pulls those of a provider adapter's stream, which pulls the server-sent *)
(* events of an HTTP response.  The one-shot command passes what it may    *)
(* show through the incremental parser.                                    *)
(*                                                                         *)
(* The generators wait in one place at a time, named by stage; what a      *)
(* chunk of the body sets off is one step up to the next wait.  The user   *)
(* may abort at any wait, and each request has a timeout.  A text is a     *)
(* sequence of characters, with Marker for the text [REDACTED] that stands *)
(* for the credential.  Both adapters behave as the one here.              *)
(***************************************************************************)
EXTENDS MathParser, ModelSelection, SequencesExt

CONSTANTS
    Deltas,    \* the texts a provider may send the interface at once
    Fragments, \* and those it may send the one-shot command
    Rows,      \* the rows a provider's catalog may hold
    Originals, \* formulas the user may edit, as the parser reads them
    Selections,\* the model and the effort the user chose
    Secret,    \* the credential of the connection
    Marker,    \* "[REDACTED]"
    MaxRows,   \* bound: rows of a catalog
    MaxText,   \* bound: characters of a response in the interface
    MaxPrinted,\* bound: characters of a response on the command line
    MaxChunk   \* bound: server-sent events in one chunk of the body

ASSUME RunAssumption ==
    /\ Secret # <<>> /\ <<>> \notin Deltas \cup Fragments
    /\ \A d \in Deltas \cup Fragments : Marker \notin ToSet(d)
    /\ Marker \notin ToSet(Secret)
    /\ \A s \in {Secret} \cup Deltas \cup Fragments : s \in Seq(ToSet(s))
    /\ {MaxRows, MaxText, MaxPrinted, MaxChunk} \subseteq Nat

Stages == {"starting", "selecting", "requesting", "streaming", "collecting",
           "closing", "ended"}

VARIABLES
    consumer,    \* who runs it: "tui" or "cli"
    stage,       \* what the run waits for
    userAborted, \* the AbortSignal of the prompt
    asked,       \* the request for the response that has not come, with the
                 \* catalog it was made from
    timedOut,    \* the timeout signal of the request in flight
    body,        \* the reader of the response's body
    received,    \* the text the provider sent
    pending,     \* StreamingSecretRedactor.#pending
    text,        \* the text reported so far, and returned in the end
    verdict,     \* how the provider's part ended
    log,         \* the kinds of events given to onEvent, runs of text as one
    chunks,      \* history: what the parser of the one-shot command was given
    exitCode     \* what the one-shot command returns

vars == <<consumer, stage, userAborted, asked, timedOut, body, received,
          pending, text, verdict, log, chunks, exitCode>>

\* What a response changes as its text and its events come in.
output == <<received, pending, text, log, chunks, exitCode>>

NotAsked == [sent |-> {}]

Init ==
    /\ consumer \in {"tui", "cli"}
    /\ stage = "starting"
    /\ userAborted = FALSE /\ timedOut = FALSE
    /\ asked = NotAsked
    /\ body = "none"
    /\ received = <<>> /\ pending = <<>> /\ text = <<>>
    /\ verdict = "none"
    /\ log = <<>>
    /\ chunks = <<>> /\ exitCode = 0

-----------------------------------------------------------------------------
(***************************************************************************)
(* Redaction.                                                              *)
(***************************************************************************)
\* replaceAll: the occurrences from left to right, none overlapping.
Redact(s) ==
    LET Occurs(i) == IsPrefix(Secret, SubSeq(s, i, Len(s)))
        from[i \in 1..(Len(s) + 1)] ==
            IF i > Len(s) THEN <<>>
            ELSE IF Occurs(i) THEN <<Marker>> \o from[i + Len(Secret)]
            ELSE <<s[i]>> \o from[i + 1]
    IN  from[1]

\* Mutant: a prefix of the credential that fills the text is missed.
HeldBug(s) ==
    LET Begins(n) == n < Len(s) /\ IsSuffix(SubSeq(Secret, 1, n), s)
        lengths == {n \in 0..(Len(Secret) - 1) : Begins(n)}
    IN  CHOOSE n \in lengths \cup {0} : \A m \in lengths : m <= n

\* How many characters at the end may be the beginning of the credential.
Held(s) ==
    LET Begins(n) == n <= Len(s) /\ IsSuffix(SubSeq(Secret, 1, n), s)
        lengths == {n \in 0..(Len(Secret) - 1) : Begins(n)}
    IN  CHOOSE n \in lengths : \A m \in lengths : m <= n

Safe(s) == SubSeq(s, 1, Len(s) - Held(s))

Rest(s) == SubSeq(s, Len(s) - Held(s) + 1, Len(s))

\* What stays held when the stream is over is a proper prefix of the
\* credential.  The interface does not show it either; the one-shot command
\* does (StreamingSecretRedactor.finish).
FinalTail(s) == IF s = <<>> \/ consumer = "cli" THEN s ELSE <<Marker>>

-----------------------------------------------------------------------------
(***************************************************************************)
(* Reporting.  A run in progress is a record of the variables that the     *)
(* text and the events change.                                             *)
(***************************************************************************)
LogText(events) ==
    IF events # <<>> /\ Last(events) = "text" THEN events
                                              ELSE Append(events, "text")

EmitText(run, s) ==
    IF s = <<>> THEN run
    ELSE [run EXCEPT !.text = @ \o s, !.log = LogText(@),
                     !.chunks = IF consumer = "cli" THEN Append(@, s) ELSE @]

\* renderEvent's answer becomes the exit code.
ExitCode == [error |-> 1, cancelled |-> 130, completed |-> 0]

Report(run, event) ==
    [run EXCEPT !.log = Append(@, event),
                !.exitCode = IF consumer = "cli" THEN ExitCode[event] ELSE @]

\* A text_delta of the provider.
Push(run, delta) ==
    LET redacted == Redact(run.pending \o delta)
    IN  EmitText([run EXCEPT !.received = @ \o delta,
                             !.pending = Rest(redacted)],
                 Safe(redacted))

\* What the redactor held is shown when the response is over.
Finalize(run) ==
    EmitText([run EXCEPT !.pending = <<>>], FinalTail(run.pending))

Run == [received |-> received, pending |-> pending, text |-> text, log |-> log,
        chunks |-> chunks, exitCode |-> exitCode]

Becomes(run) ==
    /\ received' = run.received /\ pending' = run.pending
    /\ text' = run.text /\ log' = run.log
    /\ chunks' = run.chunks /\ exitCode' = run.exitCode

\* Mutant: the timeout is looked at first.
FailureBug == IF userAborted /\ ~timedOut THEN "cancelled" ELSE "error"

\* What Harness.run makes of an exception: the user's abort explains it,
\* whatever else went wrong.
Failure == IF userAborted THEN "cancelled" ELSE "error"

\* Mutant: the error is reported before the rest of the text.
FailedBug(run) == Finalize(Report(run, Failure))

\* The interface shows the rest before the failure, the one-shot command when
\* it has no more events.
Failed(run) == IF consumer = "tui" THEN Report(Finalize(run), Failure)
                                   ELSE Finalize(Report(run, Failure))

Completed(run) == Report(run, "completed")

-----------------------------------------------------------------------------
(***************************************************************************)
(* The outside.                                                            *)
(***************************************************************************)
UserAborts ==
    /\ stage # "ended" /\ ~userAborted
    /\ userAborted' = TRUE
    /\ UNCHANGED <<consumer, asked, stage, timedOut, body, verdict, output>>

\* Mutant: only the request for the response is timed.
TimedBug == stage \in {"requesting", "streaming"}

\* AbortSignal.timeout covers a request and the reading of its body.
Timed == stage \in {"selecting", "requesting", "streaming", "collecting"}

Timeout ==
    /\ Timed /\ ~timedOut
    /\ timedOut' = TRUE
    /\ UNCHANGED <<consumer, asked, stage, userAborted, body, verdict, output>>

Signalled == userAborted \/ timedOut

-----------------------------------------------------------------------------
(***************************************************************************)
(* From the prompt to the first byte of the response.                      *)
(***************************************************************************)
\* The run ends without a response.
EndsEarly ==
    /\ stage' = "ended"
    /\ Becomes(Failed(Run))
    /\ verdict' = "failed"
    /\ asked' = NotAsked
    /\ UNCHANGED <<consumer, userAborted, timedOut>>

\* runCli returns before a run begins: its arguments are wrong (2), or no
\* harness can be made of them (1).
Refused ==
    /\ consumer = "cli" /\ stage = "starting" /\ ~userAborted
    /\ stage' = "ended" /\ verdict' = "refused"
    /\ exitCode' \in {1, 2}
    /\ UNCHANGED <<consumer, asked, userAborted, timedOut, body, received,
                   pending, text, log, chunks>>

\* The harness is built, and the model, the prompt and the request checked;
\* what fails here is caught by runChat.
Start ==
    /\ stage = "starting"
    /\ \/ EndsEarly
       \/ /\ ~userAborted
          /\ stage' = "selecting"
          /\ UNCHANGED <<consumer, asked, userAborted, timedOut, verdict, output>>
    /\ UNCHANGED body

\* ProviderRegistry.resolve asks for the catalog: the model may be missing,
\* unavailable or without the effort.  The request that follows has its own
\* timeout.
SelectionReturns ==
    /\ stage = "selecting"
    /\ \/ EndsEarly
       \/ /\ ~Signalled
          /\ stage' = "requesting"
          /\ \E provider \in Providers, wanted \in Selections,
                rows \in BoundedSeq(Rows, MaxRows) :
                 /\ Resolves(provider, rows, wanted)
                 /\ asked' = [sent |-> {Request(wanted)}, rows |-> rows,
                              provider |-> provider]
          /\ UNCHANGED <<consumer, userAborted, timedOut, verdict, output>>
    /\ UNCHANGED body

\* The response is an event stream, a whole completion, or an error.
ResponseStarts ==
    /\ stage = "requesting"
    /\ \/ EndsEarly /\ UNCHANGED body
       \/ /\ ~Signalled
          /\ stage' \in {"streaming", "collecting"}
          /\ body' = "open" /\ asked' = NotAsked
          /\ UNCHANGED <<consumer, userAborted, timedOut, verdict, output>>

-----------------------------------------------------------------------------
(***************************************************************************)
(* An event stream.                                                        *)
(***************************************************************************)
\* What a server-sent event may carry: text, text with the reason why the
\* response is finished, [DONE], or what the adapter refuses (no JSON, no
\* choices, the id of another model).
Texts == IF consumer = "tui" THEN Deltas ELSE Fragments
Items == [kind : {"text", "finish"}, delta : Texts]
             \cup [kind : {"finish", "refused"}, delta : {<<>>}]

\* The events of a chunk are taken one by one until one ends the response.
Taken(items) ==
    LET ends == {i \in DOMAIN items : items[i].kind # "text"}
        last == IF ends = {} THEN Len(items)
                ELSE CHOOSE i \in ends : \A j \in ends : i <= j
    IN  SubSeq(items, 1, last)

Deliver(items) ==
    LET after[i \in 0..Len(items)] ==
            IF i = 0 THEN Run ELSE Push(after[i - 1], items[i].delta)
    IN  after[Len(items)]

\* Mutant: the reader is dropped without cancelling the body.
CloseStreamBug == UNCHANGED body

\* The finally of parseSse.
CloseStream == body' = "cancelled"

\* parseSse's reader returns a chunk.
ChunkArrives(items) ==
    LET taken == Taken(items)
        run == Deliver(taken)
        kind == Last(taken).kind
    IN  /\ stage = "streaming" /\ ~Signalled
        /\ Len(run.received) <= IF consumer = "tui" THEN MaxText ELSE MaxPrinted
        /\ \/ /\ kind = "text"
              /\ Becomes(run)
              /\ UNCHANGED <<stage, verdict>>
           \/ /\ kind = "finish"
              /\ Becomes(Completed(run))
              /\ stage' = "closing" /\ verdict' = "completed"
           \/ /\ kind = "refused"
              /\ Becomes(run)
              /\ stage' = "closing" /\ verdict' = "failed"
        /\ UNCHANGED <<consumer, asked, userAborted, timedOut, body>>

\* The reading ends by a signal, by a limit or by an error of the network.
StreamBreaks ==
    /\ stage = "streaming"
    /\ stage' = "closing" /\ verdict' = "failed"
    /\ UNCHANGED <<consumer, asked, userAborted, timedOut, body, output>>

\* The body ends before the response is complete.
StreamEnds ==
    /\ stage = "streaming" /\ ~Signalled
    /\ body' = "ended"
    /\ EndsEarly

\* The reader is cancelled before the generators return; only then is the
\* failure classified, and the rest of a completed response shown.
Close ==
    /\ stage = "closing"
    /\ CloseStream
    /\ stage' = "ended"
    /\ Becomes(IF verdict = "completed" THEN Finalize(Run) ELSE Failed(Run))
    /\ UNCHANGED <<consumer, asked, userAborted, timedOut, verdict>>

-----------------------------------------------------------------------------
(***************************************************************************)
(* A whole completion.                                                     *)
(***************************************************************************)
CollectCompletes(delta) ==
    /\ stage = "collecting" /\ ~Signalled
    /\ body' = "ended"
    /\ stage' = "ended" /\ verdict' = "completed"
    /\ Becomes(Finalize(Completed(Push(Run, delta))))
    /\ UNCHANGED <<consumer, asked, userAborted, timedOut>>

\* It was cut short, or was refused once read.
CollectFails ==
    /\ stage = "collecting"
    /\ body' \in IF Signalled THEN {"cancelled"} ELSE {"cancelled", "ended"}
    /\ EndsEarly

-----------------------------------------------------------------------------
Next ==
    \/ UserAborts
    \/ Timeout
    \/ Refused
    \/ Start
    \/ SelectionReturns
    \/ ResponseStarts
    \/ \E n \in 1..(IF consumer = "tui" THEN MaxChunk ELSE 1) :
           \E items \in [1..n -> Items] : ChunkArrives(items)
    \/ StreamBreaks
    \/ StreamEnds
    \/ Close
    \/ \E delta \in Texts \cup {<<>>} : CollectCompletes(delta)
    \/ CollectFails

Spec == Init /\ [][Next]_vars

\* The provider may keep silent for ever: what is certain is that timeouts
\* pass, and that a signal ends the wait it interrupts.
Fairness ==
    /\ WF_vars(Start)
    /\ WF_vars(Timeout)
    /\ WF_vars(Signalled /\ (SelectionReturns \/ ResponseStarts))
    /\ WF_vars(Signalled /\ (StreamBreaks \/ CollectFails))
    /\ WF_vars(Close)

FairSpec == Spec /\ Fairness

-----------------------------------------------------------------------------
(***************************************************************************)
(* Properties.                                                             *)
(***************************************************************************)
Ended == stage = "ended"
Terminals == {"completed", "error", "cancelled"}
Reports(events) == {i \in DOMAIN events : events[i] \in Terminals}

\* The types; no more is held back than a part of the credential
\* (StreamingSecretRedactor).
TypeOK ==
    /\ stage \in Stages
    /\ userAborted \in BOOLEAN /\ timedOut \in BOOLEAN
    /\ body \in {"none", "open", "ended", "cancelled"}
    /\ received \in Seq(UNION {ToSet(d) : d \in Deltas \cup Fragments})
    /\ pending \in {SubSeq(Secret, 1, n) : n \in 0..(Len(Secret) - 1)}
    /\ text \in Seq({Marker} \cup UNION {ToSet(d) : d \in Deltas \cup Fragments})
    /\ verdict \in {"none", "completed", "failed", "refused"}
    /\ log \in Seq(Terminals \cup {"text"})

\* A run is reported to have ended exactly once, however signals, errors and
\* the end of the stream coincide, and text follows the report only when it
\* is the rest of a completed response (runChat, Harness.run).
EndsOnce ==
    /\ IF verdict = "completed" \/ (Ended /\ verdict = "failed")
       THEN \E i \in Reports(log) : Reports(log) = {i}
       ELSE Reports(log) = {}
    /\ consumer = "tui" =>
           \A i \in DOMAIN log : log[i] \in {"error", "cancelled"} => i = Len(log)

\* No other model is asked than the one the user chose, and no effort it does
\* not list ("it deliberately does not fall back to a different model",
\* provider-openrouter/src/adapter.ts:27): the catalog named the model once,
\* not as unavailable, and an effort in the request is one of its own ("off"
\* goes by the name "none", whatever the catalog calls it).
OnlyTheChosenModel ==
    \A request \in asked.sent :
        \E i \in DOMAIN asked.rows :
            LET row == asked.rows[i] IN
            /\ row.id = request.model
            /\ \A j \in DOMAIN asked.rows :
                   asked.rows[j].id = request.model => j = i
            /\ asked.provider = "openrouter" => row.status # "unavailable"
            /\ request.effort # {} =>
                   /\ asked.provider = "openrouter" /\ row.reasoning
                   /\ \/ request.effort \subseteq row.efforts
                      \/ request.effort = {"none"} /\ "off" \in row.efforts

\* "Text is redacted across chunk boundaries": the text a run returns does
\* not depend on how the provider cut it into chunks.  It is the whole
\* response with the credential replaced; a beginning of it at the very end
\* is replaced too in the interface.
ChunksDoNotMatter ==
    Ended => text = LET whole == Redact(received)
                    IN  Safe(whole) \o FinalTail(Rest(whole))

\* However the run ends, the connection is given back: a body the provider
\* still sends was read to its end or cancelled (the finally of parseSse and
\* of readLimitedText).
BodyReleased == Ended => body # "open"

\* A run the user aborted before the provider completed it is reported as
\* cancelled, also when it failed or timed out meanwhile; no other run is.
AbortIsCancellation ==
    Ended /\ verdict = "failed" =>
        /\ ("cancelled" \in ToSet(log)) = userAborted
        /\ consumer = "cli" => exitCode = (IF userAborted THEN 130 ELSE 1)

\* The events of the parser that was given the chunks one by one.
Parsed ==
    LET given[i \in 0..Len(chunks)] ==
            IF i = 0 THEN NewParser ELSE push(given[i - 1], chunks[i])
    IN  finish(given[Len(chunks)])

\* "Parser results MUST be identical regardless of provider chunk boundaries"
\* (docs/CLI_RENDERING.md:203): the events are those of the whole text.
ParsedAsWhole ==
    Ended /\ consumer = "cli" => Parsed.events = parseMarkdownMath(text)

\* It holds unless a chunk ended in a digit, which may be taken for an amount
\* of money, or in a backtick, of which more may follow.
ParsedAsWholeElsewhere ==
    (\A i \in DOMAIN chunks : Last(chunks[i]) \notin Digits \cup {"tick"}
                                 \/ i = Len(chunks)) => ParsedAsWhole

\* What the reader of a draft in these delimiters takes for something else:
\* a closer that the end of the draft escapes or joins, an amount of money,
\* and, in a fence that was empty, the last line end.
Misread(ref, draft) ==
    LET opening == Opening(ref)
        EndsIn(c) == draft # <<>> /\ Last(draft) = c
    IN  \/ opening[1] \in {"$", "\\"} /\ isEscaped(draft, Len(draft) + 1)
        \/ opening = <<"$", "$">> /\ EndsIn("$")
        \/ opening = <<"$">> /\ isMoney(opening \o draft)
        \/ opening = <<"tick">> /\ FenceSuffix(ref)[1] # "\n" /\ EndsIn("\n")

\* An edited formula "is recognized by the formula indexer and round-trips the
\* draft exactly" (tui/formulas.ts:156-163), whatever a response put into the
\* draft and whatever the delimiters of the formula, with the exceptions
\* above; in the fallback fence without any.
EditReadsBack ==
    Ended /\ consumer = "cli" =>
        \A ref \in Originals :
            \E edited \in {wrapFormulaDraft(ref, text)} :
                \/ edited # wrapInSafeMathFence(text) /\ Misread(ref, text)
                \/ \E type \in {"inline", "display"} :
                       parseMarkdownMath(edited) =
                           <<[type |-> type, tex |-> text, source |-> edited]>>

\* A run ends even if the provider stops answering: its slot, and the
\* composer, are released.
RunSettles == <>Ended
=============================================================================
