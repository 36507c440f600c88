---------------------------- MODULE MathParser -----------------------------
(***************************************************************************)
(* The incremental parser of Markdown and math (packages/cli/src/          *)
(* rendering/parser.ts), as operators on a record of its fields, and the   *)
(* text an edited formula is inserted as (tui/formulas.ts).                *)
(*                                                                         *)
(* A text is a sequence of characters; the language name of a math fence   *)
(* is one character, "math", and "tick" is a backtick.  Carriage returns,  *)
(* tabs and surrogate pairs are left out.  The text events of neighbouring *)
(* characters are joined.                                                  *)
(***************************************************************************)
EXTENDS Naturals, Sequences

Digits == {"5"}
MoneySeparators == {".", ","}
AfterMoney == {".", ",", ";", ":", "!", "?", ")"}
Spaces == {" ", "\n"}

NewParser == [pending |-> <<>>, atLineStart |-> TRUE, lineIndent |-> 0,
              trailingBackslashes |-> 0, events |-> <<>>]

Smallest(S) == CHOOSE i \in S : \A j \in S : i <= j
From(s, i) == SubSeq(s, i, Len(s))
Upto(s, i) == SubSeq(s, 1, IF i <= Len(s) THEN i ELSE Len(s))

-----------------------------------------------------------------------------
(***************************************************************************)
(* Scanning.                                                               *)
(***************************************************************************)
\* How often c stands at i and behind it.
countRun(s, i, c) ==
    Smallest({j \in i..Len(s) : s[j] # c} \cup {Len(s) + 1}) - i

\* How many backslashes stand before i.
BackslashesBefore(s, i) ==
    i - Smallest({j \in 1..i : \A k \in j..(i - 1) : s[k] = "\\"})

isEscaped(s, i) == BackslashesBefore(s, i) % 2 = 1

\* The first occurrence of token that is not escaped; an escaped one is
\* skipped as a whole.  0 if there is none.
findUnescaped(s, token, start) ==
    LET At(from) == {i \in from..(Len(s) + 1 - Len(token)) :
                        SubSeq(s, i, i + Len(token) - 1) = token}
        find[from \in 1..(Len(s) + 2)] ==
            IF At(from) = {} THEN 0
            ELSE IF ~isEscaped(s, Smallest(At(from))) THEN Smallest(At(from))
            ELSE find[Smallest(At(from)) + Len(token)]
    IN  find[start]

\* What a reader makes of the front of the pending text: nothing of its kind,
\* an event, or it cannot tell before more text arrives.
None == [is |-> "none"]
Wait == [is |-> "wait"]
Event(type, length, tex) ==
    [is |-> "event", type |-> type, length |-> length, tex |-> tex]

\* Mutant: an unfinished span is given up at once.
UnlessBug(final) == None

Unless(final) == IF final THEN None ELSE Wait

-----------------------------------------------------------------------------
(***************************************************************************)
(* The three readers, tried in this order.                                 *)
(***************************************************************************)
Trimmed(s) == SelectSeq(s, LAMBDA c : c # " ")

\* The line that starts at i closes a fence of this marker and length.
Closes(s, i, marker, length) ==
    LET end == Smallest({j \in i..Len(s) : s[j] = "\n"} \cup {Len(s) + 1})
        line == SubSeq(s, i, end - 1)
        indent == countRun(line, 1, " ")
        run == countRun(line, indent + 1, marker)
    IN  /\ indent <= 3 /\ run >= length
        /\ \A j \in (indent + run + 1)..Len(line) : line[j] = " "

\* The fence opened by length markers and the line up to opening, of which
\* closing are the beginnings of the lines that close it.
FenceOf(s, length, opening, closing, final) ==
    LET ends == {i \in Smallest(closing)..Len(s) : s[i] = "\n"}
    IN  IF closing = {} \/ (ends = {} /\ ~final) THEN Unless(final)
        ELSE IF Trimmed(SubSeq(s, length + 1, opening - 1)) = <<"math">>
             THEN Event("display", Smallest(ends \cup {Len(s)}),
                        SubSeq(s, opening + 1, Smallest(closing) - 2))
             ELSE Event("code", Smallest(ends \cup {Len(s)}), <<>>)

readFence(p, final) ==
    LET s == p.pending
        length == countRun(s, 1, s[1])
        newlines == {i \in (length + 1)..Len(s) : s[i] = "\n"}
    IN  IF ~p.atLineStart \/ p.lineIndent > 3 \/ s[1] \notin {"tick", "~"} THEN None
        ELSE IF length < 3 THEN (IF ~final /\ length = Len(s) THEN Wait ELSE None)
        ELSE IF newlines = {} THEN Unless(final)
        ELSE FenceOf(s, length, Smallest(newlines),
                     {i + 1 : i \in {j \in newlines : j < Len(s)
                                         /\ Closes(s, j + 1, s[1], length)}},
                     final)

readInlineCode(p, final) ==
    LET s == p.pending
        length == countRun(s, 1, "tick")
        runs == {i \in (length + 1)..Len(s) : s[i] = "tick" /\ s[i - 1] # "tick"}
        closing == {i \in runs : countRun(s, i, "tick") = length}
    IN  IF s[1] # "tick" THEN None
        ELSE IF closing = {} THEN Unless(final)
        ELSE Event("code", Smallest(closing) + length - 1, <<>>)

\* An amount of money in front: /^\$\d+(?:[.,]\d+)*(?=\s|[.,;:!?)]|$)/.
isMoney(s) ==
    \E k \in 2..Len(s) :
        /\ s[2] \in Digits /\ s[k] \in Digits
        /\ \A i \in 2..k : \/ s[i] \in Digits
                           \/ s[i] \in MoneySeparators /\ s[i + 1] \in Digits
        /\ k = Len(s) \/ s[k + 1] \in Spaces \cup AfterMoney

\* Inline math between dollars: where it may close.
DollarCloses(s) ==
    {i \in 2..Len(s) : /\ s[i] = "$" /\ ~isEscaped(s, i) /\ s[i - 1] \notin Spaces
                       /\ i = Len(s) \/ s[i + 1] \notin Digits}

Delimited(s, closer, type, final) ==
    LET close == findUnescaped(s, closer, 3)
    IN  IF close = 0 THEN Unless(final)
        ELSE Event(type, close + 1, SubSeq(s, 3, close - 1))

readMath(p, final) ==
    LET s == p.pending
        free == p.trailingBackslashes % 2 = 0
        closes == DollarCloses(s)
    IN  CASE free /\ Upto(s, 2) = <<"$", "$">> -> Delimited(s, <<"$", "$">>, "display", final)
          [] free /\ s = <<"$">> -> Unless(final)
          [] free /\ s[1] = "$" /\ Len(s) > 1 /\ s[2] # "$" ->
                IF isMoney(s) \/ s[2] \in Spaces THEN None
                ELSE IF closes = {} THEN Unless(final)
                ELSE IF Smallest(closes) = Len(s) /\ ~final THEN Wait
                ELSE Event("inline", Smallest(closes), SubSeq(s, 2, Smallest(closes) - 1))
          [] free /\ Upto(s, 2) = <<"\\", "(">> -> Delimited(s, <<"\\", ")">>, "inline", final)
          [] free /\ Upto(s, 2) = <<"\\", "[">> -> Delimited(s, <<"\\", "]">>, "display", final)
          [] OTHER -> IF s \in {<<"\\">>, <<"$">>} THEN Unless(final) ELSE None

-----------------------------------------------------------------------------
(***************************************************************************)
(* Events.                                                                 *)
(***************************************************************************)
Emitted(events, event) ==
    IF event.type = "text" /\ events # <<>> /\ events[Len(events)].type = "text"
    THEN [events EXCEPT ![Len(events)].source = @ \o event.source]
    ELSE Append(events, event)

\* The line state behind one more character.
Passed(p, c) ==
    [p EXCEPT !.atLineStart = c = "\n" \/ (@ /\ c = " " /\ p.lineIndent < 4),
              !.lineIndent = IF c = "\n" THEN 0
                             ELSE IF p.atLineStart /\ c = " " /\ @ < 4 THEN @ + 1 ELSE @,
              !.trailingBackslashes = IF c = "\\" THEN @ + 1 ELSE 0]

consume(p, length) ==
    LET passed[i \in 0..length] ==
            IF i = 0 THEN p ELSE Passed(passed[i - 1], p.pending[i])
    IN  [passed[length] EXCEPT !.pending = From(@, length + 1)]

\* The first reader that takes it decides; what none takes is text.
Read(fence, code, math) ==
    CASE fence # None -> fence
      [] fence = None /\ code # None -> code
      [] fence = None /\ code = None /\ math # None -> math
      [] OTHER -> Event("text", 1, <<>>)

Take(p, read) ==
    IF read = Wait THEN p
    ELSE [consume(p, read.length) EXCEPT
            !.events = Emitted(@, [type |-> read.type, tex |-> read.tex,
                                   source |-> Upto(p.pending, read.length)])]

\* One turn of #drain; a turn that has to wait changes nothing.
Turn(p, final) ==
    IF p.pending = <<>> THEN p
    ELSE Take(p, Read(readFence(p, final), readInlineCode(p, final),
                      readMath(p, final)))

drain(p, final) ==
    LET after[i \in 0..Len(p.pending)] ==
            IF i = 0 THEN p ELSE Turn(after[i - 1], final)
    IN  after[Len(p.pending)]

push(p, chunk) == drain([p EXCEPT !.pending = @ \o chunk], FALSE)

finish(p) == drain(p, TRUE)
parseMarkdownMath(source) == finish(push(NewParser, source)).events

\* What the events say of the text, put together again.
Sources(events) ==
    LET all[i \in 0..Len(events)] ==
            IF i = 0 THEN <<>> ELSE all[i - 1] \o events[i].source
    IN  all[Len(events)]

-----------------------------------------------------------------------------
(***************************************************************************)
(* An edited formula (a draft) in the delimiters of the one it came from,  *)
(* an event of the parser.                                                 *)
(***************************************************************************)
longestRun(s, c) ==
    LET runs == {countRun(s, i, c) : i \in 1..Len(s)}
    IN  CHOOSE n \in runs \cup {0} : \A m \in runs : m <= n

FenceLength(draft) == IF longestRun(draft, "tick") < 2 THEN 3 ELSE longestRun(draft, "tick") + 1

\* The fallback: a fence longer than every run of backticks in the draft.
wrapInSafeMathFence(draft) ==
    LET marker == [i \in 1..FenceLength(draft) |-> "tick"]
    IN  marker \o <<"math", "\n">> \o draft \o <<"\n">> \o marker \o <<"\n">>

Includes(s, token) ==
    \E i \in 1..(Len(s) + 1 - Len(token)) :
        SubSeq(s, i, i + Len(token) - 1) = token

isSafeInlineDollarDraft(draft) ==
    /\ draft # <<>> /\ ~Includes(draft, <<"$">>)
    /\ {draft[1], draft[Len(draft)]} \cap Spaces = {}

\* deriveMathFenceTexBounds: what stands before and after the formula.
FencePrefix(ref) ==
    Upto(ref.source, Smallest({i \in DOMAIN ref.source : ref.source[i] = "\n"}))
FenceSuffix(ref) == From(ref.source, Len(FencePrefix(ref)) + Len(ref.tex) + 1)

\* Mutant: only the first line of the draft is looked at.
FenceHoldsBug(ref, draft) ==
    /\ ~Closes(draft, 1, ref.source[1], countRun(ref.source, 1, ref.source[1]))
    /\ \/ draft = <<>> \/ draft[Len(draft)] = "\n"
       \/ FenceSuffix(ref)[1] = "\n"

\* No line of the draft closes the fence, and the closing line gets a line of
\* its own.
FenceHolds(ref, draft) ==
    LET marker == ref.source[1]
        lines == {1} \cup {i \in 2..Len(draft) : draft[i - 1] = "\n"}
    IN  /\ \A i \in lines :
               ~Closes(draft, i, marker, countRun(ref.source, 1, marker))
        /\ \/ draft = <<>> \/ draft[Len(draft)] = "\n"
           \/ FenceSuffix(ref)[1] = "\n"

Opening(ref) ==
    IF Upto(ref.source, 2) = <<"$", "$">> \/ ref.source[1] = "\\"
    THEN Upto(ref.source, 2) ELSE Upto(ref.source, 1)

Closing(opening) == CASE opening = <<"\\", "(">> -> <<"\\", ")">>
                      [] opening = <<"\\", "[">> -> <<"\\", "]">>
                      [] OTHER -> opening

wrapFormulaDraft(ref, draft) ==
    LET opening == Opening(ref)
        closing == Closing(opening)
        fenced == opening \in {<<"tick">>, <<"~">>}
        holds == IF fenced THEN FenceHolds(ref, draft)
                 ELSE IF opening = <<"$">> THEN isSafeInlineDollarDraft(draft)
                 ELSE ~Includes(draft, closing)
    IN  IF ~holds THEN wrapInSafeMathFence(draft)
        ELSE IF fenced THEN FencePrefix(ref) \o draft \o FenceSuffix(ref)
        ELSE opening \o draft \o closing
=============================================================================
