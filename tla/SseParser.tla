------------------------------ MODULE SseParser ------------------------------
(***************************************************************************)
(* parseSse of the two provider adapters (packages/provider-openrouter/src *)
(* /sse.ts, packages/provider-openai-compatible/src/sse.ts): from the      *)
(* bytes of a response's body to its server-sent events.  The state of the *)
(* parser lives across chunks, so a body is the sequence of its bytes:     *)
(* "lf", "cr", ":", " " and others, of which "d" stands for the field name *)
(* data and "e" for event.                                                 *)
(***************************************************************************)
EXTENDS Naturals, Sequences, SequencesExt

LineEnds == {"lf", "cr"}

NewSse == [line |-> <<>>, data |-> <<>>, event |-> <<>>, bytes |-> 0,
           skip |-> FALSE, failed |-> FALSE, events |-> <<>>]

\* An event without data is none; one with data may have a type.
dispatchEvent(p) ==
    [p EXCEPT !.events = IF p.data = <<>> THEN @
                         ELSE Append(@, [data |-> p.data, event |-> p.event]),
              !.data = <<>>, !.event = <<>>, !.bytes = 0]

\* The name before the first colon, and what follows it less one space.
Field(line) ==
    LET colon == SelectInSeq(line, LAMBDA c : c = ":")
        after == IF colon = 0 THEN <<>>
                 ELSE SubSeq(line, colon + 1, Len(line))
    IN  [name |-> IF colon = 0 THEN line ELSE SubSeq(line, 1, colon - 1),
         value |-> IF after # <<>> /\ Head(after) = " " THEN Tail(after)
                                                        ELSE after]

\* An empty line ends the event.  A comment has an empty field name.
consumeLine(p) ==
    LET field == Field(p.line)
        next == [p EXCEPT !.line = <<>>]
    IN  IF p.line = <<>> THEN dispatchEvent(next)
        ELSE IF field.name = <<"d">> THEN [next EXCEPT !.data = Append(@, field.value)]
        ELSE IF field.name = <<"e">> THEN [next EXCEPT !.event = field.value]
        ELSE next

\* A line feed after a carriage return ends no second line, and is not
\* counted; what an event may not exceed counts every other byte.
takeByte(p, byte, maxEventBytes) ==
    LET counted == [p EXCEPT !.bytes = @ + 1, !.skip = byte = "cr"]
    IN  IF p.failed THEN p
        ELSE IF p.skip /\ byte = "lf" THEN [p EXCEPT !.skip = FALSE]
        ELSE IF p.bytes = maxEventBytes THEN [p EXCEPT !.failed = TRUE]
        ELSE IF byte \in LineEnds THEN consumeLine(counted)
        ELSE [counted EXCEPT !.line = Append(@, byte)]

\* The end of the body ends the line and the event it is in.
finishSse(p) ==
    IF p.failed THEN p
    ELSE dispatchEvent(IF p.line = <<>> THEN p ELSE consumeLine(p))

parseSse(bytes, maxEventBytes) ==
    LET parsed[i \in 0..Len(bytes)] ==
            IF i = 0 THEN NewSse
            ELSE takeByte(parsed[i - 1], bytes[i], maxEventBytes)
    IN  finishSse(parsed[Len(bytes)])

-----------------------------------------------------------------------------
\* The reference: the body is split at "cr lf", "lf" and "cr", and each block
\* of lines that are not empty is an event if it has data.

\* The line ends, the second character of one that has two left out.
Ends(bytes) ==
    {i \in DOMAIN bytes :
        /\ bytes[i] \in LineEnds
        /\ ~(i > 1 /\ bytes[i] = "lf" /\ bytes[i - 1] = "cr")}

LineStart(bytes, end) ==
    IF end < Len(bytes) /\ bytes[end] = "cr" /\ bytes[end + 1] = "lf"
    THEN end + 2 ELSE end + 1

Lines(bytes) ==
    LET ends == SetToSortSeq(Ends(bytes), LAMBDA i, j : i < j)
        last == Len(ends) + 1
        from(k) == IF k = 1 THEN 1 ELSE LineStart(bytes, ends[k - 1])
        to(k) == IF k = last THEN Len(bytes) ELSE ends[k] - 1
    IN  [k \in 1..last |-> SubSeq(bytes, from(k), to(k))]

\* Blocks of lines i to j, delimited by empty lines or the ends of the body.
Blocks(lines) ==
    {b \in (DOMAIN lines) \X (DOMAIN lines) :
        /\ b[1] <= b[2]
        /\ \A k \in b[1]..b[2] : lines[k] # <<>>
        /\ (b[1] = 1 \/ lines[b[1] - 1] = <<>>)
        /\ (b[2] = Len(lines) \/ lines[b[2] + 1] = <<>>)}

Values(block, name) ==
    LET fields == [k \in DOMAIN block |-> Field(block[k])]
        named == SelectSeq(fields, LAMBDA f : f.name = name)
    IN  [k \in DOMAIN named |-> named[k].value]

EventsOf(bytes) ==
    LET lines == Lines(bytes)
        blocks == SetToSortSeq(Blocks(lines), LAMBDA x, y : x[1] < y[1])
        data(b) == Values(SubSeq(lines, b[1], b[2]), <<"d">>)
        types(b) == Values(SubSeq(lines, b[1], b[2]), <<"e">>)
        withData == SelectSeq(blocks, LAMBDA b : data(b) # <<>>)
    IN  [k \in DOMAIN withData |->
            [data |-> data(withData[k]),
             event |-> IF types(withData[k]) = <<>> THEN <<>>
                       ELSE Last(types(withData[k]))]]

\* The events are those of the lines, wherever carriage returns and line
\* feeds meet, and none of them is lost by a limit that no event reaches.
EventsAreThoseOfTheLines(bytes) ==
    LET parsed == parseSse(bytes, Len(bytes))
    IN  ~parsed.failed /\ parsed.events = EventsOf(bytes)

\* An event is taken only whole: a limit cuts the events at one of them.
LimitCutsBetweenEvents(bytes) ==
    \A n \in 1..Len(bytes) :
        IsPrefix(parseSse(bytes, n).events, EventsOf(bytes))
=============================================================================
