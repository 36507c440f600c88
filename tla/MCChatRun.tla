----------------------------- MODULE MCChatRun -----------------------------
(***************************************************************************)
(* A small instance of ChatRun for TLC: a credential that overlaps itself, *)
(* a provider that sends the interface up to three characters at a time,   *)
(* and one that sends the one-shot command what the parser looks for; and  *)
(* the parser of server-sent events, which has no state of interest, over  *)
(* all short bodies.                                                       *)
(***************************************************************************)
EXTENDS ChatRun, SseParser

CONSTANTS a, b

UpToThree == UNION {[1..n -> {a, b}] : n \in 1..3}
AroundAgain == <<a, b, a, a>>

\* Two models, one of them in every guise of interest.
Row(id, status, reasoning, efforts) ==
    [id |-> id, status |-> status, reasoning |-> reasoning,
     efforts |-> efforts]
SomeRows == {Row("malformed", "available", TRUE, {"high"}),
             Row("m1", "available", TRUE, {"high", "none", "huge"}),
             Row("m1", "deprecated", FALSE, {"high"}),
             Row("m1", "unavailable", TRUE, {"high"}),
             Row("m2", "available", TRUE, {}),
             Row("m2", "available", TRUE, {"off"})}
Chosen == [model : {"m1", "m2"}, intent : {"auto", "off", "high"}]

Fence == <<"tick", "tick", "tick">>
Pieces == {<<c>> : c \in {"$", "5", "x", "\\", "(", ")", "tick", "\n", " ", a}}
              \cup {<<"$", "x">>, Fence, Fence \o <<"math", "\n", "x", "\n">>}

\* One formula in each pair of delimiters, and fences that are empty or long.
Formula(opening, tex, closing) ==
    [source |-> opening \o tex \o closing, tex |-> tex]
SomeFormulas ==
    {Formula(<<"$">>, <<"x">>, <<"$">>),
     Formula(<<"$", "$">>, <<"x">>, <<"$", "$">>),
     Formula(<<"\\", "(">>, <<"x">>, <<"\\", ")">>),
     Formula(Fence \o <<"math", "\n">>, <<>>, Fence),
     Formula(Fence \o <<"math", "\n">>, <<"x">>, <<"\n">> \o Fence),
     Formula(Fence \o <<"tick", "math", "\n">>, <<"x">>,
             <<"\n", "tick">> \o Fence \o <<"\n">>)}

Bytes == {"lf", "cr", ":", " ", "d", "e"}

\* No event is lost or made up, and a limit cuts between events.
ASSUME SseEvents ==
    \A bytes \in BoundedSeq(Bytes, 5) :
        EventsAreThoseOfTheLines(bytes) /\ LimitCutsBetweenEvents(bytes)
=============================================================================
