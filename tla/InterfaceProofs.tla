---------------------------- MODULE InterfaceProofs ----------------------------
(***************************************************************************)
(* Theorems about what the interface keeps, for every value of the         *)
(* constants: the composer, its overlays and the formula view (Composer);  *)
(* and two small parts, each a module of its own, the harness of the       *)
(* controller (HarnessCache), for any callers, connections and             *)
(* credentials, and the scrolling of the conversation (Scroll), for any    *)
(* heights.                                                                *)
(***************************************************************************)
EXTENDS Composer, BasicLemmas, TLAPS

(***************************************************************************)
(* The composer.                                                           *)
(***************************************************************************)
Lines == Text \ {<<>>}

\* The line being written, and the history: no line of it is empty.
LineInv ==
    /\ composer \in [value : Text, cursor : Nat, history : Seq(Lines),
                     index : Nat \cup {None}, draft : Text]
    /\ composer.cursor <= Len(composer.value)
    /\ composer.index = None \/ composer.index \in 1..Len(composer.history)
    /\ typed \in Text
    /\ TypedComesBack

\* Everything before the cursor, the token, everything after it.
LEMMA Inserted ==
    ASSUME NEW value \in Text, NEW n \in 0..Len(value), NEW token \in Tokens
    PROVE  /\ InsertAt(value, n + 1, token) \in Text
           /\ Len(InsertAt(value, n + 1, token)) = Len(value) + 1
<1> DEFINE before == SubSeq(value, 1, (n + 1) - 1)
           after == SubSeq(value, n + 1, Len(value))
<1>1. before \in Seq(Tokens) /\ Len(before) = n
  BY DEF Text
<1>2. after \in Seq(Tokens) /\ Len(after) = Len(value) - n
  BY DEF Text
<1>3. <<token>> \in Seq(Tokens) /\ Len(<<token>>) = 1
  OBVIOUS
<1>4. InsertAt(value, n + 1, token) = before \o <<token>> \o after
  BY DEF InsertAt
<1> HIDE DEF before, after
<1>5. before \o <<token>> \in Seq(Tokens) /\ Len(before \o <<token>>) = n + 1
  BY <1>1, <1>3
<1> DEFINE front == before \o <<token>>
<1> HIDE DEF front
<1>6. front \in Seq(Tokens) /\ Len(front) = n + 1
  BY <1>5 DEF front
<1>7. front \o after \in Seq(Tokens) /\ Len(front \o after) = (n + 1) + (Len(value) - n)
  BY <1>2, <1>6
<1>8. InsertAt(value, n + 1, token) = front \o after
  BY <1>4 DEF front
<1>9. Len(value) \in Nat
  BY DEF Text
<1>10. (n + 1) + (Len(value) - n) = Len(value) + 1
  BY <1>9
<1>11. front \o after \in Text
  BY <1>7 DEF Text
<1>12. QED
  BY <1>7, <1>8, <1>10, <1>11

\* An edit makes the line the user's own and leaves the history.
LEMMA Edited ==
    ASSUME LineInv, NEW value \in Text, NEW cursor \in Int,
           composer' = ComposerSet(value, cursor), typed' = value
    PROVE  LineInv' /\ composer'.value = value
<1> DEFINE at == Clamp(cursor, 0, Len(value))
<1>1. Len(value) \in Nat
  BY DEF Text
<1>2. at \in Nat /\ at <= Len(value)
  BY <1>1 DEF Clamp
<1>3. /\ DOMAIN composer = {"value", "cursor", "history", "index", "draft"}
      /\ composer.history \in Seq(Lines) /\ composer.draft \in Text
  BY DEF LineInv
<1> HIDE DEF at
<1>4. composer' = [composer EXCEPT !.value = value, !.cursor = at, !.index = None,
                      !.draft = IF composer.index = None THEN @ ELSE value]
  BY DEF ComposerSet, at
<1>5. /\ composer' \in [value : Text, cursor : Nat, history : Seq(Lines),
                        index : Nat \cup {None}, draft : Text]
      /\ composer'.value = value /\ composer'.cursor = at /\ composer'.index = None
  <2>1. composer \in [value : Text, cursor : Nat, history : Seq(Lines),
                      index : Nat \cup {None}, draft : Text]
    BY DEF LineInv
  <2>2. QED
    BY <1>2, <1>4, <2>1
<1>6. QED
  BY <1>2, <1>5 DEF LineInv, TypedComesBack

\* After a submission, a session that was loaded or /new: nothing is written.
LEMMA Emptied ==
    ASSUME LineInv, NEW history \in Seq(Lines),
           composer' = Blank(history), typed' = <<>>
    PROVE  LineInv'
<1>1. <<>> \in Text /\ Len(<<>>) = 0
  BY DEF Text
<1>2. QED
  BY <1>1 DEF LineInv, TypedComesBack, Blank

LEMMA Pushed ==
    ASSUME NEW history \in Seq(Lines), NEW value \in Text
    PROVE  PushHistory(history, value) \in Seq(Lines)
<1> DEFINE next == Append(RemoveFirst(history, value), value)
           n == Clamp(HistorySize, 0, Len(next))
<1>1. CASE value = <<>>
  BY <1>1 DEF PushHistory
<1>2. CASE value # <<>>
  <2>1. RemoveFirst(history, value) \in Seq(Lines) /\ value \in Lines
    BY <1>2, RemoveFirstElements DEF Lines
  <2>2. next \in Seq(Lines) /\ Len(next) \in Nat
    BY <2>1
  <2>3. n \in 0..Len(next)
    BY <2>2, ComposerAssumption DEF Clamp
  <2>4. PushHistory(history, value) = SubSeq(next, Len(next) - n + 1, Len(next))
    BY <1>2 DEF PushHistory
  <2> HIDE DEF next, n
  <2>5. SubSeq(next, Len(next) - n + 1, Len(next)) \in Seq(Lines)
    BY <2>2, <2>3
  <2>6. QED
    BY <2>4, <2>5
<1>3. QED
  BY <1>1, <1>2

\* The arrows of the history: the line being written is kept as the draft.
LEMMA Browsed ==
    ASSUME LineInv, typed' = typed,
           composer' = HistoryPrevious \/ composer' = HistoryNext
    PROVE  LineInv'
<1> DEFINE Records == [value : Text, cursor : Nat, history : Seq(Lines),
                       index : Nat \cup {None}, draft : Text]
<1>1. /\ composer \in Records /\ None \notin Nat /\ Len(composer.history) \in Nat
      /\ composer.value \in Text /\ composer.draft \in Text
  BY ComposerAssumption DEF LineInv
<1>2. ASSUME NEW i \in 1..Len(composer.history)
      PROVE  /\ Recall(i) \in Records
             /\ Recall(i).value = composer.history[i] /\ Recall(i).index = i
             /\ Recall(i).history = composer.history /\ Recall(i).draft = composer.draft
             /\ Recall(i).cursor = Len(composer.history[i])
  <2>1. composer.history[i] \in Lines
    BY <1>1
  <2>2. composer.history[i] \in Text /\ Len(composer.history[i]) \in Nat
    BY <2>1 DEF Lines, Text
  <2>3. Recall(i) = [composer EXCEPT !.index = i, !.value = composer.history[i],
                        !.cursor = Len(composer.history[i])]
    BY DEF Recall
  <2>4. i \in Nat \cup {None}
    BY <1>1
  <2>5. QED
    BY <1>1, <2>2, <2>3, <2>4
<1>3. CASE composer' = composer
  BY <1>3 DEF LineInv, TypedComesBack
\* An older line is shown; the draft was the line being written already.
<1>4. ASSUME NEW i \in 1..Len(composer.history), composer' = Recall(i),
             composer.draft = typed
      PROVE  LineInv'
  <2>1. /\ composer' \in Records
        /\ composer'.value = composer'.history[composer'.index]
        /\ composer'.index = i /\ composer'.history = composer.history
        /\ composer'.cursor = Len(composer'.value) /\ composer'.draft = typed
    BY <1>2, <1>4
  <2>2. composer'.index # None
    BY <1>1, <2>1
  <2>3. Len(composer'.value) \in Nat
    BY <2>1 DEF Text
  <2>4. typed' \in Text
    BY DEF LineInv
  <2>5. QED
    BY <2>1, <2>2, <2>3, <2>4 DEF LineInv, TypedComesBack
<1>5. CASE composer.history # <<>> /\ composer.index = None /\ composer' = HistoryPrevious
  <2> DEFINE i == Len(composer.history)
  <2>1. i \in 1..Len(composer.history) /\ composer.value = typed
    BY <1>1, <1>5 DEF LineInv, TypedComesBack
  <2>2. composer' = [Recall(i) EXCEPT !.draft = composer.value]
    BY <1>5 DEF HistoryPrevious
  <2>3. /\ composer' \in Records
        /\ composer'.value = composer'.history[composer'.index]
        /\ composer'.index = i /\ composer'.history = composer.history
        /\ composer'.cursor = Len(composer'.value) /\ composer'.draft = typed
    BY <1>1, <1>2, <2>1, <2>2
  <2>4. Len(composer'.value) \in Nat /\ i \in Nat
    BY <1>1, <2>3 DEF Text
  <2>5. typed' \in Text
    BY DEF LineInv
  <2>6. QED
    BY <1>1, <2>1, <2>3, <2>4, <2>5 DEF LineInv, TypedComesBack
<1>6. CASE composer.history # <<>> /\ composer.index # None /\ composer' = HistoryPrevious
  <2>1. composer.index \in 1..Len(composer.history) /\ composer.draft = typed
    BY <1>6 DEF LineInv, TypedComesBack
  <2>2. Clamp(composer.index - 1, 1, Len(composer.history)) \in 1..Len(composer.history)
    BY <1>1, <2>1 DEF Clamp
  <2>3. QED
    BY <1>4, <1>6, <2>1, <2>2 DEF HistoryPrevious
<1>7. CASE composer.index # None /\ composer' = HistoryNext
  <2>1. composer.index \in 1..Len(composer.history) /\ composer.draft = typed
    BY <1>7 DEF LineInv, TypedComesBack
  <2>2. CASE composer.index = Len(composer.history)
    <3>1. composer' = [composer EXCEPT !.index = None, !.value = composer.draft,
                           !.cursor = Len(composer.draft)]
      BY <1>7, <2>2 DEF HistoryNext
    <3>2. Len(composer.draft) \in Nat
      BY <1>1 DEF Text
    <3>3. /\ composer' \in Records /\ composer'.index = None
          /\ composer'.value = typed /\ composer'.cursor = Len(composer'.value)
      BY <1>1, <2>1, <3>1, <3>2
    <3>4. QED
      BY <2>1, <3>2, <3>3 DEF LineInv, TypedComesBack
  <2>3. CASE composer.index # Len(composer.history)
    <3>1. composer.index + 1 \in 1..Len(composer.history)
      BY <1>1, <2>1, <2>3
    <3>2. QED
      BY <1>4, <1>7, <2>1, <2>3, <3>1 DEF HistoryNext
  <2>4. QED
    BY <2>2, <2>3
<1>8. QED
  BY <1>3, <1>5, <1>6, <1>7 DEF HistoryPrevious, HistoryNext

\* What a key, an answer or a command does to the line.
LEMMA LineCommand == LineInv /\ RunCommand /\ UNCHANGED line => LineInv'
BY DEF LineInv, line, TypedComesBack

\* The steps that leave the line alone.
OtherKey ==
    \/ ClearScreen \/ EscapeOverlay \/ MoveSelection \/ EditField \/ ReturnCloses
    \/ ReturnPicksProvider \/ Connect \/ LoadSession \/ StageDocument
    \/ ReplyDropped \/ ConnectFails \/ ConnectReturns \/ ListReturns
    \/ StageReturns \/ LoadRefused \/ Delta \/ RunEnds \/ FormulaEffect
    \/ CloseFormula \/ AbandonDraft \/ MoveFormula \/ ShowSource
    \/ StartEdit \/ EditDraft \/ ApplyDraft

LEMMA LineAlone == OtherKey \/ UNCHANGED vars => UNCHANGED line
<1> USE DEF line
<1>1. ClearScreen \/ EscapeOverlay \/ EditField \/ ReturnCloses \/ ReturnPicksProvider
        => UNCHANGED line
  BY DEF ClearScreen, EscapeOverlay, EditField, ReturnCloses, ReturnPicksProvider, Show
<1>2. MoveSelection => UNCHANGED line
  BY DEF MoveSelection, Show
<1>3. Connect \/ LoadSession \/ StageDocument => UNCHANGED line
  BY DEF Connect, Show, LoadSession, StageDocument
<1>4. ReplyDropped \/ ConnectFails \/ ConnectReturns \/ ListReturns => UNCHANGED line
  BY DEF ReplyDropped, ConnectFails, ConnectReturns, ListReturns, ReplyShows
<1>5. StageReturns \/ LoadRefused => UNCHANGED line
  BY DEF StageReturns, LoadRefused, ReplyShows
<1>6. Delta \/ RunEnds => UNCHANGED line
  BY DEF Delta, RunEnds
<1>7. FormulaEffect \/ CloseFormula \/ AbandonDraft \/ MoveFormula \/ ShowSource
        => UNCHANGED line
  BY DEF FormulaEffect, CloseFormula, AbandonDraft, MoveFormula, ShowSource, SetView
<1>8. StartEdit \/ EditDraft \/ ApplyDraft => UNCHANGED line
  BY DEF StartEdit, EditDraft, ApplyDraft, SetView
<1>9. UNCHANGED vars => UNCHANGED line
  BY DEF vars
<1>10. QED
  BY <1>1, <1>2, <1>3, <1>4, <1>5, <1>6, <1>7, <1>8, <1>9 DEF OtherKey

\* Every step is one of these.
LEMMA Steps ==
    Next => \/ OtherKey \/ TypeText \/ CompleteCommand \/ Backspace \/ MoveCursor
            \/ BrowseHistory \/ Submit \/ ReturnRunsCommand \/ LoadReturns \/ InsertFormula
BY DEF Next, ComposerKey, OverlayKey, Reply, FormulaKey, OtherKey

LEMMA InitLine == Init => LineInv
<1>1. <<>> \in Text /\ <<>> \in Seq(Lines) /\ Len(<<>>) = 0
  BY DEF Text
<1>2. QED
  BY <1>1 DEF Init, Blank, LineInv, TypedComesBack

LEMMA NextLine == LineInv /\ [Next]_vars => LineInv'
<1> SUFFICES ASSUME LineInv, [Next]_vars PROVE LineInv'
  OBVIOUS
<1>1. /\ composer.value \in Text /\ Len(composer.value) \in Nat
      /\ composer.history \in Seq(Lines) /\ composer.cursor \in 0..Len(composer.value)
  BY DEF LineInv, Text
<1>2. ASSUME NEW value \in Text, NEW cursor \in Int, Edit(value, cursor) PROVE LineInv'
  BY <1>2, Edited DEF Edit
<1>3. CASE UNCHANGED line
  BY <1>3 DEF LineInv, TypedComesBack, line
<1>4. CASE TypeText
  <2>1. PICK token \in Tokens :
           Edit(InsertAt(composer.value, composer.cursor + 1, token), composer.cursor + 1)
    BY <1>4 DEF TypeText, Tokens
  <2>2. InsertAt(composer.value, composer.cursor + 1, token) \in Text
    BY <1>1, Inserted
  <2>3. QED
    BY <1>1, <1>2, <2>1, <2>2
<1>5. CASE CompleteCommand
  BY <1>1, <1>2, <1>5 DEF CompleteCommand
<1>6. CASE Backspace
  <2>1. RemoveAt(composer.value, composer.cursor) \in Text
    BY <1>1, <1>6, RemoveAtPlaces DEF Backspace, Text
  <2>2. Edit(RemoveAt(composer.value, composer.cursor), composer.cursor - 1)
    BY <1>6 DEF Backspace
  <2>3. QED
    BY <1>1, <1>2, <2>1, <2>2
<1>7. CASE MoveCursor
  <2>1. PICK step \in {-1, 1} : Edit(composer.value, composer.cursor + step)
    BY <1>7 DEF MoveCursor
  <2>2. QED
    BY <1>1, <1>2, <2>1
<1>8. CASE BrowseHistory
  BY <1>8, Browsed DEF BrowseHistory
<1>9. CASE Submit
  <2>1. composer' = Blank(PushHistory(composer.history, composer.value)) /\ typed' = <<>>
    BY <1>9 DEF Submit
  <2>2. QED
    BY <1>1, <2>1, Pushed, Emptied
<1>10. CASE ReturnRunsCommand
  <2>1. \/ UNCHANGED line
        \/ composer' = Blank(composer.history) /\ typed' = <<>>
    BY <1>10 DEF ReturnRunsCommand
  <2>2. QED
    BY <1>1, <1>3, <2>1, Emptied
<1>11. CASE LoadReturns
  <2>1. composer' = Blank(composer.history) /\ typed' = <<>>
    BY <1>11 DEF LoadReturns
  <2>2. QED
    BY <1>1, <2>1, Emptied
<1>12. CASE InsertFormula
  <2> DEFINE value == InsertAt(composer.value, composer.cursor + 1, Math)
  <2>1. composer' = ComposerSet(value, composer.cursor + 1) /\ typed' = value
    BY <1>12 DEF InsertFormula
  <2>2. value \in Text
    BY <1>1, Inserted DEF Tokens
  <2> HIDE DEF value
  <2>3. QED
    BY <1>1, <2>1, <2>2, Edited
<1>13. QED
  BY <1>3, <1>4, <1>5, <1>6, <1>7, <1>8, <1>9, <1>10, <1>11, <1>12, Steps, LineAlone

\* The line the user writes comes back: while nothing is recalled the composer
\* holds it, and while an old line is shown it is what the down arrow returns
\* to (App.tsx:1366, reducer.ts:432), for any history, any length of the line
\* and whatever arrives in between.
THEOREM LineComesBack == Spec => []TypedComesBack
<1>1. LineInv => TypedComesBack
  BY DEF LineInv
<1>2. QED
  BY <1>1, InitLine, NextLine, PTL DEF Spec

\* A prompt written during a run stays in the composer until the user sends
\* it (App.tsx:1266): a step of a run that goes on never empties a line of
\* more than one token, whatever was asked for before and arrives now.
THEOREM PromptStays == Spec => PromptWaits
<1>1. ASSUME LineInv, [Next]_vars, RunActive, activeRun' = activeRun,
             composer.index = None, ~IsCommand(composer.value), Len(composer.value) > 1
      PROVE  composer'.value # <<>>
  <2>1. /\ composer.value \in Text /\ Len(composer.value) \in Nat /\ composer.value # <<>>
        /\ composer.history \in Seq(Lines) /\ composer.cursor \in 0..Len(composer.value)
    BY <1>1 DEF LineInv, Text
  <2>2. ASSUME NEW value \in Text, NEW cursor \in Int, Len(value) > 0,
               composer' = ComposerSet(value, cursor), typed' = value
        PROVE  composer'.value # <<>>
    BY <1>1, <2>2, Edited DEF Text
  <2>3. CASE UNCHANGED line
    BY <2>1, <2>3 DEF line
  <2>4. CASE TypeText
    <3>1. PICK token \in Tokens :
             Edit(InsertAt(composer.value, composer.cursor + 1, token), composer.cursor + 1)
      BY <2>4 DEF TypeText, Tokens
    <3> DEFINE value == InsertAt(composer.value, composer.cursor + 1, token)
    <3>2. value \in Text /\ Len(value) > 0
      BY <2>1, Inserted
    <3> HIDE DEF value
    <3>3. composer' = ComposerSet(value, composer.cursor + 1) /\ typed' = value
      BY <3>1 DEF Edit, value
    <3>4. QED
      BY <2>1, <2>2, <3>2, <3>3
  <2>5. CASE CompleteCommand
    BY <1>1, <2>5 DEF CompleteCommand
  <2>6. CASE Backspace
    <3> DEFINE value == RemoveAt(composer.value, composer.cursor)
    <3>1. composer.cursor \in 1..Len(composer.value) /\ composer.value \in Seq(Tokens)
      BY <2>1, <2>6 DEF Backspace, Text
    <3>2. value \in Seq(Tokens) /\ Len(value) = Len(composer.value) - 1
      BY <3>1, RemoveAtPlaces
    <3>3. value \in Text
      BY <3>2 DEF Text
    <3>4. composer' = ComposerSet(value, composer.cursor - 1) /\ typed' = value
      BY <2>6 DEF Backspace, Edit
    <3> HIDE DEF value
    <3>5. QED
      BY <1>1, <2>1, <2>2, <3>2, <3>3, <3>4
  <2>7. CASE MoveCursor
    <3>1. PICK step \in {-1, 1} :
             composer' = ComposerSet(composer.value, composer.cursor + step)
             /\ typed' = composer.value
      BY <2>7 DEF MoveCursor, Edit
    <3>2. QED
      BY <1>1, <2>1, <2>2, <3>1
  \* A line of the history is never empty.
  <2>8. CASE BrowseHistory
    <3>1. CASE composer' = composer
      BY <2>1, <3>1
    <3>2. CASE composer.history # <<>>
               /\ composer' = [Recall(Len(composer.history)) EXCEPT !.draft = composer.value]
      <4> DEFINE last == Len(composer.history)
      <4>1. last \in 1..Len(composer.history)
        BY <2>1, <3>2
      <4>2. composer.history[last] \in Lines
        BY <2>1, <4>1
      <4>3. DOMAIN composer = {"value", "cursor", "history", "index", "draft"}
        BY <1>1 DEF LineInv
      <4>4. composer'.value = composer.history[last]
        BY <3>2, <4>3 DEF Recall
      <4>5. QED
        BY <4>2, <4>4 DEF Lines
    <3>3. QED
      BY <1>1, <2>8, <3>1, <3>2 DEF BrowseHistory, HistoryPrevious, HistoryNext
  <2>9. ~Submit
    BY <1>1 DEF Submit, Accepts
  <2>10. CASE ReturnRunsCommand
    <3>1. UNCHANGED line
      BY <1>1, <2>10 DEF ReturnRunsCommand
    <3>2. QED
      BY <2>3, <3>1
  <2>11. ~LoadReturns /\ ~InsertFormula
    BY <1>1 DEF LoadReturns, MayLoad, InsertFormula
  <2>12. QED
    BY <1>1, <2>3, <2>4, <2>5, <2>6, <2>7, <2>8, <2>9, <2>10, <2>11, Steps, LineAlone
<1>2. QED
  BY <1>1, InitLine, NextLine, PTL DEF Spec, PromptWaits

(***************************************************************************)
(* The overlays.  A form is locked only while its request is on its way,   *)
(* and no run can start under it.                                          *)
(***************************************************************************)
FormInv ==
    /\ {"kind", "text", "selected", "busy"} \subseteq DOMAIN overlay
    /\ overlay.busy \in BOOLEAN
    /\ overlay.busy => overlay.kind = "provider-form" /\ ~RunActive
    /\ FormIsAnswered

LEMMA InitForm == Init => FormInv
BY DEF Init, Closed, FormInv, FormIsAnswered

\* Whatever opens another overlay, or the form as it was before it was sent.
LEMMA NotBusy ==
    ASSUME {"kind", "text", "selected", "busy"} \subseteq DOMAIN overlay', ~overlay'.busy,
           overlay'.busy \in BOOLEAN
    PROVE  FormInv'
BY DEF FormInv, FormIsAnswered

LEMMA Opened ==
    /\ \A kind : /\ {"kind", "text", "selected", "busy"} \subseteq DOMAIN Open(kind)
                 /\ Open(kind).busy = FALSE
    /\ \A text : /\ {"kind", "text", "selected", "busy"} \subseteq DOMAIN Form(text)
                 /\ Form(text).busy = FALSE
    /\ \A text : /\ {"kind", "text", "selected", "busy"}
                        \subseteq DOMAIN [Open("read") EXCEPT !.text = text]
                 /\ [Open("read") EXCEPT !.text = text].busy = FALSE
    /\ {"kind", "text", "selected", "busy"} \subseteq DOMAIN Closed /\ Closed.busy = FALSE
<1>1. /\ {"kind", "text", "selected", "busy"} \subseteq DOMAIN Closed /\ Closed.busy = FALSE
      /\ \A kind : /\ {"kind", "text", "selected", "busy"} \subseteq DOMAIN Open(kind)
                   /\ Open(kind).busy = FALSE
  BY DEF Closed, Open
<1>2. \A text : /\ {"kind", "text", "selected", "busy"} \subseteq DOMAIN Form(text)
                /\ Form(text).busy = FALSE
  BY <1>1 DEF Form
<1>3. QED
  BY <1>1, <1>2

LEMMA OverlayKept ==
    ASSUME FormInv, overlay' = overlay, connects' = connects, leaving' \in {leaving, TRUE},
           activeRun' = activeRun \/ ~RunActive',
           overlay.busy /\ ~leaving' => \A r \in waiting :
               r.what = "connect" /\ r.gen = connects => r \in waiting'
    PROVE  FormInv'
BY DEF FormInv, FormIsAnswered, RunActive

\* A command of the composer or of the list of commands: it is given while no
\* form is on the screen.
LEMMA CommandForm == FormInv /\ ~overlay.busy /\ RunCommand => FormInv'
<1> SUFFICES ASSUME FormInv, ~overlay.busy, RunCommand PROVE FormInv'
  OBVIOUS
<1>1. CASE overlay' = Closed \/ \E kind : overlay' = Open(kind)
  BY <1>1, Opened, NotBusy
<1>2. CASE UNCHANGED overlay
  BY <1>2, NotBusy DEF FormInv
<1>3. CASE SafeCommand
  <2>1. CASE \E kind : OpenOverlay(kind)
    BY <1>1, <2>1 DEF OpenOverlay
  <2>2. CASE OpenFormula
    BY <1>1, <2>2 DEF OpenFormula
  <2>3. CASE Exit
    BY <1>2, <2>3 DEF Exit
  <2>4. QED
    BY <1>3, <2>1, <2>2, <2>3 DEF SafeCommand
<1>4. CASE OtherCommand
  <2>1. (\E kind : overlay' = Open(kind)) \/ overlay' = Closed
    BY <1>4 DEF OtherCommand, OpenOverlay, AskFor
  <2>2. QED
    BY <1>1, <2>1
<1>5. CASE NothingHappens
  BY <1>1, <1>5 DEF NothingHappens
<1>6. QED
  BY <1>3, <1>4, <1>5 DEF RunCommand

LEMMA NextForm == FormInv /\ [Next]_vars => FormInv'
<1> SUFFICES ASSUME FormInv, [Next]_vars PROVE FormInv'
  OBVIOUS
<1>1. CASE overlay' = Closed \/ \E kind : overlay' = Open(kind)
  BY <1>1, Opened, NotBusy
<1>2. CASE \E text : overlay' = Form(text)
  BY <1>2, Opened, NotBusy
<1>3. CASE UNCHANGED <<overlay, connects, waiting, leaving, activeRun>>
  BY <1>3, OverlayKept
<1>4. ASSUME ~overlay.busy,
             \E n, m : overlay' = [overlay EXCEPT !.text = n, !.selected = m]
      PROVE  FormInv'
  <2>1. PICK n, m : overlay' = [overlay EXCEPT !.text = n, !.selected = m]
    BY <1>4
  <2>2. DOMAIN overlay' = DOMAIN overlay /\ overlay'.busy = overlay.busy
    BY <2>1
  <2>3. QED
    BY <1>4, <2>2, NotBusy DEF FormInv
<1>5. CASE ComposerKey
  <2>1. CASE TypeText \/ CompleteCommand \/ Backspace \/ MoveCursor
    BY <1>3, <2>1 DEF TypeText, CompleteCommand, Backspace, MoveCursor, Edit, requests, session
  <2>2. CASE BrowseHistory \/ ClearScreen
    BY <1>3, <2>2 DEF BrowseHistory, ClearScreen, requests, session
  <2>3. CASE Submit
    <3>1. ~overlay.busy
      BY <2>3 DEF Submit, ToComposer, FormInv
    <3>2. RunCommand \/ NewSession \/ SubmitPrompt
      BY <2>3 DEF Submit
    <3>3. QED
      BY <1>1, <3>1, <3>2, CommandForm DEF NewSession, SubmitPrompt, NothingHappens
  <2>4. QED
    BY <1>5, <2>1, <2>2, <2>3 DEF ComposerKey
<1>6. CASE OverlayKey
  <2>1. CASE EscapeOverlay \/ ReturnCloses \/ ReturnPicksProvider
    BY <1>1, <1>2, <2>1 DEF EscapeOverlay, ReturnCloses, ReturnPicksProvider, Show
  <2>2. CASE MoveSelection
    <3>1. overlay.kind # "provider-form"
      BY <2>2 DEF MoveSelection, Lists
    <3>2. ~overlay.busy
      BY <3>1 DEF FormInv
    <3>3. PICK at : overlay' = [overlay EXCEPT !.selected = at]
      BY <2>2 DEF MoveSelection, Show
    <3>4. DOMAIN overlay' = DOMAIN overlay /\ overlay'.busy = overlay.busy
      BY <3>3
    <3>5. QED
      BY <3>2, <3>4, NotBusy DEF FormInv
  <2>3. CASE EditField
    BY <1>4, <2>3 DEF EditField, Show
  <2>4. CASE ReturnRunsCommand
    <3>1. ~overlay.busy
      BY <2>4 DEF ReturnRunsCommand, FormInv
    <3>2. RunCommand \/ NewSession
      BY <2>4 DEF ReturnRunsCommand
    <3>3. QED
      BY <1>1, <3>1, <3>2, CommandForm DEF NewSession
  \* The new request answers for the form it locks.
  <2>5. CASE Connect
    <3>1. CASE overlay' = Form(overlay.text)
      BY <1>2, <3>1
    <3>2. CASE /\ connects' = connects + 1
               /\ overlay' = [overlay EXCEPT !.busy = TRUE]
               /\ Ask("connect", connects + 1, overlay.text)
               /\ activeRun' = activeRun
      <4>1. /\ DOMAIN overlay' = DOMAIN overlay /\ overlay'.busy = TRUE
            /\ overlay'.kind = overlay.kind
        BY <3>2 DEF FormInv
      <4>2. overlay'.kind = "provider-form" /\ ~RunActive'
        BY <2>5, <3>2, <4>1 DEF Connect, RunActive
      <4> DEFINE r == [what |-> "connect", gen |-> connects + 1, text |-> overlay.text]
      <4>3. r \in waiting' /\ r.what = "connect" /\ r.gen = connects'
        BY <3>2 DEF Ask
      <4>4. QED
        BY <4>1, <4>2, <4>3 DEF FormInv, FormIsAnswered
    <3>3. QED
      BY <2>5, <3>1, <3>2 DEF Connect, Show, session
  <2>6. CASE LoadSession \/ StageDocument
    BY <2>6, OverlayKept DEF LoadSession, StageDocument, Ask, session
  <2>7. QED
    BY <1>6, <2>1, <2>2, <2>3, <2>4, <2>5, <2>6 DEF OverlayKey
<1>7. CASE Reply
  <2>1. CASE ConnectFails \/ ConnectReturns \/ ListReturns \/ LoadReturns
    <3>1. \/ overlay' = Closed \/ overlay' = Open("sessions")
          \/ \E text : overlay' = Form(text)
      BY <2>1, Zenon DEF ConnectFails, ConnectReturns, ListReturns, LoadReturns, ReplyShows
    <3>2. QED
      BY <1>1, <1>2, <3>1
  <2>2. CASE StageReturns
    <3>1. overlay' = Closed \/ \E text : overlay' = [Open("read") EXCEPT !.text = text]
      BY <2>2 DEF StageReturns, ReplyShows
    <3>2. QED
      BY <1>1, <3>1, Opened, NotBusy
  <2>3. CASE LoadRefused
    <3>1. PICK request \in waiting, o \in {Closed, overlay} :
             request.what = "load" /\ ReplyShows(request, o)
      BY <2>3 DEF LoadRefused
    <3>2. CASE o = Closed
      BY <1>1, <3>1, <3>2 DEF ReplyShows
    <3>3. CASE o = overlay
      BY <3>1, <3>3, OverlayKept DEF ReplyShows, Answered
    <3>4. QED
      BY <3>1, <3>2, <3>3
  \* The request of a locked form is not dropped: it is the newest, and no run
  \* is active.
  <2>4. CASE ReplyDropped
    <3>1. PICK request \in waiting :
             (~Current(request) \/ RunActive) /\ Answered(request) /\ overlay' = overlay
      BY <2>4 DEF ReplyDropped
    <3>2. /\ connects' = connects /\ leaving' = leaving /\ activeRun' = activeRun
          /\ waiting' = waiting \ {request}
      BY <3>1 DEF Answered
    <3>3. ASSUME overlay.busy, ~leaving', NEW r \in waiting, r.what = "connect", r.gen = connects
          PROVE  r \in waiting'
      <4>1. Current(r) /\ ~RunActive
        BY <3>2, <3>3 DEF Current, FormInv
      <4>2. r # request
        BY <3>1, <4>1
      <4>3. QED
        BY <3>2, <4>2
    <3>4. QED
      BY <3>1, <3>2, <3>3, OverlayKept
  <2>5. QED
    BY <1>7, <2>1, <2>2, <2>3, <2>4 DEF Reply
<1>8. CASE Delta \/ FormulaEffect
  BY <1>3, <1>8 DEF Delta, FormulaEffect, SetView, requests, session
<1>9. CASE RunEnds
  BY <1>9, OverlayKept DEF RunEnds, RunActive, requests
<1>10. CASE FormulaKey
  <2>1. CASE CloseFormula \/ AbandonDraft \/ MoveFormula \/ ShowSource
    BY <1>3, <2>1 DEF CloseFormula, AbandonDraft, MoveFormula, ShowSource, SetView, requests, session
  <2>2. CASE StartEdit \/ EditDraft \/ ApplyDraft \/ InsertFormula
    BY <1>3, <2>2 DEF StartEdit, EditDraft, ApplyDraft, InsertFormula, SetView, requests, session
  <2>3. QED
    BY <1>10, <2>1, <2>2 DEF FormulaKey
<1>11. CASE UNCHANGED vars
  BY <1>3, <1>11 DEF vars
<1>12. QED
  BY <1>5, <1>6, <1>7, <1>8, <1>9, <1>10, <1>11 DEF Next

\* A provider form that says it is connecting will be answered (App.tsx:1645):
\* its request is still on its way and is the newest, for any number of
\* connections, loads, documents and runs in between.
THEOREM LockedFormIsAnswered == Spec => []FormIsAnswered
<1>1. FormInv => FormIsAnswered
  BY DEF FormInv
<1>2. QED
  BY <1>1, InitForm, NextForm, PTL DEF Spec

(***************************************************************************)
(* The formula view.  What was written in it, or is being written, was     *)
(* written for the formula the view shows.                                 *)
(***************************************************************************)
ViewFields == {"key", "source", "mode", "showSource", "draft", "applied", "for"}

OwnDraft(v) ==
    /\ ViewFields \subseteq DOMAIN v
    /\ v.applied # "none" \/ v.mode = "edit" => v.for = v.source

DraftInv == (view # None => OwnDraft(view)) /\ DraftStaysWithFormula

LEMMA InitDraft == Init => DraftInv
BY DEF Init, DraftInv, DraftStaysWithFormula

LEMMA Selected == \A f : OwnDraft(SelectFormula(f)) /\ SelectFormula(f).source = f.source
BY DEF OwnDraft, SelectFormula, ViewFields

\* A key waits for the effect, so it finds the view on the formula as it is.
LEMMA ViewIsCurrent ==
    ASSUME ~EffectLag, ToFormula, ViewKey # 0
    PROVE  Formulas[ViewKey].source = view.source
<1>1. view # None /\ view = Reconciled(view, Formulas)
  BY DEF ToFormula, Ready, EffectRan
<1>2. Formulas # <<>>
  BY <1>1 DEF Reconciled
<1> DEFINE selected == ReconcileSelection(Formulas, view.key)
<1>3. selected = Formulas[ViewKey]
  BY DEF ReconcileSelection, ViewKey
<1>4. \/ selected.source = view.source
      \/ view = SelectFormula(selected)
  BY <1>1, <1>2 DEF Reconciled
<1>5. selected.source = view.source
  BY <1>4, Selected
<1>6. QED
  BY <1>3, <1>5

LEMMA NextDraft == ~EffectLag /\ DraftInv /\ [Next]_vars => DraftInv'
<1> SUFFICES ASSUME ~EffectLag, DraftInv, [Next]_vars PROVE DraftInv'
  OBVIOUS
<1>1. CASE UNCHANGED formula
  BY <1>1 DEF formula, DraftInv, DraftStaysWithFormula
<1>2. ASSUME inserted' = inserted, view' = None \/ \E f : view' = SelectFormula(f)
      PROVE  DraftInv'
  BY <1>2, Selected DEF DraftInv, DraftStaysWithFormula
\* A key that changes the view, which stays on its formula.
<1>3. ASSUME inserted' = inserted, OwnDraft(view') PROVE DraftInv'
  BY <1>3 DEF DraftInv, DraftStaysWithFormula
<1>4. ASSUME RunCommand PROVE DraftInv'
  <2>1. CASE SafeCommand
    <3>1. CASE \E kind : OpenOverlay(kind)
      BY <1>1, <3>1 DEF OpenOverlay
    <3>2. CASE OpenFormula
      BY <1>2, <3>2 DEF OpenFormula
    <3>3. CASE Exit
      BY <1>1, <3>3 DEF Exit
    <3>4. QED
      BY <2>1, <3>1, <3>2, <3>3 DEF SafeCommand
  <2>2. CASE OtherCommand
    BY <1>1, <2>2 DEF OtherCommand, OpenOverlay, AskFor
  <2>3. CASE NothingHappens
    BY <1>1, <2>3 DEF NothingHappens
  <2>4. QED
    BY <1>4, <2>1, <2>2, <2>3 DEF RunCommand
<1>5. CASE ComposerKey
  <2>1. CASE TypeText \/ CompleteCommand \/ Backspace \/ MoveCursor
    BY <1>1, <2>1 DEF TypeText, CompleteCommand, Backspace, MoveCursor, Edit
  <2>2. CASE BrowseHistory \/ ClearScreen
    BY <1>1, <2>2 DEF BrowseHistory, ClearScreen
  <2>3. CASE Submit
    <3>1. RunCommand \/ NewSession \/ SubmitPrompt
      BY <2>3 DEF Submit
    <3>2. QED
      BY <1>1, <1>2, <1>4, <3>1 DEF NewSession, SubmitPrompt, NothingHappens
  <2>4. QED
    BY <1>5, <2>1, <2>2, <2>3 DEF ComposerKey
<1>6. CASE OverlayKey
  <2>1. CASE EscapeOverlay \/ EditField \/ ReturnCloses \/ ReturnPicksProvider
    BY <1>1, <2>1 DEF EscapeOverlay, EditField, ReturnCloses, ReturnPicksProvider, Show
  <2>2. CASE MoveSelection
    BY <1>1, <2>2 DEF MoveSelection, Show
  <2>3. CASE ReturnRunsCommand
    BY <1>2, <1>4, <2>3 DEF ReturnRunsCommand, NewSession
  <2>4. CASE Connect \/ LoadSession \/ StageDocument
    BY <1>1, <2>4 DEF Connect, Show, LoadSession, StageDocument
  <2>5. QED
    BY <1>6, <2>1, <2>2, <2>3, <2>4 DEF OverlayKey
<1>7. CASE Reply
  <2>1. CASE ReplyDropped \/ ConnectFails \/ ConnectReturns \/ ListReturns
    BY <1>1, <2>1 DEF ReplyDropped, ConnectFails, ConnectReturns, ListReturns, ReplyShows,
                      Answered, formula
  <2>2. CASE StageReturns \/ LoadRefused
    BY <1>1, <2>2 DEF StageReturns, LoadRefused, ReplyShows, Answered, formula
  <2>3. CASE LoadReturns
    BY <1>2, <2>3 DEF LoadReturns, Answered
  <2>4. QED
    BY <1>7, <2>1, <2>2, <2>3 DEF Reply
<1>8. CASE Delta \/ RunEnds
  BY <1>1, <1>8 DEF Delta, RunEnds
<1>9. CASE FormulaEffect
  <2>1. view' = Reconciled(view, Formulas) /\ inserted' = inserted
    BY <1>9 DEF FormulaEffect, SetView
  <2>2. view' = None \/ view' = view \/ \E f : view' = SelectFormula(f)
    BY <2>1 DEF Reconciled
  <2>3. QED
    BY <1>1, <1>2, <2>1, <2>2 DEF formula
<1>10. CASE FormulaKey
  <2>1. CASE CloseFormula \/ MoveFormula
    BY <1>2, <2>1 DEF CloseFormula, MoveFormula, SetView
  <2>2. view # None => OwnDraft(view) /\ ViewFields \subseteq DOMAIN view
    BY DEF DraftInv, OwnDraft
  <2>3. CASE AbandonDraft
    <3>1. /\ view # None /\ inserted' = inserted
          /\ view' = [view EXCEPT !.mode = "browse", !.showSource = FALSE,
                          !.draft = IF view.applied = "none" THEN "tex" ELSE view.applied]
      BY <2>3 DEF AbandonDraft, Editing, ToFormula, SetView
    <3>2. /\ DOMAIN view' = DOMAIN view /\ view'.applied = view.applied
          /\ view'.for = view.for /\ view'.source = view.source /\ view'.mode = "browse"
      BY <2>2, <3>1 DEF ViewFields
    <3>3. QED
      BY <1>3, <2>2, <3>1, <3>2 DEF OwnDraft
  <2>4. CASE ShowSource
    <3>1. /\ view # None /\ inserted' = inserted
          /\ view' = [view EXCEPT !.showSource = ~@]
      BY <2>4 DEF ShowSource, Browsing, ToFormula, SetView
    <3>2. /\ DOMAIN view' = DOMAIN view /\ view'.applied = view.applied
          /\ view'.for = view.for /\ view'.source = view.source /\ view'.mode = view.mode
      BY <2>2, <3>1 DEF ViewFields
    <3>3. QED
      BY <1>3, <2>2, <3>1, <3>2 DEF OwnDraft
  \* The draft begins with the formula as it is, which is the one shown.
  <2>5. CASE StartEdit
    <3>1. /\ view # None /\ inserted' = inserted
          /\ view' = [view EXCEPT !.mode = "edit", !.showSource = FALSE,
                          !.draft = IF view.applied = "none" THEN "tex" ELSE view.applied,
                          !.for = IF view.applied = "none"
                                  THEN Formulas[ViewKey].source ELSE @]
          /\ Formulas[ViewKey].source = view.source
      BY <2>5, ViewIsCurrent DEF StartEdit, Browsing, ToFormula, SetView
    <3>2. /\ DOMAIN view' = DOMAIN view /\ view'.source = view.source
          /\ view'.for = IF view.applied = "none" THEN view.source ELSE view.for
      BY <2>2, <3>1 DEF ViewFields
    <3>3. QED
      BY <1>3, <2>2, <3>1, <3>2 DEF OwnDraft
  <2>6. CASE EditDraft
    <3>1. /\ view # None /\ inserted' = inserted
          /\ view' = [view EXCEPT !.draft = "edited"]
      BY <2>6 DEF EditDraft, Editing, ToFormula, SetView
    <3>2. /\ DOMAIN view' = DOMAIN view /\ view'.applied = view.applied
          /\ view'.for = view.for /\ view'.source = view.source /\ view'.mode = view.mode
      BY <2>2, <3>1 DEF ViewFields
    <3>3. QED
      BY <1>3, <2>2, <3>1, <3>2 DEF OwnDraft
  <2>7. CASE ApplyDraft
    <3>1. /\ view # None /\ view.mode = "edit" /\ inserted' = inserted
          /\ view' = [view EXCEPT !.mode = "browse", !.showSource = FALSE,
                          !.applied = view.draft]
      BY <2>7 DEF ApplyDraft, Editing, ToFormula, SetView
    <3>2. /\ DOMAIN view' = DOMAIN view
          /\ view'.for = view.for /\ view'.source = view.source
      BY <2>2, <3>1 DEF ViewFields
    <3>3. QED
      BY <1>3, <2>2, <3>1, <3>2 DEF OwnDraft
  <2>8. CASE InsertFormula
    <3>1. /\ view # None /\ view' = None /\ Formulas[ViewKey].source = view.source
          /\ inserted' = [for |-> IF view.applied = "none"
                                  THEN Formulas[ViewKey].source ELSE view.for,
                          as |-> Formulas[ViewKey].source]
      BY <2>8, ViewIsCurrent DEF InsertFormula, Browsing, ToFormula
    <3>2. view.applied # "none" => view.for = view.source
      BY <2>2, <3>1 DEF OwnDraft
    <3>3. inserted'.for = view.source /\ inserted'.as = view.source
      BY <3>1, <3>2
    <3>4. QED
      BY <3>1, <3>3 DEF DraftInv, DraftStaysWithFormula
  <2>9. QED
    BY <1>10, <2>1, <2>3, <2>4, <2>5, <2>6, <2>7, <2>8 DEF FormulaKey
<1>11. CASE UNCHANGED vars
  BY <1>1, <1>11 DEF vars, formula
<1>12. QED
  BY <1>5, <1>6, <1>7, <1>8, <1>9, <1>10, <1>11 DEF Next

\* A draft goes with the formula it was written for (App.tsx:209), for any
\* answers that change in any way while the view is open, provided a key does
\* not overtake the effect that follows such a change.
THEOREM DraftGoesWithFormula == ~EffectLag => (Spec => []DraftStaysWithFormula)
<1> SUFFICES ASSUME ~EffectLag PROVE Spec => []DraftStaysWithFormula
  OBVIOUS
<1>1. DraftInv /\ [Next]_vars => DraftInv'
  BY NextDraft
<1>2. DraftInv => DraftStaysWithFormula
  BY DEF DraftInv
<1>3. QED
  BY <1>1, <1>2, InitDraft, PTL DEF Spec

CONSTANTS Calls, Connections, References, Credentials, RefOf, Env

VARIABLES harness, harnessKey, call

Cache == INSTANCE HarnessCache

VARIABLES rows, page, mounted, reported, scrollMax, scrollOffset, loadedInPlace

View == INSTANCE Scroll

(***************************************************************************)
(* The harness cache.                                                      *)
(***************************************************************************)
\* Key and harness are written together.
CacheInv ==
    /\ Cache!TypeOK
    /\ harness # Cache!NoHarness => harnessKey = Cache!Sends(harness)
    /\ Cache!OwnRequests

LEMMA InitCache == Cache!Init => CacheInv
<1> SUFFICES ASSUME Cache!Init PROVE CacheInv
  OBVIOUS
<1>1. Cache!Idle \in Cache!States /\ Cache!Idle.at # "given"
  BY DEF Cache!States, Cache!Idle
<1>2. harness = Cache!NoHarness /\ call = [c \in Calls |-> Cache!Idle]
  BY DEF Cache!Init
<1>3. QED
  BY <1>1, <1>2 DEF CacheInv, Cache!TypeOK, Cache!OwnRequests

LEMMA NextCache == CacheInv /\ [Cache!Next]_Cache!vars => CacheInv'
<1> SUFFICES ASSUME CacheInv, [Cache!Next]_Cache!vars PROVE CacheInv'
  OBVIOUS
<1> USE DEF CacheInv, Cache!TypeOK
<1>1. ASSUME NEW c \in Calls, Cache!ResolveHarness(c) PROVE CacheInv'
  <2>1. PICK x \in Connections, v \in Cache!Values :
           call' = [call EXCEPT ![c] =
               IF harness # Cache!NoHarness /\ harnessKey = Cache!Key(x, v)
               THEN Cache!Given(x, v, harness) ELSE Cache!Asking(x, v)]
    BY <1>1 DEF Cache!ResolveHarness
  <2>2. CASE harness # Cache!NoHarness /\ harnessKey = Cache!Key(x, v)
    <3>1. call' = [call EXCEPT ![c] = Cache!Given(x, v, harness)] /\ harness \in Cache!Harnesses
      BY <2>1, <2>2
    <3>2. Cache!Given(x, v, harness) \in Cache!States
      BY <3>1 DEF Cache!States
    <3>3. Cache!Sends(harness) = Cache!Key(x, v)
      BY <2>2
    <3>4. call' \in [Calls -> Cache!States]
      BY <3>1, <3>2
    <3>5. ASSUME NEW d \in Calls, call'[d].at = "given"
          PROVE  Cache!Sends(call'[d].harness) = Cache!Key(call'[d].connection, call'[d].values)
      BY <3>1, <3>3, <3>5, Zenon DEF Cache!OwnRequests, Cache!Given
    <3>6. QED
      BY <1>1, <3>4, <3>5 DEF Cache!ResolveHarness, Cache!OwnRequests
  <2>3. CASE ~(harness # Cache!NoHarness /\ harnessKey = Cache!Key(x, v))
    <3>1. call' = [call EXCEPT ![c] = Cache!Asking(x, v)]
      BY <2>1, <2>3
    <3>2. Cache!Asking(x, v) \in Cache!States
      BY DEF Cache!States
    <3>3. call' \in [Calls -> Cache!States]
      BY <3>1, <3>2
    <3>4. ASSUME NEW d \in Calls, call'[d].at = "given"
          PROVE  Cache!Sends(call'[d].harness) = Cache!Key(call'[d].connection, call'[d].values)
      <4>1. d # c
        BY <3>1, <3>4 DEF Cache!Asking
      <4>2. call'[d] = call[d]
        BY <3>1, <4>1
      <4>3. QED
        BY <3>4, <4>2 DEF Cache!OwnRequests
    <3>5. QED
      BY <1>1, <3>3, <3>4 DEF Cache!ResolveHarness, Cache!OwnRequests
  <2>4. QED
    BY <2>2, <2>3
<1>2. ASSUME NEW c \in Calls, Cache!Created(c) PROVE CacheInv'
  <2> DEFINE x == call[c].connection
             v == call[c].values
  <2>1. x \in Connections /\ v \in Cache!Values
    BY <1>2 DEF Cache!Created, Cache!States, Cache!Idle, Cache!Asking, Cache!Given
  <2>2. harness' = [connection |-> x, values |-> v]
        /\ harnessKey' = Cache!Key(x, v)
        /\ call' = [call EXCEPT ![c] = Cache!Given(x, v, harness')]
    BY <1>2 DEF Cache!Created
  <2> HIDE DEF x, v
  <2>3. harness' \in Cache!Harnesses
    BY <2>1, <2>2 DEF Cache!Harnesses
  <2>4. Cache!Sends(harness') = Cache!Key(x, v)
    BY <2>2 DEF Cache!Sends, Cache!Key
  <2>5. Cache!Given(x, v, harness') \in Cache!States
    BY <2>1, <2>3 DEF Cache!States
  <2>6. call' \in [Calls -> Cache!States]
    BY <2>2, <2>5
  <2>7. ASSUME NEW d \in Calls, call'[d].at = "given"
        PROVE  Cache!Sends(call'[d].harness) = Cache!Key(call'[d].connection, call'[d].values)
    BY <2>2, <2>4, <2>7, Zenon DEF Cache!OwnRequests, Cache!Given
  <2>8. harnessKey' = Cache!Sends(harness)'
    BY <2>2, <2>4 DEF Cache!Sends, Cache!Lookup
  <2>9. QED
    BY <2>3, <2>6, <2>7, <2>8 DEF Cache!OwnRequests
<1>3. ASSUME NEW c \in Calls, Cache!CreationFails(c) PROVE CacheInv'
  <2>1. Cache!Idle \in Cache!States
    BY DEF Cache!States
  <2>2. call' = [call EXCEPT ![c] = Cache!Idle]
    BY <1>3 DEF Cache!CreationFails
  <2>3. ASSUME NEW d \in Calls, call'[d].at = "given"
        PROVE  Cache!Sends(call'[d].harness) = Cache!Key(call'[d].connection, call'[d].values)
    <3>1. d # c
      BY <2>2, <2>3 DEF Cache!Idle
    <3>2. call'[d] = call[d]
      BY <2>2, <3>1
    <3>3. QED
      BY <2>3, <3>2 DEF Cache!OwnRequests
  <2>4. QED
    BY <1>3, <2>1, <2>2, <2>3 DEF Cache!CreationFails, Cache!OwnRequests, Cache!Sends
<1>4. CASE UNCHANGED Cache!vars
  BY <1>4 DEF Cache!vars, Cache!OwnRequests, Cache!Sends
<1>5. QED
  BY <1>1, <1>2, <1>3, <1>4 DEF Cache!Next

\* No caller is ever served with another's connection or credential.
THEOREM CallersOwnHarness == Cache!Spec => []Cache!OwnRequests
<1>1. CacheInv => Cache!OwnRequests
  BY DEF CacheInv
<1>2. QED
  BY <1>1, InitCache, NextCache, PTL DEF Cache!Spec

(***************************************************************************)
(* Scrolling.                                                              *)
(***************************************************************************)
ViewInv ==
    /\ View!TypeOK
    /\ scrollOffset <= scrollMax
    /\ ~mounted => reported = View!Nothing
    /\ loadedInPlace \/ reported \in {View!Nothing, scrollMax}

LEMMA ClampRange ==
    ASSUME NEW n \in Int, NEW max \in Nat
    PROVE  View!Clamp(n, max) \in 0..max
BY DEF View!Clamp

LEMMA MaxScrollNat ==
    ASSUME View!TypeOK
    PROVE  View!maxScroll \in Nat
BY DEF View!TypeOK, View!maxScroll, View!AtLeast0

LEMMA InitView == View!Init => ViewInv
<1> SUFFICES ASSUME View!Init
             PROVE  ViewInv
  OBVIOUS
<1>1. scrollMax \in Nat /\ scrollOffset \in Nat /\ scrollOffset <= scrollMax
  BY DEF View!Init
<1>2. View!TypeOK
  BY <1>1, Zenon DEF View!Init, View!TypeOK
<1>3. QED
  BY <1>1, <1>2, Zenon DEF View!Init, ViewInv

LEMMA NextView == ViewInv /\ [View!Next]_View!vars => ViewInv'
<1> SUFFICES ASSUME ViewInv, [View!Next]_View!vars
             PROVE  ViewInv'
  OBVIOUS
<1>1. View!TypeOK /\ scrollOffset <= scrollMax
      /\ (~mounted => reported = View!Nothing)
      /\ (loadedInPlace \/ reported \in {View!Nothing, scrollMax})
  BY DEF ViewInv
<1>2. CASE View!Layout
  BY <1>1, <1>2 DEF View!Layout, ViewInv, View!TypeOK, View!Nothing
<1>3. CASE View!Appended
  BY <1>1, <1>3 DEF View!Appended, ViewInv, View!TypeOK, View!Nothing
<1>4. CASE View!RangeReported
  <2>1. View!maxScroll \in Nat
    BY <1>1, MaxScrollNat
  <2>2. scrollOffset' \in 0..View!maxScroll
    <3>1. scrollOffset + View!maxScroll - scrollMax \in Int
      BY <1>1, <2>1 DEF View!TypeOK
    <3>2. View!Clamp(scrollOffset + View!maxScroll - scrollMax, View!maxScroll) \in 0..View!maxScroll
      BY <3>1, <2>1, ClampRange
    <3>3. QED
      BY <3>2, <2>1, <1>4 DEF View!RangeReported, View!RangeOffset
  <2>3. /\ scrollMax' \in Nat /\ scrollOffset' \in Nat
        /\ scrollOffset' <= scrollMax'
    BY <1>4, <2>1, <2>2 DEF View!RangeReported
  <2>4. View!TypeOK'
    BY <1>1, <1>4, <2>1, <2>3, Zenon DEF View!RangeReported, View!TypeOK
  <2>5. QED
    BY <1>4, <2>3, <2>4, Zenon DEF View!RangeReported, ViewInv
<1>5. CASE View!ScrollBy
  <2>1. PICK lines \in Int : scrollOffset' = View!Clamp(scrollOffset + lines, scrollMax)
    BY <1>5 DEF View!ScrollBy, View!Scrolled
  <2>2. scrollOffset' \in 0..scrollMax
    BY <1>1, <2>1, ClampRange DEF View!TypeOK
  <2>3. QED
    BY <1>1, <1>5, <2>2 DEF View!ScrollBy, View!Scrolled, ViewInv, View!TypeOK, View!Nothing
<1>6. CASE View!ScrollToEnd
  BY <1>1, <1>6 DEF View!ScrollToEnd, ViewInv, View!TypeOK, View!Nothing
<1>7. CASE View!Unmount
  BY <1>1, <1>7 DEF View!Unmount, ViewInv, View!TypeOK, View!Nothing
<1>8. CASE View!Mount
  BY <1>1, <1>8 DEF View!Mount, ViewInv, View!TypeOK, View!Nothing
<1>9. CASE View!Replaced
  BY <1>1, <1>9 DEF View!Replaced, ViewInv, View!TypeOK, View!Nothing
<1>10. CASE UNCHANGED View!vars
  BY <1>1, <1>10 DEF View!vars, ViewInv, View!TypeOK, View!Nothing
<1>11. QED
  BY <1>2, <1>3, <1>4, <1>5, <1>6, <1>7, <1>8, <1>9, <1>10 DEF View!Next

\* Every row of a conversation can be reached.
THEOREM EveryRowReachable == View!Spec => []View!Reachable
<1>1. ViewInv => View!Reachable
  <2> SUFFICES ASSUME ViewInv, View!Settled, ~loadedInPlace
               PROVE  scrollMax = View!maxScroll
    BY DEF ViewInv, View!Reachable
  <2>1. View!maxScroll \in Nat
    BY MaxScrollNat DEF ViewInv
  <2>2. QED
    BY <2>1 DEF ViewInv, View!Settled, View!Nothing
<1>2. QED
  BY InitView, NextView, <1>1, PTL DEF View!Spec

\* What is shown is the place the reducer keeps.
THEOREM KeptPlaceShown == View!Spec => []View!ShownAsKept
<1>1. ViewInv => View!ShownAsKept
  <2> SUFFICES ASSUME ViewInv, View!Settled, ~loadedInPlace
               PROVE  View!TopRow = View!Place
    BY DEF View!ShownAsKept
  <2>1. View!maxScroll \in Nat
    BY MaxScrollNat DEF ViewInv
  <2>2. scrollMax = View!maxScroll
    BY <2>1 DEF ViewInv, View!Settled, View!Nothing
  <2>3. View!Clamp(scrollOffset, scrollMax) = scrollOffset
    BY DEF ViewInv, View!TypeOK, View!Clamp
  <2>4. QED
    BY <2>2, <2>3 DEF View!TopRow, View!Place
<1>2. QED
  BY InitView, NextView, <1>1, PTL DEF View!Spec

\* A report of the layout keeps the reader's place.
THEOREM ReaderStays == View!Spec => [][View!PlaceKept]_View!vars
<1>1. ViewInv /\ [View!Next]_View!vars => [View!PlaceKept]_View!vars
  <2> SUFFICES ASSUME ViewInv, View!RangeReported, scrollOffset > 0
               PROVE  View!Place' = View!Clamp(View!Place, View!maxScroll)
    BY DEF View!PlaceKept
  <2>1. View!maxScroll \in Nat
    BY MaxScrollNat DEF ViewInv
  <2>2. scrollMax \in Nat /\ scrollOffset \in Nat /\ scrollOffset <= scrollMax
    BY DEF ViewInv, View!TypeOK
  <2>3. /\ scrollMax' = View!maxScroll
        /\ scrollOffset' = View!Clamp(scrollOffset + View!maxScroll - scrollMax, View!maxScroll)
    BY <2>2 DEF View!RangeReported, View!RangeOffset
  <2>4. View!maxScroll - View!Clamp(scrollOffset + View!maxScroll - scrollMax, View!maxScroll)
            = View!Clamp(scrollMax - scrollOffset, View!maxScroll)
    BY <2>1, <2>2 DEF View!Clamp
  <2>5. QED
    BY <2>3, <2>4 DEF View!Place
<1>2. QED
  BY InitView, NextView, <1>1, PTL DEF View!Spec
================================================================================
