------------------------------- MODULE Composer -------------------------------
(***************************************************************************)
(* What a key does in the terminal interface: the composer and its         *)
(* history, the overlays, and the formula view with its drafts             *)
(* (packages/cli/src/tui/App.tsx, reducer.ts, formulas.ts, commands.ts).   *)
(*                                                                         *)
(* A step is one key, or the continuation of one await.  Keys go to the    *)
(* formula view if it is open, else to the overlay if one is open, else to *)
(* the composer; the answers of the provider, the session store and the    *)
(* workspace arrive whatever is open by then.  A text is a sequence of     *)
(* tokens: a letter, a formula's source, or Slash, which stands for the    *)
(* name of any command.  The text of an overlay's field is its length.     *)
(***************************************************************************)
EXTENDS Integers, Sequences, SequencesExt, FiniteSets

CONSTANTS
    Letters,     \* what a key may insert
    Slash,       \* a typed slash command
    Math,        \* the source of a formula, as a token of the composer
    Answer,      \* Answer[n]: the formulas in an answer of n - 1 pieces
    None,        \* no history index, no view, no run
    HistorySize, \* MAX_COMMAND_HISTORY
    Items,       \* entries of a list overlay
    EffectLag,   \* may a key arrive before the formula view's effect ran?
    MaxText,     \* bound: tokens in the composer
    MaxField,    \* bound: characters in an overlay's field
    MaxAnswers,  \* bound: runs and loads that add an answer
    MaxReplaced, \* bound: /new and session loads
    MaxConnects, \* bound: submissions of the provider form
    MaxWaiting   \* bound: other requests in flight

ASSUME ComposerAssumption ==
    /\ Slash \notin Letters \cup {Math}
    /\ None \notin Nat
    /\ HistorySize \in Nat \ {0} /\ Items \in Nat \ {0}
    /\ EffectLag \in BOOLEAN
    /\ Answer \in Seq(Seq([at : Nat, source : STRING])) /\ Answer # <<>>
    /\ {MaxText, MaxField, MaxAnswers, MaxReplaced, MaxConnects, MaxWaiting}
           \subseteq Nat

VARIABLES
    composer,   \* state.composer
    overlay,    \* state.overlay
    view,       \* formulaView
    entries,    \* the assistant's entries of state.conversation
    activeRun,  \* the entry of the run in progress: activeRun.current
    generation, \* sessionGeneration.current
    connects,   \* connectGeneration.current
    waiting,    \* the requests that have not been answered
    leaving,    \* shuttingDown.current
    answers,    \* entries made so far
    typed,      \* history: the line the user wrote last, as edited
    inserted    \* history: the formula a draft was written for, and the
                \* formula it was inserted as

line == <<composer, typed>>
formula == <<view, inserted>>
session == <<entries, activeRun, generation, answers>>
requests == <<connects, waiting>>
vars == <<composer, overlay, view, entries, activeRun, generation, connects,
          waiting, leaving, answers, typed, inserted>>

Tokens == Letters \cup {Slash, Math}

----------------------------------------------------------------------------
(* The composer: reducer.ts                                                 *)

Text == Seq(Tokens)

Clamp(n, low, high) ==
    IF n < low THEN low ELSE IF n > high THEN high ELSE n

\* composer/set: an edit ends the browsing of the history.
ComposerSet(value, cursor) ==
    [composer EXCEPT !.value = value,
                     !.cursor = Clamp(cursor, 0, Len(value)),
                     !.index = None,
                     !.draft = IF composer.index = None THEN @ ELSE value]

Blank(history) ==
    [value |-> <<>>, cursor |-> 0, history |-> history, index |-> None,
     draft |-> <<>>]

\* The newest HistorySize lines, each at its last use: a line is in the
\* history once, so what the filter drops is one line at most.
PushHistory(history, value) ==
    LET next == Append(RemoveFirst(history, value), value) IN
    IF value = <<>> THEN history
    ELSE SubSeq(next, Len(next) - Clamp(HistorySize, 0, Len(next)) + 1,
                Len(next))

Recall(index) ==
    [composer EXCEPT !.index = index, !.value = composer.history[index],
                     !.cursor = Len(composer.history[index])]

\* Mutant: the line that was being written is not kept.
HistoryPreviousBug ==
    IF composer.history = <<>> THEN composer
    ELSE IF composer.index = None THEN Recall(Len(composer.history))
    ELSE Recall(Clamp(composer.index - 1, 1, Len(composer.history)))

\* composer/history-previous
HistoryPrevious ==
    IF composer.history = <<>> THEN composer
    ELSE IF composer.index = None
         THEN [Recall(Len(composer.history)) EXCEPT !.draft = composer.value]
    ELSE Recall(Clamp(composer.index - 1, 1, Len(composer.history)))

\* composer/history-next: past the newest line is the line being written.
HistoryNext ==
    IF composer.index = None THEN composer
    ELSE IF composer.index = Len(composer.history)
         THEN [composer EXCEPT !.index = None, !.value = composer.draft,
                               !.cursor = Len(composer.draft)]
    ELSE Recall(composer.index + 1)

----------------------------------------------------------------------------
(* Formulas: formulas.ts                                                    *)

\* The formulas of the conversation, in its order.
FormulasOf(conversation) ==
    FlattenSeq([i \in DOMAIN conversation |->
        LET found == Answer[conversation[i].pieces] IN
        [k \in DOMAIN found |->
            [key |-> <<conversation[i].id, found[k].at>>,
             source |-> found[k].source]]])

Formulas == FormulasOf(entries)

\* The position of the formula with a key, 0 if there is none.
LookupFormula(formulas, key) ==
    SelectInSeq(formulas, LAMBDA f : f.key = key)

\* The view of a formula nothing was done to yet.
SelectFormula(f) ==
    [key |-> f.key, source |-> f.source, mode |-> "browse",
     showSource |-> FALSE, draft |-> "tex", applied |-> "none",
     for |-> f.source]

\* The next and the previous formula stop at the last and the first.
NextFormula(formulas, i) == formulas[Clamp(i + 1, 1, Len(formulas))]
PreviousFormula(formulas, i) == formulas[Clamp(i - 1, 1, Len(formulas))]

\* The formula with a key, or the first one if it is gone.
ReconcileSelection(formulas, key) ==
    LET i == LookupFormula(formulas, key) IN
    IF i = 0 THEN Head(formulas) ELSE formulas[i]

\* Mutant: a formula is taken for the same as long as its key is.
ReconciledBug(v, formulas) ==
    IF v = None \/ formulas = <<>> THEN None
    ELSE LET selected == ReconcileSelection(formulas, v.key) IN
         IF selected.key = v.key THEN v ELSE SelectFormula(selected)

\* The effect that follows a change of the conversation: the view moves to
\* the first formula if its own is gone, and forgets what was done to it if
\* its source has changed.
Reconciled(v, formulas) ==
    IF v = None \/ formulas = <<>> THEN None
    ELSE LET selected == ReconcileSelection(formulas, v.key) IN
         IF selected.key = v.key /\ selected.source = v.source THEN v
         ELSE SelectFormula(selected)

EffectRan == view = Reconciled(view, Formulas)

----------------------------------------------------------------------------
(* Initially: a fresh session, nothing open                                 *)

Closed == [kind |-> "none", text |-> 0, selected |-> 0, busy |-> FALSE]
Open(kind) == [Closed EXCEPT !.kind = kind]
Form(text) == [Open("provider-form") EXCEPT !.text = text]

Init ==
    /\ composer = Blank(<<>>)
    /\ overlay = Closed
    /\ view = None
    /\ entries = <<>>
    /\ activeRun = None
    /\ generation = 0
    /\ connects = 0
    /\ waiting = {}
    /\ leaving = FALSE
    /\ answers = 0
    /\ typed = <<>>
    /\ inserted = [for |-> "none", as |-> "none"]

RunActive == activeRun # None

\* Where the next key goes; it waits for the effect of what it follows.
Ready == ~leaving /\ (EffectLag \/ EffectRan)
ToComposer == Ready /\ view = None /\ overlay.kind = "none"
ToOverlay == Ready /\ view = None /\ overlay.kind # "none"
ToFormula == Ready /\ view # None

IsCommand(value) == value # <<>> /\ Head(value) = Slash

----------------------------------------------------------------------------
(* Keys of the composer                                                     *)

\* composer/set by the user: the line is now his own.
Edit(value, cursor) ==
    /\ composer' = ComposerSet(value, cursor)
    /\ typed' = value
    /\ UNCHANGED <<overlay, formula, session, requests, leaving>>

\* The name of a command is typed at once.
TypeText ==
    /\ ToComposer /\ Len(composer.value) < MaxText
    /\ ~IsCommand(composer.value)
    /\ \E token \in Letters \cup {Slash} :
           /\ token = Slash => composer.value = <<>>
           /\ Edit(InsertAt(composer.value, composer.cursor + 1, token),
                   composer.cursor + 1)

\* Tab completes the name before the cursor and goes to its end.
CompleteCommand ==
    /\ ToComposer /\ IsCommand(composer.value) /\ composer.cursor > 0
    /\ Edit(composer.value, 1)

Backspace ==
    /\ ToComposer /\ composer.cursor > 0
    /\ Edit(RemoveAt(composer.value, composer.cursor), composer.cursor - 1)

\* At an end the reducer keeps the cursor, and yet the line is edited.
MoveCursor ==
    /\ ToComposer
    /\ \E step \in {-1, 1} : Edit(composer.value, composer.cursor + step)

BrowseHistory ==
    /\ ToComposer
    /\ \/ composer' = HistoryPrevious
       \/ composer' = HistoryNext
    /\ UNCHANGED <<overlay, typed, formula, session, requests, leaving>>

\* Ctrl+L
ClearScreen ==
    /\ ToComposer /\ ~RunActive
    /\ entries' = <<>>
    /\ UNCHANGED <<line, overlay, formula, activeRun, generation, answers,
                   requests, leaving>>

\* Ctrl+X; the run ends in a step of its own (RunEnds).
Exit ==
    /\ leaving' = TRUE
    /\ UNCHANGED <<overlay, formula, session, requests>>

----------------------------------------------------------------------------
(* Commands, from the composer or from the list of commands.  The line is  *)
(* what the composer holds by then, after the overlay list is closed.      *)

Ask(what, gen, text) ==
    /\ what # "connect" =>
           Cardinality({w \in waiting : w.what # "connect"}) < MaxWaiting
    /\ waiting' = waiting \cup {[what |-> what, gen |-> gen, text |-> text]}

OpenOverlay(kind) ==
    /\ overlay' = Open(kind)
    /\ UNCHANGED <<formula, session, requests, leaving>>

OpenFormula ==
    /\ view' = IF Formulas = <<>> THEN None ELSE SelectFormula(Head(Formulas))
    /\ overlay' = Closed
    /\ UNCHANGED <<inserted, session, requests, leaving>>

AskFor(what, text) ==
    /\ Ask(what, generation, text)
    /\ overlay' = Closed
    /\ UNCHANGED <<formula, session, connects, leaving>>

NothingHappens ==
    /\ overlay' = Closed
    /\ UNCHANGED <<formula, session, requests, leaving>>

\* /new
NewSession ==
    /\ generation < MaxReplaced
    /\ generation' = generation + 1
    /\ entries' = <<>>
    /\ view' = None
    /\ overlay' = Closed
    /\ UNCHANGED <<inserted, activeRun, answers, requests, leaving>>

\* The commands that stay usable during a run.
SafeCommand ==
    \/ \E kind \in {"help", "commands", "source", "theme"} : OpenOverlay(kind)
    \/ OpenFormula
    \/ Exit

OtherCommand ==
    \/ \E kind \in {"provider-picker", "variant", "read", "model"} :
           OpenOverlay(kind)
    \/ AskFor("list", 0)
    \/ \E text \in 1..MaxField : AskFor("stage", text)
    \/ /\ overlay' = Closed /\ entries' = <<>>          \* /clear
       /\ UNCHANGED <<formula, activeRun, generation, answers, requests,
                      leaving>>

\* /new is apart: it also clears the composer.
RunCommand ==
    \/ SafeCommand
    \/ ~RunActive /\ OtherCommand
    \/ NothingHappens   \* unknown, blocked by the run, or nothing to show

\* submitPrompt: refused, or the conversation gets the answer's entry.
SubmitPrompt ==
    \/ NothingHappens
    \/ /\ ~RunActive /\ answers < MaxAnswers
       /\ answers' = answers + 1
       /\ activeRun' = answers + 1
       /\ entries' = Append(entries, [id |-> answers + 1, pieces |-> 1])
       /\ overlay' = Closed
       /\ UNCHANGED <<generation, formula, requests, leaving>>

\* A prompt waits in the composer while a run is active.
Accepts(value) == value # <<>> /\ (RunActive => IsCommand(value))

\* Return: the line joins the history and the composer is empty.
Submit ==
    /\ ToComposer /\ Accepts(composer.value)
    /\ composer' = Blank(PushHistory(composer.history, composer.value))
    /\ typed' = <<>>
    /\ IF IsCommand(composer.value)
       THEN RunCommand \/ (~RunActive /\ NewSession)
       ELSE SubmitPrompt

----------------------------------------------------------------------------
(* Keys of an overlay                                                       *)

Lists == {"commands", "provider-picker", "model", "variant", "theme",
          "sessions"}
Fields == {"provider-form", "model", "read"}

Show(o) ==
    /\ overlay' = o
    /\ UNCHANGED <<line, formula, session, requests, leaving>>

EscapeOverlay == ToOverlay /\ Show(Closed)

\* The arrows go round; in /source they stop at the ends.
MoveSelection ==
    /\ ToOverlay
    /\ \/ /\ overlay.kind \in Lists
          /\ \E step \in {1, Items - 1} :
                 Show([overlay EXCEPT !.selected = (@ + step) % Items])
       \/ /\ overlay.kind = "source"
          /\ \E at \in 0..(Items - 1) : Show([overlay EXCEPT !.selected = at])

EditField ==
    /\ ToOverlay /\ overlay.kind \in Fields /\ ~overlay.busy
    /\ \E n \in {overlay.text - 1, overlay.text + 1} \cap 0..MaxField :
           Show([overlay EXCEPT !.text = n, !.selected = 0])

\* The overlays that Return only closes, or that also store a choice.
ReturnCloses ==
    /\ ToOverlay
    /\ overlay.kind \in {"help", "source", "theme", "model", "variant"}
    /\ Show(Closed)

ReturnRunsCommand ==
    /\ ToOverlay /\ overlay.kind = "commands"
    /\ \/ RunCommand /\ UNCHANGED line
       \/ /\ ~RunActive /\ NewSession
          /\ composer' = Blank(composer.history) /\ typed' = <<>>

ReturnPicksProvider ==
    /\ ToOverlay /\ overlay.kind = "provider-picker"
    /\ Show(Form(0))

\* connect(): the form is refused at once, or its request is on its way.
Connect ==
    /\ ToOverlay /\ overlay.kind = "provider-form" /\ ~overlay.busy
    /\ ~RunActive
    /\ \/ Show(Form(overlay.text))
       \/ /\ connects < MaxConnects
          /\ connects' = connects + 1
          /\ overlay' = [overlay EXCEPT !.busy = TRUE]
          /\ Ask("connect", connects + 1, overlay.text)
          /\ UNCHANGED <<line, formula, session, leaving>>

\* loadSession() claims the generation before it reads.
LoadSession ==
    /\ ToOverlay /\ overlay.kind = "sessions" /\ ~RunActive
    /\ generation < MaxReplaced
    /\ generation' = generation + 1
    /\ Ask("load", generation + 1, 0)
    /\ UNCHANGED <<line, overlay, formula, entries, activeRun, answers,
                   connects, leaving>>

StageDocument ==
    /\ ToOverlay /\ overlay.kind = "read" /\ ~RunActive
    /\ Ask("stage", generation, overlay.text)
    /\ UNCHANGED <<line, overlay, formula, session, connects, leaving>>

----------------------------------------------------------------------------
(* Answers, which arrive whatever is open by then                           *)

Current(request) ==
    /\ ~leaving
    /\ request.gen = IF request.what = "connect" THEN connects ELSE generation

Answered(request) ==
    /\ waiting' = waiting \ {request}
    /\ UNCHANGED <<inserted, activeRun, generation, connects, leaving>>

\* A handler returns: its request was superseded, or a run is active.
ReplyDropped ==
    \E request \in waiting :
        /\ ~Current(request) \/ RunActive
        /\ Answered(request)
        /\ UNCHANGED <<line, overlay, view, entries, answers>>

ReplyShows(request, o) ==
    /\ request \in waiting /\ Current(request)
    /\ overlay' = o
    /\ Answered(request)
    /\ UNCHANGED <<line, view, entries, answers>>

\* Mutant: the form that failed stays as it was submitted.
ConnectFailsBug ==
    \E request \in waiting :
        /\ request.what = "connect" /\ ~RunActive
        /\ ReplyShows(request, [Form(request.text) EXCEPT !.busy = TRUE])

ConnectFails ==
    \E request \in waiting :
        /\ request.what = "connect" /\ ~RunActive
        /\ ReplyShows(request, Form(request.text))

ConnectReturns ==
    \E request \in waiting :
        request.what = "connect" /\ ~RunActive /\ ReplyShows(request, Closed)

ListReturns ==
    \E request \in waiting :
        /\ request.what = "list" /\ ~RunActive
        /\ ReplyShows(request, Open("sessions"))

\* A failed read opens its overlay again, during a run as well.
StageReturns ==
    \E request \in waiting :
        /\ request.what = "stage"
        /\ \/ ~RunActive /\ ReplyShows(request, Closed)
           \/ ReplyShows(request, [Open("read") EXCEPT !.text = request.text])

\* No such session, or one of another workspace.
LoadRefused ==
    \E request \in waiting :
        /\ request.what = "load" /\ ~RunActive
        /\ \E o \in {Closed, overlay} : ReplyShows(request, o)

\* Mutant: the run is not looked at once the session has been read.
MayLoadBug(request) == request.what = "load" /\ Current(request)

MayLoad(request) == request.what = "load" /\ Current(request) /\ ~RunActive

\* The session is there, with or without an answer; the composer is emptied.
LoadReturns ==
    \E request \in waiting :
        /\ MayLoad(request)
        /\ composer' = Blank(composer.history) /\ typed' = <<>>
        /\ overlay' = Closed
        /\ view' = None
        /\ \/ entries' = <<>> /\ UNCHANGED answers
           \/ /\ answers < MaxAnswers /\ answers' = answers + 1
              /\ entries' = <<[id |-> answers + 1, pieces |-> Len(Answer)]>>
        /\ Answered(request)

----------------------------------------------------------------------------
(* The run                                                                  *)

\* conversation/append-delta
Delta ==
    /\ RunActive /\ ~leaving
    /\ \E i \in DOMAIN entries :
           /\ entries[i].id = activeRun /\ entries[i].pieces < Len(Answer)
           /\ entries' = [entries EXCEPT ![i].pieces = @ + 1]
    /\ UNCHANGED <<line, overlay, formula, activeRun, generation, answers,
                   requests, leaving>>

\* The run is over, is cancelled (Ctrl+X) or fails; a placeholder that got
\* no text is removed.
RunEnds ==
    /\ RunActive
    /\ activeRun' = None
    /\ entries' = IF leaving THEN entries
                  ELSE SelectSeq(entries, LAMBDA e :
                           e.id # activeRun \/ e.pieces > 1)
    /\ UNCHANGED <<line, overlay, formula, generation, answers, requests,
                   leaving>>

----------------------------------------------------------------------------
(* Keys of the formula view, and its effect                                 *)

SetView(v) ==
    /\ view' = v
    /\ UNCHANGED <<line, overlay, inserted, session, requests, leaving>>

FormulaEffect == ~EffectRan /\ SetView(Reconciled(view, Formulas))

ViewKey == LookupFormula(Formulas, view.key)
Browsing == ToFormula /\ ViewKey # 0 /\ view.mode = "browse"
Editing == ToFormula /\ ViewKey # 0 /\ view.mode = "edit"

\* Escape; any key does it when the formula is no longer there.
CloseFormula ==
    /\ ToFormula /\ (ViewKey = 0 \/ view.mode = "browse")
    /\ SetView(None)

AbandonDraft ==
    /\ Editing
    /\ SetView([view EXCEPT !.mode = "browse", !.showSource = FALSE,
                    !.draft = IF view.applied = "none" THEN "tex"
                              ELSE view.applied])

MoveFormula ==
    /\ Browsing
    /\ \E f \in {NextFormula(Formulas, ViewKey),
                 PreviousFormula(Formulas, ViewKey)} :
           SetView(SelectFormula(f))

ShowSource ==
    Browsing /\ SetView([view EXCEPT !.showSource = ~@])

\* The draft of a view that has none applied is the formula as it is now.
StartEdit ==
    /\ Browsing
    /\ SetView([view EXCEPT !.mode = "edit", !.showSource = FALSE,
                    !.draft = IF view.applied = "none" THEN "tex"
                              ELSE view.applied,
                    !.for = IF view.applied = "none"
                            THEN Formulas[ViewKey].source ELSE @])

EditDraft == Editing /\ SetView([view EXCEPT !.draft = "edited"])

ApplyDraft ==
    Editing /\ SetView([view EXCEPT !.mode = "browse", !.showSource = FALSE,
                     !.applied = view.draft])

\* The draft in the delimiters of the formula, or the formula itself.
InsertFormula ==
    /\ Browsing /\ ~RunActive /\ Len(composer.value) < MaxText
    /\ LET value == InsertAt(composer.value, composer.cursor + 1, Math) IN
       /\ composer' = ComposerSet(value, composer.cursor + 1)
       /\ typed' = value
    /\ inserted' = [for |-> IF view.applied = "none"
                            THEN Formulas[ViewKey].source ELSE view.for,
                    as |-> Formulas[ViewKey].source]
    /\ view' = None
    /\ UNCHANGED <<overlay, session, requests, leaving>>

----------------------------------------------------------------------------

ComposerKey ==
    \/ TypeText \/ CompleteCommand \/ Backspace \/ MoveCursor
    \/ BrowseHistory \/ ClearScreen \/ Submit

OverlayKey ==
    \/ EscapeOverlay \/ MoveSelection \/ EditField \/ ReturnCloses
    \/ ReturnRunsCommand \/ ReturnPicksProvider \/ Connect \/ LoadSession
    \/ StageDocument

Reply ==
    \/ ReplyDropped \/ ConnectFails \/ ConnectReturns \/ ListReturns
    \/ StageReturns \/ LoadRefused \/ LoadReturns

FormulaKey ==
    \/ CloseFormula \/ AbandonDraft \/ MoveFormula \/ ShowSource
    \/ StartEdit \/ EditDraft \/ ApplyDraft \/ InsertFormula

Next ==
    \/ ComposerKey \/ OverlayKey \/ Reply \/ Delta \/ RunEnds
    \/ FormulaEffect \/ FormulaKey

Spec == Init /\ [][Next]_vars

----------------------------------------------------------------------------

Drafts == {"tex", "edited"}
Sources == UNION {{Answer[n][k].source : k \in DOMAIN Answer[n]} :
                      n \in DOMAIN Answer}
Keys == (1..MaxAnswers) \X Nat

\* Every variable has its type; the cursor and the history index are inside
\* what they point into.
TypeOK ==
    /\ composer \in [value : Text, cursor : Nat, history : Seq(Text),
                     index : Nat \cup {None}, draft : Text]
    /\ composer.cursor <= Len(composer.value)
    /\ composer.index = None \/ composer.index \in DOMAIN composer.history
    /\ Len(composer.history) <= HistorySize
    /\ overlay.kind \in Lists \cup Fields \cup {"none", "help", "source"}
    /\ overlay.busy => overlay.kind = "provider-form"
    /\ view = None \/ view \in
          [key : Keys, source : Sources, mode : {"browse", "edit"},
           showSource : BOOLEAN, draft : Drafts,
           applied : Drafts \cup {"none"}, for : Sources]
    /\ activeRun \in 1..MaxAnswers \cup {None}
    /\ typed \in Text

\* The history gives back the line the user was writing (App.tsx:1366,
\* reducer.ts:432): while nothing is recalled the composer holds it, and
\* while an old line is shown it is the draft the down arrow returns to.
TypedComesBack ==
    IF composer.index = None THEN composer.value = typed
    ELSE /\ composer.draft = typed
         /\ composer.value = composer.history[composer.index]

\* A draft belongs to the formula it was written for (App.tsx:209): what is
\* inserted was never written for another formula, though the answer that
\* holds it may change while the view is open.
DraftStaysWithFormula == inserted.for = inserted.as

\* A form that says it is connecting will be answered: the newest request
\* is still on its way, so the form cannot stay locked (App.tsx:1645).
FormIsAnswered ==
    overlay.busy /\ ~leaving =>
        \E request \in waiting :
            request.what = "connect" /\ request.gen = connects

\* A prompt written during a run stays until the user sends it
\* (App.tsx:1266): nothing that arrives meanwhile, a session asked for
\* before included, empties the composer, and Return does not either.
PromptWaits ==
    [][ RunActive /\ activeRun' = activeRun /\ composer.index = None
            /\ ~IsCommand(composer.value) /\ Len(composer.value) > 1
        => composer'.value # <<>> ]_vars

=============================================================================
