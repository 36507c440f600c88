SPECIFICATION Spec
CONSTANTS
    Letters <- OneLetter
    Slash = "/"
    Math = "a"
    Answer <- Streamed
    None = None
    HistorySize = 2
    Items = 2
    EffectLag = FALSE
    MaxText = 2
    MaxField = 1
    MaxAnswers = 1
    MaxReplaced = 1
    MaxConnects = 2
    MaxWaiting = 1
CHECK_DEADLOCK FALSE
INVARIANTS
    TypedComesBack
    DraftStaysWithFormula
    FormIsAnswered
PROPERTY
    PromptWaits
