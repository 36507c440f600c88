SPECIFICATION FairSpec
CONSTANTS
    a = a
    b = b
    Deltas <- UpToThree
    Fragments <- Pieces
    Secret <- AroundAgain
    Marker = Marker
    Originals <- SomeFormulas
    Rows <- SomeRows
    Selections <- Chosen
    MaxRows = 2
    MaxText = 8
    MaxPrinted = 4
    MaxChunk = 2
CHECK_DEADLOCK FALSE
INVARIANTS
    EndsOnce
    ChunksDoNotMatter
    BodyReleased
    OnlyTheChosenModel
    AbortIsCancellation
    ParsedAsWholeElsewhere
    EditReadsBack
PROPERTY
    RunSettles
