SPECIFICATION Spec
CONSTANTS
    j1 = j1
    j2 = j2
    j3 = j3
    NoJob = NoJob
    Jobs <- ThreeJobs
    InvalidJobs <- NoneInvalid
    Concurrency = 2
    MaxWarmRetries = 1
    MaxRequestId = 3
    MaxExpressions = 3
    MaxRenderTime = 1
    MaxCost = 0
    MaxSpawns = 3
    MaxOutbox = 1
SYMMETRY JobSymmetry
CHECK_DEADLOCK FALSE
INVARIANTS
    OnePlace
    RightAnswer
    NoOrphanThread
PROPERTY
    PoisonedWorkerRetired
