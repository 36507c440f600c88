SPECIFICATION Spec
CONSTANTS
    j1 = j1
    j2 = j2
    j3 = j3
    NoJob = NoJob
    Jobs <- ThreeJobs
    InvalidJobs <- LastInvalid
    Concurrency = 1
    MaxWarmRetries = 2
    MaxRequestId = 2
    MaxExpressions = 2
    MaxRenderTime = 1
    MaxCost = 0
    MaxSpawns = 2
    MaxOutbox = 1
CHECK_DEADLOCK FALSE
INVARIANT
    HostSurvives
