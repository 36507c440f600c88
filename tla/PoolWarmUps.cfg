SPECIFICATION WarmUpSpec
CONSTANTS
    NoJob = NoJob
    Jobs = {j1, j2, j3}
    InvalidJobs = {}
    Concurrency = 1
    MaxWarmRetries = 2
    MaxRequestId = 3
    MaxExpressions = 3
    MaxRenderTime = 1
    MaxCost = 0
    MaxSpawns = 4
    MaxOutbox = 1
CHECK_DEADLOCK FALSE
INVARIANT
    WarmRetryCap
