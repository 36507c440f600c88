SPECIFICATION Spec
CONSTANTS
    s1 = s1
    s2 = s2
    NoSession = NoSession
    NoFile = NoFile
    NoRun = NoRun
    Stored <- Both
    Foreign <- Second
    NoProvider <- None
    RenderLag = FALSE
    MaxHistory = 6
    MaxRuns = 2
    MaxNews = 1
    MaxLoads = 1
    MaxClears = 1
    MaxFailures = 1
    MaxCrashes = 1
CHECK_DEADLOCK FALSE
INVARIANTS
    RunKeepsSession
    NoDanglingPointer
    SessionsStayApart
PROPERTIES
    LateResultsYield
    TranscriptsGrow
