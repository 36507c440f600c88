SPECIFICATION Spec
CONSTANTS
    s1 = s1
    s2 = s2
    NoSession = NoSession
    NoFile = NoFile
    NoRun = NoRun
    Stored <- First
    Foreign <- None
    NoProvider <- None
    RenderLag = FALSE
    MaxHistory = 4
    MaxRuns = 2
    MaxNews = 0
    MaxLoads = 1
    MaxClears = 0
    MaxFailures = 0
    MaxCrashes = 0
CHECK_DEADLOCK FALSE
PROPERTY
    TranscriptsOnlyGrow
