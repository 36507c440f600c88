SPECIFICATION FairSpec
CONSTANTS
    s1 = s1
    s2 = s2
    NoSession = NoSession
    NoFile = NoFile
    NoRun = NoRun
    Stored <- First
    Foreign <- None
    NoProvider <- None
    RenderLag = TRUE
    MaxHistory = 6
    MaxRuns = 2
    MaxNews = 1
    MaxLoads = 0
    MaxClears = 0
    MaxFailures = 1
    MaxCrashes = 1
CHECK_DEADLOCK FALSE
PROPERTY
    NewSessionPointed
