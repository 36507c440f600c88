SPECIFICATION Spec
CONSTANTS
    p1 = p1
    p2 = p2
    d1 = d1
    d2 = d2
    None = None
    Providers <- TwoProviders
    Docs <- OneDoc
    MaxStaged = 1
    MaxConnects = 2
    MaxSessions = 1
    MaxRefreshes = 1
    MaxReads = 1
CHECK_DEADLOCK FALSE
INVARIANT
    CatalogOfConnection
