SPECIFICATION FairSpec
CONSTANTS
    c1 = c1
    c2 = c2
    c3 = c3
    c4 = c4
    k1 = k1
    k2 = k2
    k3 = k3
    NoCall = NoCall
    Calls <- FourCalls
    Keys <- ThreeKeys
    Key <- MostlyOne
    Weight <- Weights
    HasStore = TRUE
    MaxEntries = 2
    MaxBytes = 2
CHECK_DEADLOCK FALSE
INVARIANT
    OneOperationPerKey
PROPERTIES
    ServiceSpec
    EveryCallAnswered
