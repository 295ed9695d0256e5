SPECIFICATION Spec
CONSTANTS
    Ips = {i1, i2}
    Paths = {"share", "artifacts", "terminal"}
    Limit <- MCLimit
    Window = 2
    MaxKeys = 1
    EvictSlice = 1
    TokenSet = TRUE
    MaxRequests = 3
    MaxTime = 2
    Tokens = {t1, t2, t3}
    Shared = t1
    Dotted = d1
    Spellings <- MCSpellings
    FileOf <- MCFileOf
    Cap = 2
    Lifetimes = {1}
    MaxFailures = 1
    PinWindow = 2
    PinMaxKeys = 1
    MaxFaults = 1
SYMMETRY Symmetry
INVARIANTS GateHolds StoreHolds
PROPERTIES RefusedOnlyWhenFull ArtifactsLast
CHECK_DEADLOCK FALSE
