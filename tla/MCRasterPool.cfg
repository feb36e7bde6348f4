SPECIFICATION FairSpec
CONSTANTS
    p1 = p1
    p2 = p2
    MaxWorkers = 3
    MaxRows = 3
    Incarnations <- MCIncarnations
    GenMod = 2
    CloseMayTimeOut = FALSE
INVARIANTS
    DrawnOnce
    NoExpiredContext
    NoLostWake
PROPERTIES
    JobReturns
    CloseReturns
