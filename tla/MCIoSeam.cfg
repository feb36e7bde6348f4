SPECIFICATION FairSpec
CONSTANTS
    main = main
    other = other
    poll = poll
    nobody = nobody
    Threads <- TwoThreads
    Poll = poll
    Frame = main
    Starter = main
    HasPrintf = TRUE
    Printers <- Everyone
    Exits <- TwoThreads
    MaxWaits = 2
    CatchUp = 2
    Nobody = nobody
INVARIANTS
    SeamExclusion
    ShutdownOrder
PROPERTIES
    OneOwner
    DispatchContinues
    ExitEnds
