SPECIFICATION FairSpec
CONSTANTS
    main = main
    other = other
    poll = poll
    nobody = nobody
    Threads <- TwoThreads
    Poll = poll
    Frame = main
    Starter = main
    HasPrintf = FALSE
    Printers <- OnlyMain
    Exits <- OnlyPoll
    MaxWaits = 2
    CatchUp = 2
    Nobody = nobody
PROPERTIES
    ExitEnds
