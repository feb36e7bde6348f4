SPECIFICATION FairSpec
CONSTANTS
    g1 = g1
    g2 = g2
    isr = isr
    GameThreads <- TwoGames
    Tick = isr
    StealPolls = 2
    MaxDepth = 1
    MaxNest = 3
    DepthMod = 3
    Stalls = TRUE
    CallbackLocks = TRUE
INVARIANTS
    TickLetsGo
PROPERTIES
    TickBreaksCycle
