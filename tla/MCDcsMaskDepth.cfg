SPECIFICATION Spec
CONSTANTS
    g1 = g1
    g2 = g2
    isr = isr
    GameThreads <- OneGame
    Tick = isr
    StealPolls = 4
    MaxDepth = 2
    MaxNest = 4
    DepthMod = 6
    Stalls = TRUE
    CallbackLocks = FALSE
INVARIANTS
    DepthTells
