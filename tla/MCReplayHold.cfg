SPECIFICATION HoldSpec
CONSTANTS
    g1 = g1
    isr = isr
    GameThreads <- OneGame
    Tick = isr
    StealPolls = 1
    MaxDepth = 1
    MaxNest = 2
    DepthMod = 3
    Stalls = TRUE
    CallbackLocks = TRUE
    Drawer = g1
    MaxIrq = 1
INVARIANTS
    DrawTells
    WindowKeepsTickOut
    Unwound
PROPERTIES
    WindowComes
