SPECIFICATION ClockSpec
CONSTANTS
    window = window
    callback = callback
    Pauser = window
    Readers <- BothRead
    Qpf = 2
    TargetHz = 3
    SpeedPercent = 150
    Word = 32
    MaxQpc = 5
    MaxDepth = 2
    Period = 2
    CatchUp = 3
    QueueMax = 3
    StampMin = 1
    LastPass = 10
    LastTime = 20
    Never = never
    T = 10
    InbStart = 3
    PostStart = 2
    MarginStart = 2
    MarginMin = 1
    MarginMax = 2
    MarginStep = 1
    MarginDecay = 1
    Slack = 1
    Recover = 1
    ProbeMin = 1
    ProbeMax = 2
    LightInb = {1}
    LightPost = {2}
    LightStart = {0, 1}
    HeavyInb = {2, 6}
    HeavyPost = {5, 6}
    HeavyStart = {0, 2}
    Swaps = {0, 3}
INVARIANTS
    PauseAccounts
    InOrder
    Paced
    InTime
PROPERTIES
    Delivered
    FullRate
CHECK_DEADLOCK FALSE
