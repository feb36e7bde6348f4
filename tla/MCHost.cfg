SPECIFICATION HostSpec
CONSTANTS
    NvThreads = {game, other}
    Writer = game
    Leavers = {game, other}
    MaxWrites = 3
    Absent = absent
    NvNobody = nobody
    Addresses = 5
    ExMax = 2
    ExTtl = 1
    LastExpiry = 3
    Hunks = {1, 2, 3}
    Bad = {3}
    NSlots = 2
    Decoders = {d1, d2}
    Plans <- PlansDef
    Window = 2
    Look = 2
    NoSlot = noslot
    Torn = torn
    Folders = 3
    MaxFaults = 1
    NVoices = 2
    Buffers = {1, 2}
    Banks = {music, engine}
    NoBank = nobank
    Presenters = {logic, drawer}
    Armer = logic
    DumpLocks = {stream, mask}
    GameLocks = {stream, mask}
    NoOne = noone
    MaxHandles = 4
    MaxReports = 2
    logic = logic
    drawer = drawer
    isr = isr
    Game <- TwoGames
    Sides <- OneSide
    Frame = drawer
    SideRegions = TRUE
    Budget = 2
    MaxLvl = 2
    click = click
    skid = skid
    OrVoices = 2
    Samples <- SamplesDef
    NoSample = nosample
    LengthOf <- LengthDef
    Attrs <- AttrsDef
    Changes <- ChangesDef
    Sub = 2
    MaxDone = 3
    Stall = 2
    ElapsedMax = 3
    Second = 2
    Block = 2
    MaxCalls = 4
    coin = coin
    Switches = {coin}
    CoinUnits <- UnitsDef
    TestSwitch = coin
    PerCredit = 1
    MaxCredits = 2
    Price = 2
    Nothing = nothing
    MaxSamples = 3
    MaxAsks = 2
INVARIANTS
    FoundWhileFresh
    RightHunk
    Placed
    MixesLive
    HandleStays
    ReadsInside
    SamePace
    Counted
    Credited
PROPERTIES
    SavesNewest
    EntersOpen
    Resumed
    ReadEnds
    Retires
CHECK_DEADLOCK FALSE
