SPECIFICATION Spec
CONSTANTS
    Image = {}
    Heap = {1}
    Reserved = {2}
    Values = {0, 1}
    Half = 9
    SideVM = TRUE
    LastTick = 4
    LastGen = 4
INVARIANTS
    SnapshotExact
    BlendExact
    Restored
    BlendsNeighbours
CHECK_DEADLOCK FALSE
