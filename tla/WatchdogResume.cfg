SPECIFICATION Spec
CONSTANTS
    Presenters = {logic, drawer}
    Armer = logic
    DumpLocks = {stream, mask}
    GameLocks = {stream, mask}
    NoOne = noone
    MaxHandles = 2
    MaxReports = 1
PROPERTIES
    AlwaysResumed
CHECK_DEADLOCK FALSE
