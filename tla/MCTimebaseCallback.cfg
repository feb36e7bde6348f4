SPECIFICATION Spec
CONSTANTS
    window = window
    callback = callback
    Pauser = window
    Readers <- CallbackReads
    Qpf = 2
    TargetHz = 3
    SpeedPercent = 150
    Word = 32
    MaxQpc = 7
    MaxDepth = 2
INVARIANTS
    NeverAhead
