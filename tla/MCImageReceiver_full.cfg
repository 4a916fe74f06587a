SPECIFICATION Spec
CHECK_DEADLOCK FALSE
CONSTANTS
    NumFrames = 3
    Scenarios <- OnlyFull
    TotalChunks = 4
INVARIANTS
    JoinedFramesComplete
