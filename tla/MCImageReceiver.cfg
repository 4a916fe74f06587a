SPECIFICATION Spec
CHECK_DEADLOCK FALSE
CONSTANTS
    NumFrames = 4
    Scenarios <- LossyOrMixed
    TotalChunks = 4
INVARIANTS
    TypeOK
    NoReuse
    DeliveredFramesIntact
    HeadIsNewest
