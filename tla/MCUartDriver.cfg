SPECIFICATION Spec
CHECK_DEADLOCK FALSE
CONSTANTS
    LineBytes = 2
    FrameLines = 3
    NumFrames = 2
    FifoCap = 3
    TempCap = 4
    ChunkCap = 9
    MaxLost = 4
INVARIANTS
    TypeOK
    DigitsOnceInOrder
    CleanLinesExact
PROPERTIES
    CleanFramePublished
