SPECIFICATION PipelineSpec
CONSTANTS
    LineLen = 2
    FrameLines = 3
    NumFrames = 3
    ChunkCap = 4
    ImageCap = 7
    Timeout = 2
    TickMod = 64
    MaxLag = 0
    TaskPrompt = TRUE
    FramesSpaced = TRUE
    ChunkLen = 2
    TotalChunks = 2
    MaxRetries = 2
    MaxFailures = 1
    MaxOutages = 2
INVARIANTS
    TypeOK
    PingPong
    FramesIntact
    NoOverrun
    ImageInOrder
PROPERTIES
    DeliversFrames
    FramesFinish
