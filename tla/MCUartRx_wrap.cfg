SPECIFICATION Spec
CONSTANTS
    LineLen = 2
    FrameLines = 2
    NumFrames = 1
    ChunkCap = 4
    ImageCap = 5
    Timeout = 2
    TickMod = 64
    MaxLag = 1
    TaskPrompt = TRUE
    FramesSpaced = TRUE
PROPERTIES
    CompleteAfterSilence
