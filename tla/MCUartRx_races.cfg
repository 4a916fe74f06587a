SPECIFICATION Spec
CONSTANTS
    LineLen = 2
    FrameLines = 2
    NumFrames = 2
    ChunkCap = 4
    ImageCap = 8
    Timeout = 1
    TickMod = 64
    MaxLag = 1
    TaskPrompt = FALSE
    FramesSpaced = FALSE
INVARIANTS
    BufferBounds
    LinesInOrder
    ImagesSeparate
PROPERTIES
    ImageLeaves
