SPECIFICATION Spec
CONSTANTS
    NumImages = 1
    NumChunks = 1
    MaxSockets = 2
    MaxInbox = 4
    PacketsWhole = FALSE
    MaxRetries = 2
    Background = {yield}
    FSM = fsm
INVARIANTS
    TypeOK
    ConnectedMeansAnswered
    NoSocketLeaks
PROPERTIES
    ChunksOnlyAfterAnswer
