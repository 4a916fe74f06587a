SPECIFICATION Spec
CONSTANTS
    NumImages = 1
    NumChunks = 2
    MaxSockets = 2
    MaxInbox = 4
    PacketsWhole = TRUE
    MaxRetries = 1
    Background = {yield}
    FSM = fsm
PROPERTIES
    DeadSessionNoticed
    TaskReturns
    UploadIsPrefix
