SPECIFICATION Spec
CONSTANTS
    NumImages = 1
    NumChunks = 1
    MaxSockets = 1
    MaxInbox = 4
    PacketsWhole = FALSE
    MaxRetries = 1
    Background = {yield, recv}
    FSM = fsm
PROPERTIES
    TimeoutKeepsSession
