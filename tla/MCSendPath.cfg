SPECIFICATION Spec
CHECK_DEADLOCK FALSE
CONSTANTS
    LenBase = 5
    NumChunks = 2
    NumImages = 1
    MaxConnections = 2
    MaxPings = 2
    Background = {yield}
    FSM = fsm
INVARIANTS
    TypeOK
    ChunksAsSent
    DamageEndsSession
    NoOverRead
    LengthCode
