SPECIFICATION Spec
CHECK_DEADLOCK FALSE
CONSTANTS
    EventQueueSize = 3
    ReconnectQueueSize = 2
INVARIANTS
    TypeOK
    StartNotMissed
    ListeningMeansServed
    HaltsWithoutReceiver
PROPERTIES
    StartDecides
    YieldGoesOn
