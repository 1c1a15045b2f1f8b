SPECIFICATION Spec
CONSTANTS
    MaxWords = 3
    MaxFds = 1
    MaxArgs = 1
    AllowedExcess = 1
    LimitSends = TRUE
    FlushEverySend = FALSE
    AlwaysCompact = FALSE
    Messages <- MCMessages
    MsgBound = 3
    SockCap = 3
    Mark = 2
INVARIANTS
    NoLostWakeUp
    RoomToReceive
    UnreadIntact
PROPERTIES
    Refines
