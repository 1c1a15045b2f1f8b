SPECIFICATION Spec
CONSTANTS
    ChunkLen = 1
    RecvMax = 2
    SockCap = 1
    Mark = 0
    MsgBound <- MCMsgBound
CHECK_DEADLOCK FALSE
INVARIANTS
    TypeOK
    NothingLost
    NothingLeftBehind
PROPERTIES
    Served
