SPECIFICATION Spec
CONSTANTS
    MaxWords = 3
    MaxFds = 2
    MaxArgs = 2
    AllowedExcess = 1
    LimitSends = TRUE
    FlushEverySend = FALSE
    Messages <- MCMessages
    MsgBound = 4
INVARIANTS
    TypeOK
    StreamIntact
    ChunksFit
    NoStall
PROPERTIES
    FdsSentWithWords
    ReturnsDrained
\* A failed send ends the session.
CHECK_DEADLOCK FALSE
