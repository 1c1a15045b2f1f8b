SPECIFICATION Spec
CONSTANTS
    null = null
    Null = null
    Decls <- MCDecls
    Values <- MCValues
    NewValues <- MCNewValues
    Limits <- MCLimits
    Display <- MCDisplay
    ServerStart = 100
    HandshakeId = 200
    DebugLevels = {0, 1}
    MaxAddons = 2
    MaxWords = 9
    MsgBound = 2
CHECK_DEADLOCK FALSE
INVARIANTS
    TypeOK
    SentAsMeant
    IdsTracked
    PanicsCalledFor
