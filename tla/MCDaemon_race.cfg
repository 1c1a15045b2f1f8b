SPECIFICATION DaemonSpec
CONSTANTS
    Clients = {c1, c2}
    Signals = {}
    Modes = {"terminate"}
    WatchServer = FALSE
PROPERTIES
    NoNewSessions
\* The process may have ended.
CHECK_DEADLOCK FALSE
