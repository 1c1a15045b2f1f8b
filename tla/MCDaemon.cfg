SPECIFICATION DaemonSpec
CONSTANTS
    Clients = {c1, c2, c3}
    Signals = {"SIGTERM"}
    Modes = {"threads", "terminate", "single", "fork"}
    WatchServer = TRUE
INVARIANTS
    DaemonTypeOK
PROPERTIES
    SparesSessions
    QuietEndsProcess
    LoopEnds
    AcceptedServed
\* The process may have ended.
CHECK_DEADLOCK FALSE
