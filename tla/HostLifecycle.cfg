SPECIFICATION FairSpec
CONSTANTS
    MaxProcs = 3
    AskedProcs = 2
    MaxRelease = 2
    Ports = {n1, n2}
    Clients = {c1}
    FaultCases = {
        {},
        {"request", "command", "select", "crash"},
        {"request", "select", "coordinator"},
        {"command", "tray", "launch", "bind", "publish"}}
INVARIANTS
    HostSafety
PROPERTIES
    ReachesNamedHost
    RequestsEnd
CHECK_DEADLOCK FALSE
