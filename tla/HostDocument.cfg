SPECIFICATION Spec
CONSTANTS
    MaxProcs = 2
    AskedProcs = 2
    MaxRelease = 1
    Ports = {n1, n2}
    Clients = {}
    FaultCases = {{}}
PROPERTIES
    RemovesOnlyTheCurrentOwner
CHECK_DEADLOCK FALSE
