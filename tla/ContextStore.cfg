SPECIFICATION FairSpec
CONSTANTS
    Ids = {a, b}
    Processes = {p1, p2}
    Named = {a}
    Old = Old
    MaxNotes = 2
    None = None
    Unread = Unread
    MaxCalls = 3
    MaxFaults = 1
INVARIANTS
    ContextSafety
PROPERTIES
    ImplementsRecords
    CommandReturns
