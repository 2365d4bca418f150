SPECIFICATION FairSpec
CONSTANTS
    Writer = w
    Readers = {r1, r2}
    Nobody = Nobody
    FileLimit = 2
    MaxSequence = 3
    FaultCases = {
        {"create", "append", "publish", "crash", "power"},
        {"create", "publish", "crash", "power"},
        {"create", "append"}}
INVARIANTS
    JournalSafety
    EndingIsComplete
PROPERTIES
    EndingIsKept
    InterruptedIsAbandoned
    AbandonedIsReconciled
    ImplementsRecord
