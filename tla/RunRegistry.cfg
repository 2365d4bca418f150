SPECIFICATION MCSpec
CONSTANTS
    Runs = {r1, r2}
    Queries = {q1}
    Cancelers = {c1}
    Shutdowners = {s1}
    Uncancelable = {r2}
    Companions = {r2}
    MaxActive = 2
    MaxTerminal = 1
    CancelMayFail = TRUE
    None = None
INVARIANTS
    RegistrySafety
    HandOverIsFresh
    CancelExclusive
    CapacityRespected
    SlotsExact
    ShutdownMarksAll
PROPERTIES
    TerminalIsFinal
    EveryWaitEnds
