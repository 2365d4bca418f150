SPECIFICATION FairSpec
CONSTANTS
    Kinds = {"core", "process"}
    Cancelers = {c1, c2}
    Joiners = {j1, j2}
    Faults = {"thread", "prepare", "start", "terminate", "read"}
INVARIANTS
    ExecutionSafety
    ExitedMeansGone
    NothingOutlivesWorker
PROPERTIES
    CallsEnd
    ImplementsExecution
