SPECIFICATION ConsoleFairSpec
CONSTANTS
    MaxFrame = 4
    Cases <- SampleCases
INVARIANTS
    OutputSafety
    EndingIsTrue
PROPERTIES
    CommandReturns
CHECK_DEADLOCK FALSE
