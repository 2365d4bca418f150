SPECIFICATION Spec
CONSTANTS
    Writer = w
    Readers = {r1}
    Nobody = Nobody
    FileLimit = 2
    MaxSequence = 2
    FaultCases = {{"append"}}
INVARIANTS
    JournalIsReadable
