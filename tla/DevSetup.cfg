SPECIFICATION FairSpec
CONSTANTS
    Setups = {s1, s2}
    VersionEditors = {e1}
    SpellingEditors = {e2}
    Checkers = {c1}
    Casts = {{s1, s2}, {s1, e1}, {e1, e2}, {s1, c1}, {e1, c1}, {s1, s2, e1}, {s1, e1, e2}}
    Versions = {v1, v2}
    Spellings = {x, y}
    Tokens = {1, 2, 3, 4, 5, 6, 7, 8, 9, 10, 11, 12}
    Nobody = Nobody
    Missing = Missing
    FaultCases = {{}, {"crash", "io", "install"}}
    FaultyCast = 2
INVARIANTS
    SetupSafety
PROPERTIES
    NothingIsStale
    SetupReturns
