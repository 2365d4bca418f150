SPECIFICATION FairSpec
CONSTANTS
    Managers = {m1, m2}
    Editors = {e1, e2}
    MaxGen = 2
    Settings = {language, root}
    Values = {v1, v2}
    Nobody = Nobody
    Casts = {{m1, m2}, {m1, e1}, {e1, e2}}
    FaultCases = {{"crash", "clone", "publish", "corrupt"}}
INVARIANTS
    EntrySafety
PROPERTIES
    NothingIsOverwritten
    MutationReturns
