SPECIFICATION FairSpec
CONSTANTS
    Actors = {a1, a2}
    Manager = manager
    Entries = {entry}
    Releases = {r1, r2}
    Processes = {p1}
    Nobody = Nobody
    NoRelease = NoRelease
    FaultCases = {{"crash", "copy", "rename", "remove", "publish", "damage"}}
INVARIANTS
    ReleaseSafety
PROPERTIES
    AppearsComplete
    PublicationReturns
