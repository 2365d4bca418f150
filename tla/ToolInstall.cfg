SPECIFICATION FairInstallSpec
CONSTANTS
    Installers = {i1, i2}
    Entries = {a, b}
    Versions = {v1, v2}
    Stamps = {1, 2}
    Legacy = {x, y}
    MaxBackups = 2
    Nobody = Nobody
    Nothing = Nothing
    Starts <- SampleStarts
    FaultCases = {{"crash", "io"}, {"wrong", "download"}, {"damage", "io"}}
INVARIANTS
    InstallSafety
PROPERTIES
    NothingIsLost
    InstallReturns
