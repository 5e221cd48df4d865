SPECIFICATION FairSpec
CONSTANTS
    Cases = {c1}
    Imports = {i1, i2, i3}
    Workers = {w1, w2}
    Sources = {s1}
    Jids = {j1}
    Contents <- MCContents
    Missing = Missing
    Corrupt = Corrupt
    None = None
    LosesAcks = TRUE
    MaxFaults = 1
INVARIANTS
    OnlyReportedImports
PROPERTIES
    EndIsFinal
    ImportsEnd
