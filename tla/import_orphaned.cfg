SPECIFICATION FairSpec
CONSTANTS
    Cases = {c1}
    Imports = {i1}
    Workers = {w1}
    Sources = {s1}
    Jids = {j1}
    Contents <- MCContents
    Missing = Missing
    Corrupt = Corrupt
    None = None
    LosesAcks = FALSE
    MaxFaults = 1
PROPERTIES
    QueuedImportsEnd
