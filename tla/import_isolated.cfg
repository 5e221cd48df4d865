SPECIFICATION IsolatedSpec
CONSTANTS
    Cases = {c1}
    Imports = {i1, i2, i3}
    Workers = {w1}
    Sources = {s1}
    Jids = {j1, j2}
    Contents <- MCMixed
    Missing = Missing
    Corrupt = Corrupt
    None = None
    LosesAcks = FALSE
    MaxFaults = 1
SYMMETRY MCSymmetry
INVARIANTS
    TypeOK
PROPERTIES
    ImplementsStore
