SPECIFICATION MCSpec
CONSTANTS
    Cases = {c1, c2}
    Tasks = {t1}
    Workers = {w1, w2}
    in1 = in1
    Initials = {in1}
    LastDay = 2
    MaxSequence = 2
    MaxRows = 2
    Manual <- MCManual
    CasePatches <- MCCasePatches
    TaskPatches <- MCTaskPatches
    Statuses <- MCStatuses
    DueDates <- MCDueDates
    None = None
    Unset = Unset
    Nodes = {n1, n2, n3, n4}
SYMMETRY MCSymmetry
INVARIANTS
    GeneratedNumberRefused
    LogTellsStatus
PROPERTIES
    NoTaskJoinsClosed
    NoMoveUndone
    LostOnlyInCycles
