SPECIFICATION MCSpec
CONSTANTS
    Cases = {c1}
    Paths = {p1}
    Documents = {d1, d2}
    Graphs = {g1}
    Workers = {w1, w2}
    MaxWeight = 1
    DocumentLimit = 2
    GraphLimit = 1
    ItemLimit = 2
    MaxVersion = 2
    MaxMessages = 2
    MaxLog = 5
    MaxRaceLog = 1
    MaxLife = 2
    None = None
    TTL = 2
    MaxRows = 2
    Latencies = {1, 2}
    MaxRuns = 21
    KeyError = KeyError
CHECK_DEADLOCK FALSE
INVARIANTS
    ServicesTyped
    
    LogBehindWork
    LatestFirst
    SlowRunsFew
PROPERTIES
    ChangesAreShown
