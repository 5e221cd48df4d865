SPECIFICATION IsolatedSpec
CONSTANTS
    Users = {u1, u2}
    Editable = {u2}
    Evidences = {e1}
    TransferIds = {t1, t2}
    Workers = {w1}
    legacy = legacy
    current = current
    Contents = {legacy, current}
    MigrateType <- MCMigrateType
    MaxClock = 3
    None = None
INVARIANTS
    ChainContinuity
    OnePendingTransfer
    ApprovedIffMoved
PROPERTIES
    ProcessedOnce
    MovedIntact
    ImplementsChain
