SPECIFICATION Spec
CONSTANTS
    Users = {u1, u2}
    Editable = {}
    Evidences = {e1}
    TransferIds = {t1, t2}
    Workers = {w1, w2}
    legacy = legacy
    current = current
    Contents = {current}
    MigrateType <- MCNoMigration
    MaxClock = 2
    None = None
SYMMETRY MCSymmetry
INVARIANTS
    OnePendingTransfer
