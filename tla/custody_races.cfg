SPECIFICATION Spec
CONSTANTS
    Users = {u1, u2}
    Editable = {u2}
    Evidences = {e1}
    TransferIds = {t1}
    Workers = {w1, w2}
    legacy = legacy
    current = current
    Contents = {legacy, current}
    MigrateType <- MCMigrateType
    MaxClock = 2
    None = None
INVARIANTS
    MovesAreConsented
    DecisionsAreAudited
    BaselineAudited
