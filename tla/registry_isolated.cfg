SPECIFICATION IsolatedSpec
CONSTANTS
    Cases = {c1, c2}
    Evidences = {e1, e2, e3}
    Workers = {w1}
    Days = {d1}
    OneDay = d1
    Imeis = {i1, i2}
    phone = phone
    legacy = legacy
    laptop = laptop
    mobile = mobile
    device = device
    Types = {phone, legacy, laptop}
    Categories = {mobile, device}
    derive_category <- MCDerive
    Mobile = mobile
    MigrateType <- MCMigrate
    Manual <- MCManual
    Patches <- MCPatches
    MaxSequence = 4
    None = None
    Unset = Unset
SYMMETRY MCSymmetry
INVARIANTS
    UniqueImeis
    SlotsFit
    GeneratedNumberFree
PROPERTIES
    FrozenWhenClosed
