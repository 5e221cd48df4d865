SPECIFICATION IsolatedSpec
CONSTANTS
    Users = {u1, u2, u3}
    Emails = {e1, e2, e3}
    p1 = p1
    w1 = w1
    Processes = {p1}
    Workers = {w1, w2}
    process_of <- MCOneProcess
    Tokens = {t1}
    Patches <- MCPatches
    Unset = Unset
SYMMETRY MCThreads
INVARIANTS
    AnAdminRemains
    AnsweredStaysOut
PROPERTIES
    AdminsStay
