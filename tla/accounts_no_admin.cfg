SPECIFICATION Spec
CONSTANTS
    Users = {u1, u2}
    Emails = {e1, e2}
    p1 = p1
    w1 = w1
    Processes = {p1}
    Workers = {w1, w2}
    process_of <- MCProcessOf
    Tokens = {}
    Patches <- MCActivations
    Unset = Unset
SYMMETRY MCSymmetry
INVARIANTS
    AnAdminRemains
