----------------------------- MODULE MCAccounts -----------------------------
(* Instances of Accounts for TLC. *)
EXTENDS Accounts, TLC

CONSTANTS p1, w1

\* Thread w1 runs in process p1, the others in any other there is.
MCProcessOf ==
    [w \in Workers |->
        IF w = w1 \/ Processes = {p1} THEN p1 ELSE CHOOSE p \in Processes : p # p1]

MCOneProcess == [w \in Workers |-> p1]

Only(field, value) ==
    [[f \in {"email", "role", "is_active"} |-> Unset] EXCEPT ![field] = value]

\* Every payload with one field, and those with a role and an activation.
MCPatches ==
    {Only("email", e) : e \in Emails}
    \cup {Only("role", r) : r \in Assignable}
    \cup {Only("is_active", b) : b \in BOOLEAN}
    \cup {[Only("role", r) EXCEPT !.is_active = b] : r \in Assignable, b \in BOOLEAN}
MCActivations == {Only("is_active", b) : b \in BOOLEAN}

MCSymmetry == Permutations(Users) \cup Permutations(Emails) \cup Permutations(Tokens)
MCThreads == MCSymmetry \cup Permutations(Workers)
=============================================================================
