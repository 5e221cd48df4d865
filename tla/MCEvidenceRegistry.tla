------------------------- MODULE MCEvidenceRegistry -------------------------
(* Instances of EvidenceRegistry for TLC. *)
EXTENDS EvidenceRegistry, TLC

CONSTANTS phone, legacy, laptop, \* types: "Smartphone", "mobile", "Laptop"
          mobile, device,        \* categories
          OneDay

MCDerive == [t \in Types |-> IF t = laptop THEN device ELSE mobile]
MCMigrate == [t \in Types |-> IF t = legacy THEN phone ELSE t]

\* A number typed in that is the second of its day.
MCManual == {<<OneDay, 2>>}

Only(field, value) ==
    [[f \in {"registration_number", "type", "imei_slot1", "imei_slot2"} |-> Unset]
        EXCEPT ![field] = value]

\* Every payload that sets one field, and those that set the type and an IMEI.
MCPatches ==
    {Only("type", t) : t \in Types}
    \cup {Only(f, i) : f \in {"imei_slot1", "imei_slot2"}, i \in Slot}
    \cup {Only("registration_number", n) : n \in Manual}
    \cup {[Only("type", t) EXCEPT !.imei_slot1 = i] : t \in Types, i \in Slot}

MCSymmetry ==
    Permutations(Cases) \cup Permutations(Evidences) \cup Permutations(Workers)
        \cup Permutations(Imeis)
=============================================================================
