-------------------------- MODULE MCEvidenceCustody --------------------------
(* Instances of EvidenceCustody for TLC. *)
EXTENDS EvidenceCustody, TLC

CONSTANTS legacy, current \* values of the hashed columns

\* "type" of a legacy row becomes its current spelling; the rest is left alone.
MCMigrateType == [c \in Contents |-> IF c = legacy THEN current ELSE c]
MCNoMigration == [c \in Contents |-> c]

MCSymmetry == Permutations(Users) \cup Permutations(Workers) \cup Permutations(TransferIds)
=============================================================================
