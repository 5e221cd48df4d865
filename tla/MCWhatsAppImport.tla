-------------------------- MODULE MCWhatsAppImport --------------------------
(* Instances of WhatsAppImport for TLC. *)
EXTENDS WhatsAppImport, TLC

\* Stores with at most one message in a chat, but one in some.
MCContents == [Jids -> 0..1] \ {[j \in Jids |-> 0]}

\* Two messages in some chat, or one in each.
MCMixed == {f \in [Jids -> 0..2] : \E j \in Jids : f[j] = 2} \cup {[j \in Jids |-> 1]}

MCSymmetry ==
    Permutations(Imports) \cup Permutations(Workers) \cup Permutations(Jids)
        \cup Permutations(Cases) \cup Permutations(Sources)
=============================================================================
