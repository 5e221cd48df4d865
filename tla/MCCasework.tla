----------------------------- MODULE MCCasework -----------------------------
(* Instances of Casework for TLC.  A behaviour takes steps of CaseBoard or of *)
(* OrgHierarchy.                                                              *)
EXTENDS Casework, TLC

CONSTANT in1

MCManual == {<<in1, 1, 2>>}
MCCasePatches ==
    {[reference_number |-> n, dated |-> FALSE] : n \in Manual \cup {None}}
    \cup {[reference_number |-> Unset, dated |-> TRUE]}
MCTaskPatches ==
    {[status |-> s, due_date |-> Unset] : s \in {None, Unset}}
    \cup {[status |-> Unset, due_date |-> d] : d \in {2, None}}
MCStatuses == {"open", "closed"}
MCDueDates == {1}

MCInit == Init /\ Org!Init
MCNext ==
    \/ Next /\ nodes = << >> /\ UNCHANGED nodes
    \/ Org!Next /\ Init /\ UNCHANGED vars
MCSpec == MCInit /\ [][MCNext]_<<vars, nodes>>

MCSymmetry ==
    Permutations(Cases) \cup Permutations(Tasks) \cup Permutations(Workers) \cup Permutations(Nodes)
=============================================================================
