------------------------------ MODULE Casework ------------------------------
(* Cases and tasks, and the organization that works on them: CaseBoard and   *)
(* OrgHierarchy share no state.                                              *)
EXTENDS CaseBoard

CONSTANT Nodes

VARIABLE nodes

Org == INSTANCE OrgHierarchy

(* As OrgHierarchy states it (organization_service.py:92). *)
LostOnlyInCycles == Org!LostOnlyInCycles
=============================================================================
