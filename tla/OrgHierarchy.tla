---------------------------- MODULE OrgHierarchy ----------------------------
(***************************************************************************)
(* The organization chart (backend/services/organization_service.py,       *)
(* d.6.6): nodes that name their parent, and the forest made of them.      *)
(*                                                                         *)
(* Nodes are never deleted, so a parent found by a request is still there  *)
(* at its commit, and a request is one step.                               *)
(***************************************************************************)
CONSTANTS
    Nodes, \* node ids
    None   \* SQL NULL

VARIABLE nodes  \* table org_hierarchy: the column parent_id

TypeOK ==
    /\ DOMAIN nodes \subseteq Nodes
    /\ nodes \in [DOMAIN nodes -> (DOMAIN nodes) \cup {None}]

Roots == {n \in DOMAIN nodes : nodes[n] = None}
Children(above) == {n \in DOMAIN nodes : nodes[n] \in above}

\* The nodes reached from some by going to children again and again: all that is in
\* every set that holds them and the children of its members.
Reached(tops) ==
    {n \in DOMAIN nodes :
        \A S \in SUBSET DOMAIN nodes : tops \cup Children(S) \subseteq S => n \in S}

\* get_hierarchy_forest: the roots, each with the tree that _to_tree makes of its children.
get_hierarchy_forest == Reached(Roots)

\* The nodes under a node, itself included.
Below(top) == Reached({top})

----------------------------------------------------------------------------
Init == nodes = << >>

\* create_node: the parent, if any, exists (404).
CreateNode(n, parent) ==
    /\ n \notin DOMAIN nodes
    /\ parent \in DOMAIN nodes \cup {None}
    /\ nodes' = [m \in DOMAIN nodes \cup {n} |-> IF m = n THEN parent ELSE nodes[m]]

\* Fault: the parent is not looked up.
UpdateToAny(n, parent) ==
    /\ n \in DOMAIN nodes
    /\ parent \in Nodes \ {n}
    /\ nodes' = [nodes EXCEPT ![n] = parent]

\* update_node: a NULL parent means "leave it", so a node never becomes a root; a
\* parent exists (404) and is not the node itself (422).
UpdateNode(n, parent) ==
    /\ n \in DOMAIN nodes
    /\ parent \in DOMAIN nodes \ {n}
    /\ nodes' = [nodes EXCEPT ![n] = parent]

Next ==
    \E n \in Nodes, parent \in Nodes \cup {None} : CreateNode(n, parent) \/ UpdateNode(n, parent)

Spec == Init /\ [][Next]_nodes

----------------------------------------------------------------------------
(* Properties.                                                             *)

\* Nodes disappear from the chart only when an update puts a node under one of its
\* own descendants, or under a node already lost: then all below it are in no tree
\* (organization_service.py:34, 92-97).  No other update loses a node.
LostOnlyInCycles ==
    [][get_hierarchy_forest \subseteq get_hierarchy_forest' \/
           \E n \in DOMAIN nodes :
               /\ nodes'[n] # nodes[n]
               /\ nodes'[n] \in Below(n) \cup (DOMAIN nodes \ get_hierarchy_forest)
               /\ get_hierarchy_forest \ get_hierarchy_forest' = Below(n)]_nodes
=============================================================================
