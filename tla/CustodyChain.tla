---------------------------- MODULE CustodyChain ----------------------------
(***************************************************************************)
(* What the custody part of Evidentra promises (docs/PROJECT_SCENARIO.md,  *)
(* d.7.3 and d.7.4): every registered item has one holder, at most one     *)
(* hand-over of it is on offer at a time, and the holder changes only when *)
(* the recipient of that offer accepts it.                                 *)
(***************************************************************************)
CONSTANTS Users, Evidences, None

VARIABLES holder, \* who has the item; None: not registered
          offer   \* to whom its holder offers it; None: to nobody

vars == <<holder, offer>>

TypeOK ==
    /\ holder \in [Evidences -> Users \cup {None}]
    /\ offer \in [Evidences -> Users \cup {None}]

Init ==
    /\ holder = [e \in Evidences |-> None]
    /\ offer = [e \in Evidences |-> None]

\* The item is registered and its registrar has it.
Register(e, u) ==
    /\ holder[e] = None
    /\ holder' = [holder EXCEPT ![e] = u]
    /\ UNCHANGED offer

\* The item is offered to somebody other than its holder.
Offer(e, u) ==
    /\ holder[e] # None
    /\ offer[e] = None
    /\ u # holder[e]
    /\ offer' = [offer EXCEPT ![e] = u]
    /\ UNCHANGED holder

\* The recipient takes the item over.
Accept(e) ==
    /\ offer[e] # None
    /\ holder' = [holder EXCEPT ![e] = offer[e]]
    /\ offer' = [offer EXCEPT ![e] = None]

\* The recipient declines; the holder keeps the item.
Decline(e) ==
    /\ offer[e] # None
    /\ offer' = [offer EXCEPT ![e] = None]
    /\ UNCHANGED holder

Next ==
    \E e \in Evidences :
        \/ \E u \in Users : Register(e, u) \/ Offer(e, u)
        \/ Accept(e)
        \/ Decline(e)

Spec == Init /\ [][Next]_vars
=============================================================================
