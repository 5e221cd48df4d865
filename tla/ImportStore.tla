---------------------------- MODULE ImportStore ----------------------------
(***************************************************************************)
(* What the import of WhatsApp chats promises, without transactions: an    *)
(* import either replaces every chat it has messages for by those messages *)
(* at once, or fails and changes nothing, and is over then.                *)
(***************************************************************************)
EXTENDS Naturals

CONSTANTS
    Imports,  \* ids of imports
    Cases,
    Jids,     \* chats of a case
    Contents  \* what a message store can hold: how many messages of each chat

VARIABLES
    job,      \* how far an import is, and its case
    store     \* the messages of a chat: who imported how many

vars == <<job, store>>

Init ==
    /\ job = [i \in Imports |-> <<"none">>]
    /\ store = [k \in Cases \X Jids |-> {}]

Accept(i, c) ==
    /\ job[i] = <<"none">>
    /\ job' = [job EXCEPT ![i] = <<"accepted", c>>]
    /\ UNCHANGED store

Complete(i, c, content) ==
    /\ job[i] = <<"accepted", c>>
    /\ job' = [job EXCEPT ![i] = <<"completed", c>>]
    /\ store' = [k \in Cases \X Jids |->
                    IF k[1] = c /\ content[k[2]] > 0
                    THEN {[import |-> i, size |-> content[k[2]]]}
                    ELSE store[k]]

Fail(i, c) ==
    /\ job[i] = <<"accepted", c>>
    /\ job' = [job EXCEPT ![i] = <<"failed", c>>]
    /\ UNCHANGED store

Next ==
    \E i \in Imports, c \in Cases :
        \/ Accept(i, c)
        \/ \E content \in Contents : Complete(i, c, content)
        \/ Fail(i, c)

Spec == Init /\ [][Next]_vars
=============================================================================
