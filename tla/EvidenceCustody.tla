--------------------------- MODULE EvidenceCustody ---------------------------
(***************************************************************************)
(* Chain of custody, transfer approval and integrity baseline of evidence  *)
(* (backend/services/custody_service.py with the parts of                  *)
(* evidence_service.py that touch the same rows, d.7.3 - d.7.5).           *)
(*                                                                         *)
(* Every request runs in a thread of its own with a session of its own.    *)
(* Its SELECTs are separate statements, nothing locks a row, and all its   *)
(* writes reach the database together in the commit that ends it.  So a    *)
(* request is a sequence of steps, one per SELECT other requests can       *)
(* invalidate, that ends in a commit step, an error or an abort.           *)
(*                                                                         *)
(* Bounds of an instance: the sets of users, items, transfer ids, threads  *)
(* and contents, and MaxClock, the number of time stamps handed out.       *)
(***************************************************************************)
EXTENDS Naturals

CONSTANTS
    Users,        \* user ids
    Editable,     \* the accounts an administrator edits in this instance
    Evidences,    \* evidence ids
    TransferIds,  \* ids of transfer_approvals rows
    Workers,      \* request threads of the server
    Contents,     \* values of the hashed columns of an evidence row
    MigrateType,  \* what the start-up migration makes of them
    MaxClock,
    None          \* SQL NULL

ASSUME ConstantsAssumption ==
    /\ Editable \subseteq Users
    /\ MigrateType \in [Contents -> Contents]
    /\ MaxClock \in Nat
    /\ None \notin Users
    /\ \A c \in Contents : None # [sha256 |-> c]

VARIABLES
    users,        \* table users
    evidence,     \* table evidence
    transfers,    \* table transfer_approvals
    custody_logs, \* table custody_logs, a set of rows
    audit_logs,   \* table audit_logs, a set of rows
    clock,        \* the server's clock: the last time stamp taken
    session       \* what each request thread is doing

vars == <<users, evidence, transfers, custody_logs, audit_logs, clock, session>>

----------------------------------------------------------------------------
(* Rows.  A table keyed by id is a function on the ids it holds.           *)

UserRow == [is_active : BOOLEAN, write_role : BOOLEAN]

\* Hash of the hashed columns; SHA-256 is taken to be injective.
compute_evidence_hash(fields) == [sha256 |-> fields]
Hashes == {compute_evidence_hash(c) : c \in Contents}

EvidenceRow == [fields : Contents, sha256_hash : Hashes \cup {None}]

TransferRow ==
    [evidence_id : Evidences, from_user_id : Users, to_user_id : Users,
     status : {"pending", "approved", "rejected"},
     approved_by : Users \cup {None}, approved_at : 0..MaxClock]

CustodyLog ==
    [evidence_id : Evidences, action : {"received", "transferred"},
     holder_id : Users, from_user_id : Users \cup {None}, timestamp : 0..MaxClock]

AuditLog ==
    [action : {"request", "approve", "reject"}, entity_id : Evidences,
     user_id : Users, transfer_id : TransferIds]
    \cup [action : {"verify"}, entity_id : Evidences, hash : Hashes, verified : BOOLEAN]
    \cup [action : {"update"}, entity_id : Evidences, fields : Contents]

\* Insert or replace the row of id k in a table.
Put(table, k, row) ==
    [i \in DOMAIN table \cup {k} |-> IF i = k THEN row ELSE table[i]]

----------------------------------------------------------------------------
(* Requests in flight.                                                     *)

Idle == [op |-> "idle"]
RequestSession ==
    [op : {"request"}, pc : {"holder", "pending", "insert"}, evidence_id : Evidences,
     from_user_id : Users, to_user_id : Users, user : Users]
ApproveSession ==
    [op : {"approve"}, pc : {"evidence", "commit"}, evidence_id : Evidences,
     transfer : TransferIds, approved : BOOLEAN, user : Users, now : 0..MaxClock]
VerifySession == [op : {"verify"}, evidence_id : Evidences, row : EvidenceRow]
UpdateSession ==
    [op : {"update"}, evidence_id : Evidences, read : Contents, new : Contents]
Session == {Idle} \cup RequestSession \cup ApproveSession \cup VerifySession
                  \cup UpdateSession

Busy(w) == session[w] # Idle

TypeOK ==
    /\ users \in [Users -> UserRow]
    /\ DOMAIN evidence \subseteq Evidences
    /\ evidence \in [DOMAIN evidence -> EvidenceRow]
    /\ DOMAIN transfers \subseteq TransferIds
    /\ transfers \in [DOMAIN transfers -> TransferRow]
    /\ custody_logs \subseteq CustodyLog
    /\ audit_logs \subseteq AuditLog
    /\ clock \in 0..MaxClock
    /\ session \in [Workers -> Session]

----------------------------------------------------------------------------
(* Queries.                                                                *)

\* get_current_user and require_roles(WRITE_ROLES): active, and not a viewer.
WriteUser(u) == users[u].is_active /\ users[u].write_role

\* Fault: ORDER BY timestamp ASC.
OldestFirst(l) ==
    \A m \in custody_logs : m.evidence_id = l.evidence_id => l.timestamp <= m.timestamp

\* The row that ORDER BY timestamp DESC LIMIT 1 returns is l.
IsLatest(l) ==
    \A m \in custody_logs : m.evidence_id = l.evidence_id => m.timestamp <= l.timestamp

\* get_current_holder_id(e) is u.
CurrentHolder(e, u) ==
    \E l \in custody_logs : l.evidence_id = e /\ IsLatest(l) /\ l.holder_id = u

Pending(t) == transfers[t].status = "pending"

\* Fault: the filter names the wrong status.
WrongStatusFilter(e) ==
    \E t \in DOMAIN transfers :
        transfers[t].evidence_id = e /\ transfers[t].status = "approved"

has_pending_transfer(e) ==
    \E t \in DOMAIN transfers : transfers[t].evidence_id = e /\ Pending(t)

Ends(w) == session' = [session EXCEPT ![w] = Idle]

----------------------------------------------------------------------------
Init ==
    /\ users = [u \in Users |-> [is_active |-> TRUE, write_role |-> TRUE]]
    /\ evidence = << >>
    /\ transfers = << >>
    /\ custody_logs = {}
    /\ audit_logs = {}
    /\ clock = 0
    /\ session = [w \in Workers |-> Idle]

\* create_evidence, as far as custody goes: the row and its "received" entry
\* are committed together and no other request can name the id before that, so
\* one step does.  The gates on case, IMEI and number are EvidenceRegistry's.
CreateEvidence(u, e, c) ==
    /\ WriteUser(u)
    /\ e \notin DOMAIN evidence
    /\ clock < MaxClock
    /\ clock' = clock + 1
    /\ evidence' = Put(evidence, e, [fields |-> c, sha256_hash |-> None])
    /\ custody_logs' = custody_logs \cup
           {[evidence_id |-> e, action |-> "received", holder_id |-> u,
             from_user_id |-> None, timestamp |-> clock']}
    /\ UNCHANGED <<users, transfers, audit_logs, session>>

\* Fault: sender and recipient are not compared.
RequestToSelf(w, u, e, from, to) ==
    /\ ~Busy(w)
    /\ WriteUser(u)
    /\ e \in DOMAIN evidence
    /\ users[from].is_active /\ users[to].is_active
    /\ session' = [session EXCEPT ![w] =
           [op |-> "request", pc |-> "holder", evidence_id |-> e,
            from_user_id |-> from, to_user_id |-> to, user |-> u]]
    /\ UNCHANGED <<users, evidence, transfers, custody_logs, audit_logs, clock>>

\* request_transfer: the caller, the item and both users are read.  Nothing
\* relates the caller u to the sender.
RequestStart(w, u, e, from, to) ==
    /\ ~Busy(w)
    /\ WriteUser(u)
    /\ e \in DOMAIN evidence
    /\ from # to
    /\ users[from].is_active /\ users[to].is_active
    /\ session' = [session EXCEPT ![w] =
           [op |-> "request", pc |-> "holder", evidence_id |-> e,
            from_user_id |-> from, to_user_id |-> to, user |-> u]]
    /\ UNCHANGED <<users, evidence, transfers, custody_logs, audit_logs, clock>>

\* ... the current holder is read; 422 unless it is the sender.
RequestReadHolder(w) ==
    /\ session[w].op = "request" /\ session[w].pc = "holder"
    /\ IF CurrentHolder(session[w].evidence_id, session[w].from_user_id)
         THEN session' = [session EXCEPT ![w] = [@ EXCEPT !.pc = "pending"]]
         ELSE Ends(w)
    /\ UNCHANGED <<users, evidence, transfers, custody_logs, audit_logs, clock>>

\* ... pending transfers of the item are looked up; 409 if there is one.
RequestReadPending(w) ==
    /\ session[w].op = "request" /\ session[w].pc = "pending"
    /\ IF has_pending_transfer(session[w].evidence_id)
         THEN Ends(w)
         ELSE session' = [session EXCEPT ![w] = [@ EXCEPT !.pc = "insert"]]
    /\ UNCHANGED <<users, evidence, transfers, custody_logs, audit_logs, clock>>

\* ... the transfer and its audit entry are inserted under a fresh id.
RequestCommit(w, t) ==
    LET s == session[w] IN
    /\ s.op = "request" /\ s.pc = "insert"
    /\ t \notin DOMAIN transfers
    /\ transfers' = Put(transfers, t,
           [evidence_id |-> s.evidence_id, from_user_id |-> s.from_user_id,
            to_user_id |-> s.to_user_id, status |-> "pending",
            approved_by |-> None, approved_at |-> 0])
    /\ audit_logs' = audit_logs \cup
           {[action |-> "request", entity_id |-> s.evidence_id,
             user_id |-> s.user, transfer_id |-> t]}
    /\ Ends(w)
    /\ UNCHANGED <<users, evidence, custody_logs, clock>>

\* Fault: the status is not looked at.
ApproveProcessed(w, u, t, approved) ==
    /\ ~Busy(w)
    /\ WriteUser(u)
    /\ t \in DOMAIN transfers
    /\ u = transfers[t].to_user_id
    /\ session' = [session EXCEPT ![w] =
           [op |-> "approve", pc |-> "evidence",
            evidence_id |-> transfers[t].evidence_id, transfer |-> t,
            approved |-> approved, user |-> u, now |-> 0]]
    /\ UNCHANGED <<users, evidence, transfers, custody_logs, audit_logs, clock>>

\* Fault: anybody with a write role approves.
ApproveByAnybody(w, u, t, approved) ==
    /\ ~Busy(w)
    /\ WriteUser(u)
    /\ t \in DOMAIN transfers
    /\ Pending(t)
    /\ session' = [session EXCEPT ![w] =
           [op |-> "approve", pc |-> "evidence",
            evidence_id |-> transfers[t].evidence_id, transfer |-> t,
            approved |-> approved, user |-> u, now |-> 0]]
    /\ UNCHANGED <<users, evidence, transfers, custody_logs, audit_logs, clock>>

\* approve_transfer: the transfer row is read once; it must be pending (409)
\* and the caller its recipient (403).
ApproveStart(w, u, t, approved) ==
    /\ ~Busy(w)
    /\ WriteUser(u)
    /\ t \in DOMAIN transfers
    /\ Pending(t)
    /\ u = transfers[t].to_user_id
    /\ session' = [session EXCEPT ![w] =
           [op |-> "approve", pc |-> "evidence",
            evidence_id |-> transfers[t].evidence_id, transfer |-> t,
            approved |-> approved, user |-> u, now |-> 0]]
    /\ UNCHANGED <<users, evidence, transfers, custody_logs, audit_logs, clock>>

\* The columns differ from the baseline taken earlier; no baseline, no answer.
Tampered(row) ==
    /\ row.sha256_hash # None
    /\ compute_evidence_hash(row.fields) # row.sha256_hash

\* Fault: no integrity check before the hand-over.
ApproveUnchecked(w) ==
    /\ session[w].op = "approve" /\ session[w].pc = "evidence"
    /\ clock < MaxClock
    /\ clock' = clock + 1
    /\ session' = [session EXCEPT ![w] = [@ EXCEPT !.pc = "commit", !.now = clock']]
    /\ UNCHANGED <<users, evidence, transfers, custody_logs, audit_logs>>

\* ... the item is read and, to approve, compared with its baseline (409 when
\* it differs); then the decision is stamped.  approved_at and the stamp of the
\* custody entry, two calls of now() with nothing between, are one stamp here.
ApproveReadEvidence(w) ==
    LET s == session[w] IN
    /\ s.op = "approve" /\ s.pc = "evidence"
    /\ \/ /\ s.approved /\ Tampered(evidence[s.evidence_id])
          /\ Ends(w)
          /\ UNCHANGED clock
       \/ /\ ~(s.approved /\ Tampered(evidence[s.evidence_id]))
          /\ clock < MaxClock
          /\ clock' = clock + 1
          /\ session' = [session EXCEPT ![w] =
                 [@ EXCEPT !.pc = "commit", !.now = clock']]
    /\ UNCHANGED <<users, evidence, transfers, custody_logs, audit_logs>>

\* Fault: a rejection leaves a custody entry too.
RejectMoves(w) ==
    LET s == session[w]
        row == transfers[s.transfer]
    IN
    /\ s.op = "approve" /\ s.pc = "commit"
    /\ transfers' = [transfers EXCEPT ![s.transfer] =
           [@ EXCEPT !.status = IF s.approved THEN "approved" ELSE "rejected",
                     !.approved_by = s.user, !.approved_at = s.now]]
    /\ custody_logs' = custody_logs \cup
           {[evidence_id |-> s.evidence_id, action |-> "transferred",
             holder_id |-> row.to_user_id,
             from_user_id |-> row.from_user_id, timestamp |-> s.now]}
    /\ Ends(w)
    /\ UNCHANGED <<users, evidence, audit_logs, clock>>

\* Fault: a rejection is not audited.
RejectUnaudited(w) ==
    LET s == session[w] IN
    /\ s.op = "approve" /\ s.pc = "commit" /\ ~s.approved
    /\ transfers' = [transfers EXCEPT ![s.transfer] =
           [@ EXCEPT !.status = "rejected", !.approved_by = s.user, !.approved_at = s.now]]
    /\ Ends(w)
    /\ UNCHANGED <<users, evidence, custody_logs, audit_logs, clock>>

\* ... UPDATE transfer_approvals ... WHERE id = t, without another look at
\* the status; approving also inserts the custody entry.
ApproveCommit(w) ==
    LET s == session[w]
        row == transfers[s.transfer]
    IN
    /\ s.op = "approve" /\ s.pc = "commit"
    /\ transfers' = [transfers EXCEPT ![s.transfer] =
           [@ EXCEPT !.status = IF s.approved THEN "approved" ELSE "rejected",
                     !.approved_by = s.user, !.approved_at = s.now]]
    /\ custody_logs' = IF s.approved
           THEN custody_logs \cup
                {[evidence_id |-> s.evidence_id, action |-> "transferred",
                  holder_id |-> row.to_user_id,
                  from_user_id |-> row.from_user_id, timestamp |-> s.now]}
           ELSE custody_logs
    /\ audit_logs' = audit_logs \cup
           {[action |-> IF s.approved THEN "approve" ELSE "reject",
             entity_id |-> s.evidence_id, user_id |-> s.user, transfer_id |-> s.transfer]}
    /\ Ends(w)
    /\ UNCHANGED <<users, evidence, clock>>

\* verify_integrity: the item is read ...
VerifyStart(w, u, e) ==
    /\ ~Busy(w)
    /\ WriteUser(u)
    /\ e \in DOMAIN evidence
    /\ session' = [session EXCEPT ![w] =
           [op |-> "verify", evidence_id |-> e, row |-> evidence[e]]]
    /\ UNCHANGED <<users, evidence, transfers, custody_logs, audit_logs, clock>>

\* Fault: the hash is computed again at the commit, from a row read anew.
VerifyHashesTwice(w) ==
    LET s == session[w] IN
    /\ s.op = "verify"
    /\ evidence' = IF s.row.sha256_hash = None
                   THEN [evidence EXCEPT ![s.evidence_id] =
                            [@ EXCEPT !.sha256_hash =
                                compute_evidence_hash(evidence[s.evidence_id].fields)]]
                   ELSE evidence
    /\ audit_logs' = audit_logs \cup
           {[action |-> "verify", entity_id |-> s.evidence_id,
             hash |-> compute_evidence_hash(s.row.fields), verified |-> ~Tampered(s.row)]}
    /\ Ends(w)
    /\ UNCHANGED <<users, transfers, custody_logs, clock>>

\* ... and the outcome committed.  The baseline column is part of the UPDATE
\* only if it was NULL when read: an equal one is no change.
VerifyCommit(w) ==
    LET s == session[w]
        hash == compute_evidence_hash(s.row.fields)
    IN
    /\ s.op = "verify"
    /\ evidence' = IF s.row.sha256_hash = None
                   THEN [evidence EXCEPT ![s.evidence_id] = [@ EXCEPT !.sha256_hash = hash]]
                   ELSE evidence
    /\ audit_logs' = audit_logs \cup
           {[action |-> "verify", entity_id |-> s.evidence_id, hash |-> hash,
             verified |-> ~Tampered(s.row)]}
    /\ Ends(w)
    /\ UNCHANGED <<users, transfers, custody_logs, clock>>

\* update_evidence: the item is read (its case must be open, and the new values
\* valid and unique: EvidenceRegistry) ...
UpdateStart(w, u, e, c) ==
    /\ ~Busy(w)
    /\ WriteUser(u)
    /\ e \in DOMAIN evidence
    /\ session' = [session EXCEPT ![w] =
           [op |-> "update", evidence_id |-> e, read |-> evidence[e].fields, new |-> c]]
    /\ UNCHANGED <<users, evidence, transfers, custody_logs, audit_logs, clock>>

\* ... and the changed columns are written; the baseline is not touched.
UpdateCommit(w) ==
    LET s == session[w] IN
    /\ s.op = "update"
    /\ evidence' = IF s.new = s.read THEN evidence
                   ELSE [evidence EXCEPT ![s.evidence_id] = [@ EXCEPT !.fields = s.new]]
    /\ audit_logs' = audit_logs \cup
           {[action |-> "update", entity_id |-> s.evidence_id, fields |-> s.new]}
    /\ Ends(w)
    /\ UNCHANGED <<users, transfers, custody_logs, clock>>

\* The request fails before its commit (an error, a lost connection, a locked
\* database): closing the session rolls it back.
Abort(w) ==
    /\ Busy(w)
    /\ Ends(w)
    /\ UNCHANGED <<users, evidence, transfers, custody_logs, audit_logs, clock>>

\* An administrator edits an account (UserService; modelled in Accounts).
UpdateUser(u, row) ==
    /\ u \in Editable
    /\ users' = [users EXCEPT ![u] = row]
    /\ UNCHANGED <<evidence, transfers, custody_logs, audit_logs, clock, session>>

\* Processes die and come back, some or all (four serve the requests,
\* docs/DEPLOYMENT.md:140): the requests dead of theirs are gone, and run_migrations
\* rewrites legacy values of the hashed column "type" without touching baseline or
\* audit log.
Restart(dead) ==
    /\ session' = [w \in Workers |-> IF w \in dead THEN Idle ELSE session[w]]
    /\ evidence' = [e \in DOMAIN evidence |->
                       [evidence[e] EXCEPT !.fields = MigrateType[@]]]
    /\ UNCHANGED <<users, transfers, custody_logs, audit_logs, clock>>

Step(w) ==
    \/ RequestReadHolder(w)
    \/ RequestReadPending(w)
    \/ \E t \in TransferIds : RequestCommit(w, t)
    \/ ApproveReadEvidence(w)
    \/ ApproveCommit(w)
    \/ VerifyCommit(w)
    \/ UpdateCommit(w)

Start(w, u) ==
    \/ \E e \in Evidences, from, to \in Users : RequestStart(w, u, e, from, to)
    \/ \E t \in TransferIds, approved \in BOOLEAN : ApproveStart(w, u, t, approved)
    \/ \E e \in Evidences : VerifyStart(w, u, e)
    \/ \E e \in Evidences, c \in Contents : UpdateStart(w, u, e, c)

Next ==
    \/ \E u \in Users, e \in Evidences, c \in Contents : CreateEvidence(u, e, c)
    \/ \E w \in Workers : (\E u \in Users : Start(w, u)) \/ Step(w) \/ Abort(w)
    \/ \E u \in Users, row \in UserRow : UpdateUser(u, row)
    \/ \E dead \in SUBSET Workers : Restart(dead)

Spec == Init /\ [][Next]_vars

\* At most one request in flight per item: what the sequential client of the
\* test-suite does, and what locking the evidence row would enforce.
Isolated ==
    \A v, w \in Workers :
        v # w /\ Busy(v) /\ Busy(w) => session[v].evidence_id # session[w].evidence_id

\* Nor does the migration of a process that restarts rewrite the item of a request
\* in flight.
Undisturbed ==
    \A w \in Workers :
        Busy(w) /\ Busy(w)' =>
            evidence'[session[w].evidence_id] = evidence[session[w].evidence_id]

IsolatedSpec == Init /\ [][Next /\ Isolated' /\ Undisturbed]_vars

----------------------------------------------------------------------------
(* What the other invariants rest on.                                      *)

\* An approval in flight is of an existing transfer, by its recipient.
ApproversAreRecipients ==
    \A w \in Workers : session[w].op = "approve" =>
        LET t == session[w].transfer IN
        /\ t \in DOMAIN transfers
        /\ transfers[t].evidence_id = session[w].evidence_id
        /\ transfers[t].to_user_id = session[w].user

\* Every transfer has the audit entry of its request.
RequestsAreAudited ==
    \A t \in DOMAIN transfers : \E r \in audit_logs :
        /\ r.action = "request" /\ r.transfer_id = t
        /\ r.entity_id = transfers[t].evidence_id

\* Rows and requests refer to existing items, and stamps are in the past.
Referential ==
    /\ \A t \in DOMAIN transfers : transfers[t].evidence_id \in DOMAIN evidence
    /\ \A l \in custody_logs : l.evidence_id \in DOMAIN evidence /\ l.timestamp <= clock
    /\ \A w \in Workers : Busy(w) => session[w].evidence_id \in DOMAIN evidence

\* Two custody entries of one item have different stamps.
UniqueStamps ==
    \A l, m \in custody_logs :
        l.evidence_id = m.evidence_id /\ l.timestamp = m.timestamp => l = m

----------------------------------------------------------------------------
(* Properties of isolated requests.                                        *)

Moves == {l \in custody_logs : l.action = "transferred"}

\* m is the entry right before l in the history of their item.
Precedes(m, l) ==
    /\ m.evidence_id = l.evidence_id
    /\ m.timestamp < l.timestamp
    /\ \A k \in custody_logs :
           k.evidence_id = l.evidence_id =>
               k.timestamp <= m.timestamp \/ l.timestamp <= k.timestamp

\* The chain of custody has no gap: whoever hands an item over is the one the
\* entry before says has it (custody_service.py:108-114 with 182-193).
ChainContinuity ==
    \A l \in Moves : \E m \in custody_logs :
        Precedes(m, l) /\ m.holder_id = l.from_user_id

\* "A transfer is already pending for this evidence" (custody_service.py:117):
\* an item has at most one pending transfer.
OnePendingTransfer ==
    \A s, t \in DOMAIN transfers :
        Pending(s) /\ Pending(t) /\ transfers[s].evidence_id = transfers[t].evidence_id
            => s = t

\* "Evidence is not currently held by the specified sender"
\* (custody_service.py:112): a transfer that waits for its recipient is from
\* the one who still has the item.
PendingFromHolder ==
    \A t \in DOMAIN transfers :
        Pending(t) => CurrentHolder(transfers[t].evidence_id, transfers[t].from_user_id)

\* What a handler has checked still holds when it commits: the sender still has
\* the item and no transfer became pending (custody_service.py:108-117), the
\* transfer is still undecided (157) and the stamp taken is the youngest
\* (custody.py:49).
ReadsStayTrue ==
    \A w \in Workers :
        LET s == session[w] IN
        /\ s.op = "request" => s.from_user_id # s.to_user_id
        /\ s.op = "request" /\ s.pc \in {"pending", "insert"} =>
               CurrentHolder(s.evidence_id, s.from_user_id)
        /\ s.op = "request" /\ s.pc = "insert" => ~has_pending_transfer(s.evidence_id)
        /\ s.op = "approve" => Pending(s.transfer)
        /\ s.op = "approve" /\ s.pc = "commit" =>
               /\ s.now <= clock
               /\ \A l \in custody_logs :
                      l.evidence_id = s.evidence_id => l.timestamp < s.now

\* l is the custody entry of the approval of t.
Records(l, t) ==
    /\ l.evidence_id = transfers[t].evidence_id
    /\ l.holder_id = transfers[t].to_user_id
    /\ l.from_user_id = transfers[t].from_user_id
    /\ l.timestamp = transfers[t].approved_at

\* The custody history and the transfers tell the same story: a transfer is
\* approved exactly when its hand-over is in the history
\* (custody_service.py:177-200, both in one commit).
ApprovedIffMoved ==
    /\ \A t \in DOMAIN transfers :
           transfers[t].status = "approved" => \E l \in Moves : Records(l, t)
    /\ \A l \in Moves : \E t \in DOMAIN transfers :
           transfers[t].status = "approved" /\ Records(l, t)

\* "Transfer has already been processed" (custody_service.py:158): a transfer
\* is approved or rejected once and for all.
ProcessedOnce ==
    [][\A t \in DOMAIN transfers : ~Pending(t) => transfers'[t] = transfers[t]]_vars

\* An item whose columns no longer match its baseline does not change hands
\* (custody_service.py:167-175: the comparison still holds at the commit).
MovedIntact ==
    [][\A l \in custody_logs' \ custody_logs :
           l.action = "transferred" => ~Tampered(evidence[l.evidence_id])]_vars

\* What is recorded implements the promise of CustodyChain.
HolderOf(e) ==
    IF \E u \in Users : CurrentHolder(e, u)
    THEN CHOOSE u \in Users : CurrentHolder(e, u) ELSE None
OfferOf(e) ==
    IF has_pending_transfer(e)
    THEN transfers[CHOOSE t \in DOMAIN transfers :
                       transfers[t].evidence_id = e /\ Pending(t)].to_user_id
    ELSE None
Chain == INSTANCE CustodyChain WITH
             holder <- [e \in Evidences |-> HolderOf(e)],
             offer <- [e \in Evidences |-> OfferOf(e)]

\* Every step of the isolated system registers, offers, accepts or declines, or
\* leaves holder and offer alone.
ImplementsChain == Chain!Spec

\* The inductive invariant of isolated requests.
ChainInv ==
    /\ TypeOK /\ ApproversAreRecipients /\ Referential /\ UniqueStamps /\ Isolated
    /\ ReadsStayTrue /\ OnePendingTransfer /\ PendingFromHolder
    /\ ChainContinuity /\ ApprovedIffMoved

----------------------------------------------------------------------------
(* Properties of concurrent requests: what survives the races.             *)

\* Somebody asked for every hand-over in the history, and the audit log shows
\* that the new holder is the one who approved it
\* (custody_service.py:128-140, 160, 202-213).
MovesAreConsented ==
    \A l \in Moves : \E t \in DOMAIN transfers, a, r \in audit_logs :
        /\ transfers[t].from_user_id = l.from_user_id
        /\ a.action = "approve" /\ a.transfer_id = t
        /\ a.entity_id = l.evidence_id /\ a.user_id = l.holder_id
        /\ r.action = "request" /\ r.transfer_id = t /\ r.entity_id = l.evidence_id

\* A decided transfer was decided by its recipient, and the audit log has the
\* very decision the row shows, whichever of two racing decisions came last
\* (custody_service.py:160, 202-213).
DecisionsAreAudited ==
    \A t \in DOMAIN transfers : ~Pending(t) =>
        /\ transfers[t].approved_by = transfers[t].to_user_id
        /\ \E a \in audit_logs :
              /\ a.action = (IF transfers[t].status = "approved" THEN "approve" ELSE "reject")
              /\ a.transfer_id = t /\ a.user_id = transfers[t].to_user_id

\* A baseline comes from a verification in the audit log that found the item
\* intact, also when two verifications race (custody_service.py:273-289).
BaselineAudited ==
    \A e \in DOMAIN evidence : evidence[e].sha256_hash # None =>
        \E a \in audit_logs :
            /\ a.action = "verify" /\ a.entity_id = e
            /\ a.hash = evidence[e].sha256_hash /\ a.verified

=============================================================================
