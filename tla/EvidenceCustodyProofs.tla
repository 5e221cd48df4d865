------------------------ MODULE EvidenceCustodyProofs ------------------------
(* Theorems about EvidenceCustody, for every value of its constants. *)
EXTENDS EvidenceCustody, TLAPS

----------------------------------------------------------------------------
(* Type correctness.                                                       *)

\* TypeOK is not inductive alone: an approval in flight must be of a transfer
\* that exists for the row it writes to be one.
TypeInv == TypeOK /\ ApproversAreRecipients

LEMMA InitTypeInv == Init => TypeInv
  BY ConstantsAssumption DEF ConstantsAssumption, Init, TypeInv, TypeOK, UserRow,
     Session, Idle, ApproversAreRecipients

LEMMA NextTypeOK == TypeInv /\ [Next]_vars => TypeOK'
<1> SUFFICES ASSUME TypeOK, ApproversAreRecipients, [Next]_vars PROVE TypeOK'
  BY DEF TypeInv
<1> USE ConstantsAssumption DEF ConstantsAssumption
<1>1. ASSUME NEW u \in Users, NEW e \in Evidences, NEW c \in Contents,
             CreateEvidence(u, e, c)
      PROVE  TypeOK'
  <2> DEFINE row == [fields |-> c, sha256_hash |-> None]
  <2>1. row \in EvidenceRow
    BY DEF EvidenceRow
  <2>2. /\ (DOMAIN evidence \subseteq Evidences)'
        /\ (evidence \in [DOMAIN evidence -> EvidenceRow])'
    BY <1>1, <2>1 DEF TypeOK, CreateEvidence, Put
  <2>3. clock' \in 0..MaxClock
    BY <1>1 DEF TypeOK, CreateEvidence
  <2>4. custody_logs' \subseteq CustodyLog
    BY <1>1, <2>3 DEF TypeOK, CreateEvidence, CustodyLog
  <2>5. QED
    BY <1>1, <2>2, <2>3, <2>4 DEF TypeOK, CreateEvidence
<1>2. ASSUME NEW w \in Workers, NEW u \in Users, Start(w, u)
      PROVE  TypeOK'
  <2>1. ASSUME NEW s \in Session, session' = [session EXCEPT ![w] = s],
               UNCHANGED <<users, evidence, transfers, custody_logs, audit_logs, clock>>
        PROVE  TypeOK'
    BY <2>1 DEF TypeOK
  <2>2. ASSUME NEW e \in Evidences, NEW from \in Users, NEW to \in Users,
               RequestStart(w, u, e, from, to)
        PROVE  TypeOK'
    BY <2>1, <2>2 DEF RequestStart, Session, RequestSession
  <2>3. ASSUME NEW t \in TransferIds, NEW approved \in BOOLEAN,
               ApproveStart(w, u, t, approved)
        PROVE  TypeOK'
    <3>1. transfers[t].evidence_id \in Evidences
      BY <2>3 DEF ApproveStart, TypeOK, TransferRow
    <3> DEFINE s == [op |-> "approve", pc |-> "evidence",
                     evidence_id |-> transfers[t].evidence_id, transfer |-> t,
                     approved |-> approved, user |-> u, now |-> 0]
    <3>2. 0 \in 0..MaxClock
      OBVIOUS
    <3>3. s \in ApproveSession
      BY <3>1, <3>2, Zenon DEF ApproveSession
    <3>4. s \in Session
      BY <3>3 DEF Session
    <3>5. QED
      BY <2>1, <2>3, <3>4 DEF ApproveStart
  <2>4. ASSUME NEW e \in Evidences, VerifyStart(w, u, e)
        PROVE  TypeOK'
    <3>1. evidence[e] \in EvidenceRow
      BY <2>4 DEF VerifyStart, TypeOK
    <3>2. QED
      BY <2>1, <2>4, <3>1 DEF VerifyStart, Session, VerifySession
  <2>5. ASSUME NEW e \in Evidences, NEW c \in Contents, UpdateStart(w, u, e, c)
        PROVE  TypeOK'
    <3>1. evidence[e].fields \in Contents
      BY <2>5 DEF UpdateStart, TypeOK, EvidenceRow
    <3>2. QED
      BY <2>1, <2>5, <3>1 DEF UpdateStart, Session, UpdateSession
  <2>6. QED
    BY <1>2, <2>2, <2>3, <2>4, <2>5 DEF Start
<1>3. ASSUME NEW w \in Workers, Step(w)
      PROVE  TypeOK'
  <2>0. session[w] \in Session /\ Idle \in Session
    BY DEF TypeOK, Session
  <2>1. CASE RequestReadHolder(w)
    <3>1. [session[w] EXCEPT !.pc = "pending"] \in Session
      BY <2>0, <2>1 DEF RequestReadHolder, Session, Idle, RequestSession,
         ApproveSession, VerifySession, UpdateSession
    <3>2. session' \in [Workers -> Session]
      BY <2>0, <2>1, <3>1 DEF RequestReadHolder, Ends, TypeOK
    <3>3. QED
      BY <2>1, <3>2 DEF RequestReadHolder, TypeOK
  <2>2. CASE RequestReadPending(w)
    <3>1. [session[w] EXCEPT !.pc = "insert"] \in Session
      BY <2>0, <2>2 DEF RequestReadPending, Session, Idle, RequestSession,
         ApproveSession, VerifySession, UpdateSession
    <3>2. session' \in [Workers -> Session]
      BY <2>0, <2>2, <3>1 DEF RequestReadPending, Ends, TypeOK
    <3>3. QED
      BY <2>2, <3>2 DEF RequestReadPending, TypeOK
  <2>3. ASSUME NEW t \in TransferIds, RequestCommit(w, t)
        PROVE  TypeOK'
    <3> DEFINE s == session[w]
               row == [evidence_id |-> s.evidence_id, from_user_id |-> s.from_user_id,
                       to_user_id |-> s.to_user_id, status |-> "pending",
                       approved_by |-> None, approved_at |-> 0]
    <3>1. s \in RequestSession
      BY <2>0, <2>3 DEF RequestCommit, Session, Idle, RequestSession,
         ApproveSession, VerifySession, UpdateSession
    <3>2. row \in TransferRow
      BY <3>1 DEF RequestSession, TransferRow
    <3>3. /\ (DOMAIN transfers \subseteq TransferIds)'
          /\ (transfers \in [DOMAIN transfers -> TransferRow])'
      BY <2>3, <3>2 DEF TypeOK, RequestCommit, Put
    <3>4. audit_logs' \subseteq AuditLog
      BY <2>3, <3>1 DEF TypeOK, RequestCommit, RequestSession, AuditLog
    <3>5. session' \in [Workers -> Session]
      BY <2>0, <2>3 DEF RequestCommit, Ends, TypeOK
    <3>6. QED
      BY <2>3, <3>3, <3>4, <3>5 DEF RequestCommit, TypeOK
  <2>4. CASE ApproveReadEvidence(w)
    <3>1. session[w] \in ApproveSession
      BY <2>0, <2>4 DEF ApproveReadEvidence, Session, Idle, RequestSession,
         ApproveSession, VerifySession, UpdateSession
    <3>2. clock' \in 0..MaxClock
      BY <2>4 DEF ApproveReadEvidence, TypeOK
    <3>3. [session[w] EXCEPT !.pc = "commit", !.now = clock'] \in Session
      BY <3>1, <3>2 DEF Session, ApproveSession
    <3>4. session' \in [Workers -> Session]
      BY <2>0, <2>4, <3>3 DEF ApproveReadEvidence, Ends, TypeOK
    <3>5. QED
      BY <2>4, <3>2, <3>4 DEF ApproveReadEvidence, TypeOK
  <2>5. CASE ApproveCommit(w)
    <3> DEFINE s == session[w]
               row == transfers[s.transfer]
               decided == [row EXCEPT
                   !.status = IF s.approved THEN "approved" ELSE "rejected",
                   !.approved_by = s.user, !.approved_at = s.now]
               moved == [evidence_id |-> s.evidence_id, action |-> "transferred",
                         holder_id |-> row.to_user_id,
                         from_user_id |-> row.from_user_id, timestamp |-> s.now]
    <3>1. s \in ApproveSession
      BY <2>0, <2>5 DEF ApproveCommit, Session, Idle, RequestSession,
         ApproveSession, VerifySession, UpdateSession
    <3>2. s.transfer \in DOMAIN transfers
      BY <2>5 DEF ApproveCommit, ApproversAreRecipients
    <3>3. row \in TransferRow
      BY <3>2 DEF TypeOK
    <3>4. decided \in TransferRow
      BY <3>1, <3>3 DEF ApproveSession, TransferRow
    <3>5. /\ (DOMAIN transfers \subseteq TransferIds)'
          /\ (transfers \in [DOMAIN transfers -> TransferRow])'
      BY <2>5, <3>4 DEF TypeOK, ApproveCommit
    <3>6. moved \in CustodyLog
      BY <3>1, <3>3 DEF ApproveSession, TransferRow, CustodyLog
    <3>7. custody_logs' \subseteq CustodyLog
      BY <2>5, <3>6 DEF ApproveCommit, TypeOK
    <3>8. audit_logs' \subseteq AuditLog
      BY <2>5, <3>1 DEF ApproveCommit, TypeOK, ApproveSession, AuditLog
    <3>9. session' \in [Workers -> Session]
      BY <2>0, <2>5 DEF ApproveCommit, Ends, TypeOK
    <3>10. QED
      BY <2>5, <3>5, <3>7, <3>8, <3>9 DEF ApproveCommit, TypeOK
  <2>6. CASE VerifyCommit(w)
    <3> DEFINE s == session[w]
               hash == compute_evidence_hash(s.row.fields)
    <3>1. s \in VerifySession
      BY <2>0, <2>6 DEF VerifyCommit, Session, Idle, RequestSession,
         ApproveSession, VerifySession, UpdateSession
    <3>2. s.row.fields \in Contents /\ s.evidence_id \in Evidences
      BY <3>1 DEF VerifySession, EvidenceRow
    <3>3. hash \in Hashes
      BY <3>2 DEF Hashes
    <3>4. /\ (DOMAIN evidence \subseteq Evidences)'
          /\ (evidence \in [DOMAIN evidence -> EvidenceRow])'
      <4>1. CASE evidence' = evidence
        BY <4>1 DEF TypeOK
      <4>2. CASE evidence' = [evidence EXCEPT ![s.evidence_id] = [@ EXCEPT !.sha256_hash = hash]]
        BY <4>2, <3>3 DEF TypeOK, EvidenceRow
      <4>3. QED
        BY <2>6, <4>1, <4>2 DEF VerifyCommit
    <3>5. ASSUME NEW b \in BOOLEAN
          PROVE  [action |-> "verify", entity_id |-> s.evidence_id, hash |-> hash,
                  verified |-> b] \in AuditLog
      <4>1. [action |-> "verify", entity_id |-> s.evidence_id, hash |-> hash,
             verified |-> b] \in
               [action : {"verify"}, entity_id : Evidences, hash : Hashes, verified : BOOLEAN]
        BY <3>2, <3>3, Zenon
      <4>2. QED
        BY <4>1 DEF AuditLog
    <3>6. (~Tampered(s.row)) \in BOOLEAN
      BY DEF Tampered
    <3>7. audit_logs' \subseteq AuditLog
      BY <2>6, <3>5, <3>6 DEF VerifyCommit, TypeOK
    <3>8. session' \in [Workers -> Session]
      BY <2>0, <2>6 DEF VerifyCommit, Ends, TypeOK
    <3>9. QED
      BY <2>6, <3>4, <3>7, <3>8 DEF VerifyCommit, TypeOK
  <2>7. CASE UpdateCommit(w)
    <3>1. session[w] \in UpdateSession
      BY <2>0, <2>7 DEF UpdateCommit, Session, Idle, RequestSession,
         ApproveSession, VerifySession, UpdateSession
    <3>2. /\ (DOMAIN evidence \subseteq Evidences)'
          /\ (evidence \in [DOMAIN evidence -> EvidenceRow])'
      BY <2>7, <3>1 DEF UpdateCommit, UpdateSession, TypeOK, EvidenceRow
    <3>3. audit_logs' \subseteq AuditLog
      BY <2>7, <3>1 DEF UpdateCommit, UpdateSession, TypeOK, AuditLog
    <3>4. session' \in [Workers -> Session]
      BY <2>0, <2>7 DEF UpdateCommit, Ends, TypeOK
    <3>5. QED
      BY <2>7, <3>2, <3>3, <3>4 DEF UpdateCommit, TypeOK
  <2>8. QED
    BY <1>3, <2>1, <2>2, <2>3, <2>4, <2>5, <2>6, <2>7 DEF Step
<1>4. ASSUME NEW w \in Workers, Abort(w)
      PROVE  TypeOK'
  BY <1>4 DEF Abort, Ends, TypeOK, Session
<1>5. ASSUME NEW u \in Users, NEW row \in UserRow, UpdateUser(u, row)
      PROVE  TypeOK'
  BY <1>5 DEF UpdateUser, TypeOK
<1>6. ASSUME NEW dead \in SUBSET Workers, Restart(dead)
      PROVE  TypeOK'
  <2>1. /\ (DOMAIN evidence \subseteq Evidences)'
        /\ (evidence \in [DOMAIN evidence -> EvidenceRow])'
    BY <1>6 DEF Restart, TypeOK, EvidenceRow
  <2>2. session' \in [Workers -> Session]
    BY <1>6 DEF Restart, TypeOK, Session
  <2>3. QED
    BY <1>6, <2>1, <2>2 DEF Restart, TypeOK
<1>7. CASE UNCHANGED vars
  BY <1>7 DEF vars, TypeOK
<1>8. QED
  BY <1>1, <1>2, <1>3, <1>4, <1>5, <1>6, <1>7 DEF Next

\* Rows of transfer_approvals are never deleted, and what a transfer is of,
\* from and to never changes.
LEMMA TransfersPersist ==
    ASSUME TypeInv, [Next]_vars, NEW t \in DOMAIN transfers
    PROVE  /\ t \in DOMAIN transfers'
           /\ transfers'[t].evidence_id = transfers[t].evidence_id
           /\ transfers'[t].from_user_id = transfers[t].from_user_id
           /\ transfers'[t].to_user_id = transfers[t].to_user_id
<1>1. CASE UNCHANGED transfers
  BY <1>1
<1>2. ASSUME NEW w \in Workers, NEW s \in TransferIds, RequestCommit(w, s)
      PROVE  /\ t \in DOMAIN transfers' /\ transfers'[t] = transfers[t]
  BY <1>2 DEF RequestCommit, Put
<1>3. ASSUME NEW w \in Workers, ApproveCommit(w)
      PROVE  /\ t \in DOMAIN transfers'
             /\ transfers'[t].evidence_id = transfers[t].evidence_id
             /\ transfers'[t].from_user_id = transfers[t].from_user_id
             /\ transfers'[t].to_user_id = transfers[t].to_user_id
  <2>1. transfers[t] \in TransferRow
    BY DEF TypeInv, TypeOK
  <2>2. QED
    BY <1>3, <2>1 DEF ApproveCommit, TransferRow
<1>4. UNCHANGED transfers \/ (\E w \in Workers : ApproveCommit(w))
      \/ (\E w \in Workers, s \in TransferIds : RequestCommit(w, s))
  <2>1. ASSUME NEW w \in Workers, NEW u \in Users, Start(w, u)
        PROVE  UNCHANGED transfers
    BY <2>1 DEF Start, RequestStart, ApproveStart, VerifyStart, UpdateStart
  <2>2. ASSUME NEW w \in Workers, Step(w)
        PROVE  \/ UNCHANGED transfers
               \/ ApproveCommit(w)
               \/ \E s \in TransferIds : RequestCommit(w, s)
    BY <2>2 DEF Step, RequestReadHolder, RequestReadPending, ApproveReadEvidence,
       VerifyCommit, UpdateCommit
  <2>3. ASSUME \/ \E u \in Users, e \in Evidences, c \in Contents : CreateEvidence(u, e, c)
               \/ \E w \in Workers : Abort(w)
               \/ \E u \in Users, row \in UserRow : UpdateUser(u, row)
               \/ \E dead \in SUBSET Workers : Restart(dead)
               \/ UNCHANGED vars
        PROVE  UNCHANGED transfers
    BY <2>3 DEF CreateEvidence, Abort, UpdateUser, Restart, vars
  <2>4. QED
    BY <2>1, <2>2, <2>3 DEF Next
<1>5. QED
  BY <1>1, <1>2, <1>3, <1>4

LEMMA NextApproversAreRecipients ==
    TypeInv /\ [Next]_vars => ApproversAreRecipients'
<1> SUFFICES ASSUME TypeInv, [Next]_vars, NEW w \in Workers, session'[w].op = "approve"
             PROVE  /\ session'[w].transfer \in DOMAIN transfers'
                    /\ transfers'[session'[w].transfer].evidence_id = session'[w].evidence_id
                    /\ transfers'[session'[w].transfer].to_user_id = session'[w].user
  BY DEF ApproversAreRecipients
<1> DEFINE Same == /\ session[w].op = "approve"
                   /\ session'[w].transfer = session[w].transfer
                   /\ session'[w].evidence_id = session[w].evidence_id
                   /\ session'[w].user = session[w].user
           Started == \E u \in Users, t \in TransferIds, approved \in BOOLEAN :
                          ApproveStart(w, u, t, approved)
<1>1. CASE Same
  BY <1>1, TransfersPersist DEF TypeInv, ApproversAreRecipients
<1>2. ASSUME NEW u \in Users, NEW t \in TransferIds, NEW approved \in BOOLEAN,
             ApproveStart(w, u, t, approved)
      PROVE  /\ session'[w].transfer \in DOMAIN transfers'
             /\ transfers'[session'[w].transfer].evidence_id = session'[w].evidence_id
             /\ transfers'[session'[w].transfer].to_user_id = session'[w].user
  BY <1>2 DEF ApproveStart, TypeInv, TypeOK
<1>3. Same \/ Started
  <2> USE DEF TypeInv, TypeOK
  <2>1. CASE session'[w] = session[w]
    BY <2>1
  <2>2. ASSUME NEW v \in Workers, NEW u \in Users, Start(v, u), session'[w] # session[w]
        PROVE  Started
    BY <2>2 DEF Start, RequestStart, ApproveStart, VerifyStart, UpdateStart
  <2>3. ASSUME NEW v \in Workers, Step(v), session'[w] # session[w]
        PROVE  Same
    <3>1. session'[w] # Idle
      BY DEF Idle
    <3>2. v = w
      BY <2>3 DEF Step, RequestReadHolder, RequestReadPending, RequestCommit,
         ApproveReadEvidence, ApproveCommit, VerifyCommit, UpdateCommit, Ends
    <3>3. ~RequestReadHolder(w) /\ ~RequestReadPending(w)
      <4>1. ASSUME session[w].op = "request"
            PROVE  session[w] \in RequestSession
        BY <4>1 DEF Session, Idle, RequestSession, ApproveSession, VerifySession,
           UpdateSession
      <4>2. QED
        BY <3>1, <4>1 DEF RequestReadHolder, RequestReadPending, Ends, RequestSession
    <3>4. ApproveReadEvidence(w)
      BY <2>3, <3>1, <3>2, <3>3 DEF Step, RequestCommit, ApproveCommit, VerifyCommit,
         UpdateCommit, Ends
    <3>5. session[w] \in ApproveSession
      BY <3>4 DEF ApproveReadEvidence, Session, Idle, RequestSession,
         ApproveSession, VerifySession, UpdateSession
    <3>6. QED
      BY <3>1, <3>4, <3>5 DEF ApproveReadEvidence, Ends, ApproveSession
  <2>4. ASSUME \/ \E u \in Users, e \in Evidences, c \in Contents : CreateEvidence(u, e, c)
               \/ \E v \in Workers : Abort(v)
               \/ \E u \in Users, row \in UserRow : UpdateUser(u, row)
               \/ \E dead \in SUBSET Workers : Restart(dead)
               \/ UNCHANGED vars
        PROVE  session'[w] = session[w]
    <3>1. session'[w] # Idle
      BY DEF Idle
    <3>2. ASSUME NEW dead, Restart(dead)
          PROVE  session'[w] = session[w]
      BY <3>1, <3>2 DEF Restart
    <3>3. ASSUME NEW v \in Workers, Abort(v)
          PROVE  session'[w] = session[w]
      BY <3>1, <3>3 DEF Abort, Ends
    <3>4. QED
      BY <2>4, <3>2, <3>3 DEF CreateEvidence, UpdateUser, vars
  <2>5. QED
    BY <2>1, <2>2, <2>3, <2>4 DEF Next
<1>4. QED
  BY <1>1, <1>2, <1>3

\* Rows of the tables and requests in flight have the columns and fields the
\* code gives them, whatever the interleaving.
THEOREM TypeCorrect == Spec => []TypeOK
<1>1. TypeInv /\ [Next]_vars => TypeInv'
  BY NextTypeOK, NextApproversAreRecipients DEF TypeInv
<1>2. TypeInv => TypeOK
  BY DEF TypeInv
<1>3. QED
  BY InitTypeInv, <1>1, <1>2, PTL DEF Spec

----------------------------------------------------------------------------
(* What survives the races, with any number of threads.                    *)

\* Only three commits write transfers or custody entries.
LEMMA CustodyWriters ==
    ASSUME [Next]_vars
    PROVE  \/ \E u \in Users, e \in Evidences, c \in Contents : CreateEvidence(u, e, c)
           \/ \E w \in Workers, t \in TransferIds : RequestCommit(w, t)
           \/ \E w \in Workers : ApproveCommit(w)
           \/ UNCHANGED <<transfers, custody_logs>>
<1>1. ASSUME NEW w \in Workers, NEW u \in Users, Start(w, u)
      PROVE  UNCHANGED <<transfers, custody_logs>>
  BY <1>1 DEF Start, RequestStart, ApproveStart, VerifyStart, UpdateStart
<1>2. ASSUME NEW w \in Workers, Step(w)
      PROVE  \/ UNCHANGED <<transfers, custody_logs>>
             \/ ApproveCommit(w)
             \/ \E t \in TransferIds : RequestCommit(w, t)
  BY <1>2 DEF Step, RequestReadHolder, RequestReadPending, ApproveReadEvidence,
     VerifyCommit, UpdateCommit
<1>3. ASSUME \/ \E w \in Workers : Abort(w)
             \/ \E u \in Users, row \in UserRow : UpdateUser(u, row)
             \/ \E dead \in SUBSET Workers : Restart(dead)
             \/ UNCHANGED vars
      PROVE  UNCHANGED <<transfers, custody_logs>>
  BY <1>3 DEF Abort, UpdateUser, Restart, vars
<1>4. QED
  BY <1>1, <1>2, <1>3 DEF Next

\* The audit log is append-only.
LEMMA AuditGrows == [Next]_vars => audit_logs \subseteq audit_logs'
<1> SUFFICES ASSUME [Next]_vars PROVE audit_logs \subseteq audit_logs'
  OBVIOUS
<1>1. ASSUME NEW w \in Workers, NEW u \in Users, Start(w, u)
      PROVE  audit_logs \subseteq audit_logs'
  BY <1>1 DEF Start, RequestStart, ApproveStart, VerifyStart, UpdateStart
<1>2. ASSUME NEW w \in Workers, Step(w)
      PROVE  audit_logs \subseteq audit_logs'
  BY <1>2 DEF Step, RequestReadHolder, RequestReadPending, RequestCommit,
     ApproveReadEvidence, ApproveCommit, VerifyCommit, UpdateCommit
<1>3. ASSUME \/ \E u \in Users, e \in Evidences, c \in Contents : CreateEvidence(u, e, c)
             \/ \E w \in Workers : Abort(w)
             \/ \E u \in Users, row \in UserRow : UpdateUser(u, row)
             \/ \E dead \in SUBSET Workers : Restart(dead)
             \/ UNCHANGED vars
      PROVE  audit_logs \subseteq audit_logs'
  BY <1>3 DEF CreateEvidence, Abort, UpdateUser, Restart, vars
<1>4. QED
  BY <1>1, <1>2, <1>3 DEF Next

ConsentInv == /\ TypeInv
              /\ RequestsAreAudited
              /\ DecisionsAreAudited
              /\ MovesAreConsented

\* An approval in flight, about to be committed.
LEMMA ApprovalInFlight ==
    ASSUME TypeInv, NEW w \in Workers, ApproveCommit(w)
    PROVE  LET s == session[w] IN
           /\ s \in ApproveSession
           /\ s.transfer \in DOMAIN transfers
           /\ transfers[s.transfer] \in TransferRow
           /\ transfers[s.transfer].evidence_id = s.evidence_id
           /\ transfers[s.transfer].to_user_id = s.user
<1>1. session[w] \in Session /\ session[w].op = "approve"
  BY DEF TypeInv, TypeOK, ApproveCommit
<1>2. session[w] \in ApproveSession
  BY <1>1 DEF Session, Idle, RequestSession, ApproveSession, VerifySession, UpdateSession
<1>3. QED
  BY <1>1, <1>2 DEF TypeInv, TypeOK, ApproversAreRecipients

LEMMA NextRequestsAreAudited ==
    ASSUME TypeInv, RequestsAreAudited, [Next]_vars
    PROVE  RequestsAreAudited'
<1> SUFFICES ASSUME NEW t \in DOMAIN transfers'
             PROVE  \E r \in audit_logs' :
                        /\ r.action = "request" /\ r.transfer_id = t
                        /\ r.entity_id = transfers'[t].evidence_id
  BY DEF RequestsAreAudited
<1>1. CASE t \in DOMAIN transfers
  BY <1>1, TransfersPersist, AuditGrows DEF RequestsAreAudited
<1>2. CASE t \notin DOMAIN transfers
  <2>1. PICK w \in Workers, s \in TransferIds : RequestCommit(w, s)
    BY <1>2, CustodyWriters DEF CreateEvidence, ApproveCommit
  <2>2. t = s
    BY <1>2, <2>1 DEF RequestCommit, Put
  <2>3. transfers'[t].evidence_id = session[w].evidence_id
    BY <2>1, <2>2 DEF RequestCommit, Put
  <2>4. [action |-> "request", entity_id |-> session[w].evidence_id,
         user_id |-> session[w].user, transfer_id |-> t] \in audit_logs'
    BY <2>1, <2>2 DEF RequestCommit
  <2>5. QED
    BY <2>3, <2>4
<1>3. QED
  BY <1>1, <1>2

LEMMA NextDecisionsAreAudited ==
    ASSUME TypeInv, DecisionsAreAudited, [Next]_vars
    PROVE  DecisionsAreAudited'
<1> DEFINE Audited(t) ==
        /\ transfers[t].approved_by = transfers[t].to_user_id
        /\ \E a \in audit_logs :
              /\ a.action = (IF transfers[t].status = "approved" THEN "approve" ELSE "reject")
              /\ a.transfer_id = t /\ a.user_id = transfers[t].to_user_id
<1> SUFFICES ASSUME NEW t \in DOMAIN transfers', transfers'[t].status # "pending"
             PROVE  Audited(t)'
  BY DEF DecisionsAreAudited, Pending
<1>1. CASE t \in DOMAIN transfers /\ transfers'[t] = transfers[t]
  <2>1. Audited(t)
    BY <1>1 DEF DecisionsAreAudited, Pending
  <2>2. PICK a \in audit_logs :
            /\ a.action = (IF transfers[t].status = "approved" THEN "approve" ELSE "reject")
            /\ a.transfer_id = t /\ a.user_id = transfers[t].to_user_id
    BY <2>1
  <2>3. a \in audit_logs'
    BY AuditGrows
  <2>4. QED
    BY <1>1, <2>1, <2>2, <2>3
<1>2. ASSUME NEW w \in Workers, ApproveCommit(w), t = session[w].transfer
      PROVE  Audited(t)'
  <2> DEFINE s == session[w]
  <2>1. /\ s \in ApproveSession
        /\ t \in DOMAIN transfers
        /\ transfers[t] \in TransferRow
        /\ transfers[t].to_user_id = s.user
    BY <1>2, ApprovalInFlight
  <2>2. /\ transfers'[t].status = IF s.approved THEN "approved" ELSE "rejected"
        /\ transfers'[t].approved_by = s.user
        /\ transfers'[t].to_user_id = s.user
    BY <1>2, <2>1 DEF ApproveCommit, TransferRow
  <2>3. [action |-> IF s.approved THEN "approve" ELSE "reject",
         entity_id |-> s.evidence_id, user_id |-> s.user, transfer_id |-> t] \in audit_logs'
    BY <1>2 DEF ApproveCommit
  <2>4. QED
    BY <2>2, <2>3
<1>3. ASSUME NEW w \in Workers, NEW s \in TransferIds, RequestCommit(w, s)
      PROVE  Audited(t)'
  BY <1>1, <1>3 DEF RequestCommit, Put
<1>4. ASSUME NEW w \in Workers, ApproveCommit(w), t # session[w].transfer
      PROVE  Audited(t)'
  BY <1>1, <1>4 DEF ApproveCommit
<1>5. QED
  BY <1>1, <1>2, <1>3, <1>4, CustodyWriters DEF CreateEvidence

LEMMA NextMovesAreConsented ==
    ASSUME TypeInv, RequestsAreAudited, MovesAreConsented, [Next]_vars
    PROVE  MovesAreConsented'
<1> DEFINE Consented(l) ==
        \E t \in DOMAIN transfers, a, r \in audit_logs :
            /\ transfers[t].from_user_id = l.from_user_id
            /\ a.action = "approve" /\ a.transfer_id = t
            /\ a.entity_id = l.evidence_id /\ a.user_id = l.holder_id
            /\ r.action = "request" /\ r.transfer_id = t /\ r.entity_id = l.evidence_id
<1> SUFFICES ASSUME NEW l \in custody_logs', l.action = "transferred"
             PROVE  Consented(l)'
  BY DEF MovesAreConsented, Moves
<1>1. CASE l \in custody_logs
  <2>1. PICK t \in DOMAIN transfers, a \in audit_logs, r \in audit_logs :
            /\ transfers[t].from_user_id = l.from_user_id
            /\ a.action = "approve" /\ a.transfer_id = t
            /\ a.entity_id = l.evidence_id /\ a.user_id = l.holder_id
            /\ r.action = "request" /\ r.transfer_id = t /\ r.entity_id = l.evidence_id
    BY <1>1 DEF MovesAreConsented, Moves
  <2>2. t \in DOMAIN transfers' /\ transfers'[t].from_user_id = transfers[t].from_user_id
    BY TransfersPersist
  <2>3. a \in audit_logs' /\ r \in audit_logs'
    BY AuditGrows
  <2>4. QED
    BY <2>1, <2>2, <2>3
<1>2. CASE l \notin custody_logs
  <2>1. PICK w \in Workers : ApproveCommit(w)
    <3>1. ASSUME NEW u \in Users, NEW e \in Evidences, NEW c \in Contents,
                 CreateEvidence(u, e, c)
          PROVE  FALSE
      BY <1>2, <3>1 DEF CreateEvidence
    <3>2. ASSUME NEW w \in Workers, NEW t \in TransferIds, RequestCommit(w, t)
          PROVE  FALSE
      BY <1>2, <3>2 DEF RequestCommit
    <3>3. QED
      BY <1>2, <3>1, <3>2, CustodyWriters
  <2> DEFINE s == session[w]
             t == s.transfer
             a == [action |-> IF s.approved THEN "approve" ELSE "reject",
                   entity_id |-> s.evidence_id, user_id |-> s.user, transfer_id |-> t]
  <2>2. /\ t \in DOMAIN transfers
        /\ transfers[t].evidence_id = s.evidence_id
        /\ transfers[t].to_user_id = s.user
    BY <2>1, ApprovalInFlight
  <2>3. /\ s.approved
        /\ l.evidence_id = s.evidence_id
        /\ l.holder_id = transfers[t].to_user_id
        /\ l.from_user_id = transfers[t].from_user_id
    BY <1>2, <2>1 DEF ApproveCommit
  <2>4. PICK r \in audit_logs : /\ r.action = "request" /\ r.transfer_id = t
                                /\ r.entity_id = s.evidence_id
    BY <2>2 DEF RequestsAreAudited
  <2>5. a \in audit_logs'
    BY <2>1 DEF ApproveCommit
  <2>6. r \in audit_logs' /\ t \in DOMAIN transfers'
        /\ transfers'[t].from_user_id = transfers[t].from_user_id
    BY <2>2, TransfersPersist, AuditGrows
  <2>7. /\ a.action = "approve" /\ a.transfer_id = t
        /\ a.entity_id = l.evidence_id /\ a.user_id = l.holder_id
    BY <2>2, <2>3
  <2>8. r.entity_id = l.evidence_id /\ transfers'[t].from_user_id = l.from_user_id
    BY <2>3, <2>4, <2>6
  <2>9. QED
    BY <2>4, <2>5, <2>6, <2>7, <2>8
<1>3. QED
  BY <1>1, <1>2

LEMMA ConsentInvariant == Spec => []ConsentInv
<1>1. Init => ConsentInv
  BY InitTypeInv DEF Init, ConsentInv, RequestsAreAudited, DecisionsAreAudited,
     MovesAreConsented, Moves
<1>2. ConsentInv /\ [Next]_vars => ConsentInv'
  <2>1. TypeInv /\ [Next]_vars => TypeInv'
    BY NextTypeOK, NextApproversAreRecipients DEF TypeInv
  <2>2. QED
    BY <2>1, NextRequestsAreAudited, NextDecisionsAreAudited, NextMovesAreConsented
       DEF ConsentInv
<1>3. QED
  BY <1>1, <1>2, PTL DEF Spec

\* However many threads race, nobody becomes the holder of an item without a
\* request for it and an approval of their own in the audit log.
THEOREM Consent == Spec => []MovesAreConsented
  BY ConsentInvariant, PTL DEF ConsentInv

\* However many threads race, a decided transfer was decided by its recipient and
\* the audit log has that decision.
THEOREM AuditedDecisions == Spec => []DecisionsAreAudited
  BY ConsentInvariant, PTL DEF ConsentInv

\* Only registration, a verification, an update and the migration write the items.
LEMMA EvidenceWriters ==
    ASSUME [Next]_vars
    PROVE  \/ \E u \in Users, e \in Evidences, c \in Contents : CreateEvidence(u, e, c)
           \/ \E w \in Workers : VerifyCommit(w) \/ UpdateCommit(w)
           \/ \E dead \in SUBSET Workers : Restart(dead)
           \/ UNCHANGED evidence
<1>1. ASSUME NEW w \in Workers, NEW u \in Users, Start(w, u)
      PROVE  UNCHANGED evidence
  BY <1>1 DEF Start, RequestStart, ApproveStart, VerifyStart, UpdateStart
<1>2. ASSUME NEW w \in Workers, Step(w)
      PROVE  UNCHANGED evidence \/ VerifyCommit(w) \/ UpdateCommit(w)
  BY <1>2 DEF Step, RequestReadHolder, RequestReadPending, RequestCommit,
     ApproveReadEvidence, ApproveCommit
<1>3. ASSUME \/ \E w \in Workers : Abort(w)
             \/ \E u \in Users, row \in UserRow : UpdateUser(u, row)
             \/ UNCHANGED vars
      PROVE  UNCHANGED evidence
  BY <1>3 DEF Abort, UpdateUser, vars
<1>4. QED
  BY <1>1, <1>2, <1>3 DEF Next

LEMMA NextBaselineAudited ==
    ASSUME TypeInv, BaselineAudited, [Next]_vars
    PROVE  BaselineAudited'
<1> DEFINE Audited(e, hash) ==
        \E a \in audit_logs :
            a.action = "verify" /\ a.entity_id = e /\ a.hash = hash /\ a.verified
<1> SUFFICES ASSUME NEW e \in DOMAIN evidence', evidence'[e].sha256_hash # None
             PROVE  Audited(e, evidence[e].sha256_hash)'
  BY DEF BaselineAudited
<1>1. TypeOK
  BY DEF TypeInv
<1>2. CASE e \in DOMAIN evidence /\ evidence'[e].sha256_hash = evidence[e].sha256_hash
  BY <1>2, AuditGrows DEF BaselineAudited
<1>3. ASSUME NEW u \in Users, NEW d \in Evidences, NEW c \in Contents, CreateEvidence(u, d, c)
      PROVE  e \in DOMAIN evidence /\ evidence'[e].sha256_hash = evidence[e].sha256_hash
  BY <1>3 DEF CreateEvidence, Put
<1>4. ASSUME NEW w \in Workers, VerifyCommit(w)
      PROVE  Audited(e, evidence[e].sha256_hash)'
  <2>1. PICK s : s = session[w]
    OBVIOUS
  <2>2. s \in VerifySession
    BY <1>1, <1>4, <2>1 DEF TypeOK, VerifyCommit, Session, Idle, RequestSession, ApproveSession,
       UpdateSession
  <2>3. CASE s.row.sha256_hash = None /\ e = s.evidence_id
    <3>1. PICK hash : hash = compute_evidence_hash(s.row.fields)
      OBVIOUS
    <3>2. e \in DOMAIN evidence /\ evidence'[e].sha256_hash = hash
      BY <1>1, <1>4, <2>1, <2>3, <3>1 DEF VerifyCommit, TypeOK, EvidenceRow
    <3>3. PICK a : a = [action |-> "verify", entity_id |-> e, hash |-> hash, verified |-> ~Tampered(s.row)]
      OBVIOUS
    <3>4. ~Tampered(s.row)
      BY <2>3 DEF Tampered
    <3>5. a.action = "verify" /\ a.entity_id = e /\ a.hash = hash
      BY <3>3
    <3>6. a.verified
      BY <3>3, <3>4, Zenon
    <3>7. a \in audit_logs'
      BY <1>4, <2>1, <2>3, <3>1, <3>3 DEF VerifyCommit
    <3>8. QED
      BY <3>2, <3>5, <3>6, <3>7
  <2>4. CASE ~(s.row.sha256_hash = None /\ e = s.evidence_id)
    BY <1>1, <1>2, <1>4, <2>1, <2>4 DEF VerifyCommit, TypeOK
  <2>5. QED
    BY <2>3, <2>4
<1>5. ASSUME NEW w \in Workers, UpdateCommit(w)
      PROVE  e \in DOMAIN evidence /\ evidence'[e].sha256_hash = evidence[e].sha256_hash
  BY <1>1, <1>5 DEF UpdateCommit, TypeOK, EvidenceRow
<1>6. ASSUME NEW dead, Restart(dead)
      PROVE  e \in DOMAIN evidence /\ evidence'[e].sha256_hash = evidence[e].sha256_hash
  BY <1>1, <1>6 DEF Restart, TypeOK, EvidenceRow
<1>7. QED
  BY <1>2, <1>3, <1>4, <1>5, <1>6, EvidenceWriters

\* However verifications race with each other, with updates and with the migration, a
\* baseline is the hash of a verification in the audit log that found the item intact.
THEOREM BaselinesAreAudited == Spec => []BaselineAudited
<1>1. Init => TypeInv /\ BaselineAudited
  BY InitTypeInv DEF Init, BaselineAudited
<1>2. TypeInv /\ BaselineAudited /\ [Next]_vars => (TypeInv /\ BaselineAudited)'
  BY NextTypeOK, NextApproversAreRecipients, NextBaselineAudited DEF TypeInv
<1>3. QED
  BY <1>1, <1>2, PTL DEF Spec

----------------------------------------------------------------------------
(* The chain of custody holds, and CustodyChain is implemented, for any    *)
(* number of threads, users, items and transfers, provided no two requests *)
(* for one item are in flight together (IsolatedSpec).                     *)

IsolatedNext == Next /\ Isolated' /\ Undisturbed

\* The custody entries, and the transfers, of item e are left alone.
SameLogs(e) ==
    \A l \in custody_logs \cup custody_logs' :
        l.evidence_id = e => l \in custody_logs /\ l \in custody_logs'
SameTransfers(e) ==
    /\ \A t \in DOMAIN transfers :
           transfers[t].evidence_id = e =>
               t \in DOMAIN transfers' /\ transfers'[t] = transfers[t]
    /\ \A t \in DOMAIN transfers' :
           transfers'[t].evidence_id = e =>
               t \in DOMAIN transfers /\ transfers'[t] = transfers[t]

LEMMA StampsAreNaturals ==
    ASSUME TypeOK
    PROVE  /\ clock \in Nat
           /\ \A l \in custody_logs : l.timestamp \in Nat
  BY ConstantsAssumption DEF ConstantsAssumption, TypeOK, CustodyLog

\* An item has one current holder.
LEMMA HolderUnique ==
    ASSUME TypeOK, UniqueStamps, NEW e, NEW u, NEW v,
           CurrentHolder(e, u), CurrentHolder(e, v)
    PROVE  u = v
<1>1. PICK l \in custody_logs : l.evidence_id = e /\ IsLatest(l) /\ l.holder_id = u
  BY DEF CurrentHolder
<1>2. PICK m \in custody_logs : m.evidence_id = e /\ IsLatest(m) /\ m.holder_id = v
  BY DEF CurrentHolder
<1>3. l.timestamp = m.timestamp
  BY <1>1, <1>2, StampsAreNaturals DEF IsLatest
<1>4. QED
  BY <1>1, <1>2, <1>3 DEF UniqueStamps

\* The current holder depends on the entries of the item only.
LEMMA HolderFrame ==
    ASSUME NEW e, NEW u, SameLogs(e)
    PROVE  CurrentHolder(e, u) <=> CurrentHolder(e, u)'
  BY DEF SameLogs, CurrentHolder, IsLatest

\* So does the existence of a pending transfer.
LEMMA PendingFrame ==
    ASSUME NEW e, SameTransfers(e)
    PROVE  has_pending_transfer(e) <=> has_pending_transfer(e)'
  BY DEF SameTransfers, has_pending_transfer, Pending

\* A request whose session a step leaves alone finds its item's custody entries
\* and transfers as they were.
LEMMA OthersUntouched ==
    ASSUME ChainInv, [Next]_vars, NEW v \in Workers, session'[v] = session[v], Busy(v)
    PROVE  /\ SameLogs(session[v].evidence_id)
           /\ SameTransfers(session[v].evidence_id)
<1> DEFINE e == session[v].evidence_id
<1>0. TypeInv /\ e \in DOMAIN evidence /\ session[v] # Idle
  BY DEF ChainInv, TypeInv, Referential, Busy
<1>1. ASSUME NEW u \in Users, NEW d \in Evidences, NEW c \in Contents,
             CreateEvidence(u, d, c)
      PROVE  SameLogs(e) /\ SameTransfers(e)
  BY <1>0, <1>1 DEF CreateEvidence, SameLogs, SameTransfers
<1>2. ASSUME NEW w \in Workers, session'[w] = Idle, Busy(w)
      PROVE  session[w].evidence_id # e
  BY <1>0, <1>2 DEF ChainInv, Isolated, Busy
<1>3. ASSUME NEW w \in Workers, NEW t \in TransferIds, RequestCommit(w, t)
      PROVE  SameLogs(e) /\ SameTransfers(e)
  <2>1. session'[w] = Idle /\ Busy(w)
    BY <1>0, <1>3 DEF RequestCommit, Ends, Busy, Idle, TypeInv, TypeOK
  <2>2. session[w].evidence_id # e
    BY <1>2, <2>1
  <2>3. SameLogs(e)
    BY <1>3 DEF RequestCommit, SameLogs
  <2>4. SameTransfers(e)
    BY <1>3, <2>2 DEF RequestCommit, SameTransfers, Put
  <2>5. QED
    BY <2>3, <2>4
<1>4. ASSUME NEW w \in Workers, ApproveCommit(w)
      PROVE  SameLogs(e) /\ SameTransfers(e)
  <2>1. session'[w] = Idle /\ Busy(w)
    BY <1>0, <1>4 DEF ApproveCommit, Ends, Busy, Idle, TypeInv, TypeOK
  <2>2. session[w].evidence_id # e
    BY <1>2, <2>1
  <2>3. /\ session[w].transfer \in DOMAIN transfers
        /\ transfers[session[w].transfer].evidence_id = session[w].evidence_id
    BY <1>0, <1>4, ApprovalInFlight
  <2>4. SameLogs(e)
    BY <1>4, <2>2 DEF ApproveCommit, SameLogs
  <2>5. SameTransfers(e)
    <3>1. ASSUME NEW t \in DOMAIN transfers
          PROVE  /\ t \in DOMAIN transfers'
                 /\ t # session[w].transfer => transfers'[t] = transfers[t]
                 /\ transfers'[t].evidence_id = transfers[t].evidence_id
      BY <1>0, <1>4, TransfersPersist DEF ApproveCommit
    <3>2. DOMAIN transfers' = DOMAIN transfers
      BY <1>4 DEF ApproveCommit
    <3>3. QED
      BY <2>2, <2>3, <3>1, <3>2 DEF SameTransfers
  <2>6. QED
    BY <2>4, <2>5
<1>5. CASE UNCHANGED <<transfers, custody_logs>>
  BY <1>5 DEF SameLogs, SameTransfers
<1>6. QED
  BY <1>1, <1>3, <1>4, <1>5, CustodyWriters

\* How the session of a thread changes.
LEMMA SessionSteps ==
    ASSUME TypeOK, [Next]_vars, NEW v \in Workers, session'[v] # session[v]
    PROVE  \/ session'[v] = Idle
           \/ \E u \in Users : Start(v, u)
           \/ RequestReadHolder(v)
           \/ RequestReadPending(v)
           \/ ApproveReadEvidence(v)
<1> USE DEF TypeOK
<1>1. ASSUME NEW w \in Workers, NEW u \in Users, Start(w, u)
      PROVE  Start(v, u)
  <2>1. w = v
    BY <1>1 DEF Start, RequestStart, ApproveStart, VerifyStart, UpdateStart
  <2>2. QED
    BY <1>1, <2>1
<1>2. ASSUME NEW w \in Workers, Step(w)
      PROVE  \/ session'[v] = Idle
             \/ RequestReadHolder(v)
             \/ RequestReadPending(v)
             \/ ApproveReadEvidence(v)
  <2>1. w = v
    BY <1>2 DEF Step, RequestReadHolder, RequestReadPending, RequestCommit,
       ApproveReadEvidence, ApproveCommit, VerifyCommit, UpdateCommit, Ends
  <2>2. QED
    BY <1>2, <2>1 DEF Step, RequestCommit, ApproveCommit, VerifyCommit, UpdateCommit, Ends
<1>3. ASSUME NEW w \in Workers, Abort(w)
      PROVE  session'[v] = Idle
  BY <1>3 DEF Abort, Ends
<1>4. ASSUME NEW dead, Restart(dead)
      PROVE  session'[v] = Idle
  BY <1>4 DEF Restart
<1>5. ASSUME \/ \E u \in Users, e \in Evidences, c \in Contents : CreateEvidence(u, e, c)
             \/ \E u \in Users, row \in UserRow : UpdateUser(u, row)
             \/ UNCHANGED vars
      PROVE  FALSE
  BY <1>5 DEF CreateEvidence, UpdateUser, vars
<1>6. QED
  BY <1>1, <1>2, <1>3, <1>4, <1>5 DEF Next

\* The clock does not go back.
LEMMA ClockGrows ==
    ASSUME TypeOK, [Next]_vars
    PROVE  clock <= clock'
<1> USE StampsAreNaturals
<1>1. ASSUME NEW w \in Workers, NEW u \in Users, Start(w, u)
      PROVE  clock <= clock'
  BY <1>1 DEF Start, RequestStart, ApproveStart, VerifyStart, UpdateStart
<1>2. ASSUME NEW w \in Workers, Step(w)
      PROVE  clock <= clock'
  <2>1. CASE ApproveReadEvidence(w)
    <3>1. clock' = clock \/ clock' = clock + 1
      BY <2>1 DEF ApproveReadEvidence
    <3>2. QED
      BY <3>1
  <2>2. CASE ~ApproveReadEvidence(w)
    BY <1>2, <2>2 DEF Step, RequestReadHolder, RequestReadPending, RequestCommit,
       ApproveCommit, VerifyCommit, UpdateCommit
  <2>3. QED
    BY <2>1, <2>2
<1>3. ASSUME \/ \E u \in Users, e \in Evidences, c \in Contents : CreateEvidence(u, e, c)
             \/ \E w \in Workers : Abort(w)
             \/ \E u \in Users, row \in UserRow : UpdateUser(u, row)
             \/ \E dead \in SUBSET Workers : Restart(dead)
             \/ UNCHANGED vars
      PROVE  clock <= clock'
  <2>1. clock' = clock \/ clock' = clock + 1
    BY <1>3 DEF CreateEvidence, Abort, UpdateUser, Restart, vars
  <2>2. QED
    BY <2>1
<1>4. QED
  BY <1>1, <1>2, <1>3 DEF Next

\* ReadsStayTrue of one thread.
ReadsOf(w) ==
    LET s == session[w] IN
    /\ s.op = "request" => s.from_user_id # s.to_user_id
    /\ s.op = "request" /\ s.pc \in {"pending", "insert"} =>
           CurrentHolder(s.evidence_id, s.from_user_id)
    /\ s.op = "request" /\ s.pc = "insert" => ~has_pending_transfer(s.evidence_id)
    /\ s.op = "approve" => Pending(s.transfer)
    /\ s.op = "approve" /\ s.pc = "commit" =>
           /\ s.now <= clock
           /\ \A l \in custody_logs :
                  l.evidence_id = s.evidence_id => l.timestamp < s.now

LEMMA NextReadsStayTrue ==
    ASSUME ChainInv, [Next]_vars, TypeOK'
    PROVE  ReadsStayTrue'
<1> SUFFICES ASSUME NEW v \in Workers PROVE ReadsOf(v)'
  BY DEF ReadsStayTrue, ReadsOf
<1>0. /\ TypeOK /\ ApproversAreRecipients /\ Referential /\ UniqueStamps
      /\ session[v] \in Session
  BY DEF ChainInv, TypeOK
<1>1. CASE session'[v] = session[v]
  <2> DEFINE s == session[v]
  <2>1. CASE s = Idle
    BY <1>1, <2>1 DEF ReadsOf, Idle
  <2>2. CASE s # Idle
    <3>1. SameLogs(s.evidence_id) /\ SameTransfers(s.evidence_id)
      BY <1>1, <2>2, OthersUntouched DEF Busy
    <3>2. ReadsOf(v)
      BY DEF ChainInv, ReadsStayTrue, ReadsOf
    <3>3. ASSUME s.op = "request", s.pc \in {"pending", "insert"}
          PROVE  CurrentHolder(s.evidence_id, s.from_user_id)'
      BY <1>1, <3>1, <3>2, <3>3, HolderFrame DEF ReadsOf, CurrentHolder, IsLatest
    <3>4. ASSUME s.op = "request", s.pc = "insert"
          PROVE  ~has_pending_transfer(s.evidence_id)'
      BY <1>1, <3>1, <3>2, <3>4, PendingFrame DEF ReadsOf, has_pending_transfer
    <3>5. ASSUME s.op = "approve"
          PROVE  Pending(s.transfer)'
      BY <1>0, <1>1, <3>1, <3>2, <3>5 DEF ReadsOf, Pending, SameTransfers,
         ApproversAreRecipients
    <3>6. ASSUME s.op = "approve", s.pc = "commit"
          PROVE  /\ s.now <= clock'
                 /\ \A l \in custody_logs' :
                        l.evidence_id = s.evidence_id => l.timestamp < s.now
      <4>1. s.now \in Nat
        BY <1>0, <3>6, ConstantsAssumption DEF ConstantsAssumption, Session, Idle,
           RequestSession, ApproveSession, VerifySession, UpdateSession
      <4>2. clock \in Nat /\ clock' \in Nat /\ clock <= clock'
        BY <1>0, ClockGrows, ConstantsAssumption DEF ConstantsAssumption, TypeOK
      <4>3. s.now <= clock'
        BY <3>2, <3>6, <4>1, <4>2 DEF ReadsOf
      <4>4. QED
        BY <3>1, <3>2, <3>6, <4>3 DEF ReadsOf, SameLogs
    <3>7. QED
      BY <1>1, <3>2, <3>3, <3>4, <3>5, <3>6 DEF ReadsOf
  <2>3. QED
    BY <2>1, <2>2
<1>2. CASE session'[v] # session[v]
  <2>1. CASE session'[v] = Idle
    BY <2>1 DEF ReadsOf, Idle
  <2>2. ASSUME NEW u \in Users, Start(v, u)
        PROVE  ReadsOf(v)'
    BY <1>0, <2>2 DEF Start, RequestStart, ApproveStart, VerifyStart, UpdateStart, ReadsOf,
       Pending, TypeOK
  <2>3. CASE RequestReadHolder(v) /\ session'[v] # Idle
    <3>1. session[v] \in RequestSession
      BY <1>0, <2>3 DEF RequestReadHolder, Session, Idle, RequestSession, ApproveSession,
         VerifySession, UpdateSession
    <3>2. /\ session'[v] = [session[v] EXCEPT !.pc = "pending"]
          /\ CurrentHolder(session[v].evidence_id, session[v].from_user_id)
          /\ session[v].from_user_id # session[v].to_user_id
      BY <1>0, <2>3 DEF RequestReadHolder, Ends, TypeOK, ChainInv, ReadsStayTrue
    <3>3. UNCHANGED <<custody_logs, transfers>>
      BY <2>3 DEF RequestReadHolder
    <3>4. QED
      BY <3>1, <3>2, <3>3 DEF RequestSession, ReadsOf, CurrentHolder, IsLatest
  <2>4. CASE RequestReadPending(v) /\ session'[v] # Idle
    <3>1. session[v] \in RequestSession
      BY <1>0, <2>4 DEF RequestReadPending, Session, Idle, RequestSession, ApproveSession,
         VerifySession, UpdateSession
    <3>2. /\ session'[v] = [session[v] EXCEPT !.pc = "insert"]
          /\ ~has_pending_transfer(session[v].evidence_id)
      BY <1>0, <2>4 DEF RequestReadPending, Ends, TypeOK
    <3>3. /\ CurrentHolder(session[v].evidence_id, session[v].from_user_id)
          /\ session[v].from_user_id # session[v].to_user_id
      BY <2>4 DEF RequestReadPending, ChainInv, ReadsStayTrue
    <3>4. UNCHANGED <<custody_logs, transfers>>
      BY <2>4 DEF RequestReadPending
    <3>5. QED
      BY <3>1, <3>2, <3>3, <3>4 DEF RequestSession, ReadsOf, CurrentHolder, IsLatest,
         has_pending_transfer, Pending
  <2>5. CASE ApproveReadEvidence(v) /\ session'[v] # Idle
    <3>1. session[v] \in ApproveSession
      BY <1>0, <2>5 DEF ApproveReadEvidence, Session, Idle, RequestSession, ApproveSession,
         VerifySession, UpdateSession
    <3>2. /\ session'[v] = [session[v] EXCEPT !.pc = "commit", !.now = clock']
          /\ clock' = clock + 1
      BY <1>0, <2>5 DEF ApproveReadEvidence, Ends, TypeOK
    <3>3. UNCHANGED <<custody_logs, transfers>> /\ Pending(session[v].transfer)
      BY <2>5 DEF ApproveReadEvidence, ChainInv, ReadsStayTrue
    <3>4. \A l \in custody_logs : l.timestamp < clock'
      BY <1>0, <3>2, StampsAreNaturals DEF Referential
    <3>5. clock' <= clock'
      BY <1>0, <3>2, StampsAreNaturals
    <3>6. QED
      BY <3>1, <3>2, <3>3, <3>4, <3>5 DEF ApproveSession, ReadsOf, Pending
  <2>6. QED
    BY <1>0, <1>2, <2>1, <2>2, <2>3, <2>4, <2>5, SessionSteps
<1>3. QED
  BY <1>1, <1>2

LEMMA NextReferential ==
    ASSUME ChainInv, [Next]_vars, TypeOK'
    PROVE  Referential'
<1>0. /\ TypeOK /\ ApproversAreRecipients /\ Referential /\ ReadsStayTrue /\ TypeInv
      /\ clock \in Nat /\ clock' \in Nat /\ clock <= clock'
  BY ClockGrows, ConstantsAssumption DEF ConstantsAssumption, ChainInv, TypeInv, TypeOK
<1>1. DOMAIN evidence \subseteq DOMAIN evidence'
  <2>1. ASSUME NEW w \in Workers, NEW u \in Users, Start(w, u)
        PROVE  UNCHANGED evidence
    BY <2>1 DEF Start, RequestStart, ApproveStart, VerifyStart, UpdateStart
  <2>2. ASSUME NEW w \in Workers, Step(w)
        PROVE  DOMAIN evidence \subseteq DOMAIN evidence'
    BY <2>2 DEF Step, RequestReadHolder, RequestReadPending, RequestCommit,
       ApproveReadEvidence, ApproveCommit, VerifyCommit, UpdateCommit
  <2>3. ASSUME \/ \E u \in Users, e \in Evidences, c \in Contents : CreateEvidence(u, e, c)
               \/ \E w \in Workers : Abort(w)
               \/ \E u \in Users, row \in UserRow : UpdateUser(u, row)
               \/ \E dead \in SUBSET Workers : Restart(dead)
               \/ UNCHANGED vars
        PROVE  DOMAIN evidence \subseteq DOMAIN evidence'
    BY <2>3 DEF CreateEvidence, Put, Abort, UpdateUser, Restart, vars
  <2>4. QED
    BY <2>1, <2>2, <2>3 DEF Next
<1>2. ASSUME NEW w \in Workers, session'[w] # Idle
      PROVE  session'[w].evidence_id \in DOMAIN evidence'
  <2>1. CASE session'[w] = session[w]
    BY <1>0, <1>1, <1>2, <2>1 DEF Referential, Busy
  <2>2. ASSUME NEW u \in Users, Start(w, u)
        PROVE  session'[w].evidence_id \in DOMAIN evidence'
    BY <1>0, <1>1, <2>2 DEF Start, RequestStart, ApproveStart, VerifyStart, UpdateStart,
       Referential, TypeOK
  <2>3. CASE RequestReadHolder(w) \/ RequestReadPending(w)
    <3>1. session[w] \in RequestSession
      BY <1>0, <2>3 DEF RequestReadHolder, RequestReadPending, TypeOK, Session, Idle,
         RequestSession, ApproveSession, VerifySession, UpdateSession
    <3>2. session'[w].evidence_id = session[w].evidence_id
      BY <1>0, <1>2, <2>3, <3>1 DEF RequestReadHolder, RequestReadPending, Ends, TypeOK,
         RequestSession
    <3>3. QED
      BY <1>0, <1>1, <3>1, <3>2 DEF Referential, Busy, RequestSession, Idle
  <2>4. CASE ApproveReadEvidence(w)
    <3>1. session[w] \in ApproveSession
      BY <1>0, <2>4 DEF ApproveReadEvidence, TypeOK, Session, Idle,
         RequestSession, ApproveSession, VerifySession, UpdateSession
    <3>2. session'[w].evidence_id = session[w].evidence_id
      BY <1>0, <1>2, <2>4, <3>1 DEF ApproveReadEvidence, Ends, TypeOK, ApproveSession
    <3>3. QED
      BY <1>0, <1>1, <3>1, <3>2 DEF Referential, Busy, ApproveSession, Idle
  <2>5. QED
    BY <1>0, <1>2, <2>1, <2>2, <2>3, <2>4, SessionSteps
<1>3. ASSUME NEW u \in Users, NEW e \in Evidences, NEW c \in Contents,
             CreateEvidence(u, e, c)
      PROVE  Referential'
  <2>1. \A l \in custody_logs' : l.evidence_id \in DOMAIN evidence' /\ l.timestamp <= clock'
    BY <1>0, <1>1, <1>3, StampsAreNaturals DEF CreateEvidence, Put, Referential
  <2>2. \A t \in DOMAIN transfers' : transfers'[t].evidence_id \in DOMAIN evidence'
    BY <1>0, <1>1, <1>3 DEF CreateEvidence, Referential
  <2>3. QED
    BY <1>2, <2>1, <2>2 DEF Referential, Busy
<1>4. ASSUME NEW w \in Workers, NEW t \in TransferIds, RequestCommit(w, t)
      PROVE  Referential'
  <2>1. session[w].evidence_id \in DOMAIN evidence
    BY <1>0, <1>4 DEF RequestCommit, Referential, Busy, Idle
  <2>2. \A s \in DOMAIN transfers' : transfers'[s].evidence_id \in DOMAIN evidence'
    BY <1>0, <1>1, <1>4, <2>1 DEF RequestCommit, Put, Referential
  <2>3. \A l \in custody_logs' : l.evidence_id \in DOMAIN evidence' /\ l.timestamp <= clock'
    BY <1>0, <1>1, <1>4 DEF RequestCommit, Referential
  <2>4. QED
    BY <1>2, <2>2, <2>3 DEF Referential, Busy
<1>5. ASSUME NEW w \in Workers, ApproveCommit(w)
      PROVE  Referential'
  <2>1. session[w].evidence_id \in DOMAIN evidence /\ session[w].now <= clock
    BY <1>0, <1>5 DEF ApproveCommit, Referential, Busy, Idle, ReadsStayTrue
  <2>2. \A s \in DOMAIN transfers' : transfers'[s].evidence_id \in DOMAIN evidence'
    BY <1>0, <1>1, <1>5, TransfersPersist DEF ApproveCommit, Referential
  <2>3. UNCHANGED clock
    BY <1>5 DEF ApproveCommit
  <2>4. \A l \in custody_logs' : l.evidence_id \in DOMAIN evidence' /\ l.timestamp <= clock'
    BY <1>0, <1>1, <1>5, <2>1, <2>3 DEF ApproveCommit, Referential
  <2>5. QED
    BY <1>2, <2>2, <2>4 DEF Referential, Busy
<1>6. CASE UNCHANGED <<transfers, custody_logs>>
  <2>1. \A l \in custody_logs' : l.evidence_id \in DOMAIN evidence' /\ l.timestamp <= clock'
    BY <1>0, <1>1, <1>6, StampsAreNaturals DEF Referential
  <2>2. \A t \in DOMAIN transfers' : transfers'[t].evidence_id \in DOMAIN evidence'
    BY <1>0, <1>1, <1>6 DEF Referential
  <2>3. QED
    BY <1>2, <2>1, <2>2 DEF Referential, Busy
<1>7. QED
  BY <1>3, <1>4, <1>5, <1>6, CustodyWriters

LEMMA NextUniqueStamps ==
    ASSUME ChainInv, [Next]_vars
    PROVE  UniqueStamps'
<1>0. TypeOK /\ Referential /\ ReadsStayTrue /\ UniqueStamps /\ TypeInv
  BY DEF ChainInv, TypeInv
<1>1. ASSUME NEW u \in Users, NEW e \in Evidences, NEW c \in Contents,
             CreateEvidence(u, e, c)
      PROVE  UniqueStamps'
  <2>1. \A l \in custody_logs : l.evidence_id # e
    BY <1>0, <1>1 DEF CreateEvidence, Referential
  <2>2. QED
    BY <1>0, <1>1, <2>1 DEF CreateEvidence, UniqueStamps
<1>2. ASSUME NEW w \in Workers, ApproveCommit(w)
      PROVE  UniqueStamps'
  <2>1. \A l \in custody_logs :
            l.evidence_id = session[w].evidence_id => l.timestamp < session[w].now
    BY <1>0, <1>2 DEF ApproveCommit, ReadsStayTrue
  <2>2. session[w].now \in Nat
    BY <1>0, <1>2, ApprovalInFlight, ConstantsAssumption DEF ConstantsAssumption, ApproveSession
  <2>3. \A l \in custody_logs :
            l.evidence_id = session[w].evidence_id => l.timestamp # session[w].now
    BY <1>0, <2>1, <2>2, StampsAreNaturals
  <2>4. QED
    BY <1>0, <1>2, <2>3 DEF ApproveCommit, UniqueStamps
<1>3. ASSUME NEW w \in Workers, NEW t \in TransferIds, RequestCommit(w, t)
      PROVE  UniqueStamps'
  BY <1>0, <1>3 DEF RequestCommit, UniqueStamps
<1>4. CASE UNCHANGED <<transfers, custody_logs>>
  BY <1>0, <1>4 DEF UniqueStamps
<1>5. QED
  BY <1>1, <1>2, <1>3, <1>4, CustodyWriters

----------------------------------------------------------------------------
(* The three commits, seen from the item they are about.                   *)

\* A commit of one item leaves the others alone.
LEMMA CreateTouches ==
    ASSUME ChainInv, NEW u \in Users, NEW e \in Evidences, NEW c \in Contents,
           CreateEvidence(u, e, c)
    PROVE  /\ \A d : d # e => SameLogs(d) /\ SameTransfers(d)
           /\ \A l \in custody_logs : l.evidence_id # e
           /\ \A t \in DOMAIN transfers : transfers[t].evidence_id # e
           /\ transfers' = transfers
  BY DEF CreateEvidence, SameLogs, SameTransfers, ChainInv, Referential

LEMMA RequestTouches ==
    ASSUME ChainInv, NEW w \in Workers, NEW t \in TransferIds, RequestCommit(w, t)
    PROVE  LET s == session[w] IN
           /\ \A d : SameLogs(d)
           /\ \A d : d # s.evidence_id => SameTransfers(d)
           /\ DOMAIN transfers' = DOMAIN transfers \cup {t}
           /\ t \notin DOMAIN transfers
           /\ \A r \in DOMAIN transfers : transfers'[r] = transfers[r]
           /\ transfers'[t].evidence_id = s.evidence_id
           /\ transfers'[t].from_user_id = s.from_user_id
           /\ transfers'[t].to_user_id = s.to_user_id
           /\ transfers'[t].status = "pending"
           /\ s.from_user_id # s.to_user_id
           /\ CurrentHolder(s.evidence_id, s.from_user_id)
           /\ ~has_pending_transfer(s.evidence_id)
<1>1. /\ CurrentHolder(session[w].evidence_id, session[w].from_user_id)
      /\ session[w].from_user_id # session[w].to_user_id
      /\ ~has_pending_transfer(session[w].evidence_id)
  BY DEF RequestCommit, ChainInv, ReadsStayTrue
<1>2. QED
  BY <1>1 DEF RequestCommit, SameLogs, SameTransfers, Put

LEMMA ApproveTouches ==
    ASSUME ChainInv, NEW w \in Workers, ApproveCommit(w)
    PROVE  LET s == session[w]
               t == s.transfer
           IN
           /\ \A d : d # s.evidence_id => SameLogs(d) /\ SameTransfers(d)
           /\ t \in DOMAIN transfers
           /\ DOMAIN transfers' = DOMAIN transfers
           /\ \A r \in DOMAIN transfers : r # t => transfers'[r] = transfers[r]
           /\ transfers[t].status = "pending"
           /\ transfers[t].evidence_id = s.evidence_id
           /\ transfers'[t].evidence_id = s.evidence_id
           /\ transfers'[t].from_user_id = transfers[t].from_user_id
           /\ transfers'[t].to_user_id = transfers[t].to_user_id
           /\ transfers'[t].status = IF s.approved THEN "approved" ELSE "rejected"
           /\ transfers'[t].approved_at = s.now
           /\ CurrentHolder(s.evidence_id, transfers[t].from_user_id)
           /\ s.now \in Nat
           /\ \A l \in custody_logs : l.evidence_id = s.evidence_id => l.timestamp < s.now
<1> DEFINE s == session[w]
           t == s.transfer
<1>1. TypeInv /\ ReadsStayTrue /\ PendingFromHolder
  BY DEF ChainInv, TypeInv
<1>2. /\ s \in ApproveSession
      /\ t \in DOMAIN transfers
      /\ transfers[t] \in TransferRow
      /\ transfers[t].evidence_id = s.evidence_id
  BY <1>1, ApprovalInFlight
<1>3. transfers' = [transfers EXCEPT ![t] =
          [@ EXCEPT !.status = IF s.approved THEN "approved" ELSE "rejected",
                    !.approved_by = s.user, !.approved_at = s.now]]
  BY DEF ApproveCommit
<1>4. /\ DOMAIN transfers' = DOMAIN transfers
      /\ \A r \in DOMAIN transfers : r # t => transfers'[r] = transfers[r]
      /\ transfers'[t].evidence_id = s.evidence_id
      /\ transfers'[t].from_user_id = transfers[t].from_user_id
      /\ transfers'[t].to_user_id = transfers[t].to_user_id
      /\ transfers'[t].status = IF s.approved THEN "approved" ELSE "rejected"
      /\ transfers'[t].approved_at = s.now
  BY <1>2, <1>3 DEF TransferRow
<1>5. Pending(t) /\ \A l \in custody_logs :
                       l.evidence_id = s.evidence_id => l.timestamp < s.now
  BY <1>1 DEF ReadsStayTrue, ApproveCommit
<1>6. CurrentHolder(s.evidence_id, transfers[t].from_user_id)
  BY <1>1, <1>2, <1>5 DEF PendingFromHolder
<1>7. s.now \in Nat
  BY <1>2, ConstantsAssumption DEF ConstantsAssumption, ApproveSession
<1>8. \A d : d # s.evidence_id => SameLogs(d)
  BY DEF ApproveCommit, SameLogs
<1>9. \A d : d # s.evidence_id => SameTransfers(d)
  BY <1>2, <1>4 DEF SameTransfers
<1>10. QED
  BY <1>2, <1>4, <1>5, <1>6, <1>7, <1>8, <1>9 DEF Pending

LEMMA NextOnePendingTransfer ==
    ASSUME ChainInv, [Next]_vars
    PROVE  OnePendingTransfer'
<1>0. OnePendingTransfer
  BY DEF ChainInv
<1>1. ASSUME NEW u \in Users, NEW e \in Evidences, NEW c \in Contents,
             CreateEvidence(u, e, c)
      PROVE  OnePendingTransfer'
  BY <1>0, <1>1, CreateTouches DEF OnePendingTransfer, Pending
<1>2. ASSUME NEW w \in Workers, NEW t \in TransferIds, RequestCommit(w, t)
      PROVE  OnePendingTransfer'
  <2>1. \A r \in DOMAIN transfers :
            transfers[r].evidence_id = session[w].evidence_id => ~Pending(r)
    BY <1>2, RequestTouches DEF has_pending_transfer
  <2>2. ASSUME NEW r \in DOMAIN transfers', NEW s \in DOMAIN transfers',
               transfers'[r].status = "pending", transfers'[s].status = "pending",
               transfers'[r].evidence_id = transfers'[s].evidence_id
        PROVE  r = s
    <3>1. /\ DOMAIN transfers' = DOMAIN transfers \cup {t}
          /\ \A q \in DOMAIN transfers : transfers'[q] = transfers[q]
          /\ transfers'[t].evidence_id = session[w].evidence_id
      BY <1>2, RequestTouches
    <3>2. CASE r = t \/ s = t
      BY <2>1, <2>2, <3>1, <3>2 DEF Pending
    <3>3. CASE r # t /\ s # t
      BY <1>0, <2>2, <3>1, <3>3 DEF OnePendingTransfer, Pending
    <3>4. QED
      BY <3>2, <3>3
  <2>3. QED
    BY <2>2 DEF OnePendingTransfer, Pending
<1>3. ASSUME NEW w \in Workers, ApproveCommit(w)
      PROVE  OnePendingTransfer'
  BY <1>0, <1>3, ApproveTouches DEF OnePendingTransfer, Pending
<1>4. CASE UNCHANGED <<transfers, custody_logs>>
  BY <1>0, <1>4 DEF OnePendingTransfer, Pending
<1>5. QED
  BY <1>1, <1>2, <1>3, <1>4, CustodyWriters

LEMMA NextPendingFromHolder ==
    ASSUME ChainInv, [Next]_vars
    PROVE  PendingFromHolder'
<1>0. PendingFromHolder /\ OnePendingTransfer
  BY DEF ChainInv
<1> DEFINE FromHolder(t) ==
               CurrentHolder(transfers[t].evidence_id, transfers[t].from_user_id)
<1> SUFFICES ASSUME NEW t \in DOMAIN transfers', transfers'[t].status = "pending"
             PROVE  FromHolder(t)'
  BY DEF PendingFromHolder, Pending
<1>1. ASSUME NEW e, NEW u, SameLogs(e), CurrentHolder(e, u),
             transfers'[t].evidence_id = e, transfers'[t].from_user_id = u
      PROVE  FromHolder(t)'
  <2>1. CurrentHolder(e, u)'
    BY <1>1, HolderFrame
  <2>2. QED
    BY <1>1, <2>1 DEF CurrentHolder, IsLatest
<1>2. ASSUME t \in DOMAIN transfers, transfers'[t] = transfers[t],
             SameLogs(transfers[t].evidence_id)
      PROVE  FromHolder(t)'
  <2>1. CurrentHolder(transfers[t].evidence_id, transfers[t].from_user_id)
    BY <1>0, <1>2 DEF PendingFromHolder, Pending
  <2>2. QED
    BY <1>1, <1>2, <2>1
<1>3. ASSUME NEW u \in Users, NEW e \in Evidences, NEW c \in Contents,
             CreateEvidence(u, e, c)
      PROVE  FromHolder(t)'
  BY <1>2, <1>3, CreateTouches
<1>4. ASSUME NEW w \in Workers, NEW s \in TransferIds, RequestCommit(w, s)
      PROVE  FromHolder(t)'
  <2>1. CASE t = s
    BY <1>1, <1>4, <2>1, RequestTouches
  <2>2. CASE t # s
    <3>1. t \in DOMAIN transfers /\ transfers'[t] = transfers[t]
      BY <1>4, <2>2, RequestTouches
    <3>2. SameLogs(transfers[t].evidence_id)
      BY <1>4, RequestTouches
    <3>3. QED
      BY <1>2, <3>1, <3>2
  <2>3. QED
    BY <2>1, <2>2
<1>5. ASSUME NEW w \in Workers, ApproveCommit(w)
      PROVE  FromHolder(t)'
  <2>1. t # session[w].transfer /\ t \in DOMAIN transfers /\ transfers'[t] = transfers[t]
    BY <1>5, ApproveTouches
  <2>2. transfers[t].evidence_id # session[w].evidence_id
    BY <1>0, <1>5, <2>1, ApproveTouches DEF OnePendingTransfer, Pending
  <2>3. QED
    BY <1>2, <1>5, <2>1, <2>2, ApproveTouches
<1>6. CASE UNCHANGED <<transfers, custody_logs>>
  BY <1>2, <1>6 DEF SameLogs
<1>7. QED
  BY <1>3, <1>4, <1>5, <1>6, CustodyWriters

\* A hand-over keeps its predecessor when younger entries, or entries of other
\* items, are added.
LEMMA PrecedesPersists ==
    ASSUME NEW m, NEW l, Precedes(m, l),
           \A k \in custody_logs' : \/ k \in custody_logs
                                    \/ k.evidence_id # l.evidence_id
                                    \/ l.timestamp <= k.timestamp
    PROVE  Precedes(m, l)'
  BY DEF Precedes

LEMMA NextChainContinuity ==
    ASSUME ChainInv, [Next]_vars
    PROVE  ChainContinuity'
<1>0. ChainContinuity /\ TypeOK
  BY DEF ChainInv
<1> SUFFICES ASSUME NEW l \in custody_logs', l.action = "transferred"
             PROVE  \E m \in custody_logs' : Precedes(m, l)' /\ m.holder_id = l.from_user_id
  BY DEF ChainContinuity, Moves
<1>1. ASSUME l \in custody_logs, custody_logs \subseteq custody_logs',
             \A k \in custody_logs' : \/ k \in custody_logs
                                      \/ k.evidence_id # l.evidence_id
                                      \/ l.timestamp <= k.timestamp
      PROVE  \E m \in custody_logs' : Precedes(m, l)' /\ m.holder_id = l.from_user_id
  <2>1. PICK m \in custody_logs : Precedes(m, l) /\ m.holder_id = l.from_user_id
    BY <1>0, <1>1 DEF ChainContinuity, Moves
  <2>2. Precedes(m, l)'
    BY <1>1, <2>1, PrecedesPersists
  <2>3. QED
    BY <1>1, <2>1, <2>2
<1>2. ASSUME NEW u \in Users, NEW e \in Evidences, NEW c \in Contents,
             CreateEvidence(u, e, c)
      PROVE  \E m \in custody_logs' : Precedes(m, l)' /\ m.holder_id = l.from_user_id
  <2>1. l \in custody_logs /\ custody_logs \subseteq custody_logs'
    BY <1>2 DEF CreateEvidence
  <2>2. l.evidence_id # e
    BY <1>2, <2>1, CreateTouches
  <2>3. \A k \in custody_logs' : k \in custody_logs \/ k.evidence_id # l.evidence_id
    BY <1>2, <2>2 DEF CreateEvidence
  <2>4. QED
    BY <1>1, <2>1, <2>3
<1>3. ASSUME NEW w \in Workers, ApproveCommit(w)
      PROVE  \E m \in custody_logs' : Precedes(m, l)' /\ m.holder_id = l.from_user_id
  <2> DEFINE s == session[w]
             row == transfers[s.transfer]
             moved == [evidence_id |-> s.evidence_id, action |-> "transferred",
                       holder_id |-> row.to_user_id,
                       from_user_id |-> row.from_user_id, timestamp |-> s.now]
  <2>1. custody_logs' = IF s.approved THEN custody_logs \cup {moved} ELSE custody_logs
    BY <1>3 DEF ApproveCommit
  <2>2. /\ s.now \in Nat
        /\ CurrentHolder(s.evidence_id, row.from_user_id)
        /\ \A k \in custody_logs : k.evidence_id = s.evidence_id => k.timestamp < s.now
    BY <1>3, ApproveTouches
  <2>3. CASE l \in custody_logs
    <3>1. \A k \in custody_logs' : \/ k \in custody_logs
                                   \/ k.evidence_id # l.evidence_id
                                   \/ l.timestamp <= k.timestamp
      BY <1>0, <2>1, <2>2, <2>3, StampsAreNaturals
    <3>2. QED
      BY <1>1, <2>1, <2>3, <3>1
  <2>4. CASE l \notin custody_logs
    <3>1. l = moved
      BY <2>1, <2>4
    <3>2. PICK m \in custody_logs : /\ m.evidence_id = s.evidence_id /\ IsLatest(m)
                                    /\ m.holder_id = row.from_user_id
      BY <2>2 DEF CurrentHolder
    <3>3. m.timestamp < l.timestamp
      BY <2>2, <3>1, <3>2
    <3>4. \A k \in custody_logs' :
              k.evidence_id = l.evidence_id =>
                  k.timestamp <= m.timestamp \/ l.timestamp <= k.timestamp
      BY <2>1, <2>2, <3>1, <3>2 DEF IsLatest
    <3>5. QED
      BY <2>1, <3>1, <3>2, <3>3, <3>4 DEF Precedes
  <2>5. QED
    BY <2>3, <2>4
<1>4. ASSUME custody_logs' = custody_logs
      PROVE  \E m \in custody_logs' : Precedes(m, l)' /\ m.holder_id = l.from_user_id
  BY <1>1, <1>4
<1>5. QED
  BY <1>2, <1>3, <1>4, CustodyWriters DEF RequestCommit

\* What Records says of a transfer that stays as it is.
LEMMA RecordsFrame ==
    ASSUME NEW l, NEW t, transfers'[t] = transfers[t]
    PROVE  Records(l, t) <=> Records(l, t)'
  BY DEF Records

LEMMA NextApprovedIffMoved ==
    ASSUME ChainInv, [Next]_vars
    PROVE  ApprovedIffMoved'
<1>0. ApprovedIffMoved
  BY DEF ChainInv
\* It suffices that old transfers and old moves stay, and new ones go together.
<1>1. ASSUME Moves \subseteq Moves',
             \A r \in DOMAIN transfers : r \in DOMAIN transfers',
             \A r \in DOMAIN transfers : transfers[r].status = "approved" =>
                 transfers'[r] = transfers[r],
             \A r \in DOMAIN transfers' : transfers'[r].status = "approved" =>
                 \/ r \in DOMAIN transfers /\ transfers'[r] = transfers[r]
                 \/ \E l \in Moves' : Records(l, r)',
             \A l \in Moves' : \/ l \in Moves
                              \/ \E r \in DOMAIN transfers' :
                                     transfers'[r].status = "approved" /\ Records(l, r)'
      PROVE  ApprovedIffMoved'
  <2>1. ASSUME NEW r \in DOMAIN transfers', transfers'[r].status = "approved"
        PROVE  \E l \in Moves' : Records(l, r)'
    BY <1>0, <1>1, <2>1, RecordsFrame DEF ApprovedIffMoved
  <2>2. ASSUME NEW l \in Moves'
        PROVE  \E r \in DOMAIN transfers' :
                   transfers'[r].status = "approved" /\ Records(l, r)'
    BY <1>0, <1>1, <2>2, RecordsFrame DEF ApprovedIffMoved
  <2>3. QED
    BY <2>1, <2>2 DEF ApprovedIffMoved
<1>2. ASSUME NEW u \in Users, NEW e \in Evidences, NEW c \in Contents,
             CreateEvidence(u, e, c)
      PROVE  ApprovedIffMoved'
  <2>1. transfers' = transfers /\ Moves' = Moves
    BY <1>2 DEF CreateEvidence, Moves
  <2>2. QED
    BY <1>1, <2>1
<1>3. ASSUME NEW w \in Workers, NEW t \in TransferIds, RequestCommit(w, t)
      PROVE  ApprovedIffMoved'
  <2>1. Moves' = Moves
    BY <1>3 DEF RequestCommit, Moves
  <2>2. /\ DOMAIN transfers' = DOMAIN transfers \cup {t}
        /\ \A r \in DOMAIN transfers : transfers'[r] = transfers[r]
        /\ transfers'[t].status = "pending"
    BY <1>3, RequestTouches
  <2>3. QED
    BY <1>1, <2>1, <2>2
<1>4. ASSUME NEW w \in Workers, ApproveCommit(w)
      PROVE  ApprovedIffMoved'
  <2> DEFINE s == session[w]
  <2>1. PICK t : t = s.transfer
    OBVIOUS
  <2>2. PICK moved : moved =
            [evidence_id |-> s.evidence_id, action |-> "transferred",
             holder_id |-> transfers[t].to_user_id,
             from_user_id |-> transfers[t].from_user_id, timestamp |-> s.now]
    OBVIOUS
  <2>3. custody_logs' = IF s.approved THEN custody_logs \cup {moved} ELSE custody_logs
    BY <1>4, <2>1, <2>2 DEF ApproveCommit
  <2>4. Moves' = IF s.approved THEN Moves \cup {moved} ELSE Moves
    BY <2>2, <2>3 DEF Moves
  <2>5. /\ DOMAIN transfers' = DOMAIN transfers
        /\ t \in DOMAIN transfers
        /\ \A r \in DOMAIN transfers : r # t => transfers'[r] = transfers[r]
        /\ transfers[t].status = "pending"
        /\ transfers'[t].status = IF s.approved THEN "approved" ELSE "rejected"
    BY <1>4, <2>1, ApproveTouches
  <2>6. /\ transfers'[t].evidence_id = s.evidence_id
        /\ transfers'[t].from_user_id = transfers[t].from_user_id
        /\ transfers'[t].to_user_id = transfers[t].to_user_id
        /\ transfers'[t].approved_at = s.now
    BY <1>4, <2>1, ApproveTouches
  <2>7. Records(moved, t)'
    BY <2>2, <2>6 DEF Records
  <2>8. QED
    BY <1>1, <2>4, <2>5, <2>7
<1>5. CASE UNCHANGED <<transfers, custody_logs>>
  <2>1. Moves' = Moves
    BY <1>5 DEF Moves
  <2>2. QED
    BY <1>1, <1>5, <2>1
<1>6. QED
  BY <1>2, <1>3, <1>4, <1>5, CustodyWriters

\* ChainInv is inductive for isolated requests.
LEMMA ChainInvariant == IsolatedSpec => []ChainInv
<1>1. Init => ChainInv
  <2>1. Init => TypeInv
    BY InitTypeInv
  <2>2. Init => /\ Referential /\ UniqueStamps /\ Isolated /\ ReadsStayTrue
                /\ OnePendingTransfer /\ PendingFromHolder /\ ChainContinuity
                /\ ApprovedIffMoved
    BY DEF Init, Idle, Busy, Referential, UniqueStamps, Isolated, ReadsStayTrue,
       OnePendingTransfer, PendingFromHolder, ChainContinuity, ApprovedIffMoved, Moves
  <2>3. QED
    BY <2>1, <2>2 DEF TypeInv, ChainInv
<1>2. ChainInv /\ [IsolatedNext]_vars => ChainInv'
  <2> SUFFICES ASSUME ChainInv, [IsolatedNext]_vars PROVE ChainInv'
    OBVIOUS
  <2>1. [Next]_vars
    BY DEF IsolatedNext
  <2>2. TypeInv
    BY DEF ChainInv, TypeInv
  <2>3. Isolated'
    BY DEF IsolatedNext, ChainInv, Isolated, Busy, vars
  <2>4. TypeOK' /\ ApproversAreRecipients'
    BY <2>1, <2>2, NextTypeOK, NextApproversAreRecipients
  <2>5. QED
    BY <2>1, <2>3, <2>4, NextReferential, NextUniqueStamps, NextReadsStayTrue,
       NextOnePendingTransfer, NextPendingFromHolder, NextChainContinuity,
       NextApprovedIffMoved DEF ChainInv
<1>3. QED
  BY <1>1, <1>2, PTL DEF IsolatedSpec, IsolatedNext

\* No gap in the chain of custody.
THEOREM ChainHolds == IsolatedSpec => []ChainContinuity
  BY ChainInvariant, PTL DEF ChainInv

\* At most one pending transfer per item, and it is from the current holder.
THEOREM PendingHolds == IsolatedSpec => [](OnePendingTransfer /\ PendingFromHolder)
  BY ChainInvariant, PTL DEF ChainInv

\* History and transfers agree, and no handler commits on a stale read.
THEOREM AgreementHolds == IsolatedSpec => [](ApprovedIffMoved /\ ReadsStayTrue)
  BY ChainInvariant, PTL DEF ChainInv

\* A transfer is decided once.
THEOREM DecidedOnce == IsolatedSpec => ProcessedOnce
<1>1. ChainInv /\ [IsolatedNext]_vars =>
          [\A t \in DOMAIN transfers : ~Pending(t) => transfers'[t] = transfers[t]]_vars
  <2> SUFFICES ASSUME ChainInv, [Next]_vars, NEW t \in DOMAIN transfers, ~Pending(t)
               PROVE  transfers'[t] = transfers[t]
    BY DEF IsolatedNext
  <2>1. ASSUME NEW w \in Workers, ApproveCommit(w)
        PROVE  transfers'[t] = transfers[t]
    BY <2>1, ApproveTouches DEF Pending
  <2>2. ASSUME NEW w \in Workers, NEW s \in TransferIds, RequestCommit(w, s)
        PROVE  transfers'[t] = transfers[t]
    BY <2>2, RequestTouches
  <2>3. QED
    BY <2>1, <2>2, CustodyWriters DEF CreateEvidence
<1>2. QED
  BY <1>1, ChainInvariant, PTL DEF IsolatedSpec, IsolatedNext, ProcessedOnce

\* The approval that is about to be committed has compared the item as it still is.
ComparedStays ==
    \A w \in Workers :
        session[w].op = "approve" /\ session[w].pc = "commit" /\ session[w].approved =>
            ~Tampered(evidence[session[w].evidence_id])

\* No other request writes the item of a request in flight.
LEMMA EvidenceUntouched ==
    ASSUME ChainInv, [IsolatedNext]_vars, NEW v \in Workers, session'[v] = session[v], Busy(v)
    PROVE  evidence'[session[v].evidence_id] = evidence[session[v].evidence_id]
<1>1. Busy(v)'
  BY DEF Busy
<1>2. CASE UNCHANGED vars
  BY <1>2 DEF vars
<1>3. QED
  BY <1>1, <1>2 DEF IsolatedNext, Undisturbed

LEMMA NextComparedStays ==
    ASSUME ChainInv, ComparedStays, [IsolatedNext]_vars
    PROVE  ComparedStays'
<1> SUFFICES ASSUME NEW v \in Workers, session'[v].op = "approve", session'[v].pc = "commit",
                    session'[v].approved
             PROVE  ~Tampered(evidence[session[v].evidence_id])'
  BY DEF ComparedStays
<1>1. TypeOK /\ [Next]_vars
  BY DEF ChainInv, IsolatedNext
<1>2. CASE session'[v] = session[v]
  <2>1. Busy(v)
    BY <1>2 DEF Busy, Idle
  <2>2. ~Tampered(evidence[session[v].evidence_id])
    BY <1>2 DEF ComparedStays
  <2>3. evidence'[session[v].evidence_id] = evidence[session[v].evidence_id]
    BY <1>2, <2>1, EvidenceUntouched
  <2>4. QED
    BY <1>2, <2>2, <2>3 DEF Tampered
<1>3. CASE session'[v] # session[v]
  <2>1. ~(\E u \in Users : Start(v, u))
    BY <1>1 DEF Start, RequestStart, ApproveStart, VerifyStart, UpdateStart, TypeOK
  <2>2. ~RequestReadHolder(v) /\ ~RequestReadPending(v)
    <3>1. session[v] \in Session
      BY <1>1 DEF TypeOK
    <3>2. session[v].op = "request" => session[v] \in RequestSession
      BY <3>1 DEF Session, Idle, ApproveSession, VerifySession, UpdateSession
    <3>3. QED
      BY <1>1, <3>2 DEF RequestReadHolder, RequestReadPending, Ends, Idle, TypeOK, RequestSession
  <2>3. session'[v] # Idle
    BY DEF Idle
  <2>4. ApproveReadEvidence(v)
    BY <1>1, <1>3, <2>1, <2>2, <2>3, SessionSteps
  <2>5. session[v] \in ApproveSession
    BY <1>1, <2>4 DEF TypeOK, ApproveReadEvidence, Session, Idle, RequestSession, VerifySession,
       UpdateSession
  <2>6. session' = [session EXCEPT ![v] = [@ EXCEPT !.pc = "commit", !.now = clock']]
        /\ ~(session[v].approved /\ Tampered(evidence[session[v].evidence_id]))
        /\ UNCHANGED evidence
    BY <1>1, <2>3, <2>4 DEF ApproveReadEvidence, Ends, TypeOK
  <2>7. session'[v].evidence_id = session[v].evidence_id /\ session'[v].approved = session[v].approved
    BY <1>1, <2>5, <2>6 DEF TypeOK, ApproveSession
  <2>8. QED
    BY <2>6, <2>7 DEF Tampered
<1>4. QED
  BY <1>2, <1>3

\* An item whose columns no longer match its baseline does not change hands.
THEOREM IntactHolds == IsolatedSpec => MovedIntact
<1> DEFINE Intact == \A l \in custody_logs' \ custody_logs :
                         l.action = "transferred" => ~Tampered(evidence[l.evidence_id])
<1>1. Init => ComparedStays
  BY DEF Init, ComparedStays, Idle
<1>2. ChainInv /\ ComparedStays /\ [IsolatedNext]_vars => ComparedStays'
  BY NextComparedStays
<1>3. ChainInv /\ ComparedStays /\ [IsolatedNext]_vars => [Intact]_vars
  <2> SUFFICES ASSUME ChainInv, ComparedStays, [Next]_vars,
                      NEW l \in custody_logs', l \notin custody_logs, l.action = "transferred"
               PROVE  ~Tampered(evidence[l.evidence_id])
    BY DEF IsolatedNext
  <2>1. ASSUME NEW w \in Workers, ApproveCommit(w)
        PROVE  ~Tampered(evidence[l.evidence_id])
    <3>1. /\ session[w].op = "approve" /\ session[w].pc = "commit" /\ session[w].approved
          /\ l.evidence_id = session[w].evidence_id
      BY <2>1 DEF ApproveCommit
    <3>2. QED
      BY <3>1 DEF ComparedStays
  <2>2. ASSUME NEW u \in Users, NEW e \in Evidences, NEW c \in Contents, CreateEvidence(u, e, c)
        PROVE  FALSE
    BY <2>2 DEF CreateEvidence
  <2>3. ASSUME NEW w \in Workers, NEW s \in TransferIds, RequestCommit(w, s)
        PROVE  FALSE
    BY <2>3 DEF RequestCommit
  <2>4. QED
    BY <2>1, <2>2, <2>3, CustodyWriters
<1>4. QED
  BY <1>1, <1>2, <1>3, ChainInvariant, PTL DEF IsolatedSpec, IsolatedNext, MovedIntact

----------------------------------------------------------------------------
(* The refinement of CustodyChain.                                         *)

LEMMA HolderOfHolder ==
    ASSUME TypeOK, UniqueStamps, NEW e, NEW u \in Users, CurrentHolder(e, u)
    PROVE  HolderOf(e) = u
<1>1. \A v \in Users : CurrentHolder(e, v) => v = u
  BY HolderUnique
<1>2. QED
  BY <1>1 DEF HolderOf

LEMMA HolderOfNobody ==
    ASSUME NEW e, \A l \in custody_logs : l.evidence_id # e
    PROVE  HolderOf(e) = None
  BY DEF HolderOf, CurrentHolder

LEMMA OfferOfPending ==
    ASSUME OnePendingTransfer, NEW t \in DOMAIN transfers, Pending(t)
    PROVE  OfferOf(transfers[t].evidence_id) = transfers[t].to_user_id
<1> DEFINE e == transfers[t].evidence_id
<1>1. has_pending_transfer(e)
  BY DEF has_pending_transfer
<1>2. (CHOOSE s \in DOMAIN transfers : transfers[s].evidence_id = e /\ Pending(s)) = t
  BY DEF OnePendingTransfer
<1>3. QED
  BY <1>1, <1>2 DEF OfferOf

LEMMA OfferOfNone ==
    ASSUME NEW e, ~has_pending_transfer(e)
    PROVE  OfferOf(e) = None
  BY DEF OfferOf

LEMMA HolderOfFrame ==
    ASSUME NEW e, SameLogs(e)
    PROVE  HolderOf(e)' = HolderOf(e)
<1>1. \A u \in Users : CurrentHolder(e, u) <=> CurrentHolder(e, u)'
  BY HolderFrame
<1>2. QED
  BY <1>1 DEF HolderOf

LEMMA OfferOfFrame ==
    ASSUME NEW e, SameTransfers(e), OnePendingTransfer, OnePendingTransfer'
    PROVE  OfferOf(e)' = OfferOf(e)
<1>1. CASE has_pending_transfer(e)
  <2>1. PICK t \in DOMAIN transfers : transfers[t].evidence_id = e /\ Pending(t)
    BY <1>1 DEF has_pending_transfer
  <2>2. t \in DOMAIN transfers' /\ transfers'[t] = transfers[t]
    BY <2>1 DEF SameTransfers
  <2>3. OfferOf(e) = transfers[t].to_user_id
    BY <2>1, OfferOfPending
  <2>4. (CHOOSE s \in DOMAIN transfers' :
             transfers'[s].evidence_id = e /\ transfers'[s].status = "pending") = t
    BY <2>1, <2>2 DEF OnePendingTransfer, Pending
  <2>5. has_pending_transfer(e)'
    BY <2>1, <2>2 DEF has_pending_transfer, Pending
  <2>6. OfferOf(e)' = transfers[t].to_user_id
    BY <2>2, <2>4, <2>5 DEF OfferOf, Pending
  <2>7. QED
    BY <2>3, <2>6
<1>2. CASE ~has_pending_transfer(e)
  <2>1. ~has_pending_transfer(e)'
    BY <1>2, PendingFrame
  <2>2. QED
    BY <1>2, <2>1 DEF OfferOf
<1>3. QED
  BY <1>1, <1>2

\* Every step is a step of CustodyChain or leaves holder and offer alone.
LEMMA StepImplementsChain ==
    ASSUME ChainInv, ChainInv', [Next]_vars
    PROVE  [Chain!Next]_(Chain!vars)
<1> DEFINE H == [e \in Evidences |-> HolderOf(e)]
           O == [e \in Evidences |-> OfferOf(e)]
<1>0. /\ TypeOK /\ UniqueStamps /\ OnePendingTransfer /\ Referential /\ TypeInv
      /\ TypeOK' /\ UniqueStamps' /\ OnePendingTransfer'
  BY DEF ChainInv, TypeInv
<1>1. ASSUME NEW e \in Evidences, \A d \in Evidences : d # e => SameLogs(d)
      PROVE  H' = [H EXCEPT ![e] = HolderOf(e)']
  BY <1>1, HolderOfFrame
<1>2. ASSUME NEW e \in Evidences, \A d \in Evidences : d # e => SameTransfers(d)
      PROVE  O' = [O EXCEPT ![e] = OfferOf(e)']
  BY <1>0, <1>2, OfferOfFrame
<1>3. ASSUME NEW u \in Users, NEW e \in Evidences, NEW c \in Contents,
             CreateEvidence(u, e, c)
      PROVE  Chain!Next
  <2>1. HolderOf(e) = None
    BY <1>3, CreateTouches, HolderOfNobody
  <2>2. CurrentHolder(e, u)'
    <3>1. PICK l : l = [evidence_id |-> e, action |-> "received", holder_id |-> u,
                        from_user_id |-> None, timestamp |-> clock']
      OBVIOUS
    <3>2. custody_logs' = custody_logs \cup {l}
      BY <1>3, <3>1 DEF CreateEvidence
    <3>3. \A m \in custody_logs' : m.evidence_id = e => m = l
      BY <1>3, <3>2, CreateTouches
    <3>4. clock' <= clock'
      BY <1>0, <1>3, StampsAreNaturals DEF CreateEvidence
    <3>5. QED
      BY <3>1, <3>2, <3>3, <3>4 DEF CurrentHolder, IsLatest
  <2>3. HolderOf(e)' = u
    BY <1>0, <2>2, HolderOfHolder DEF HolderOf, CurrentHolder, IsLatest
  <2>4. H' = [H EXCEPT ![e] = u]
    BY <1>1, <1>3, <2>3, CreateTouches
  <2>5. O' = O
    BY <1>3, CreateTouches DEF OfferOf, has_pending_transfer, Pending
  <2>6. Chain!Register(e, u)
    BY <2>1, <2>4, <2>5 DEF Chain!Register
  <2>7. QED
    BY <2>6 DEF Chain!Next
<1>4. ASSUME NEW w \in Workers, NEW t \in TransferIds, RequestCommit(w, t)
      PROVE  Chain!Next
  <2>1. PICK e, from, to : /\ e = session[w].evidence_id
                           /\ from = session[w].from_user_id
                           /\ to = session[w].to_user_id
    OBVIOUS
  <2>2. e \in Evidences /\ from \in Users /\ to \in Users
    BY <1>0, <1>4, <2>1 DEF RequestCommit, TypeOK, Session, Idle, RequestSession,
       ApproveSession, VerifySession, UpdateSession
  <2>3. /\ \A d : SameLogs(d)
        /\ \A d : d # e => SameTransfers(d)
        /\ transfers'[t].evidence_id = e /\ transfers'[t].to_user_id = to
        /\ t \in DOMAIN transfers' /\ transfers'[t].status = "pending"
        /\ from # to /\ CurrentHolder(e, from) /\ ~has_pending_transfer(e)
    BY <1>4, <2>1, RequestTouches
  <2>4. HolderOf(e) = from /\ OfferOf(e) = None
    BY <1>0, <2>2, <2>3, HolderOfHolder, OfferOfNone
  <2>5. OfferOf(e)' = to
    <3>1. (CHOOSE s \in DOMAIN transfers' :
               transfers'[s].evidence_id = e /\ transfers'[s].status = "pending") = t
      BY <1>0, <2>3 DEF OnePendingTransfer, Pending
    <3>2. has_pending_transfer(e)'
      BY <2>3 DEF has_pending_transfer, Pending
    <3>3. QED
      BY <2>3, <3>1, <3>2 DEF OfferOf, Pending
  <2>6. H' = H
    BY <2>3, HolderOfFrame
  <2>7. O' = [O EXCEPT ![e] = to]
    BY <1>2, <2>2, <2>3, <2>5
  <2>8. from # None
    BY <2>2, ConstantsAssumption DEF ConstantsAssumption
  <2>9. Chain!Offer(e, to)
    BY <2>2, <2>3, <2>4, <2>6, <2>7, <2>8 DEF Chain!Offer
  <2>10. QED
    BY <2>2, <2>9 DEF Chain!Next
<1>5. ASSUME NEW w \in Workers, ApproveCommit(w)
      PROVE  Chain!Next
  <2>1. PICK e, t, to : /\ e = session[w].evidence_id
                        /\ t = session[w].transfer
                        /\ to = transfers[t].to_user_id
    OBVIOUS
  <2>2. e \in Evidences /\ to \in Users
    BY <1>0, <1>5, <2>1, ApprovalInFlight DEF ApproveSession, TransferRow
  <2>3. /\ \A d : d # e => SameLogs(d) /\ SameTransfers(d)
        /\ t \in DOMAIN transfers
        /\ DOMAIN transfers' = DOMAIN transfers
        /\ \A r \in DOMAIN transfers : r # t => transfers'[r] = transfers[r]
        /\ transfers[t].status = "pending" /\ transfers[t].evidence_id = e
        /\ transfers'[t].evidence_id = e
        /\ transfers'[t].status # "pending"
    BY <1>5, <2>1, ApproveTouches
  <2>4. OfferOf(e) = to
    BY <1>0, <2>1, <2>3, OfferOfPending DEF Pending
  <2>5. ~has_pending_transfer(e)'
    BY <1>0, <2>3 DEF has_pending_transfer, OnePendingTransfer, Pending
  <2>6. OfferOf(e)' = None
    BY <2>5 DEF OfferOf
  <2>7. O' = [O EXCEPT ![e] = None]
    BY <1>2, <2>2, <2>3, <2>6
  <2>8. to # None
    BY <2>2, ConstantsAssumption DEF ConstantsAssumption
  <2>9. CASE session[w].approved
    <3>1. PICK l : l = [evidence_id |-> e, action |-> "transferred", holder_id |-> to,
                        from_user_id |-> transfers[t].from_user_id,
                        timestamp |-> session[w].now]
      OBVIOUS
    <3>2. custody_logs' = custody_logs \cup {l}
      BY <1>5, <2>1, <2>9, <3>1 DEF ApproveCommit
    <3>3. /\ session[w].now \in Nat
          /\ \A m \in custody_logs : m.evidence_id = e => m.timestamp < session[w].now
      BY <1>5, <2>1, ApproveTouches
    <3>4. \A m \in custody_logs' : m.evidence_id = e => m.timestamp <= l.timestamp
      BY <1>0, <3>1, <3>2, <3>3, StampsAreNaturals
    <3>5. CurrentHolder(e, to)'
      BY <3>1, <3>2, <3>4 DEF CurrentHolder, IsLatest
    <3>6. HolderOf(e)' = to
      BY <1>0, <2>2, <3>5, HolderOfHolder DEF HolderOf, CurrentHolder, IsLatest
    <3>7. H' = [H EXCEPT ![e] = to]
      BY <1>1, <2>2, <2>3, <3>6
    <3>8. Chain!Accept(e)
      BY <2>2, <2>4, <2>7, <2>8, <3>7 DEF Chain!Accept
    <3>9. QED
      BY <2>2, <3>8 DEF Chain!Next
  <2>10. CASE ~session[w].approved
    <3>1. custody_logs' = custody_logs
      BY <1>5, <2>10 DEF ApproveCommit
    <3>2. H' = H
      BY <3>1, HolderOfFrame DEF SameLogs
    <3>3. Chain!Decline(e)
      BY <2>2, <2>4, <2>7, <2>8, <3>2 DEF Chain!Decline
    <3>4. QED
      BY <2>2, <3>3 DEF Chain!Next
  <2>11. QED
    BY <2>9, <2>10
<1>6. CASE UNCHANGED <<transfers, custody_logs>>
  <2>1. \A d : SameLogs(d) /\ SameTransfers(d)
    BY <1>6 DEF SameLogs, SameTransfers
  <2>2. H' = H /\ O' = O
    BY <1>0, <2>1, HolderOfFrame, OfferOfFrame
  <2>3. QED
    BY <2>2 DEF Chain!vars
<1>7. QED
  BY <1>3, <1>4, <1>5, <1>6, CustodyWriters

\* Isolated requests implement the promise of CustodyChain.
THEOREM Refinement == IsolatedSpec => ImplementsChain
<1>1. Init => Chain!Init
  <2>1. ASSUME Init, NEW e \in Evidences
        PROVE  HolderOf(e) = None /\ OfferOf(e) = None
    BY <2>1, HolderOfNobody, OfferOfNone DEF Init, has_pending_transfer
  <2>2. QED
    BY <2>1 DEF Chain!Init
<1>2. ChainInv /\ ChainInv' /\ [IsolatedNext]_vars => [Chain!Next]_(Chain!vars)
  BY StepImplementsChain DEF IsolatedNext
<1>3. QED
  BY <1>1, <1>2, ChainInvariant, PTL DEF IsolatedSpec, IsolatedNext, ImplementsChain, Chain!Spec
=============================================================================
