------------------------ MODULE EvidenceRegistryProofs -----------------------
(* Theorems about EvidenceRegistry, for every value of its constants. *)
EXTENDS EvidenceRegistry, FiniteSetTheorems, TLAPS

----------------------------------------------------------------------------
(* Rows.                                                                   *)

LEMMA ApplyRow ==
  ASSUME NEW row \in EvidenceRow, NEW patch \in Patch
  PROVE  /\ Apply(row, patch) \in EvidenceRow
         /\ Apply(row, patch).case_id = row.case_id
         /\ row.category = derive_category[row.type] =>
              Apply(row, patch).category = derive_category[Apply(row, patch).type]
<1> USE RegistryAssumption DEF RegistryAssumption, EvidenceRow, Patch, Given
<1>a. /\ Given(row.registration_number, patch.registration_number) \in Numbers
      /\ Given(row.type, patch.type) \in Types
      /\ Given(row.imei_slot1, patch.imei_slot1) \in Slot
      /\ Given(row.imei_slot2, patch.imei_slot2) \in Slot
  OBVIOUS
<1>b. patch.type # Unset => derive_category[patch.type] \in Categories
  OBVIOUS
<1>1. Apply(row, patch) \in EvidenceRow
  BY <1>a, <1>b DEF Apply
<1>2. Apply(row, patch).case_id = row.case_id
  BY DEF Apply
<1>3. ASSUME row.category = derive_category[row.type]
      PROVE  Apply(row, patch).category = derive_category[Apply(row, patch).type]
  BY <1>3 DEF Apply
<1>4. QED
  BY <1>1, <1>2, <1>3

LEMMA WrittenRow ==
  ASSUME NEW now \in EvidenceRow, NEW before \in EvidenceRow, NEW new \in EvidenceRow
  PROVE  Written(now, before, new) \in EvidenceRow
  BY DEF Written, Column, EvidenceRow

\* A row nobody else touched becomes the row to write, but for the columns no
\* update sets.
LEMMA WrittenAlone ==
  ASSUME NEW now \in EvidenceRow, NEW new \in EvidenceRow
  PROVE  /\ Written(now, now, new).case_id = now.case_id
         /\ Written(now, now, new).registration_number = new.registration_number
         /\ Written(now, now, new).type = new.type
         /\ Written(now, now, new).category = new.category
         /\ Written(now, now, new).imei_slot1 = new.imei_slot1
         /\ Written(now, now, new).imei_slot2 = new.imei_slot2
  BY DEF Written, Column, EvidenceRow

LEMMA MigratedRow ==
  ASSUME NEW row \in EvidenceRow
  PROVE  /\ Migrated(row) \in EvidenceRow
         /\ Migrated(row).case_id = row.case_id
         /\ Migrated(row).registration_number = row.registration_number
         /\ Migrated(row).received_at = row.received_at
         /\ Migrated(row).imei_slot1 = row.imei_slot1
         /\ Migrated(row).imei_slot2 = row.imei_slot2
         /\ derive_category[Migrated(row).type] = derive_category[row.type]
         /\ Migrated(row).category = derive_category[Migrated(row).type]
  BY RegistryAssumption DEF RegistryAssumption, Migrated, EvidenceRow

----------------------------------------------------------------------------
(* Type correctness and the unique numbers, whatever races.                *)

\* A row about to be inserted has its number, a row about to be updated exists.
Ready ==
    \A w \in Workers :
        /\ session[w].op = "create" /\ session[w].pc \in {"unique", "commit"} =>
               session[w].new.registration_number \in Numbers
        /\ session[w].op = "update" => session[w].id \in DOMAIN evidence

TypeInv == TypeOK /\ Ready

LEMMA InitTypeInv == Init => TypeInv
  BY RegistryAssumption DEF Init, TypeInv, TypeOK, Ready, Idle, Status

\* A step that changes nothing but the session of w.
LEMMA SessionStep ==
  ASSUME TypeInv, NEW w \in Workers,
         NEW s \in {Idle} \cup CreateSession \cup UpdateSession,
         session' = [session EXCEPT ![w] = s], UNCHANGED <<cases, evidence>>,
         s.op = "create" /\ s.pc \in {"unique", "commit"} =>
             s.new.registration_number \in Numbers,
         s.op = "update" => s.id \in DOMAIN evidence
  PROVE  TypeInv'
  BY DEF TypeInv, TypeOK, Ready

LEMMA EndStep ==
  ASSUME TypeInv, NEW w \in Workers, Ends(w), UNCHANGED <<cases, evidence>>
  PROVE  TypeInv'
  BY SessionStep DEF Ends, Idle

LEMMA GoStep ==
  ASSUME TypeInv, NEW w \in Workers, NEW pc, Goes(w, pc), UNCHANGED <<cases, evidence>>,
         \/ session[w] \in CreateSession /\ pc = "number"
         \/ session[w] \in CreateSession /\ pc \in {"unique", "commit"}
            /\ session[w].new.registration_number \in Numbers
         \/ session[w] \in UpdateSession /\ pc \in {"imeis", "commit"}
  PROVE  TypeInv'
<1> DEFINE s == [session[w] EXCEPT !.pc = pc]
<1>1. CASE session[w] \in CreateSession
  <2>1. s \in CreateSession /\ s.op = "create"
    BY <1>1 DEF CreateSession, UpdateSession
  <2>2. s.pc = pc /\ s.new = session[w].new
    BY <1>1 DEF CreateSession
  <2>3. pc \in {"unique", "commit"} => s.new.registration_number \in Numbers
    BY <1>1, <2>2 DEF CreateSession, UpdateSession
  <2>4. QED
    BY <2>1, <2>2, <2>3, SessionStep DEF Goes, TypeInv, TypeOK
<1>2. CASE session[w] \in UpdateSession
  <2>1. s \in UpdateSession /\ s.op = "update" /\ s.id = session[w].id
    BY <1>2 DEF CreateSession, UpdateSession
  <2>2. s.id \in DOMAIN evidence
    BY <1>2, <2>1 DEF TypeInv, Ready, UpdateSession
  <2>3. QED
    BY <2>1, <2>2, SessionStep DEF Goes, TypeInv, TypeOK
<1>3. QED
  BY <1>1, <1>2

LEMMA SessionOps ==
  ASSUME TypeOK, NEW w \in Workers
  PROVE  /\ session[w].op = "create" => session[w] \in CreateSession
         /\ session[w].op = "update" => session[w] \in UpdateSession
  BY DEF TypeOK, Idle, CreateSession, UpdateSession

LEMMA SequenceType ==
  ASSUME TypeOK, NEW day
  PROVE  Sequence(day) \in Nat /\ Sequence(day) >= 1
<1> DEFINE S == {e \in DOMAIN evidence : evidence[e].received_at = day}
<1>1. IsFiniteSet(S)
  BY RegistryAssumption, FS_Subset DEF RegistryAssumption, TypeOK
<1>2. Cardinality(S) \in Nat
  BY <1>1, FS_CardinalityType
<1>3. QED
  BY <1>2 DEF Sequence

LEMMA NextTypeInv == TypeInv /\ [Next]_vars => TypeInv'
<1> SUFFICES ASSUME TypeInv, [Next]_vars PROVE TypeInv'
  OBVIOUS
<1> USE RegistryAssumption DEF RegistryAssumption
<1> TypeOK /\ Ready
  BY DEF TypeInv
<1>1. ASSUME NEW w \in Workers, NEW e \in Evidences, NEW row \in Payload,
             CreateStart(w, e, row)
      PROVE  TypeInv'
  <2> DEFINE s == [op |-> "create", pc |-> "imeis", id |-> e, new |-> row]
  <2>1. s \in CreateSession
    BY DEF CreateSession, Payload
  <2>2. QED
    BY <1>1, <2>1, SessionStep DEF CreateStart
<1>2. ASSUME NEW w \in Workers, CreateReadImeis(w)
      PROVE  TypeInv'
  BY <1>2, SessionOps, GoStep, EndStep DEF CreateReadImeis
<1>3. ASSUME NEW w \in Workers, CreateNumber(w)
      PROVE  TypeInv'
  <2>1. session[w] \in CreateSession
    BY <1>3, SessionOps DEF CreateNumber
  <2>2. CASE session[w].new.registration_number # None /\ Goes(w, "unique")
    BY <1>3, <2>1, <2>2, GoStep DEF CreateNumber, CreateSession
  <2>3. CASE session[w].new.registration_number = None
    <3> DEFINE n == <<session[w].new.received_at, Sequence(session[w].new.received_at)>>
               s == [session[w] EXCEPT !.pc = "unique", !.new.registration_number = n]
    <3>1. n \in Numbers
      <4>1. session[w].new.received_at \in Days
        BY <2>1 DEF CreateSession
      <4>2. Sequence(session[w].new.received_at) \in 1..MaxSequence
        BY <1>3, <2>3, SequenceType DEF CreateNumber
      <4>3. QED
        BY <4>1, <4>2 DEF Numbers
    <3>2. s \in CreateSession /\ s.op = "create" /\ s.new.registration_number = n
      BY <2>1, <3>1 DEF CreateSession
    <3>3. session' = [session EXCEPT ![w] = s] /\ UNCHANGED <<cases, evidence>>
      BY <1>3, <2>3 DEF CreateNumber
    <3>4. QED
      BY <3>1, <3>2, <3>3, SessionStep
  <2>4. QED
    BY <1>3, <2>2, <2>3 DEF CreateNumber
<1>4. ASSUME NEW w \in Workers, CreateReadNumber(w)
      PROVE  TypeInv'
  BY <1>4, SessionOps, GoStep, EndStep DEF CreateReadNumber, Ready
<1>5. ASSUME NEW w \in Workers, CreateCommit(w)
      PROVE  TypeInv'
  <2>1. session[w] \in CreateSession /\ session[w].new \in EvidenceRow
    BY <1>5, SessionOps DEF CreateCommit, Ready, CreateSession, EvidenceRow
  <2>2. (DOMAIN evidence \subseteq Evidences /\ evidence \in [DOMAIN evidence -> EvidenceRow])'
    BY <1>5, <2>1 DEF CreateCommit, TypeOK, CreateSession
  <2>3. DOMAIN evidence \subseteq DOMAIN evidence'
    BY <1>5 DEF CreateCommit
  <2>4. QED
    BY <1>5, <2>2, <2>3 DEF CreateCommit, Ends, TypeInv, TypeOK, Ready, Idle
<1>6. ASSUME NEW w \in Workers, NEW e \in Evidences, NEW patch \in Patches,
             UpdateStart(w, e, patch)
      PROVE  TypeInv'
  <2> DEFINE s == [op |-> "update", pc |-> "unique", id |-> e, before |-> evidence[e],
                   new |-> Apply(evidence[e], patch)]
  <2>1. evidence[e] \in EvidenceRow /\ Apply(evidence[e], patch) \in EvidenceRow
    BY <1>6, ApplyRow DEF UpdateStart, TypeOK
  <2>2. s \in UpdateSession
    BY <2>1 DEF UpdateSession
  <2>3. QED
    BY <1>6, <2>2, SessionStep DEF UpdateStart
<1>7. ASSUME NEW w \in Workers, UpdateReadNumber(w)
      PROVE  TypeInv'
  BY <1>7, SessionOps, GoStep, EndStep DEF UpdateReadNumber
<1>8. ASSUME NEW w \in Workers, UpdateReadImeis(w)
      PROVE  TypeInv'
  BY <1>8, SessionOps, GoStep, EndStep DEF UpdateReadImeis
<1>9. ASSUME NEW w \in Workers, UpdateCommit(w)
      PROVE  TypeInv'
  <2> DEFINE s == session[w]
             row == Written(evidence[s.id], s.before, s.new)
  <2>1. s \in UpdateSession /\ s.id \in DOMAIN evidence
    BY <1>9, SessionOps DEF UpdateCommit, Ready
  <2>2. row \in EvidenceRow
    BY <2>1, WrittenRow DEF UpdateSession, TypeOK
  <2>3. evidence' \in {evidence, [evidence EXCEPT ![s.id] = row]}
    BY <1>9 DEF UpdateCommit
  <2> HIDE DEF row
  <2>4. evidence' \in [DOMAIN evidence -> EvidenceRow] /\ DOMAIN evidence' = DOMAIN evidence
    BY <2>2, <2>3 DEF TypeOK
  <2>5. QED
    BY <1>9, <2>4 DEF UpdateCommit, Ends, TypeInv, TypeOK, Ready, Idle
<1>10. ASSUME NEW w \in Workers, Abort(w)
       PROVE  TypeInv'
  BY <1>10, EndStep DEF Abort
<1>11. ASSUME NEW c \in Cases, NEW status \in Status, SetStatus(c, status)
       PROVE  TypeInv'
  BY <1>11 DEF SetStatus, TypeInv, TypeOK, Ready
<1>12. ASSUME NEW dead \in SUBSET Workers, Restart(dead)
       PROVE  TypeInv'
  <2>1. (evidence \in [DOMAIN evidence -> EvidenceRow])' /\ DOMAIN evidence' = DOMAIN evidence
    BY <1>12, MigratedRow DEF Restart, TypeOK
  <2>2. QED
    BY <1>12, <2>1 DEF Restart, TypeInv, TypeOK, Ready, Idle
<1>13. CASE UNCHANGED vars
  BY <1>13 DEF vars, TypeInv, TypeOK, Ready
<1>14. QED
  BY <1>1, <1>2, <1>3, <1>4, <1>5, <1>6, <1>7, <1>8, <1>9, <1>10, <1>11, <1>12, <1>13
  DEF Next

\* The types of all variables, whatever requests race.
THEOREM TypeCorrect == Spec => []TypeOK
<1>1. TypeInv => TypeOK
  BY DEF TypeInv
<1>2. QED
  BY <1>1, InitTypeInv, NextTypeInv, PTL DEF Spec

\* The index keeps registration numbers unique, whatever requests race and
\* however stale the lookups of create and update are.
THEOREM NumbersUnique == Spec => []UniqueNumbers
<1> DEFINE Inv == TypeInv /\ UniqueNumbers
<1>1. Init => Inv
  BY InitTypeInv DEF Init, UniqueNumbers
<1>2. Inv /\ [Next]_vars => Inv'
  <2> SUFFICES ASSUME TypeInv, TypeInv', UniqueNumbers, [Next]_vars
               PROVE  UniqueNumbers'
    BY NextTypeInv
  <2> TypeOK /\ Ready
    BY DEF TypeInv
  <2>1. ASSUME UNCHANGED evidence
        PROVE  UniqueNumbers'
    BY <2>1 DEF UniqueNumbers
  <2>2. ASSUME NEW w \in Workers, CreateCommit(w)
        PROVE  UniqueNumbers'
    BY <2>1, <2>2 DEF CreateCommit, UniqueNumbers, _ensure_unique_registration_number
  <2>3. ASSUME NEW w \in Workers, UpdateCommit(w)
        PROVE  UniqueNumbers'
    <3> DEFINE s == session[w]
               row == Written(evidence[s.id], s.before, s.new)
    <3>1. CASE /\ _ensure_unique_registration_number(row.registration_number,
                                                     DOMAIN evidence \ {s.id})
               /\ evidence' = [evidence EXCEPT ![s.id] = row]
      <4> HIDE DEF row
      <4>1. DOMAIN evidence' = DOMAIN evidence
        BY <3>1
      <4>2. \A e \in DOMAIN evidence :
                evidence'[e] = IF e = s.id THEN row ELSE evidence[e]
        BY <3>1 DEF TypeOK
      <4>3. QED
        BY <3>1, <4>1, <4>2 DEF UniqueNumbers, _ensure_unique_registration_number
    <3>2. CASE evidence' = evidence
      BY <3>2, <2>1
    <3>3. QED
      BY <2>3, <3>1, <3>2 DEF UpdateCommit
  <2>4. ASSUME NEW dead \in SUBSET Workers, Restart(dead)
        PROVE  UniqueNumbers'
    BY <2>4, MigratedRow DEF Restart, UniqueNumbers, TypeOK
  <2>5. QED
    BY <2>1, <2>2, <2>3, <2>4 DEF Next, CreateStart, CreateReadImeis, CreateNumber,
       CreateReadNumber, UpdateStart, UpdateReadNumber, UpdateReadImeis, Abort,
       SetStatus, vars
<1>3. QED
  BY <1>1, <1>2, PTL DEF Spec

----------------------------------------------------------------------------
(* One request at a time.                                                  *)

IsolatedInv == TypeInv /\ RegistryInv

INext == Next /\ Isolated' /\ Serial

LEMMA IdleStays == StaysTrue(Idle)
  BY DEF StaysTrue, Idle

LEMMA InitIsolated == Init => IsolatedInv
<1> SUFFICES ASSUME Init PROVE IsolatedInv
  OBVIOUS
<1>1. \A w \in Workers : session[w] = Idle
  BY DEF Init
<1>2. Isolated /\ ReadsStayTrue
  BY <1>1, IdleStays DEF Isolated, Busy, ReadsStayTrue
<1>3. UniqueImeis /\ SlotsFit /\ CategoryFollowsType
  BY DEF Init, UniqueImeis, SlotsFit, CategoryFollowsType
<1>4. QED
  BY <1>2, <1>3, InitTypeInv DEF IsolatedInv, TypeInv, RegistryInv

\* What the theorems are about, without the parts that hold of any step.
Fits == ReadsStayTrue /\ UniqueImeis /\ SlotsFit /\ CategoryFollowsType

\* Nothing about rows changes while the tables do not.
LEMMA RowsStay ==
  ASSUME UNCHANGED <<cases, evidence>>, UniqueImeis, SlotsFit, CategoryFollowsType
  PROVE  /\ (UniqueImeis /\ SlotsFit /\ CategoryFollowsType)'
         /\ \A s : StaysTrue(s) => StaysTrue(s)'
<1>1. (UniqueImeis /\ SlotsFit /\ CategoryFollowsType)'
  BY DEF UniqueImeis, SlotsFit, CategoryFollowsType, Slots, validate_evidence_fields
<1>2. \A s : StaysTrue(s) => StaysTrue(s)'
  BY DEF StaysTrue, Open, validate_evidence_fields, _ensure_unique_imeis, Slots
<1>3. QED
  BY <1>1, <1>2

\* A step that only moves one request on, or ends it.
LEMMA ReadStep ==
  ASSUME IsolatedInv, NEW w \in Workers, NEW s, session' = [session EXCEPT ![w] = s],
         UNCHANGED <<cases, evidence>>, StaysTrue(s)
  PROVE  Fits'
<1> TypeOK /\ ReadsStayTrue /\ UniqueImeis /\ SlotsFit /\ CategoryFollowsType
  BY DEF IsolatedInv, RegistryInv
<1>1. \A v \in Workers : session'[v] = IF v = w THEN s ELSE session[v]
  BY DEF TypeOK
<1>2. \A v \in Workers : StaysTrue(session'[v])
  BY <1>1 DEF ReadsStayTrue
<1>3. ReadsStayTrue'
  BY <1>2 DEF ReadsStayTrue, StaysTrue, Open, validate_evidence_fields, _ensure_unique_imeis, Slots
<1>4. QED
  BY <1>3, RowsStay DEF Fits

LEMMA QuietEnd ==
  ASSUME IsolatedInv, NEW w \in Workers, Ends(w), UNCHANGED <<cases, evidence>>
  PROVE  Fits'
  BY IdleStays, ReadStep DEF Ends

\* After the step of a busy request that ends it, nobody is in flight.
LEMMA LastOne ==
  ASSUME IsolatedInv, NEW w \in Workers, Busy(w), Ends(w)
  PROVE  ReadsStayTrue'
<1>1. \A v \in Workers : session'[v] = Idle
  BY DEF IsolatedInv, RegistryInv, TypeOK, Isolated, Busy, Ends
<1>2. \A v \in Workers : session'[v].op = "idle"
  BY <1>1 DEF Idle
<1>3. QED
  BY <1>2 DEF ReadsStayTrue, StaysTrue

LEMMA NextIsolated == IsolatedInv /\ [INext]_vars => IsolatedInv'
<1> SUFFICES ASSUME IsolatedInv, [INext]_vars PROVE IsolatedInv'
  OBVIOUS
<1> USE RegistryAssumption DEF RegistryAssumption
<1> /\ TypeInv /\ TypeOK /\ Ready /\ Isolated
    /\ ReadsStayTrue /\ UniqueImeis /\ SlotsFit /\ CategoryFollowsType
  BY DEF IsolatedInv, TypeInv, RegistryInv
<1>a. TypeInv' /\ Isolated'
  <2>1. [Next]_vars
    BY DEF INext
  <2>2. CASE UNCHANGED vars
    BY <2>1, <2>2, NextTypeInv DEF vars, Isolated, Busy
  <2>3. CASE INext
    BY <2>1, <2>3, NextTypeInv DEF INext
  <2>4. QED
    BY <2>2, <2>3
<1>1. ASSUME NEW w \in Workers, NEW e \in Evidences, NEW row \in Payload,
             CreateStart(w, e, row)
      PROVE  Fits'
  <2> DEFINE s == [op |-> "create", pc |-> "imeis", id |-> e, new |-> row]
  <2>1. StaysTrue(s)
    BY <1>1 DEF StaysTrue, CreateStart, Payload
  <2>2. QED
    BY <1>1, <2>1, ReadStep DEF CreateStart
<1>2. ASSUME NEW w \in Workers, CreateReadImeis(w)
      PROVE  Fits'
  <2> DEFINE s == [session[w] EXCEPT !.pc = "number"]
  <2>1. CASE _ensure_unique_imeis(session[w].new, DOMAIN evidence) /\ Goes(w, "number")
    <3>1. session[w] \in CreateSession /\ session[w].op = "create"
      BY <1>2, SessionOps DEF CreateReadImeis
    <3>2. s.op = "create" /\ s.id = session[w].id /\ s.new = session[w].new
      BY <3>1 DEF CreateSession
    <3>3. StaysTrue(s)
      BY <2>1, <3>1, <3>2 DEF StaysTrue, ReadsStayTrue
    <3>4. QED
      BY <1>2, <2>1, <3>3, ReadStep DEF CreateReadImeis, Goes
  <2>2. QED
    BY <1>2, <2>1, QuietEnd DEF CreateReadImeis
<1>3. ASSUME NEW w \in Workers, CreateNumber(w)
      PROVE  Fits'
  <2>1. session[w] \in CreateSession /\ session[w].op = "create" /\ session[w].pc = "number"
    BY <1>3, SessionOps DEF CreateNumber
  <2>2. ASSUME NEW s, s.op = "create", s.id = session[w].id,
               s.new.case_id = session[w].new.case_id, s.new.type = session[w].new.type,
               s.new.category = session[w].new.category,
               s.new.imei_slot1 = session[w].new.imei_slot1,
               s.new.imei_slot2 = session[w].new.imei_slot2
        PROVE  StaysTrue(s)
    BY <2>1, <2>2 DEF StaysTrue, ReadsStayTrue, validate_evidence_fields,
       _ensure_unique_imeis, Slots
  <2>3. CASE Goes(w, "unique")
    <3> DEFINE s == [session[w] EXCEPT !.pc = "unique"]
    <3>1. s.op = "create" /\ s.id = session[w].id /\ s.new = session[w].new
      BY <2>1 DEF CreateSession
    <3>2. StaysTrue(s)
      BY <2>2, <3>1
    <3>3. QED
      BY <1>3, <2>3, <3>2, ReadStep DEF CreateNumber, Goes
  <2>4. CASE ~Goes(w, "unique")
    <3> DEFINE n == <<session[w].new.received_at, Sequence(session[w].new.received_at)>>
               s == [session[w] EXCEPT !.pc = "unique", !.new.registration_number = n]
    <3>1. /\ s.op = "create" /\ s.id = session[w].id
          /\ s.new = [session[w].new EXCEPT !.registration_number = n]
      BY <2>1 DEF CreateSession
    <3>2. /\ s.new.case_id = session[w].new.case_id /\ s.new.type = session[w].new.type
          /\ s.new.category = session[w].new.category
          /\ s.new.imei_slot1 = session[w].new.imei_slot1
          /\ s.new.imei_slot2 = session[w].new.imei_slot2
      BY <2>1, <3>1 DEF CreateSession
    <3>3. StaysTrue(s)
      BY <2>2, <3>1, <3>2
    <3>4. session' = [session EXCEPT ![w] = s] /\ UNCHANGED <<cases, evidence>>
      BY <1>3, <2>4 DEF CreateNumber
    <3>5. QED
      BY <3>3, <3>4, ReadStep
  <2>5. QED
    BY <2>3, <2>4
<1>4. ASSUME NEW w \in Workers, CreateReadNumber(w)
      PROVE  Fits'
  <2> DEFINE s == [session[w] EXCEPT !.pc = "commit"]
  <2>1. CASE Goes(w, "commit")
    <3>1. session[w] \in CreateSession /\ session[w].op = "create" /\ session[w].pc = "unique"
      BY <1>4, SessionOps DEF CreateReadNumber
    <3>2. s.op = "create" /\ s.id = session[w].id /\ s.new = session[w].new
      BY <3>1 DEF CreateSession
    <3>3. StaysTrue(s)
      BY <3>1, <3>2 DEF StaysTrue, ReadsStayTrue
    <3>4. QED
      BY <1>4, <2>1, <3>3, ReadStep DEF CreateReadNumber, Goes
  <2>2. QED
    BY <1>4, <2>1, QuietEnd DEF CreateReadNumber
<1>5. ASSUME NEW w \in Workers, CreateCommit(w)
      PROVE  Fits'
  <2> DEFINE s == session[w]
  <2>1. s.op = "create" /\ s.pc = "commit" /\ Busy(w) /\ Ends(w) /\ StaysTrue(s)
    BY <1>5 DEF CreateCommit, Busy, Idle, ReadsStayTrue
  <2>2. CASE evidence' = evidence
    BY <1>5, <2>1, <2>2, QuietEnd DEF CreateCommit
  <2>3. CASE evidence' = [e \in DOMAIN evidence \cup {s.id} |->
                             IF e = s.id THEN s.new ELSE evidence[e]]
    <3>1. /\ DOMAIN evidence' = DOMAIN evidence \cup {s.id}
          /\ \A e \in DOMAIN evidence' :
                 evidence'[e] = IF e = s.id THEN s.new ELSE evidence[e]
      BY <2>3
    <3>2. /\ s.id \notin DOMAIN evidence
          /\ validate_evidence_fields(s.new)
          /\ s.new.category = derive_category[s.new.type]
          /\ _ensure_unique_imeis(s.new, DOMAIN evidence)
      BY <2>1 DEF StaysTrue
    <3>3. UniqueImeis'
      BY <3>1, <3>2 DEF UniqueImeis, _ensure_unique_imeis, Slots
    <3>4. (SlotsFit /\ CategoryFollowsType)'
      BY <3>1, <3>2 DEF SlotsFit, CategoryFollowsType, validate_evidence_fields
    <3>5. QED
      BY <2>1, <3>3, <3>4, LastOne DEF Fits
  <2>4. QED
    BY <1>5, <2>2, <2>3 DEF CreateCommit
<1>6. ASSUME NEW w \in Workers, NEW e \in Evidences, NEW patch \in Patches,
             UpdateStart(w, e, patch)
      PROVE  Fits'
  <2> DEFINE s == [op |-> "update", pc |-> "unique", id |-> e, before |-> evidence[e],
                   new |-> Apply(evidence[e], patch)]
  <2>1. evidence[e] \in EvidenceRow /\ e \in DOMAIN evidence /\ patch \in Patch
    BY <1>6 DEF UpdateStart, TypeOK
  <2>2. /\ Apply(evidence[e], patch).case_id = evidence[e].case_id
        /\ Apply(evidence[e], patch).category = derive_category[Apply(evidence[e], patch).type]
    BY <2>1, ApplyRow DEF CategoryFollowsType
  <2>3. StaysTrue(s)
    BY <1>6, <2>1, <2>2 DEF StaysTrue, UpdateStart
  <2>4. QED
    BY <1>6, <2>3, ReadStep DEF UpdateStart
<1>7. ASSUME NEW w \in Workers, UpdateReadNumber(w)
      PROVE  Fits'
  <2> DEFINE s == [session[w] EXCEPT !.pc = "imeis"]
  <2>1. CASE Goes(w, "imeis")
    <3>1. session[w] \in UpdateSession /\ session[w].op = "update"
      BY <1>7, SessionOps DEF UpdateReadNumber
    <3>2. /\ s.op = "update" /\ s.pc = "imeis" /\ s.id = session[w].id
          /\ s.new = session[w].new /\ s.before = session[w].before
      BY <3>1 DEF UpdateSession
    <3>3. StaysTrue(s)
      BY <3>1, <3>2 DEF StaysTrue, ReadsStayTrue
    <3>4. QED
      BY <1>7, <2>1, <3>3, ReadStep DEF UpdateReadNumber, Goes
  <2>2. QED
    BY <1>7, <2>1, QuietEnd DEF UpdateReadNumber
<1>8. ASSUME NEW w \in Workers, UpdateReadImeis(w)
      PROVE  Fits'
  <2> DEFINE s == [session[w] EXCEPT !.pc = "commit"]
  <2>1. CASE /\ _ensure_unique_imeis(session[w].new, DOMAIN evidence \ {session[w].id})
             /\ Goes(w, "commit")
    <3>1. session[w] \in UpdateSession /\ session[w].op = "update"
      BY <1>8, SessionOps DEF UpdateReadImeis
    <3>2. /\ s.op = "update" /\ s.pc = "commit" /\ s.id = session[w].id
          /\ s.new = session[w].new /\ s.before = session[w].before
      BY <3>1 DEF UpdateSession
    <3>3. StaysTrue(s)
      BY <2>1, <3>1, <3>2 DEF StaysTrue, ReadsStayTrue
    <3>4. QED
      BY <1>8, <2>1, <3>3, ReadStep DEF UpdateReadImeis, Goes
  <2>2. QED
    BY <1>8, <2>1, QuietEnd DEF UpdateReadImeis
<1>9. ASSUME NEW w \in Workers, UpdateCommit(w)
      PROVE  Fits'
  <2> DEFINE s == session[w]
             row == Written(evidence[s.id], s.before, s.new)
  <2>1. s.op = "update" /\ s.pc = "commit" /\ Busy(w) /\ Ends(w) /\ StaysTrue(s)
    BY <1>9 DEF UpdateCommit, Busy, Idle, ReadsStayTrue
  <2>2. CASE evidence' = evidence
    BY <1>9, <2>1, <2>2, QuietEnd DEF UpdateCommit
  <2>3. CASE evidence' = [evidence EXCEPT ![s.id] = row]
    <3>1. s \in UpdateSession /\ s.id \in DOMAIN evidence /\ evidence[s.id] \in EvidenceRow
      BY <2>1, SessionOps DEF StaysTrue, TypeOK
    <3>2. /\ row.type = s.new.type /\ row.category = s.new.category
          /\ row.imei_slot1 = s.new.imei_slot1 /\ row.imei_slot2 = s.new.imei_slot2
      BY <2>1, <3>1, WrittenAlone DEF StaysTrue, UpdateSession
    <3> HIDE DEF row
    <3>3. /\ DOMAIN evidence' = DOMAIN evidence
          /\ \A e \in DOMAIN evidence : evidence'[e] = IF e = s.id THEN row ELSE evidence[e]
      BY <2>3 DEF TypeOK
    <3>4. /\ validate_evidence_fields(s.new)
          /\ s.new.category = derive_category[s.new.type]
          /\ _ensure_unique_imeis(s.new, DOMAIN evidence \ {s.id})
      BY <2>1 DEF StaysTrue
    <3>5. UniqueImeis'
      <4>1. \A e \in DOMAIN evidence :
                Slots(evidence'[e]) = IF e = s.id THEN Slots(s.new) ELSE Slots(evidence[e])
        BY <3>2, <3>3 DEF Slots
      <4>2. \A e \in DOMAIN evidence \ {s.id} : Slots(evidence[e]) \cap Slots(s.new) = {}
        BY <3>4 DEF _ensure_unique_imeis
      <4>3. \A e, f \in DOMAIN evidence : e # f => Slots(evidence[e]) \cap Slots(evidence[f]) = {}
        BY DEF UniqueImeis
      <4>4. ASSUME NEW e \in DOMAIN evidence, NEW f \in DOMAIN evidence, e # f
            PROVE  Slots(evidence'[e]) \cap Slots(evidence'[f]) = {}
        BY <4>1, <4>2, <4>3, <4>4
      <4>5. QED
        BY <3>3, <4>4 DEF UniqueImeis, Slots
    <3>6. (SlotsFit /\ CategoryFollowsType)'
      BY <3>2, <3>3, <3>4 DEF SlotsFit, CategoryFollowsType, validate_evidence_fields
    <3>7. QED
      BY <2>1, <3>5, <3>6, LastOne DEF Fits
  <2>4. QED
    BY <1>9, <2>2, <2>3 DEF UpdateCommit
<1>10. ASSUME NEW w \in Workers, Abort(w)
       PROVE  Fits'
  BY <1>10, QuietEnd DEF Abort
<1>11. ASSUME NEW c \in Cases, NEW status \in Status, SetStatus(c, status), INext
       PROVE  Fits'
  <2>1. CASE cases' = cases
    <3>1. \A v \in Workers : StaysTrue(session[v])'
      BY <1>11, <2>1, RowsStay DEF SetStatus, ReadsStayTrue
    <3>2. QED
      BY <1>11, <2>1, <3>1, RowsStay DEF SetStatus, Fits, ReadsStayTrue
  <2>2. CASE cases' # cases
    <3>1. \A v \in Workers : session'[v] = Idle
      BY <1>11, <2>2 DEF SetStatus, INext, Serial, Busy
    <3>2. ReadsStayTrue'
      BY <3>1 DEF ReadsStayTrue, StaysTrue, Idle
    <3>3. QED
      BY <1>11, <3>2 DEF SetStatus, Fits, UniqueImeis, SlotsFit, CategoryFollowsType,
         Slots, validate_evidence_fields
  <2>3. QED
    BY <2>1, <2>2
<1>12. ASSUME NEW dead \in SUBSET Workers, Restart(dead), INext
       PROVE  Fits'
  <2>1. \A v \in Workers : session'[v] \in {Idle, session[v]} /\ cases' = cases
    BY <1>12 DEF Restart
  <2>2. ReadsStayTrue'
    <3>1. CASE evidence' = evidence
      <4>1. \A v \in Workers : StaysTrue(session'[v])
        BY <2>1, IdleStays DEF ReadsStayTrue
      <4>2. QED
        BY <2>1, <3>1, <4>1 DEF ReadsStayTrue, StaysTrue, Open,
           validate_evidence_fields, _ensure_unique_imeis, Slots
    <3>2. CASE evidence' # evidence
      <4>1. \A v \in Workers : session'[v] = Idle
        BY <1>12, <3>2 DEF INext, Serial, Busy
      <4>2. QED
        BY <4>1 DEF ReadsStayTrue, StaysTrue, Idle
    <3>3. QED
      BY <3>1, <3>2
  <2>3. /\ DOMAIN evidence' = DOMAIN evidence
        /\ \A e \in DOMAIN evidence : evidence'[e] = Migrated(evidence[e])
    BY <1>12 DEF Restart
  <2>4. \A e \in DOMAIN evidence :
            /\ evidence'[e].imei_slot1 = evidence[e].imei_slot1
            /\ evidence'[e].imei_slot2 = evidence[e].imei_slot2
            /\ derive_category[evidence'[e].type] = derive_category[evidence[e].type]
            /\ evidence'[e].category = derive_category[evidence'[e].type]
    BY <2>3, MigratedRow DEF TypeOK
  <2>5. UniqueImeis'
    BY <2>3, <2>4 DEF UniqueImeis, Slots
  <2>6. (SlotsFit /\ CategoryFollowsType)'
    BY <2>3, <2>4 DEF SlotsFit, CategoryFollowsType, validate_evidence_fields
  <2>7. QED
    BY <2>2, <2>5, <2>6 DEF Fits
<1>13. ASSUME UNCHANGED vars
       PROVE  Fits'
  <2>1. cases' = cases /\ evidence' = evidence /\ session' = session
    BY <1>13 DEF vars
  <2>2. ReadsStayTrue'
    BY <2>1 DEF ReadsStayTrue, StaysTrue, Open, validate_evidence_fields,
       _ensure_unique_imeis, Slots
  <2>3. (UniqueImeis /\ SlotsFit /\ CategoryFollowsType)'
    BY <2>1 DEF UniqueImeis, SlotsFit, CategoryFollowsType, Slots, validate_evidence_fields
  <2>4. QED
    BY <2>2, <2>3 DEF Fits
<1>14. Fits'
  <2>1. CASE INext
    <3>1. Next
      BY <2>1 DEF INext
    <3>2. QED
      BY <2>1, <3>1, <1>1, <1>2, <1>3, <1>4, <1>5, <1>6, <1>7, <1>8, <1>9, <1>10, <1>11,
         <1>12 DEF Next
  <2>2. CASE UNCHANGED vars
    BY <2>2, <1>13
  <2>3. QED
    BY <2>1, <2>2
<1>15. QED
  BY <1>a, <1>14 DEF Fits, IsolatedInv, RegistryInv, TypeInv

\* IMEIs stay unique, also across both slots, when requests do not overlap.
THEOREM ImeisUnique == IsolatedSpec => []UniqueImeis
<1>1. IsolatedInv => UniqueImeis
  BY DEF IsolatedInv, RegistryInv
<1>2. QED
  BY <1>1, InitIsolated, NextIsolated, PTL DEF IsolatedSpec, INext

\* Slots, type and category of a row fit together when requests do not overlap,
\* whatever partial updates and restarts made it.
THEOREM RowsFit == IsolatedSpec => [](SlotsFit /\ CategoryFollowsType)
<1>1. IsolatedInv => SlotsFit /\ CategoryFollowsType
  BY DEF IsolatedInv, RegistryInv
<1>2. QED
  BY <1>1, InitIsolated, NextIsolated, PTL DEF IsolatedSpec, INext

\* What FrozenWhenClosed says of one step.
Frozen ==
    \A e \in DOMAIN evidence' :
        ~Open(evidence'[e].case_id) =>
            /\ e \in DOMAIN evidence
            /\ evidence'[e].registration_number = evidence[e].registration_number
            /\ Slots(evidence'[e]) = Slots(evidence[e])

LEMMA StepFrozen == IsolatedInv /\ [INext]_vars => Frozen
<1> SUFFICES ASSUME IsolatedInv, [INext]_vars PROVE Frozen
  OBVIOUS
<1> USE RegistryAssumption DEF RegistryAssumption
<1> TypeOK /\ ReadsStayTrue
  BY DEF IsolatedInv, RegistryInv
<1>1. CASE UNCHANGED evidence
  BY <1>1 DEF Frozen
<1>2. ASSUME NEW w \in Workers, CreateCommit(w)
      PROVE  Frozen
  <2> DEFINE s == session[w]
  <2>1. StaysTrue(s) /\ s.op = "create"
    BY <1>2 DEF CreateCommit, ReadsStayTrue
  <2>2. Open(s.new.case_id) /\ s.id \notin DOMAIN evidence
    BY <2>1 DEF StaysTrue
  <2>3. \A e \in DOMAIN evidence' :
            \/ e = s.id /\ evidence'[e] = s.new
            \/ e \in DOMAIN evidence /\ evidence'[e] = evidence[e]
    BY <1>2 DEF CreateCommit
  <2>4. QED
    BY <2>2, <2>3 DEF Frozen
<1>3. ASSUME NEW w \in Workers, UpdateCommit(w)
      PROVE  Frozen
  <2> DEFINE s == session[w]
             row == Written(evidence[s.id], s.before, s.new)
  <2>1. StaysTrue(s) /\ s.op = "update"
    BY <1>3 DEF UpdateCommit, ReadsStayTrue
  <2>2. /\ Open(s.new.case_id) /\ s.id \in DOMAIN evidence
        /\ s.before = evidence[s.id] /\ s.new.case_id = s.before.case_id
    BY <2>1 DEF StaysTrue
  <2>3. row.case_id = s.before.case_id
    BY <2>2 DEF Written, TypeOK, EvidenceRow
  <2> HIDE DEF row
  <2>4. \A e \in DOMAIN evidence' :
            \/ e = s.id /\ evidence'[e] = row
            \/ e \in DOMAIN evidence /\ evidence'[e] = evidence[e]
    BY <1>3 DEF UpdateCommit, row
  <2>5. cases' = cases
    BY <1>3 DEF UpdateCommit
  <2>6. QED
    BY <2>2, <2>3, <2>4, <2>5 DEF Frozen, Open
<1>4. ASSUME NEW dead \in SUBSET Workers, Restart(dead)
      PROVE  Frozen
  <2>1. \A e \in DOMAIN evidence' :
            /\ e \in DOMAIN evidence
            /\ evidence'[e].registration_number = evidence[e].registration_number
            /\ evidence'[e].imei_slot1 = evidence[e].imei_slot1
            /\ evidence'[e].imei_slot2 = evidence[e].imei_slot2
    BY <1>4, MigratedRow DEF Restart, TypeOK
  <2>2. QED
    BY <2>1 DEF Frozen, Slots
<1>5. CASE UNCHANGED vars
  BY <1>1, <1>5 DEF vars
<1>6. CASE Next
  BY <1>1, <1>2, <1>3, <1>4, <1>6 DEF Next, CreateStart, CreateReadImeis, CreateNumber,
     CreateReadNumber, UpdateStart, UpdateReadNumber, UpdateReadImeis, Abort, SetStatus
<1>7. QED
  BY <1>5, <1>6 DEF INext

\* While a case is closed its items stand still, when requests do not overlap.
THEOREM ClosedIsFrozen == IsolatedSpec => FrozenWhenClosed
<1>1. IsolatedInv /\ [INext]_vars => [Frozen]_vars
  BY StepFrozen
<1>2. QED
  BY <1>1, InitIsolated, NextIsolated, PTL DEF IsolatedSpec, INext, FrozenWhenClosed, Frozen

----------------------------------------------------------------------------
(* The numbers made for items.                                             *)

\* A number made for an item counts among the items of its day, ...
Counts(e) ==
    LET number == evidence[e].registration_number IN
    number \notin Manual =>
        number[1] = evidence[e].received_at /\ number[2] < Sequence(number[1])
\* ... and one on its way to an item is the next of its day.
Awaits(s) ==
    LET number == s.new.registration_number IN
    /\ s.op = "create" /\ number \notin Manual =>
           IF s.pc \in {"unique", "commit"}
           THEN number = <<s.new.received_at, Sequence(s.new.received_at)>>
           ELSE number = None
    /\ s.op = "update" => number \in Manual \cup {s.before.registration_number}
NumbersMade == (\A e \in DOMAIN evidence : Counts(e)) /\ \A w \in Workers : Awaits(session[w])

LEMMA SequenceGrows ==
  ASSUME TypeOK, TypeOK', DOMAIN evidence \subseteq DOMAIN evidence',
         \A e \in DOMAIN evidence : evidence'[e].received_at = evidence[e].received_at, NEW day
  PROVE  /\ Sequence(day) \in Nat /\ Sequence(day)' \in Nat
         /\ Sequence(day) <= Sequence(day)'
<1> DEFINE S == {e \in DOMAIN evidence : evidence[e].received_at = day}
           T == {e \in DOMAIN evidence' : evidence'[e].received_at = day}
<1>1. S \subseteq T /\ T \subseteq Evidences
  BY DEF TypeOK
<1>2. IsFiniteSet(T)
  BY <1>1, RegistryAssumption, FS_Subset DEF RegistryAssumption
<1>3. IsFiniteSet(S) /\ Cardinality(S) <= Cardinality(T)
  BY <1>1, <1>2, FS_Subset
<1>4. Cardinality(S) \in Nat /\ Cardinality(T) \in Nat
  BY <1>2, <1>3, FS_CardinalityType
<1>5. Sequence(day) = Cardinality(S) + 1 /\ Sequence(day)' = Cardinality(T) + 1
  BY DEF Sequence
<1> HIDE DEF S, T
<1>6. QED
  BY <1>3, <1>4, <1>5

\* Items that keep their days, and their numbers unless one is typed in, still count.
LEMMA StillCounts ==
  ASSUME TypeOK, TypeOK', DOMAIN evidence \subseteq DOMAIN evidence',
         \A e \in DOMAIN evidence : evidence'[e].received_at = evidence[e].received_at,
         NEW f \in DOMAIN evidence, Counts(f),
         \/ evidence'[f].registration_number = evidence[f].registration_number
         \/ evidence'[f].registration_number \in Manual
  PROVE  Counts(f)'
<1> DEFINE number == evidence[f].registration_number
<1> SUFFICES ASSUME evidence'[f].registration_number \notin Manual PROVE Counts(f)'
  BY DEF Counts
<1>1. evidence'[f].registration_number = number /\ number \notin Manual
  OBVIOUS
<1>2. number[1] = evidence[f].received_at /\ number[2] < Sequence(number[1])
  BY <1>1 DEF Counts
<1>3. number \in Days \X Nat
  BY DEF TypeOK, EvidenceRow, Numbers
<1>4. number[2] \in Nat
  BY <1>3
<1>5. /\ Sequence(number[1]) \in Nat /\ Sequence(number[1])' \in Nat
      /\ Sequence(number[1]) <= Sequence(number[1])'
  BY SequenceGrows
<1>6. \A day : Sequence(day)' = Cardinality({e \in DOMAIN evidence' : evidence'[e].received_at = day}) + 1
  BY DEF Sequence
<1> HIDE DEF number
<1>7. number[2] < Sequence(number[1])'
  BY <1>2, <1>4, <1>5
<1>8. evidence'[f].received_at = evidence[f].received_at
  OBVIOUS
<1>9. QED
  BY <1>1, <1>2, <1>7, <1>8 DEF Counts, Sequence, number

\* A step that only moves one request on, or ends it.
LEMMA QuietMade ==
  ASSUME TypeOK, NumbersMade, NEW w \in Workers, NEW s, session' = [session EXCEPT ![w] = s],
         evidence' = evidence, Awaits(s)
  PROVE  NumbersMade'
<1>1. \A v \in Workers : session'[v] = IF v = w THEN s ELSE session[v]
  BY DEF TypeOK
<1>2. \A v \in Workers : Awaits(session'[v])
  BY <1>1 DEF NumbersMade
<1>3. \A v \in Workers : Awaits(session[v])'
  BY <1>2 DEF Awaits, Sequence
<1>4. \A e \in DOMAIN evidence : Counts(e)'
  BY DEF NumbersMade, Counts, Sequence
<1>5. QED
  BY <1>3, <1>4 DEF NumbersMade

LEMMA QuietMadeEnd ==
  ASSUME TypeOK, NumbersMade, NEW w \in Workers, Ends(w), evidence' = evidence
  PROVE  NumbersMade'
<1>1. Awaits(Idle)
  BY DEF Awaits, Idle
<1>2. QED
  BY <1>1, QuietMade DEF Ends

\* After the commit of the only request, or a restart, nobody is in flight.
LEMMA LastMade ==
  ASSUME \A v \in Workers : session'[v] = Idle, \A e \in DOMAIN evidence' : Counts(e)'
  PROVE  NumbersMade'
<1>1. \A v \in Workers : session'[v].op = "idle"
  BY DEF Idle
<1>2. \A v \in Workers : Awaits(session[v])'
  BY <1>1 DEF Awaits
<1>3. QED
  BY <1>2 DEF NumbersMade

LEMMA AllEnd ==
  ASSUME IsolatedInv, NEW w \in Workers, Busy(w), Ends(w)
  PROVE  \A v \in Workers : session'[v] = Idle
  BY DEF IsolatedInv, RegistryInv, TypeOK, Isolated, Busy, Ends

LEMMA NextMade == IsolatedInv /\ TypeOK' /\ NumbersMade /\ [INext]_vars => NumbersMade'
<1> SUFFICES ASSUME IsolatedInv, TypeOK', NumbersMade, [INext]_vars PROVE NumbersMade'
  OBVIOUS
<1> USE RegistryAssumption DEF RegistryAssumption
<1> TypeOK /\ Ready /\ ReadsStayTrue
  BY DEF IsolatedInv, TypeInv, RegistryInv
<1>0. \A w \in Workers : Awaits(session[w])
  BY DEF NumbersMade
<1>1. ASSUME NEW w \in Workers, NEW e \in Evidences, NEW row \in Payload,
             CreateStart(w, e, row)
      PROVE  NumbersMade'
  <2> DEFINE s == [op |-> "create", pc |-> "imeis", id |-> e, new |-> row]
  <2>1. Awaits(s)
    BY DEF Awaits, Payload
  <2>2. QED
    BY <1>1, <2>1, QuietMade DEF CreateStart
<1>2. ASSUME NEW w \in Workers, CreateReadImeis(w) PROVE NumbersMade'
  <2> DEFINE s == [session[w] EXCEPT !.pc = "number"]
  <2>1. session[w] \in CreateSession /\ session[w].op = "create" /\ session[w].pc = "imeis"
    BY <1>2, SessionOps DEF CreateReadImeis
  <2>2. s.op = "create" /\ s.pc = "number" /\ s.new = session[w].new
    BY <2>1 DEF CreateSession
  <2>3. Awaits(s)
    BY <1>0, <2>1, <2>2 DEF Awaits
  <2>4. QED
    BY <1>2, <2>3, QuietMade, QuietMadeEnd DEF CreateReadImeis, Goes
<1>3. ASSUME NEW w \in Workers, CreateNumber(w) PROVE NumbersMade'
  <2>1. session[w] \in CreateSession /\ session[w].op = "create" /\ session[w].pc = "number"
    BY <1>3, SessionOps DEF CreateNumber
  <2>2. CASE session[w].new.registration_number # None /\ Goes(w, "unique")
    <3> DEFINE s == [session[w] EXCEPT !.pc = "unique"]
    <3>1. s.op = "create" /\ s.new = session[w].new
      BY <2>1 DEF CreateSession
    <3>2. session[w].new.registration_number \in Manual
      BY <1>0, <2>1, <2>2 DEF Awaits
    <3>3. Awaits(s)
      BY <3>1, <3>2 DEF Awaits
    <3>4. QED
      BY <1>3, <2>2, <3>3, QuietMade DEF CreateNumber, Goes
  <2>3. CASE session[w].new.registration_number = None
    <3> DEFINE n == <<session[w].new.received_at, Sequence(session[w].new.received_at)>>
               s == [session[w] EXCEPT !.pc = "unique", !.new.registration_number = n]
    <3>1. /\ s.op = "create" /\ s.pc = "unique"
          /\ s.new = [session[w].new EXCEPT !.registration_number = n]
      BY <2>1 DEF CreateSession
    <3>2. s.new.registration_number = n /\ s.new.received_at = session[w].new.received_at
      BY <2>1, <3>1 DEF CreateSession
    <3>3. Awaits(s)
      BY <3>1, <3>2 DEF Awaits
    <3>4. session' = [session EXCEPT ![w] = s] /\ evidence' = evidence
      BY <1>3, <2>3 DEF CreateNumber
    <3>5. QED
      BY <3>3, <3>4, QuietMade
  <2>4. QED
    BY <1>3, <2>2, <2>3 DEF CreateNumber
<1>4. ASSUME NEW w \in Workers, CreateReadNumber(w) PROVE NumbersMade'
  <2> DEFINE s == [session[w] EXCEPT !.pc = "commit"]
  <2>1. session[w] \in CreateSession /\ session[w].op = "create" /\ session[w].pc = "unique"
    BY <1>4, SessionOps DEF CreateReadNumber
  <2>2. s.op = "create" /\ s.pc = "commit" /\ s.new = session[w].new
    BY <2>1 DEF CreateSession
  <2>3. Awaits(s)
    BY <1>0, <2>1, <2>2 DEF Awaits
  <2>4. QED
    BY <1>4, <2>3, QuietMade, QuietMadeEnd DEF CreateReadNumber, Goes
<1>5. ASSUME NEW w \in Workers, CreateCommit(w) PROVE NumbersMade'
  <2> DEFINE s == session[w]
             number == s.new.registration_number
  <2>1. s.op = "create" /\ s.pc = "commit" /\ Busy(w) /\ Ends(w) /\ StaysTrue(s) /\ Awaits(s)
    BY <1>0, <1>5 DEF CreateCommit, Busy, Idle, ReadsStayTrue
  <2>2. CASE evidence' = evidence
    BY <2>1, <2>2, QuietMadeEnd
  <2>3. CASE evidence' = [e \in DOMAIN evidence \cup {s.id} |->
                             IF e = s.id THEN s.new ELSE evidence[e]]
    <3>1. s.id \notin DOMAIN evidence
      BY <2>1 DEF StaysTrue
    <3>2. /\ DOMAIN evidence' = DOMAIN evidence \cup {s.id} /\ evidence'[s.id] = s.new
          /\ \A e \in DOMAIN evidence : evidence'[e] = evidence[e]
      BY <2>3, <3>1
    <3>3. ASSUME NEW f \in DOMAIN evidence', f = s.id PROVE Counts(f)'
      <4> SUFFICES ASSUME number \notin Manual PROVE Counts(f)'
        BY <3>2, <3>3 DEF Counts
      <4>1. number = <<s.new.received_at, Sequence(s.new.received_at)>>
        BY <2>1 DEF Awaits
      <4> DEFINE day == s.new.received_at
                 S == {e \in DOMAIN evidence : evidence[e].received_at = day}
      <4>2. {e \in DOMAIN evidence' : evidence'[e].received_at = day} = S \cup {s.id}
        BY <3>2
      <4>3. S \subseteq Evidences
        BY DEF TypeOK
      <4>4. IsFiniteSet(S) /\ s.id \notin S
        BY <3>1, <4>3, FS_Subset
      <4>5. Cardinality(S \cup {s.id}) = Cardinality(S) + 1 /\ Cardinality(S) \in Nat
        BY <4>4, FS_AddElement, FS_CardinalityType
      <4>6. Cardinality({e \in DOMAIN evidence' : evidence'[e].received_at = day}) + 1
                = Sequence(day) + 1
        BY <4>2, <4>5 DEF Sequence
      <4>7. Sequence(day) \in Nat
        BY <4>5 DEF Sequence
      <4> HIDE DEF S, day
      <4>8. number[1] = day /\ number[2] = Sequence(day)
        BY <4>1 DEF day
      <4>9. /\ number[1] = evidence'[s.id].received_at
            /\ number[2] < Cardinality({e \in DOMAIN evidence' :
                                            evidence'[e].received_at = number[1]}) + 1
        BY <3>2, <4>6, <4>7, <4>8 DEF day
      <4>10. QED
        BY <3>2, <3>3, <4>9 DEF Counts, Sequence
    <3>4. \A e \in DOMAIN evidence : Counts(e)'
      BY <3>2, StillCounts DEF NumbersMade
    <3>5. QED
      BY <2>1, <3>2, <3>3, <3>4, AllEnd, LastMade
  <2>4. QED
    BY <1>5, <2>2, <2>3 DEF CreateCommit
<1>6. ASSUME NEW w \in Workers, NEW e \in Evidences, NEW patch \in Patches,
             UpdateStart(w, e, patch)
      PROVE  NumbersMade'
  <2> DEFINE s == [op |-> "update", pc |-> "unique", id |-> e, before |-> evidence[e],
                   new |-> Apply(evidence[e], patch)]
  <2>1. evidence[e] \in EvidenceRow /\ patch \in Patch
    BY <1>6 DEF UpdateStart, TypeOK
  <2>2. Apply(evidence[e], patch).registration_number
            = Given(evidence[e].registration_number, patch.registration_number)
    BY <2>1 DEF Apply, EvidenceRow
  <2>3. Awaits(s)
    BY <2>1, <2>2 DEF Awaits, Given, Patch
  <2>4. QED
    BY <1>6, <2>3, QuietMade DEF UpdateStart
<1>7. ASSUME NEW w \in Workers, UpdateReadNumber(w) \/ UpdateReadImeis(w) PROVE NumbersMade'
  <2>1. /\ session[w] \in UpdateSession /\ session[w].op = "update" /\ evidence' = evidence
        /\ Ends(w) \/ \E pc \in {"imeis", "commit"} : Goes(w, pc)
    BY <1>7, SessionOps DEF UpdateReadNumber, UpdateReadImeis
  <2>2. ASSUME NEW pc, Goes(w, pc) PROVE NumbersMade'
    <3> DEFINE s == [session[w] EXCEPT !.pc = pc]
    <3>1. s.op = "update" /\ s.before = session[w].before /\ s.new = session[w].new
      BY <2>1 DEF UpdateSession
    <3>2. Awaits(s)
      BY <1>0, <2>1, <3>1 DEF Awaits
    <3>3. QED
      BY <2>1, <2>2, <3>2, QuietMade DEF Goes
  <2>3. QED
    BY <2>1, <2>2, QuietMadeEnd
<1>8. ASSUME NEW w \in Workers, UpdateCommit(w) PROVE NumbersMade'
  <2> DEFINE s == session[w]
             row == Written(evidence[s.id], s.before, s.new)
  <2>1. s.op = "update" /\ Busy(w) /\ Ends(w) /\ StaysTrue(s) /\ Awaits(s)
    BY <1>0, <1>8 DEF UpdateCommit, Busy, Idle, ReadsStayTrue
  <2>2. CASE evidence' = evidence
    BY <2>1, <2>2, QuietMadeEnd
  <2>3. CASE evidence' = [evidence EXCEPT ![s.id] = row]
    <3>1. /\ s \in UpdateSession /\ s.id \in DOMAIN evidence /\ evidence[s.id] \in EvidenceRow
          /\ s.before = evidence[s.id] /\ s.new \in EvidenceRow
      BY <2>1, SessionOps DEF StaysTrue, TypeOK, UpdateSession
    <3>2. row.registration_number = s.new.registration_number
          /\ row.received_at = evidence[s.id].received_at
      BY <3>1, WrittenAlone DEF Written, EvidenceRow
    <3>3. \/ row.registration_number \in Manual
          \/ row.registration_number = evidence[s.id].registration_number
      BY <2>1, <3>1, <3>2 DEF Awaits
    <3> HIDE DEF row
    <3>4. /\ DOMAIN evidence' = DOMAIN evidence
          /\ \A e \in DOMAIN evidence : evidence'[e] = IF e = s.id THEN row ELSE evidence[e]
      BY <2>3 DEF TypeOK
    <3>5. \A e \in DOMAIN evidence :
              /\ evidence'[e].received_at = evidence[e].received_at
              /\ \/ evidence'[e].registration_number = evidence[e].registration_number
                 \/ evidence'[e].registration_number \in Manual
      BY <3>2, <3>3, <3>4
    <3>6. \A e \in DOMAIN evidence' : Counts(e)'
      BY <3>4, <3>5, StillCounts DEF NumbersMade
    <3>7. QED
      BY <2>1, <3>6, AllEnd, LastMade
  <2>4. QED
    BY <1>8, <2>2, <2>3 DEF UpdateCommit
<1>9. ASSUME NEW w \in Workers, Abort(w) PROVE NumbersMade'
  BY <1>9, QuietMadeEnd DEF Abort
<1>10. ASSUME UNCHANGED <<evidence, session>> PROVE NumbersMade'
  <2>1. \A w \in Workers : Awaits(session[w])'
    BY <1>0, <1>10 DEF Awaits, Sequence
  <2>2. \A e \in DOMAIN evidence' : Counts(e)'
    BY <1>10 DEF NumbersMade, Counts, Sequence
  <2>3. QED
    BY <2>1, <2>2 DEF NumbersMade
<1>11. ASSUME NEW dead \in SUBSET Workers, Restart(dead), INext PROVE NumbersMade'
  <2>2. /\ DOMAIN evidence' = DOMAIN evidence
        /\ \A e \in DOMAIN evidence : evidence'[e] = Migrated(evidence[e])
    BY <1>11 DEF Restart
  <2>3. \A e \in DOMAIN evidence :
            /\ evidence'[e].registration_number = evidence[e].registration_number
            /\ evidence'[e].received_at = evidence[e].received_at
    BY <2>2, MigratedRow DEF TypeOK
  <2>4. \A e \in DOMAIN evidence' : Counts(e)'
    BY <2>2, <2>3, StillCounts DEF NumbersMade
  <2>5. \A v \in Workers : Awaits(session[v])'
    <3>1. CASE evidence' = evidence
      <4>1. \A v \in Workers : session'[v] \in {Idle, session[v]}
        BY <1>11 DEF Restart
      <4>2. \A v \in Workers : Awaits(session'[v])
        BY <1>0, <4>1 DEF Awaits, Idle
      <4>3. QED
        BY <3>1, <4>2 DEF Awaits, Sequence
    <3>2. CASE evidence' # evidence
      <4>1. \A v \in Workers : session'[v].op = "idle"
        BY <1>11, <3>2 DEF INext, Serial, Busy, Idle
      <4>2. QED
        BY <4>1 DEF Awaits
    <3>3. QED
      BY <3>1, <3>2
  <2>6. QED
    BY <2>4, <2>5 DEF NumbersMade
<1>12. QED
  BY <1>1, <1>2, <1>3, <1>4, <1>5, <1>6, <1>7, <1>8, <1>9, <1>10, <1>11
  DEF INext, Next, SetStatus, vars

\* With one request at a time a number made for an item was made for no other one: it is
\* refused only when someone typed it in (evidence_service.py:96-118).
THEOREM NumbersFree == IsolatedSpec => []GeneratedNumberFree
<1>1. Init => NumbersMade
  BY DEF Init, NumbersMade, Awaits, Idle
<1>2. IsolatedInv => TypeOK
  BY DEF IsolatedInv, RegistryInv
<1>3. IsolatedInv /\ NumbersMade => GeneratedNumberFree
  <2> SUFFICES ASSUME IsolatedInv, NumbersMade, NEW w \in Workers, session[w].op = "create",
                      session[w].pc \in {"unique", "commit"},
                      session[w].new.registration_number \notin Manual,
                      NEW f \in DOMAIN evidence
               PROVE  evidence[f].registration_number # session[w].new.registration_number
    BY DEF GeneratedNumberFree, _ensure_unique_registration_number
  <2> DEFINE number == session[w].new.registration_number
             day == session[w].new.received_at
  <2>1. number = <<day, Sequence(day)>>
    BY DEF NumbersMade, Awaits
  <2>2. Sequence(day) \in Nat
    BY <1>2, SequenceType
  <2>3. Counts(f)
    BY DEF NumbersMade
  <2> HIDE DEF number, day
  <2>4. evidence[f].registration_number = number /\ number \notin Manual =>
            number[2] < Sequence(number[1])
    BY <2>3 DEF Counts
  <2>5. number[1] = day /\ number[2] = Sequence(day)
    BY <2>1
  <2>6. ~(number[2] < Sequence(number[1]))
    BY <2>2, <2>5
  <2>7. QED
    BY <2>4, <2>6 DEF number
<1>4. QED
  BY <1>1, <1>2, <1>3, InitIsolated, NextIsolated, NextMade, PTL DEF IsolatedSpec, INext
=============================================================================
