-------------------------- MODULE EvidenceRegistry --------------------------
(***************************************************************************)
(* Registration and update of evidence (backend/services/                  *)
(* evidence_service.py, d.7.1 - d.7.2): the gate on closed cases, the      *)
(* registration number, the IMEIs and the columns that depend on each      *)
(* other.  Custody of the same rows is EvidenceCustody's.                  *)
(*                                                                         *)
(* As there, a request reads in separate statements, locks nothing and     *)
(* writes in one commit.  An UPDATE sets only the columns whose value      *)
(* differs from the one the request read, so two updates of a row merge    *)
(* column by column.                                                       *)
(*                                                                         *)
(* Bounds: the sets, and MaxSequence, the highest number of a day.         *)
(***************************************************************************)
EXTENDS Naturals, FiniteSets

CONSTANTS
    Cases,        \* case ids
    Evidences,    \* evidence ids
    Workers,      \* request threads
    Days,         \* WIB days of receipt
    Imeis,        \* valid IMEIs, normalized
    Types,        \* values of column type
    Categories,   \* values of column category
    derive_category,  \* the category of a type
    Mobile,       \* category "mobile"
    MigrateType,  \* what the start-up migration makes of a type
    Manual,       \* registration numbers typed in by users
    Patches,      \* payloads of updates
    MaxSequence,
    None,         \* SQL NULL
    Unset         \* a field left out of a payload

Numbers == Days \X (1..MaxSequence)
Slot == Imeis \cup {None}

\* EvidenceUpdateRequest.  A text without a digit clears an IMEI.  A payload with
\* received_at is not among them: its date goes into the JSON of the audit entry,
\* which cannot take it, so the request fails at its commit without effect.
Patch ==
    [registration_number : Manual \cup {Unset}, type : Types \cup {Unset},
     imei_slot1 : Slot \cup {Unset}, imei_slot2 : Slot \cup {Unset}]

ASSUME RegistryAssumption ==
    /\ IsFiniteSet(Evidences)
    /\ derive_category \in [Types -> Categories]
    /\ MigrateType \in [Types -> Types]
    /\ \A t \in Types : derive_category[MigrateType[t]] = derive_category[t]
    /\ Manual \subseteq Numbers
    /\ Patches \subseteq Patch
    /\ MaxSequence \in Nat
    /\ None \notin Imeis \cup Numbers
    /\ Unset \notin Slot \cup Types \cup Numbers

VARIABLES
    cases,    \* column status of table cases
    evidence, \* table evidence
    session   \* what each request thread is doing

vars == <<cases, evidence, session>>

Status == {"open", "in_progress", "closed"}

EvidenceRow ==
    [case_id : Cases, registration_number : Numbers, received_at : Days,
     type : Types, category : Categories, imei_slot1 : Slot, imei_slot2 : Slot]

\* A request in flight: the row to insert, or the row read and the row to write.
Idle == [op |-> "idle"]
CreateSession ==
    [op : {"create"}, pc : {"imeis", "number", "unique", "commit"}, id : Evidences,
     new : [case_id : Cases, registration_number : Numbers \cup {None},
            received_at : Days, type : Types, category : Categories,
            imei_slot1 : Slot, imei_slot2 : Slot]]
UpdateSession ==
    [op : {"update"}, pc : {"unique", "imeis", "commit"}, id : Evidences,
     before : EvidenceRow, new : EvidenceRow]

TypeOK ==
    /\ cases \in [Cases -> Status]
    /\ DOMAIN evidence \subseteq Evidences
    /\ evidence \in [DOMAIN evidence -> EvidenceRow]
    /\ session \in [Workers -> {Idle} \cup CreateSession \cup UpdateSession]

Busy(w) == session[w] # Idle
Ends(w) == session' = [session EXCEPT ![w] = Idle]
Goes(w, pc) == session' = [session EXCEPT ![w] = [@ EXCEPT !.pc = pc]]

\* ensure_case_open
Open(c) == cases[c] # "closed"

Slots(row) == {row.imei_slot1, row.imei_slot2} \ {None}

\* validate_evidence_fields, as far as columns depend on each other.
validate_evidence_fields(row) ==
    /\ derive_category[row.type] = Mobile => row.imei_slot1 # None
    /\ row.imei_slot1 # None => row.imei_slot1 # row.imei_slot2

\* Fault: only the first slot of the other items is looked at.
ComparesFirstSlot(row, others) ==
    \A f \in others : evidence[f].imei_slot1 \notin Slots(row)

\* _ensure_unique_imeis: no item of others has an IMEI of row.
_ensure_unique_imeis(row, others) ==
    \A f \in others : Slots(evidence[f]) \cap Slots(row) = {}

\* _ensure_unique_registration_number
_ensure_unique_registration_number(number, others) ==
    \A f \in others : evidence[f].registration_number # number

\* Fault: the items of closed cases are not counted.
SequenceOpen(day) ==
    Cardinality({e \in DOMAIN evidence :
                     evidence[e].received_at = day /\ Open(evidence[e].case_id)}) + 1

\* _generate_registration_number: one more than the items received that day.
Sequence(day) == Cardinality({e \in DOMAIN evidence : evidence[e].received_at = day}) + 1

----------------------------------------------------------------------------
Init ==
    /\ cases = [c \in Cases |-> "open"]
    /\ evidence = << >>
    /\ session = [w \in Workers |-> Idle]

\* Fault: the case may be closed.
CreateInAnyCase(w, e, row) ==
    /\ ~Busy(w)
    /\ e \notin DOMAIN evidence
    /\ \A v \in Workers : Busy(v) => session[v].id # e
    /\ validate_evidence_fields(row)
    /\ session' = [session EXCEPT ![w] =
           [op |-> "create", pc |-> "imeis", id |-> e, new |-> row]]
    /\ UNCHANGED <<cases, evidence>>

\* create_evidence: the case must be open (409) and the fields valid (422).
\* The id is fresh; no other request in flight has it.
CreateStart(w, e, row) ==
    /\ ~Busy(w)
    /\ e \notin DOMAIN evidence
    /\ \A v \in Workers : Busy(v) => session[v].id # e
    /\ Open(row.case_id)
    /\ validate_evidence_fields(row)
    /\ session' = [session EXCEPT ![w] =
           [op |-> "create", pc |-> "imeis", id |-> e, new |-> row]]
    /\ UNCHANGED <<cases, evidence>>

\* ... the IMEIs are looked up (409); ...
CreateReadImeis(w) ==
    LET s == session[w] IN
    /\ s.op = "create" /\ s.pc = "imeis"
    /\ IF _ensure_unique_imeis(s.new, DOMAIN evidence) THEN Goes(w, "number") ELSE Ends(w)
    /\ UNCHANGED <<cases, evidence>>

\* ... a number not given is made from the count of the day; ...
CreateNumber(w) ==
    LET s == session[w] IN
    /\ s.op = "create" /\ s.pc = "number"
    /\ \/ /\ s.new.registration_number # None
          /\ Goes(w, "unique")
       \/ /\ s.new.registration_number = None
          /\ Sequence(s.new.received_at) <= MaxSequence
          /\ session' = [session EXCEPT ![w] =
                 [s EXCEPT !.pc = "unique",
                           !.new.registration_number =
                               <<s.new.received_at, Sequence(s.new.received_at)>>]]
    /\ UNCHANGED <<cases, evidence>>

\* ... it must be free (409); ...
CreateReadNumber(w) ==
    LET s == session[w] IN
    /\ s.op = "create" /\ s.pc = "unique"
    /\ IF _ensure_unique_registration_number(s.new.registration_number, DOMAIN evidence)
         THEN Goes(w, "commit") ELSE Ends(w)
    /\ UNCHANGED <<cases, evidence>>

\* ... and the row is inserted; the unique index has the last word on the number
\* (IntegrityError, nothing is written).
CreateCommit(w) ==
    LET s == session[w] IN
    /\ s.op = "create" /\ s.pc = "commit"
    /\ evidence' =
           IF _ensure_unique_registration_number(s.new.registration_number, DOMAIN evidence)
           THEN [e \in DOMAIN evidence \cup {s.id} |->
                    IF e = s.id THEN s.new ELSE evidence[e]]
           ELSE evidence
    /\ Ends(w)
    /\ UNCHANGED cases

\* A column after the payload is applied: left alone when the field is unset.
Given(column, value) == IF value = Unset THEN column ELSE value

\* The row after the payload's fields are set.
Apply(row, patch) ==
    [row EXCEPT
        !.registration_number = Given(@, patch.registration_number),
        !.type = Given(@, patch.type),
        !.category = IF patch.type = Unset THEN @ ELSE derive_category[patch.type],
        !.imei_slot1 = Given(@, patch.imei_slot1),
        !.imei_slot2 = Given(@, patch.imei_slot2)]

\* Fault: the row is checked before the payload is applied.
UpdateChecksEarly(w, e, patch) ==
    /\ ~Busy(w)
    /\ e \in DOMAIN evidence
    /\ Open(evidence[e].case_id)
    /\ validate_evidence_fields(evidence[e])
    /\ session' = [session EXCEPT ![w] =
           [op |-> "update", pc |-> "unique", id |-> e,
            before |-> evidence[e], new |-> Apply(evidence[e], patch)]]
    /\ UNCHANGED <<cases, evidence>>

\* update_evidence: the item is read, its case must be open, and the row with the
\* payload's fields set must be valid; ...
UpdateStart(w, e, patch) ==
    /\ ~Busy(w)
    /\ e \in DOMAIN evidence
    /\ Open(evidence[e].case_id)
    /\ validate_evidence_fields(Apply(evidence[e], patch))
    /\ session' = [session EXCEPT ![w] =
           [op |-> "update", pc |-> "unique", id |-> e,
            before |-> evidence[e], new |-> Apply(evidence[e], patch)]]
    /\ UNCHANGED <<cases, evidence>>

\* ... its number is looked up among the other items; ...
UpdateReadNumber(w) ==
    LET s == session[w] IN
    /\ s.op = "update" /\ s.pc = "unique"
    /\ IF _ensure_unique_registration_number(s.new.registration_number, DOMAIN evidence \ {s.id})
         THEN Goes(w, "imeis") ELSE Ends(w)
    /\ UNCHANGED <<cases, evidence>>

\* ... so are its IMEIs; ...
UpdateReadImeis(w) ==
    LET s == session[w] IN
    /\ s.op = "update" /\ s.pc = "imeis"
    /\ IF _ensure_unique_imeis(s.new, DOMAIN evidence \ {s.id})
         THEN Goes(w, "commit") ELSE Ends(w)
    /\ UNCHANGED <<cases, evidence>>

\* What an UPDATE leaves in a column: the value now there, unless the request
\* changed the one it read.
Column(now, before, new) == IF new = before THEN now ELSE new

Written(now, before, new) ==
    [now EXCEPT
        !.registration_number =
            Column(@, before.registration_number, new.registration_number),
        !.type = Column(@, before.type, new.type),
        !.category = Column(@, before.category, new.category),
        !.imei_slot1 = Column(@, before.imei_slot1, new.imei_slot1),
        !.imei_slot2 = Column(@, before.imei_slot2, new.imei_slot2)]

\* ... and the changed columns are written, unless the number has been taken.
UpdateCommit(w) ==
    LET s == session[w]
        row == Written(evidence[s.id], s.before, s.new)
    IN
    /\ s.op = "update" /\ s.pc = "commit"
    /\ evidence' =
           IF _ensure_unique_registration_number(row.registration_number, DOMAIN evidence \ {s.id})
           THEN [evidence EXCEPT ![s.id] = row]
           ELSE evidence
    /\ Ends(w)
    /\ UNCHANGED cases

\* update_case_status: any status may follow any other.
SetStatus(c, status) ==
    /\ cases' = [cases EXCEPT ![c] = status]
    /\ UNCHANGED <<evidence, session>>

\* A request fails or is lost before its commit.
Abort(w) ==
    /\ Busy(w)
    /\ Ends(w)
    /\ UNCHANGED <<cases, evidence>>

\* _migrate_evidence_table: legacy types are renamed and every category is
\* derived anew.
Migrated(row) ==
    [row EXCEPT !.type = MigrateType[@], !.category = derive_category[MigrateType[row.type]]]

\* Processes die and come back, some or all (docs/DEPLOYMENT.md:140).
Restart(dead) ==
    /\ session' = [w \in Workers |-> IF w \in dead THEN Idle ELSE session[w]]
    /\ evidence' = [e \in DOMAIN evidence |-> Migrated(evidence[e])]
    /\ UNCHANGED cases

\* EvidenceCreateRequest, with the category that goes with its type.
Payload ==
    {row \in [case_id : Cases, registration_number : Manual \cup {None},
               received_at : Days, type : Types, category : Categories,
               imei_slot1 : Slot, imei_slot2 : Slot] :
        row.category = derive_category[row.type]}

Next ==
    \/ \E w \in Workers :
           \/ \E e \in Evidences, row \in Payload : CreateStart(w, e, row)
           \/ CreateReadImeis(w)
           \/ CreateNumber(w)
           \/ CreateReadNumber(w)
           \/ CreateCommit(w)
           \/ \E e \in Evidences, patch \in Patches : UpdateStart(w, e, patch)
           \/ UpdateReadNumber(w)
           \/ UpdateReadImeis(w)
           \/ UpdateCommit(w)
           \/ Abort(w)
    \/ \E c \in Cases, status \in Status : SetStatus(c, status)
    \/ \E dead \in SUBSET Workers : Restart(dead)

Spec == Init /\ [][Next]_vars

\* One request at a time; no case changes its status, and no restart migrates a row,
\* during one.
Isolated == \A v, w \in Workers : Busy(v) /\ Busy(w) => v = w
Serial ==
    /\ cases' # cases => \A w \in Workers : ~Busy(w)
    /\ evidence' # evidence => \A w \in Workers : ~Busy(w)'

IsolatedSpec == Init /\ [][Next /\ Isolated' /\ Serial]_vars

----------------------------------------------------------------------------
(* Properties of isolated requests.                                        *)

\* "IMEI ... is already registered to another evidence item"
\* (evidence_service.py:94): no IMEI, in either slot, belongs to two items.
UniqueImeis ==
    \A e, f \in DOMAIN evidence : e # f => Slots(evidence[e]) \cap Slots(evidence[f]) = {}

\* "IMEI slot 1 and slot 2 must be different when both are provided"
\* (validation.py:108), and a smartphone has an IMEI (validation.py:75-79):
\* columns of one row that come from different updates still fit together.
SlotsFit ==
    \A e \in DOMAIN evidence : validate_evidence_fields(evidence[e])

\* The vault groups an item by what its type says it is: partial updates and the
\* start-up migration keep the derived column in step (evidence_service.py:221).
CategoryFollowsType ==
    \A e \in DOMAIN evidence : evidence[e].category = derive_category[evidence[e].type]

\* "Cannot ... on a closed case" (case_guards.py:9): while a case is closed no
\* item is registered in it and no number or IMEI of its items changes.
FrozenWhenClosed ==
    [][\A e \in DOMAIN evidence' :
           ~Open(evidence'[e].case_id) =>
               /\ e \in DOMAIN evidence
               /\ evidence'[e].registration_number = evidence[e].registration_number
               /\ Slots(evidence'[e]) = Slots(evidence[e])]_vars

\* The number of an item is optional (schemas/evidence.py:17): when requests run one at
\* a time, a number made for one is refused only when someone typed it in.  Whatever
\* numbers were typed over made ones, cases closed and rows migrated since, no earlier
\* item was made the same one (evidence_service.py:96-118).
GeneratedNumberFree ==
    \A w \in Workers :
        LET s == session[w]
            number == s.new.registration_number
        IN
        s.op = "create" /\ s.pc \in {"unique", "commit"} /\ number \notin Manual =>
            _ensure_unique_registration_number(number, DOMAIN evidence)

\* What the request s has checked is still so.
StaysTrue(s) ==
    /\ s.op # "idle" =>
           /\ Open(s.new.case_id)
           /\ validate_evidence_fields(s.new)
           /\ s.new.category = derive_category[s.new.type]
    /\ s.op = "create" => s.id \notin DOMAIN evidence
    /\ s.op = "create" /\ s.pc # "imeis" => _ensure_unique_imeis(s.new, DOMAIN evidence)
    /\ s.op = "update" =>
           /\ s.id \in DOMAIN evidence
           /\ s.before = evidence[s.id]
           /\ s.new.case_id = s.before.case_id
    /\ s.op = "update" /\ s.pc = "commit" =>
           _ensure_unique_imeis(s.new, DOMAIN evidence \ {s.id})

ReadsStayTrue == \A w \in Workers : StaysTrue(session[w])

\* The inductive invariant of isolated requests.
RegistryInv ==
    TypeOK /\ Isolated /\ ReadsStayTrue /\ UniqueImeis /\ SlotsFit /\ CategoryFollowsType

----------------------------------------------------------------------------
(* Properties of concurrent requests.                                      *)

\* Whatever races, two items never have one registration number
\* (models/evidence.py:15): the lookups can be stale, the index cannot.  Proved, not
\* checked by a run.
UniqueNumbers ==
    \A e, f \in DOMAIN evidence :
        evidence[e].registration_number = evidence[f].registration_number => e = f
=============================================================================
