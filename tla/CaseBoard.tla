------------------------------ MODULE CaseBoard ------------------------------
(***************************************************************************)
(* Cases and their tasks (backend/services/case_service.py, d.6): the      *)
(* reference number, the status, the Kanban board and what the audit log   *)
(* says of them.                                                           *)
(*                                                                         *)
(* A request reads in separate statements, locks nothing and writes in one *)
(* commit, with its audit entry.  An UPDATE sets only the columns whose    *)
(* value differs from the one the request read.  created_at is the time    *)
(* the transaction began, at the first statement of the request.           *)
(*                                                                         *)
(* Bounds: the sets; MaxSequence, the highest number of a day; MaxRows.     *)
(***************************************************************************)
EXTENDS Naturals, FiniteSets

CONSTANTS
    Cases,       \* case ids
    Tasks,       \* task ids
    Workers,     \* request threads
    Initials,    \* what titles begin with
    LastDay,     \* WIB days are 1..LastDay
    Manual,      \* reference numbers typed in by users
    CasePatches, \* payloads of update_case
    TaskPatches, \* payloads of update_task
    DueDates,    \* dates of new tasks
    Statuses,    \* statuses asked for by update_case_status
    MaxSequence,
    MaxRows,     \* cases and tasks in all
    None,        \* SQL NULL
    Unset        \* a field left out of a payload

Days == 1..LastDay
Numbers == Initials \X Days \X (1..MaxSequence)

CaseStatus == {"open", "in_progress", "closed"}
TaskStatus == {"todo", "in_progress", "done"}

\* The fields of an update that matter here; dated: it carries registered_at.
CasePatch == [reference_number : Manual \cup {None, Unset}, dated : BOOLEAN]
TaskPatch == [status : TaskStatus \cup {None, Unset}, due_date : Days \cup {None, Unset}]

ASSUME CaseAssumption ==
    /\ IsFiniteSet(Cases) /\ IsFiniteSet(Tasks) /\ Cases \cap Tasks = {}
    /\ LastDay \in Nat \ {0}
    /\ MaxSequence \in Nat /\ MaxRows \in Nat
    /\ Manual \subseteq Numbers
    /\ CasePatches \subseteq CasePatch
    /\ TaskPatches \subseteq TaskPatch
    /\ Statuses \subseteq CaseStatus
    /\ DueDates \subseteq Days \cup {None}
    /\ None \notin Numbers \cup Days \cup TaskStatus
    /\ Unset \notin Numbers \cup Days \cup TaskStatus \cup {None}

VARIABLES
    cases,    \* table cases
    tasks,    \* table tasks
    logged,   \* the status in the last audit entry that has one, for a case or task
    today,    \* the WIB day
    session,  \* what each request thread is doing
    alone     \* TRUE in behaviours whose requests run one at a time

vars == <<cases, tasks, logged, today, session, alone>>

\* A case; typed tells whether a user typed its number.
CaseRow == [reference_number : Numbers, typed : BOOLEAN, created_at : Days, status : CaseStatus]
TaskRow == [case_id : Cases, status : TaskStatus, due_date : Days \cup {None}]

Idle == [op |-> "idle"]
Sessions ==
    {Idle}
    \cup [op : {"create"}, pc : {"count", "date", "unique", "commit"}, id : Cases,
          initials : Initials, created_at : Days, count : Nat,
          number : Numbers \cup {None}, typed : BOOLEAN]
    \cup [op : {"update"}, pc : {"unique", "commit"}, id : Cases,
          before : Numbers, patch : CasePatches]
    \cup [op : {"status"}, id : Cases, before : CaseStatus, status : CaseStatus]
    \cup [op : {"add"}, id : Tasks, case_id : Cases, due_date : DueDates]
    \cup [op : {"edit"}, id : Tasks, before : TaskRow, patch : TaskPatch]

TypeOK ==
    /\ DOMAIN cases \subseteq Cases /\ cases \in [DOMAIN cases -> CaseRow]
    /\ DOMAIN tasks \subseteq Tasks /\ tasks \in [DOMAIN tasks -> TaskRow]
    /\ logged \in [DOMAIN cases \cup DOMAIN tasks -> CaseStatus \cup TaskStatus]
    /\ today \in Days
    /\ session \in [Workers -> Sessions]
    /\ alone \in BOOLEAN

Busy(w) == session[w] # Idle
Ends(w) == session' = [session EXCEPT ![w] = Idle]
Begins(w, s) == ~Busy(w) /\ session' = [session EXCEPT ![w] = s]
Goes(w, pc) == session' = [session EXCEPT ![w] = [@ EXCEPT !.pc = pc]]

\* ids are made fresh: no other request in flight has this one.
Fresh(id, table) ==
    /\ id \notin DOMAIN table
    /\ \A v \in Workers : Busy(v) => session[v].id # id
    /\ Cardinality(DOMAIN cases \cup DOMAIN tasks)
           + Cardinality({v \in Workers : session[v].op \in {"create", "add"}}) < MaxRows

\* ensure_case_open
ensure_case_open(c) == cases[c].status # "closed"

\* _ensure_unique_reference_number
_ensure_unique_reference_number(number, others) ==
    \A c \in others : cases[c].reference_number # number

\* Fault: cases closed meanwhile are not counted.
CountOpen(day) ==
    Cardinality({c \in DOMAIN cases : cases[c].created_at = day /\ cases[c].status # "closed"})

\* The cases created on a day, as _generate_reference_number counts them.
Count(day) == Cardinality({c \in DOMAIN cases : cases[c].created_at = day})

Extend(f, x, value) == [y \in DOMAIN f \cup {x} |-> IF y = x THEN value ELSE f[y]]

----------------------------------------------------------------------------
Init ==
    /\ cases = << >> /\ tasks = << >> /\ logged = << >>
    /\ today = 1
    /\ session = [w \in Workers |-> Idle]
    /\ alone \in BOOLEAN

\* create_case: the transaction begins; a number not typed in is to be made.
CreateStart(w, c, initials, number) ==
    /\ Fresh(c, cases)
    /\ Begins(w, [op |-> "create", pc |-> IF number = None THEN "count" ELSE "unique",
                  id |-> c, initials |-> initials, created_at |-> today, count |-> 0,
                  number |-> number, typed |-> number # None])
    /\ UNCHANGED <<cases, tasks, logged, today, alone>>

\* ... _generate_reference_number counts the cases of the day ...
CreateCount(w) ==
    /\ session[w].op = "create" /\ session[w].pc = "count"
    /\ session' = [session EXCEPT ![w] = [@ EXCEPT !.pc = "date", !.count = Count(today)]]
    /\ UNCHANGED <<cases, tasks, logged, today, alone>>

\* ... and then reads the clock once more for the date in the number; ...
CreateDate(w) ==
    LET s == session[w] IN
    /\ s.op = "create" /\ s.pc = "date"
    /\ s.count < MaxSequence
    /\ session' = [session EXCEPT ![w] =
           [s EXCEPT !.pc = "unique", !.number = <<s.initials, today, s.count + 1>>]]
    /\ UNCHANGED <<cases, tasks, logged, today, alone>>

\* ... it must be free (409); ...
CreateUnique(w) ==
    LET s == session[w] IN
    /\ s.op = "create" /\ s.pc = "unique"
    /\ IF _ensure_unique_reference_number(s.number, DOMAIN cases)
         THEN Goes(w, "commit") ELSE Ends(w)
    /\ UNCHANGED <<cases, tasks, logged, today, alone>>

\* ... and the row is inserted unless the unique index refuses it.
CreateCommit(w) ==
    LET s == session[w] IN
    /\ s.op = "create" /\ s.pc = "commit"
    /\ IF _ensure_unique_reference_number(s.number, DOMAIN cases)
         THEN /\ cases' = Extend(cases, s.id,
                    [reference_number |-> s.number, typed |-> s.typed,
                     created_at |-> s.created_at, status |-> "open"])
              /\ logged' = Extend(logged, s.id, "open")
         ELSE UNCHANGED <<cases, logged>>
    /\ Ends(w)
    /\ UNCHANGED <<tasks, today, alone>>

\* update_case, of open and closed cases alike: the row is read; ...
UpdateStart(w, c, patch) ==
    /\ c \in DOMAIN cases
    /\ Begins(w, [op |-> "update", id |-> c, before |-> cases[c].reference_number, patch |-> patch,
                  pc |-> IF patch.reference_number \in {Unset, cases[c].reference_number}
                         THEN "commit" ELSE "unique"])
    /\ UNCHANGED <<cases, tasks, logged, today, alone>>

\* ... another number must be free among the other cases (409); ...
UpdateUnique(w) ==
    LET s == session[w] IN
    /\ s.op = "update" /\ s.pc = "unique"
    /\ IF _ensure_unique_reference_number(s.patch.reference_number, DOMAIN cases \ {s.id})
         THEN Goes(w, "commit") ELSE Ends(w)
    /\ UNCHANGED <<cases, tasks, logged, today, alone>>

\* ... and is written.  The commit fails, without effect, on a date in the JSON of
\* the audit entry, on a number set to NULL and on one the index knows.
UpdateCommit(w) ==
    LET s == session[w]
        number == s.patch.reference_number
    IN
    /\ s.op = "update" /\ s.pc = "commit"
    /\ cases' =
           IF \/ s.patch.dated
              \/ number \in {None, Unset, s.before}
              \/ ~_ensure_unique_reference_number(number, DOMAIN cases \ {s.id})
           THEN cases
           ELSE [cases EXCEPT ![s.id].reference_number = number, ![s.id].typed = TRUE]
    /\ Ends(w)
    /\ UNCHANGED <<tasks, logged, today, alone>>

\* update_case_status: any status may follow any other.
StatusStart(w, c, status) ==
    /\ c \in DOMAIN cases
    /\ Begins(w, [op |-> "status", id |-> c, before |-> cases[c].status, status |-> status])
    /\ UNCHANGED <<cases, tasks, logged, today, alone>>

\* What an UPDATE leaves in a column.
Column(now, before, new) == IF new = before THEN now ELSE new

\* Fault: the audit entry is made before the new status is set.
StatusLogsOld(w) ==
    LET s == session[w] IN
    /\ s.op = "status"
    /\ cases' = [cases EXCEPT ![s.id].status = Column(@, s.before, s.status)]
    /\ logged' = [logged EXCEPT ![s.id] = s.before]
    /\ Ends(w)
    /\ UNCHANGED <<tasks, today, alone>>

\* ... and is written with its audit entry.
StatusCommit(w) ==
    LET s == session[w] IN
    /\ s.op = "status"
    /\ cases' = [cases EXCEPT ![s.id].status = Column(@, s.before, s.status)]
    /\ logged' = [logged EXCEPT ![s.id] = s.status]
    /\ Ends(w)
    /\ UNCHANGED <<tasks, today, alone>>

\* Fault: tasks are added to any case.
TaskInAnyCase(w, t, c, due) ==
    /\ c \in DOMAIN cases
    /\ Fresh(t, tasks)
    /\ Begins(w, [op |-> "add", id |-> t, case_id |-> c, due_date |-> due])
    /\ UNCHANGED <<cases, tasks, logged, today, alone>>

\* create_task: the case must be open (409), ...
TaskStart(w, t, c, due) ==
    /\ c \in DOMAIN cases
    /\ ensure_case_open(c)
    /\ Fresh(t, tasks)
    /\ Begins(w, [op |-> "add", id |-> t, case_id |-> c, due_date |-> due])
    /\ UNCHANGED <<cases, tasks, logged, today, alone>>

\* ... and the task begins at the left of the board.
TaskCommit(w) ==
    LET s == session[w] IN
    /\ s.op = "add"
    /\ tasks' = Extend(tasks, s.id,
           [case_id |-> s.case_id, status |-> "todo", due_date |-> s.due_date])
    /\ logged' = Extend(logged, s.id, "todo")
    /\ Ends(w)
    /\ UNCHANGED <<cases, today, alone>>

API_TO_DB_STATUS == [TODO |-> "todo", IN_PROGRESS |-> "in_progress", DONE |-> "done"]
KANBAN_COLUMNS == DOMAIN API_TO_DB_STATUS

\* update_task: the task is read; its case may be closed.
EditStart(w, t, patch) ==
    /\ t \in DOMAIN tasks
    /\ Begins(w, [op |-> "edit", id |-> t, before |-> tasks[t], patch |-> patch])
    /\ UNCHANGED <<cases, tasks, logged, today, alone>>

\* move_task: the column names the status; the case may be closed.
MoveStart(w, t, column) ==
    EditStart(w, t, [status |-> API_TO_DB_STATUS[column], due_date |-> Unset])

\* Fault: the row is written as it was read, with the new fields.
EditWholeRow(w) ==
    LET s == session[w]
        status == s.patch.status
    IN
    /\ s.op = "edit"
    /\ IF status = None \/ s.patch.due_date \in Days
         THEN UNCHANGED <<tasks, logged>>
         ELSE /\ tasks' = [tasks EXCEPT
                    ![s.id].status = IF status = Unset THEN s.before.status ELSE status,
                    ![s.id].due_date = IF s.patch.due_date = Unset THEN @ ELSE None]
              /\ logged' = IF status = Unset THEN logged ELSE [logged EXCEPT ![s.id] = status]
    /\ Ends(w)
    /\ UNCHANGED <<cases, today, alone>>

\* Both write the fields given.  A date fails in the JSON of the audit entry, a NULL
\* status at its column, and then nothing is written; a NULL date clears the column.
EditCommit(w) ==
    LET s == session[w]
        status == s.patch.status
    IN
    /\ s.op = "edit"
    /\ IF status = None \/ s.patch.due_date \in Days
         THEN UNCHANGED <<tasks, logged>>
         ELSE /\ tasks' = [tasks EXCEPT
                    ![s.id].status = IF status = Unset THEN @ ELSE Column(@, s.before.status, status),
                    ![s.id].due_date = IF s.patch.due_date = Unset THEN @
                                       ELSE Column(@, s.before.due_date, None)]
              /\ logged' = IF status = Unset THEN logged ELSE [logged EXCEPT ![s.id] = status]
    /\ Ends(w)
    /\ UNCHANGED <<cases, today, alone>>

\* A request fails or is lost before its commit.
Abort(w) ==
    /\ Busy(w)
    /\ Ends(w)
    /\ UNCHANGED <<cases, tasks, logged, today, alone>>

\* Midnight in Jakarta.
Midnight ==
    /\ today < LastDay
    /\ today' = today + 1
    /\ UNCHANGED <<cases, tasks, logged, session, alone>>

Next ==
    /\ \/ \E w \in Workers :
              \/ \E c \in Cases, i \in Initials, n \in Manual \cup {None} : CreateStart(w, c, i, n)
              \/ CreateCount(w)
              \/ CreateDate(w)
              \/ CreateUnique(w)
              \/ CreateCommit(w)
              \/ \E c \in Cases, patch \in CasePatches : UpdateStart(w, c, patch)
              \/ UpdateUnique(w)
              \/ UpdateCommit(w)
              \/ \E c \in Cases, status \in Statuses : StatusStart(w, c, status)
              \/ StatusCommit(w)
              \/ \E t \in Tasks, c \in Cases, due \in DueDates : TaskStart(w, t, c, due)
              \/ TaskCommit(w)
              \/ \E t \in Tasks, patch \in TaskPatches : EditStart(w, t, patch)
              \/ \E t \in Tasks, column \in KANBAN_COLUMNS : MoveStart(w, t, column)
              \/ EditCommit(w)
              \/ Abort(w)
       \/ Midnight
    /\ alone' => \A v, w \in Workers : Busy(v)' /\ Busy(w)' => v = w

Spec == Init /\ [][Next]_vars

----------------------------------------------------------------------------
(* What the pages show.                                                    *)

TasksOf(c) == {t \in DOMAIN tasks : tasks[t].case_id = c}

get_kanban_board(c) ==
    [column \in KANBAN_COLUMNS |->
        {t \in TasksOf(c) : tasks[t].status = API_TO_DB_STATUS[column]}]

Overdue(t) ==
    tasks[t].due_date # None /\ tasks[t].due_date < today /\ tasks[t].status # "done"

----------------------------------------------------------------------------
(* Properties.                                                             *)

\* "Case reference number already exists" (case_service.py:402): whatever races, no
\* two cases have one number; the lookups can be stale, the index cannot.
UniqueNumbers ==
    \A c, d \in DOMAIN cases :
        cases[c].reference_number = cases[d].reference_number => c = d

\* A creation without a number is refused (409, or 500 at the index) only for a
\* number that someone typed in, for that of a case made across midnight or, when
\* requests race, because a case of that day was added after it had counted them
\* (case_service.py:380-402).  Requests that run one at a time never meet the number
\* of a case made within one day: the count of the day's cases, closed or not, has
\* passed it.
GeneratedNumberRefused ==
    \A w \in Workers :
        LET s == session[w] IN
        s.op = "create" /\ s.pc \in {"unique", "commit"} /\ ~s.typed =>
            \A c \in DOMAIN cases : cases[c].reference_number = s.number =>
                \/ cases[c].typed
                \/ cases[c].created_at # s.number[2]
                \/ ~alone /\ s.count < Count(s.number[2])

\* Why GeneratedNumberRefused holds: a number made for a case of its own day is no
\* higher than the cases of that day.
NumbersCounted ==
    \A c \in DOMAIN cases :
        LET number == cases[c].reference_number IN
        ~cases[c].typed /\ cases[c].created_at = number[2] => number[3] <= Count(number[2])

\* "Cannot create tasks on a closed case" (case_guards.py:9): of requests that run one
\* at a time none adds a task to a closed case.
NoTaskJoinsClosed ==
    [][alone => \A t \in DOMAIN tasks' \ DOMAIN tasks :
                    cases[tasks'[t].case_id].status # "closed"]_vars

\* The audit log and the board agree: of requests that run one at a time the last
\* logged status of a case is its status, and a task stands in the column its last
\* logged move names (case_service.py:168, 342, 365).
LogTellsStatus ==
    alone =>
        /\ \A c \in DOMAIN cases : cases[c].status = logged[c]
        /\ \A t \in DOMAIN tasks : \E column \in KANBAN_COLUMNS :
               /\ API_TO_DB_STATUS[column] = logged[t]
               /\ t \in get_kanban_board(tasks[t].case_id)[column]

\* Two people edit a task at once (a move on the board and a form): the status
\* changes only to what the request that commits asked for, never back to what it
\* read (case_service.py:312-324).
NoMoveUndone ==
    [][\A t \in DOMAIN tasks :
           tasks'[t].status # tasks[t].status =>
               \E w \in Workers :
                   /\ session[w].op = "edit" /\ session[w].id = t
                   /\ session[w].patch.status = tasks'[t].status]_vars

\* A task that is overdue stays so until it is done or its date is cleared: no
\* update can set a later date, since the audit entry cannot hold one
\* (case_service.py:195, 321).
OverdueUntilDone ==
    [][\A t \in DOMAIN tasks :
           Overdue(t) => Overdue(t)' \/ tasks'[t].status = "done" \/ tasks'[t].due_date = None]_vars
=============================================================================
