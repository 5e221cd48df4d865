--------------------------- MODULE CaseworkProofs ----------------------------
(* Theorems about CaseBoard and OrgHierarchy, for every value of their
   constants. *)
EXTENDS Casework, FiniteSetTheorems, TLAPS

----------------------------------------------------------------------------
(* Type correctness, whatever races.                                       *)

\* The rows a request works on are there, and a number to be checked is made.
Ready ==
    \A w \in Workers :
        /\ session[w].op \in {"update", "status"} => session[w].id \in DOMAIN cases
        /\ session[w].op = "edit" => session[w].id \in DOMAIN tasks
        /\ session[w].op = "add" => session[w].case_id \in DOMAIN cases
        /\ session[w].op = "create" /\ session[w].pc \in {"unique", "commit"} =>
               session[w].number \in Numbers

TypeInv == TypeOK /\ Ready

LEMMA InitTypeInv == Init => TypeInv
<1> SUFFICES ASSUME Init PROVE TypeInv
  OBVIOUS
<1>1. cases \in [{} -> CaseRow] /\ tasks \in [{} -> TaskRow]
      /\ logged \in [{} -> CaseStatus \cup TaskStatus]
  BY DEF Init
<1>2. today \in Days
  BY CaseAssumption DEF Init, CaseAssumption, Days
<1>3. Idle \in Sessions
  BY DEF Sessions
<1>4. DOMAIN cases = {} /\ DOMAIN tasks = {}
  BY DEF Init
<1>5. QED
  BY <1>1, <1>2, <1>3, <1>4 DEF Init, TypeInv, TypeOK, Ready, Idle

\* A creation in progress.
CreateSession ==
    [op : {"create"}, pc : {"count", "date", "unique", "commit"}, id : Cases,
     initials : Initials, created_at : Days, count : Nat, number : Numbers \cup {None},
     typed : BOOLEAN]

LEMMA CreateMoves ==
  ASSUME NEW r \in CreateSession
  PROVE  /\ r \in Sessions
         /\ \A n \in Nat : [r EXCEPT !.pc = "date", !.count = n] \in CreateSession
         /\ \A n \in Numbers : [r EXCEPT !.pc = "unique", !.number = n] \in CreateSession
         /\ [r EXCEPT !.pc = "commit"] \in CreateSession
<1>1. r \in Sessions
  BY DEF CreateSession, Sessions
<1>2. QED
  BY <1>1 DEF CreateSession

\* What is known of the session of a thread by its operation.
LEMMA SessionOf ==
  ASSUME TypeOK, NEW w \in Workers
  PROVE  /\ session[w].op = "create" =>
                session[w] \in CreateSession
         /\ session[w].op = "update" =>
                session[w] \in [op : {"update"}, pc : {"unique", "commit"}, id : Cases,
                    before : Numbers, patch : CasePatches]
         /\ session[w].op = "status" =>
                session[w] \in [op : {"status"}, id : Cases, before : CaseStatus,
                                status : CaseStatus]
         /\ session[w].op = "add" =>
                session[w] \in [op : {"add"}, id : Tasks, case_id : Cases, due_date : DueDates]
         /\ session[w].op = "edit" =>
                session[w] \in [op : {"edit"}, id : Tasks, before : TaskRow, patch : TaskPatch]
         /\ session[w].op = "idle" => session[w] = Idle
         /\ session[w].op \in {"idle", "create", "update", "status", "add", "edit"}
<1> session[w] \in Sessions
  BY DEF TypeOK
<1> QED
  BY DEF Sessions, Idle, CreateSession

\* A step that changes nothing but the session of w.
LEMMA SessionStep ==
  ASSUME TypeInv, NEW w \in Workers, NEW s \in Sessions,
         session' = [session EXCEPT ![w] = s],
         UNCHANGED <<cases, tasks, logged, today, alone>>,
         s.op \in {"update", "status"} => s.id \in DOMAIN cases,
         s.op = "edit" => s.id \in DOMAIN tasks,
         s.op = "add" => s.case_id \in DOMAIN cases,
         s.op = "create" /\ s.pc \in {"unique", "commit"} => s.number \in Numbers
  PROVE  TypeInv'
  BY DEF TypeInv, TypeOK, Ready

\* A step that ends the request of w and loses no row.
LEMMA EndStep ==
  ASSUME TypeInv, NEW w \in Workers, Ends(w), UNCHANGED <<today, alone>>,
         DOMAIN cases \subseteq DOMAIN cases', DOMAIN tasks \subseteq DOMAIN tasks',
         DOMAIN cases' \subseteq Cases, cases' \in [DOMAIN cases' -> CaseRow],
         DOMAIN tasks' \subseteq Tasks, tasks' \in [DOMAIN tasks' -> TaskRow],
         logged' \in [DOMAIN cases' \cup DOMAIN tasks' -> CaseStatus \cup TaskStatus]
  PROVE  TypeInv'
<1>1. Idle \in Sessions
  BY DEF Sessions
<1>2. session' \in [Workers -> Sessions]
  BY <1>1 DEF TypeInv, TypeOK, Ends
<1>3. \A v \in Workers : session'[v] = session[v] \/ session'[v] = Idle
  BY DEF Ends, TypeInv, TypeOK
<1>4. Ready'
  BY <1>3 DEF TypeInv, Ready, Idle
<1>5. QED
  BY <1>2, <1>4 DEF TypeInv, TypeOK

LEMMA NextTypeInv == TypeInv /\ [Next]_vars => TypeInv'
<1> SUFFICES ASSUME TypeInv, [Next]_vars PROVE TypeInv'
  OBVIOUS
<1> TypeOK /\ Ready
  BY DEF TypeInv
<1> USE CaseAssumption DEF CaseAssumption
<1>1. CASE UNCHANGED vars
  BY <1>1 DEF vars, TypeInv, TypeOK, Ready
<1>2. ASSUME NEW w \in Workers, NEW c \in Cases, NEW i \in Initials,
             NEW n \in Manual \cup {None}, CreateStart(w, c, i, n)
      PROVE  TypeInv'
  <2> DEFINE s == [op |-> "create", pc |-> IF n = None THEN "count" ELSE "unique",
                   id |-> c, initials |-> i, created_at |-> today, count |-> 0,
                   number |-> n, typed |-> n # None]
  <2>1. s \in Sessions
    BY DEF Sessions, TypeOK
  <2>2. s.op = "create" /\ (s.pc \in {"unique", "commit"} => s.number \in Numbers)
    OBVIOUS
  <2> HIDE DEF s
  <2>3. session' = [session EXCEPT ![w] = s] /\ UNCHANGED <<cases, tasks, logged, today, alone>>
    BY <1>2 DEF CreateStart, Begins, s
  <2>4. QED
    BY <2>1, <2>2, <2>3, SessionStep
<1>3. ASSUME NEW w \in Workers, CreateCount(w)
      PROVE  TypeInv'
  <2> DEFINE s == [session[w] EXCEPT !.pc = "date", !.count = Count(today)]
  <2>1. IsFiniteSet({c \in DOMAIN cases : cases[c].created_at = today})
    BY FS_Subset DEF TypeOK
  <2>2. Count(today) \in Nat
    BY <2>1, FS_CardinalityType DEF Count
  <2>A. session[w] \in CreateSession
    BY <1>3, SessionOf DEF CreateCount
  <2>B. s \in CreateSession
    BY <2>2, <2>A, CreateMoves
  <2>3. s \in Sessions /\ s.op = "create" /\ s.pc = "date"
    BY <2>B, <2>A, CreateMoves DEF CreateSession
  <2> HIDE DEF s
  <2>4. session' = [session EXCEPT ![w] = s] /\ UNCHANGED <<cases, tasks, logged, today, alone>>
    BY <1>3 DEF CreateCount, s, TypeOK
  <2>5. QED
    BY <2>3, <2>4, SessionStep
<1>4. ASSUME NEW w \in Workers, CreateDate(w)
      PROVE  TypeInv'
  <2> DEFINE s == [session[w] EXCEPT !.pc = "unique",
                       !.number = <<session[w].initials, today, session[w].count + 1>>]
  <2>1. session[w].op = "create" /\ session[w].count < MaxSequence
    BY <1>4 DEF CreateDate
  <2>A. session[w] \in CreateSession
    BY <2>1, SessionOf
  <2>2. session[w].initials \in Initials /\ session[w].count \in Nat
    BY <2>A DEF CreateSession
  <2>3. <<session[w].initials, today, session[w].count + 1>> \in Numbers
    BY <2>1, <2>2 DEF Numbers, TypeOK
  <2>4. s \in Sessions /\ s.op = "create" /\ s.number \in Numbers
    <3>1. s \in CreateSession
      BY <2>A, <2>3, CreateMoves
    <3>2. QED
      BY <3>1, <2>A, <2>3, CreateMoves DEF CreateSession
  <2> HIDE DEF s
  <2>5. session' = [session EXCEPT ![w] = s] /\ UNCHANGED <<cases, tasks, logged, today, alone>>
    BY <1>4 DEF CreateDate, s
  <2>6. QED
    BY <2>4, <2>5, SessionStep
<1>5. ASSUME NEW w \in Workers, Ends(w), UNCHANGED <<cases, tasks, logged, today, alone>>
      PROVE  TypeInv'
  BY <1>5, EndStep DEF TypeOK
<1>6. ASSUME NEW w \in Workers, CreateUnique(w)
      PROVE  TypeInv'
  <2> DEFINE s == [session[w] EXCEPT !.pc = "commit"]
  <2>1. session[w].op = "create" /\ session[w].pc = "unique"
        /\ UNCHANGED <<cases, tasks, logged, today, alone>> /\ (Goes(w, "commit") \/ Ends(w))
    BY <1>6 DEF CreateUnique
  <2>2. s \in Sessions /\ s.op = "create" /\ s.number \in Numbers
    BY <2>1, SessionOf, CreateMoves DEF CreateSession, Ready
  <2>3. Goes(w, "commit") => session' = [session EXCEPT ![w] = s]
    BY DEF Goes
  <2> HIDE DEF s
  <2>4. QED
    BY <1>5, <2>1, <2>2, <2>3, SessionStep
<1>7. ASSUME NEW w \in Workers, CreateCommit(w)
      PROVE  TypeInv'
  <2> DEFINE row == [reference_number |-> session[w].number, typed |-> session[w].typed,
                     created_at |-> session[w].created_at, status |-> "open"]
  <2>1. row \in CaseRow /\ session[w].id \in Cases
    BY <1>7, SessionOf DEF CreateCommit, CreateSession, CaseRow, CaseStatus, Ready
  <2> HIDE DEF row
  <2>2. Ends(w) /\ UNCHANGED <<tasks, today, alone>>
    BY <1>7 DEF CreateCommit
  <2>3. CASE UNCHANGED <<cases, logged>>
    BY <1>5, <2>2, <2>3
  <2>4. CASE cases' = Extend(cases, session[w].id, row) /\ logged' = Extend(logged, session[w].id, "open")
    <3>1. DOMAIN cases' = DOMAIN cases \cup {session[w].id} /\ cases' \in [DOMAIN cases' -> CaseRow]
      BY <2>1, <2>4 DEF Extend, TypeOK
    <3>2. logged' \in [DOMAIN cases' \cup DOMAIN tasks' -> CaseStatus \cup TaskStatus]
      BY <2>2, <2>4, <3>1 DEF Extend, TypeOK, CaseStatus
    <3>3. QED
      BY <2>1, <2>2, <3>1, <3>2, EndStep DEF TypeOK
  <2>5. QED
    BY <1>7, <2>3, <2>4 DEF CreateCommit, row
<1>8. ASSUME NEW w \in Workers, NEW c \in Cases, NEW patch \in CasePatches, UpdateStart(w, c, patch)
      PROVE  TypeInv'
  <2> DEFINE s == [op |-> "update", id |-> c, before |-> cases[c].reference_number,
                   patch |-> patch,
                   pc |-> IF patch.reference_number \in {Unset, cases[c].reference_number}
                          THEN "commit" ELSE "unique"]
  <2>1. c \in DOMAIN cases /\ cases[c].reference_number \in Numbers
    BY <1>8 DEF UpdateStart, TypeOK, CaseRow
  <2>2. s \in Sessions /\ s.op = "update" /\ s.id = c
    BY <2>1 DEF Sessions
  <2>3. session' = [session EXCEPT ![w] = s] /\ UNCHANGED <<cases, tasks, logged, today, alone>>
    BY <1>8 DEF UpdateStart, Begins
  <2> HIDE DEF s
  <2>4. QED
    BY <2>1, <2>2, <2>3, SessionStep
<1>9. ASSUME NEW w \in Workers, UpdateUnique(w)
      PROVE  TypeInv'
  <2> DEFINE s == [session[w] EXCEPT !.pc = "commit"]
  <2>1. session[w].op = "update"
        /\ UNCHANGED <<cases, tasks, logged, today, alone>> /\ (Goes(w, "commit") \/ Ends(w))
    BY <1>9 DEF UpdateUnique
  <2>2. s \in Sessions /\ s.op = "update" /\ s.id \in DOMAIN cases
    BY <2>1, SessionOf DEF Sessions, Ready
  <2>3. Goes(w, "commit") => session' = [session EXCEPT ![w] = s]
    BY DEF Goes
  <2> HIDE DEF s
  <2>4. QED
    BY <1>5, <2>1, <2>2, <2>3, SessionStep
<1>10. ASSUME NEW w \in Workers, UpdateCommit(w)
      PROVE  TypeInv'
  <2> DEFINE number == session[w].patch.reference_number
             id == session[w].id
             one == [cases EXCEPT ![id].reference_number = number]
             more == [one EXCEPT ![id].typed = TRUE]
  <2>1. session[w].op = "update" /\ session[w].id \in DOMAIN cases
    BY <1>10 DEF UpdateCommit, Ready
  <2>2. number \in Numbers \cup {None, Unset}
    BY <2>1, SessionOf DEF CasePatch
  <2>3. number \notin {None, Unset} => DOMAIN more = DOMAIN cases /\ more \in [DOMAIN cases -> CaseRow]
    <3> SUFFICES ASSUME number \notin {None, Unset}
                 PROVE  DOMAIN more = DOMAIN cases /\ more \in [DOMAIN cases -> CaseRow]
      OBVIOUS
    <3>1. number \in Numbers /\ id \in DOMAIN cases /\ cases \in [DOMAIN cases -> CaseRow]
      BY <2>1, <2>2 DEF TypeOK
    <3> HIDE DEF number, id
    <3>2. one \in [DOMAIN cases -> CaseRow]
      BY <3>1 DEF CaseRow
    <3> HIDE DEF one
    <3>3. QED
      BY <3>1, <3>2 DEF CaseRow
  <2>4. cases' = cases \/ (number \notin {None, Unset} /\ cases' = more)
    BY <1>10 DEF UpdateCommit
  <2> HIDE DEF one, more
  <2>5. DOMAIN cases' = DOMAIN cases /\ cases' \in [DOMAIN cases -> CaseRow]
    BY <2>3, <2>4 DEF TypeOK
  <2>6. QED
    BY <1>10, <2>5, EndStep DEF UpdateCommit, TypeOK
<1>11. ASSUME NEW w \in Workers, NEW c \in Cases, NEW status \in Statuses, StatusStart(w, c, status)
      PROVE  TypeInv'
  <2> DEFINE s == [op |-> "status", id |-> c, before |-> cases[c].status, status |-> status]
  <2>1. c \in DOMAIN cases /\ cases[c].status \in CaseStatus
    BY <1>11 DEF StatusStart, TypeOK, CaseRow
  <2>2. s \in Sessions /\ s.op = "status" /\ s.id = c
    BY <2>1 DEF Sessions
  <2>3. session' = [session EXCEPT ![w] = s] /\ UNCHANGED <<cases, tasks, logged, today, alone>>
    BY <1>11 DEF StatusStart, Begins
  <2> HIDE DEF s
  <2>4. QED
    BY <2>1, <2>2, <2>3, SessionStep
<1>12. ASSUME NEW w \in Workers, StatusCommit(w)
      PROVE  TypeInv'
  <2>1. /\ session[w].op = "status" /\ session[w].id \in DOMAIN cases
        /\ session[w].status \in CaseStatus /\ Ends(w) /\ UNCHANGED <<tasks, today, alone>>
    BY <1>12, SessionOf DEF StatusCommit, Ready
  <2>2. DOMAIN cases' = DOMAIN cases /\ cases' \in [DOMAIN cases -> CaseRow]
    BY <1>12, <2>1 DEF StatusCommit, Column, TypeOK, CaseRow
  <2>3. logged' \in [DOMAIN cases \cup DOMAIN tasks -> CaseStatus \cup TaskStatus]
    BY <1>12, <2>1 DEF StatusCommit, TypeOK
  <2>4. QED
    BY <2>1, <2>2, <2>3, EndStep DEF TypeOK
<1>13. ASSUME NEW w \in Workers, NEW t \in Tasks, NEW c \in Cases, NEW due \in DueDates,
              TaskStart(w, t, c, due)
      PROVE  TypeInv'
  <2> DEFINE s == [op |-> "add", id |-> t, case_id |-> c, due_date |-> due]
  <2>1. s \in Sessions /\ s.op = "add" /\ s.case_id \in DOMAIN cases
    BY <1>13 DEF Sessions, TaskStart
  <2>2. session' = [session EXCEPT ![w] = s] /\ UNCHANGED <<cases, tasks, logged, today, alone>>
    BY <1>13 DEF TaskStart, Begins
  <2> HIDE DEF s
  <2>3. QED
    BY <2>1, <2>2, SessionStep
<1>14. ASSUME NEW w \in Workers, TaskCommit(w)
      PROVE  TypeInv'
  <2> DEFINE row == [case_id |-> session[w].case_id, status |-> "todo",
                     due_date |-> session[w].due_date]
  <2>1. row \in TaskRow /\ session[w].id \in Tasks
    BY <1>14, SessionOf DEF TaskCommit, TaskRow, TaskStatus
  <2> HIDE DEF row
  <2>2. /\ Ends(w) /\ UNCHANGED <<cases, today, alone>>
        /\ tasks' = Extend(tasks, session[w].id, row)
        /\ logged' = Extend(logged, session[w].id, "todo")
    BY <1>14 DEF TaskCommit, row
  <2>3. DOMAIN tasks' = DOMAIN tasks \cup {session[w].id} /\ tasks' \in [DOMAIN tasks' -> TaskRow]
    BY <2>1, <2>2 DEF Extend, TypeOK
  <2>4. logged' \in [DOMAIN cases' \cup DOMAIN tasks' -> CaseStatus \cup TaskStatus]
    BY <2>2, <2>3 DEF Extend, TypeOK, TaskStatus
  <2>5. QED
    BY <2>1, <2>2, <2>3, <2>4, EndStep DEF TypeOK
<1>15. ASSUME NEW w \in Workers, NEW t \in Tasks, NEW patch \in TaskPatch, EditStart(w, t, patch)
      PROVE  TypeInv'
  <2> DEFINE s == [op |-> "edit", id |-> t, before |-> tasks[t], patch |-> patch]
  <2>1. t \in DOMAIN tasks /\ tasks[t] \in TaskRow
    BY <1>15 DEF EditStart, TypeOK
  <2>2. s \in Sessions /\ s.op = "edit" /\ s.id = t
    BY <2>1 DEF Sessions
  <2>3. session' = [session EXCEPT ![w] = s] /\ UNCHANGED <<cases, tasks, logged, today, alone>>
    BY <1>15 DEF EditStart, Begins
  <2> HIDE DEF s
  <2>4. QED
    BY <2>1, <2>2, <2>3, SessionStep
<1>16. ASSUME NEW w \in Workers, NEW t \in Tasks, NEW column \in KANBAN_COLUMNS,
              MoveStart(w, t, column)
      PROVE  TypeInv'
  <2>1. [status |-> API_TO_DB_STATUS[column], due_date |-> Unset] \in TaskPatch
    BY DEF KANBAN_COLUMNS, API_TO_DB_STATUS, TaskPatch, TaskStatus
  <2>2. QED
    BY <1>15, <1>16, <2>1 DEF MoveStart
<1>17. ASSUME NEW w \in Workers, EditCommit(w)
      PROVE  TypeInv'
  <2> DEFINE status == session[w].patch.status
             due == session[w].patch.due_date
  <2>1. /\ session[w].op = "edit" /\ session[w].id \in DOMAIN tasks
        /\ status \in TaskStatus \cup {None, Unset} /\ due \in Days \cup {None, Unset}
        /\ Ends(w) /\ UNCHANGED <<cases, today, alone>>
    BY <1>17, SessionOf DEF EditCommit, Ready, TaskPatch
  <2>2. DOMAIN tasks' = DOMAIN tasks /\ tasks' \in [DOMAIN tasks -> TaskRow]
    BY <1>17, <2>1 DEF EditCommit, Column, TypeOK, TaskRow
  <2>3. logged' \in [DOMAIN cases \cup DOMAIN tasks -> CaseStatus \cup TaskStatus]
    BY <1>17, <2>1 DEF EditCommit, TypeOK
  <2>4. QED
    BY <2>1, <2>2, <2>3, EndStep DEF TypeOK
<1>18. ASSUME NEW w \in Workers, Abort(w)
      PROVE  TypeInv'
  BY <1>5, <1>18 DEF Abort
<1>19. ASSUME Midnight PROVE TypeInv'
  BY <1>19 DEF Midnight, TypeInv, TypeOK, Ready, Days
<1>20. QED
  BY <1>1, <1>2, <1>3, <1>4, <1>6, <1>7, <1>8, <1>9, <1>10, <1>11, <1>12, <1>13, <1>14, <1>15,
     <1>16, <1>17, <1>18, <1>19 DEF Next

\* Every reachable state is well typed, whatever requests race (case_service.py).
THEOREM TypeCorrect == Spec => []TypeOK
<1>1. TypeInv => TypeOK
  BY DEF TypeInv
<1>2. QED
  BY <1>1, InitTypeInv, NextTypeInv, PTL DEF Spec

----------------------------------------------------------------------------
(* New ids stay new until their commit.                                    *)

Adds(w) == session[w].op \in {"create", "add"}
FreshIds ==
    \A w \in Workers :
        /\ session[w].op = "create" => session[w].id \notin DOMAIN cases
        /\ session[w].op = "add" => session[w].id \notin DOMAIN tasks
        /\ \A v \in Workers : v # w /\ Adds(v) /\ Adds(w) => session[v].id # session[w].id

\* A step of w that leaves the ids in its session alone, or begins no addition.
LEMMA SameIds ==
  ASSUME TypeInv, FreshIds, NEW w \in Workers, UNCHANGED <<cases, tasks>>,
         \A v \in Workers : v # w => session'[v] = session[v],
         \/ session'[w].op = session[w].op /\ session'[w].id = session[w].id
         \/ session'[w].op \notin {"create", "add"}
  PROVE  FreshIds'
  BY DEF FreshIds, Adds

\* A request of w that begins with a fresh id.
LEMMA BeginsFresh ==
  ASSUME TypeInv, FreshIds, NEW w \in Workers, UNCHANGED <<cases, tasks>>,
         NEW s \in Sessions, session' = [session EXCEPT ![w] = s],
         \A v \in Workers : Busy(v) => session[v].id # s.id,
         \/ s.op = "create" /\ s.id \notin DOMAIN cases
         \/ s.op = "add" /\ s.id \notin DOMAIN tasks
  PROVE  FreshIds'
<1>1. session'[w] = s /\ \A v \in Workers : v # w => session'[v] = session[v]
  BY DEF TypeInv, TypeOK
<1>2. \A v \in Workers : Adds(v) => Busy(v)
  BY DEF Adds, Busy, Idle
<1>3. QED
  BY <1>1, <1>2 DEF FreshIds, Adds

\* A commit of w adds its own row.
LEMMA AddsOwn ==
  ASSUME TypeInv, FreshIds, NEW w \in Workers, Ends(w),
         \/ DOMAIN cases' = DOMAIN cases
         \/ session[w].op = "create" /\ DOMAIN cases' = DOMAIN cases \cup {session[w].id},
         \/ DOMAIN tasks' = DOMAIN tasks
         \/ session[w].op = "add" /\ DOMAIN tasks' = DOMAIN tasks \cup {session[w].id}
  PROVE  FreshIds'
<1>1. session'[w].op = "idle" /\ \A v \in Workers : v # w => session'[v] = session[v]
  BY DEF TypeInv, TypeOK, Ends, Idle
<1>2. QED
  BY <1>1 DEF FreshIds, Adds

LEMMA NextFresh == TypeInv /\ FreshIds /\ [Next]_vars => FreshIds'
<1> SUFFICES ASSUME TypeInv, FreshIds, [Next]_vars PROVE FreshIds'
  OBVIOUS
<1> TypeOK /\ Ready
  BY DEF TypeInv
<1>1. CASE UNCHANGED vars
  BY <1>1 DEF vars, FreshIds, Adds
<1>2. ASSUME NEW w \in Workers, NEW c \in Cases, NEW i \in Initials,
             NEW n \in Manual \cup {None}, CreateStart(w, c, i, n)
      PROVE  FreshIds'
  <2> DEFINE s == [op |-> "create", pc |-> IF n = None THEN "count" ELSE "unique",
                   id |-> c, initials |-> i, created_at |-> today, count |-> 0,
                   number |-> n, typed |-> n # None]
  <2>1. s \in Sessions
    BY CaseAssumption DEF Sessions, TypeOK, CaseAssumption
  <2>2. s.op = "create" /\ s.id = c
    OBVIOUS
  <2> HIDE DEF s
  <2>3. session' = [session EXCEPT ![w] = s] /\ UNCHANGED <<cases, tasks>>
    BY <1>2 DEF CreateStart, Begins, s
  <2>4. c \notin DOMAIN cases /\ \A v \in Workers : Busy(v) => session[v].id # c
    BY <1>2 DEF CreateStart, Fresh
  <2>5. QED
    BY <2>1, <2>2, <2>3, <2>4, BeginsFresh
<1>3. ASSUME NEW w \in Workers, NEW t \in Tasks, NEW c \in Cases, NEW due \in DueDates,
             TaskStart(w, t, c, due)
      PROVE  FreshIds'
  <2> DEFINE s == [op |-> "add", id |-> t, case_id |-> c, due_date |-> due]
  <2>1. s \in Sessions /\ s.op = "add" /\ s.id = t
    BY DEF Sessions
  <2> HIDE DEF s
  <2>2. session' = [session EXCEPT ![w] = s] /\ UNCHANGED <<cases, tasks>>
    BY <1>3 DEF TaskStart, Begins, s
  <2>3. t \notin DOMAIN tasks /\ \A v \in Workers : Busy(v) => session[v].id # t
    BY <1>3 DEF TaskStart, Fresh
  <2>4. QED
    BY <2>1, <2>2, <2>3, BeginsFresh
<1>4. ASSUME NEW w \in Workers, CreateCount(w) \/ CreateDate(w)
      PROVE  FreshIds'
  <2>1. session[w] \in CreateSession /\ UNCHANGED <<cases, tasks>>
    BY <1>4, SessionOf DEF CreateCount, CreateDate
  <2>2. /\ \A v \in Workers : v # w => session'[v] = session[v]
        /\ session'[w].op = session[w].op /\ session'[w].id = session[w].id
    BY <1>4, <2>1 DEF CreateCount, CreateDate, TypeOK, CreateSession
  <2>3. QED
    BY <2>1, <2>2, SameIds
<1>5. ASSUME NEW w \in Workers, Ends(w), UNCHANGED <<cases, tasks>>
      PROVE  FreshIds'
  BY <1>5, AddsOwn
<1>6. ASSUME NEW w \in Workers, CreateUnique(w) \/ UpdateUnique(w)
      PROVE  FreshIds'
  <2>1. /\ UNCHANGED <<cases, tasks>> /\ (Goes(w, "commit") \/ Ends(w))
        /\ session[w].op \in {"create", "update"}
    BY <1>6 DEF CreateUnique, UpdateUnique
  <2>2. ASSUME Goes(w, "commit") PROVE FreshIds'
    <3>1. /\ \A v \in Workers : v # w => session'[v] = session[v]
          /\ session'[w].op = session[w].op /\ session'[w].id = session[w].id
      BY <2>1, <2>2, SessionOf DEF Goes, TypeOK, CreateSession
    <3>2. QED
      BY <2>1, <3>1, SameIds
  <2>3. QED
    BY <1>5, <2>1, <2>2
<1>7. ASSUME NEW w \in Workers, CreateCommit(w)
      PROVE  FreshIds'
  <2>1. /\ session[w].op = "create" /\ Ends(w) /\ DOMAIN tasks' = DOMAIN tasks
        /\ DOMAIN cases' = DOMAIN cases \/ DOMAIN cases' = DOMAIN cases \cup {session[w].id}
    BY <1>7 DEF CreateCommit, Extend
  <2>2. QED
    BY <2>1, AddsOwn
<1>8. ASSUME NEW w \in Workers, TaskCommit(w)
      PROVE  FreshIds'
  <2>1. /\ session[w].op = "add" /\ Ends(w) /\ DOMAIN cases' = DOMAIN cases
        /\ DOMAIN tasks' = DOMAIN tasks \cup {session[w].id}
    BY <1>8 DEF TaskCommit, Extend
  <2>2. QED
    BY <2>1, AddsOwn
<1>9. ASSUME NEW w \in Workers, UpdateCommit(w) \/ StatusCommit(w) \/ EditCommit(w) \/ Abort(w)
      PROVE  FreshIds'
  <2>1. Ends(w) /\ DOMAIN cases' = DOMAIN cases /\ DOMAIN tasks' = DOMAIN tasks
    BY <1>9 DEF UpdateCommit, StatusCommit, EditCommit, Abort, TypeOK
  <2>2. QED
    BY <2>1, AddsOwn
<1>10. ASSUME NEW w \in Workers, NEW s, Begins(w, s), s.op \in {"update", "status", "edit"},
              UNCHANGED <<cases, tasks>>
       PROVE  FreshIds'
  <2>1. session'[w] = s /\ \A v \in Workers : v # w => session'[v] = session[v]
    BY <1>10 DEF Begins, TypeOK
  <2>2. QED
    BY <1>10, <2>1, SameIds
<1>11. ASSUME NEW w \in Workers, NEW c \in Cases, NEW patch \in CasePatches, UpdateStart(w, c, patch)
       PROVE  FreshIds'
  BY <1>10, <1>11 DEF UpdateStart
<1>12. ASSUME NEW w \in Workers, NEW c \in Cases, NEW status \in Statuses, StatusStart(w, c, status)
       PROVE  FreshIds'
  BY <1>10, <1>12 DEF StatusStart
<1>13. ASSUME NEW w \in Workers, NEW t \in Tasks, NEW patch, EditStart(w, t, patch)
       PROVE  FreshIds'
  BY <1>10, <1>13 DEF EditStart
<1>14. ASSUME Midnight PROVE FreshIds'
  BY <1>14 DEF Midnight, FreshIds, Adds
<1>15. QED
  BY <1>1, <1>2, <1>3, <1>4, <1>6, <1>7, <1>8, <1>9, <1>11, <1>12, <1>13, <1>14 DEF Next, MoveStart

----------------------------------------------------------------------------
(* Steps of tasks, whatever races.                                         *)

\* What an edit may do to a task.
LEMMA Edited ==
  ASSUME TypeInv, NEW w \in Workers, EditCommit(w), NEW t \in DOMAIN tasks
  PROVE  /\ tasks'[t].case_id = tasks[t].case_id
         /\ tasks'[t].due_date \in {tasks[t].due_date, None}
         /\ tasks'[t].status # tasks[t].status =>
                /\ session[w].op = "edit" /\ session[w].id = t
                /\ session[w].patch.status = tasks'[t].status
<1> TypeOK /\ Ready
  BY DEF TypeInv
<1>1. session[w].op = "edit" /\ session[w].id \in DOMAIN tasks
  BY DEF EditCommit, Ready
<1>2. session[w].patch \in TaskPatch
  BY <1>1, SessionOf
<1>3. tasks \in [DOMAIN tasks -> TaskRow] /\ tasks[t] \in TaskRow
  BY DEF TypeOK
<1>4. CASE session[w].patch.status = None \/ session[w].patch.due_date \in Days
  BY <1>1, <1>4 DEF EditCommit
<1>5. CASE ~(session[w].patch.status = None \/ session[w].patch.due_date \in Days)
  BY <1>1, <1>2, <1>3, <1>5 DEF EditCommit, Column, TaskRow
<1>6. QED
  BY <1>4, <1>5

\* What a step may do to a task.
LEMMA TaskStep ==
  ASSUME TypeInv, FreshIds, [Next]_vars, NEW t \in DOMAIN tasks
  PROVE  /\ \/ tasks'[t] = tasks[t]
            \/ \E w \in Workers : EditCommit(w)
         /\ today' >= today
<1>A. today' = today \/ Midnight
  BY DEF Next, vars, CreateStart, CreateCount, CreateDate, CreateUnique, CreateCommit,
     UpdateStart, UpdateUnique, UpdateCommit, StatusStart, StatusCommit, TaskStart, TaskCommit,
     EditStart, MoveStart, EditCommit, Abort
<1>0. today \in Nat /\ today' >= today
  BY <1>A DEF Midnight, TypeInv, TypeOK, Days
<1>1. ASSUME NEW w \in Workers, TaskCommit(w) PROVE tasks'[t] = tasks[t]
  BY <1>1 DEF TaskCommit, Extend, FreshIds
<1>2. \/ tasks' = tasks
      \/ \E w \in Workers : TaskCommit(w) \/ EditCommit(w)
  BY DEF Next, vars, CreateStart, CreateCount, CreateDate, CreateUnique, CreateCommit,
     UpdateStart, UpdateUnique, UpdateCommit, StatusStart, StatusCommit, TaskStart,
     EditStart, MoveStart, Abort, Midnight
<1>3. QED
  BY <1>0, <1>1, <1>2

LEMMA Invariants == Spec => [](TypeInv /\ FreshIds)
<1>1. Init => FreshIds
  BY DEF Init, FreshIds, Adds, Idle
<1>2. QED
  BY <1>1, InitTypeInv, NextTypeInv, NextFresh, PTL DEF Spec

\* A move on the board and a form that race: a task never goes back to the status
\* one of them read (case_service.py:312-324).
THEOREM MovesStand == Spec => NoMoveUndone
<1> DEFINE Step == \A t \in DOMAIN tasks :
                       tasks'[t].status # tasks[t].status =>
                           \E w \in Workers :
                               /\ session[w].op = "edit" /\ session[w].id = t
                               /\ session[w].patch.status = tasks'[t].status
<1>1. TypeInv /\ FreshIds /\ [Next]_vars => Step
  BY TaskStep, Edited
<1>2. QED
  BY <1>1, Invariants, PTL DEF Spec, NoMoveUndone

\* An overdue task stays overdue until it is done or its date is cleared: no update
\* gives it a later date (case_service.py:195, 321).
THEOREM OverdueStays == Spec => OverdueUntilDone
<1> DEFINE Step == \A t \in DOMAIN tasks :
                       Overdue(t) => Overdue(t)' \/ tasks'[t].status = "done"
                                     \/ tasks'[t].due_date = None
<1>1. TypeInv /\ FreshIds /\ [Next]_vars => Step
  <2> SUFFICES ASSUME TypeInv, FreshIds, [Next]_vars, NEW t \in DOMAIN tasks, Overdue(t),
                      tasks'[t].status # "done", tasks'[t].due_date # None
               PROVE  Overdue(t)'
    OBVIOUS
  <2>1. tasks[t].due_date \in Days /\ today \in Days /\ Days \subseteq Nat /\ today' >= today
    BY TaskStep DEF Overdue, TypeInv, TypeOK, TaskRow, Days
  <2>2. today' \in Nat
    BY NextTypeInv DEF TypeInv, TypeOK, Days
  <2>3. tasks'[t].due_date = tasks[t].due_date
    BY TaskStep, Edited
  <2>4. QED
    BY <2>1, <2>2, <2>3 DEF Overdue, Days
<1>2. QED
  BY <1>1, Invariants, PTL DEF Spec, OverdueUntilDone

----------------------------------------------------------------------------
(* Reference numbers, whatever races.                                      *)

\* What a step may do to the cases.
CasesGrow ==
    /\ DOMAIN cases \subseteq DOMAIN cases'
    /\ \A c \in DOMAIN cases : cases'[c].created_at = cases[c].created_at

\* Count and NumbersCounted, of a table.
CountIn(table, day) == Cardinality({c \in DOMAIN table : table[c].created_at = day})
Counted(table) ==
    \A c \in DOMAIN table :
        LET number == table[c].reference_number IN
        ~table[c].typed /\ table[c].created_at = number[2] => number[3] <= CountIn(table, number[2])

LEMMA CountsIn ==
  /\ \A day : Count(day) = CountIn(cases, day)
  /\ NumbersCounted = Counted(cases)
  /\ NumbersCounted' = Counted(cases')
  BY DEF NumbersCounted, Counted, Count, CountIn

LEMMA CountGrows ==
  ASSUME TypeInv, TypeInv', CasesGrow, NEW day
  PROVE  /\ CountIn(cases, day) \in Nat /\ CountIn(cases', day) \in Nat
         /\ CountIn(cases, day) <= CountIn(cases', day)
<1> DEFINE S == {c \in DOMAIN cases : cases[c].created_at = day}
           T == {c \in DOMAIN cases' : cases'[c].created_at = day}
<1>1. S \subseteq T /\ T \subseteq Cases
  BY DEF CasesGrow, TypeInv, TypeOK
<1>2. IsFiniteSet(T)
  BY <1>1, CaseAssumption, FS_Subset DEF CaseAssumption
<1>3. IsFiniteSet(S) /\ Cardinality(S) <= Cardinality(T)
  BY <1>1, <1>2, FS_Subset
<1>4. Cardinality(S) \in Nat /\ Cardinality(T) \in Nat
  BY <1>2, <1>3, FS_CardinalityType
<1>5. QED
  BY <1>3, <1>4 DEF CountIn

\* A request that made a number counted the cases of that day, if the number is of
\* the day the request began.
Promised(w) ==
    LET s == session[w] IN
    s.op = "create" =>
        /\ s.created_at <= today
        /\ ~s.typed =>
               /\ s.pc = "date" /\ s.created_at = today => s.count <= CountIn(cases, today)
               /\ s.pc \in {"unique", "commit"} => s.number[3] = s.count + 1
               /\ s.pc \in {"unique", "commit"} /\ s.number[2] = s.created_at =>
                      s.number[3] <= CountIn(cases, s.created_at) + 1
CountInv == Counted(cases) /\ \A w \in Workers : Promised(w)

\* A step that leaves the session of w alone keeps what w was promised.
LEMMA PromiseKept ==
  ASSUME TypeInv, TypeInv', CasesGrow, NEW w \in Workers, Promised(w),
         session'[w] = session[w], today' = today \/ today' = today + 1
  PROVE  Promised(w)'
<1>1. CASE session[w].op # "create"
  BY <1>1 DEF Promised
<1>2. CASE session[w].op = "create"
  <2>1. session[w] \in CreateSession /\ Days \subseteq Nat /\ today \in Days
        /\ (session[w].pc \in {"unique", "commit"} => session[w].number \in Numbers)
    BY <1>2, SessionOf DEF TypeInv, TypeOK, Ready, Days
  <2> DEFINE day == session[w].created_at
  <2>2. /\ CountIn(cases, today) \in Nat /\ CountIn(cases', today) \in Nat
        /\ CountIn(cases, today) <= CountIn(cases', today)
        /\ CountIn(cases, day) \in Nat /\ CountIn(cases', day) \in Nat
        /\ CountIn(cases, day) <= CountIn(cases', day)
    BY CountGrows
  <2>A. day \in Nat /\ today \in Nat /\ day <= today
    BY <1>2, <2>1 DEF Promised, CreateSession
  <2> HIDE DEF day
  <2>3. day \in Nat /\ today \in Nat /\ day <= today /\ day <= today'
    BY <2>A
  <2> USE DEF day
  <2>4. ASSUME ~session[w].typed, session[w].pc = "date", day = today'
        PROVE  session[w].count <= CountIn(cases', today')
    <3>1. today' = today
      BY <2>3, <2>4
    <3>2. session[w].count <= CountIn(cases, today) /\ session[w].count \in Nat
      BY <1>2, <2>1, <2>4, <3>1 DEF Promised, CreateSession
    <3>3. QED
      BY ONLY <2>2, <3>1, <3>2
  <2>5. ASSUME ~session[w].typed, session[w].pc \in {"unique", "commit"}, session[w].number[2] = day
        PROVE  session[w].number[3] <= CountIn(cases', day) + 1
    <3>1. session[w].number[3] <= CountIn(cases, day) + 1 /\ session[w].number[3] \in Nat
      BY <1>2, <2>1, <2>5 DEF Promised, Numbers
    <3>2. QED
      BY <2>2, <3>1
  <2>6. QED
    BY <1>2, <2>3, <2>4, <2>5 DEF Promised
<1>3. QED
  BY <1>1, <1>2

\* Numbers that stay, of rows that stay, are still counted.
LEMMA StillCounted ==
  ASSUME TypeInv, TypeInv', CasesGrow, Counted(cases), NEW c \in DOMAIN cases,
         \/ /\ cases'[c].reference_number = cases[c].reference_number
            /\ cases'[c].typed = cases[c].typed
         \/ cases'[c].typed
  PROVE  LET number == cases'[c].reference_number IN
         ~cases'[c].typed /\ cases'[c].created_at = number[2] =>
             number[3] <= CountIn(cases', number[2])
<1> DEFINE number == cases[c].reference_number
<1> SUFFICES ASSUME ~cases'[c].typed, cases'[c].created_at = cases'[c].reference_number[2]
             PROVE  cases'[c].reference_number[3] <= CountIn(cases', cases'[c].reference_number[2])
  OBVIOUS
<1>1. cases'[c].reference_number = number /\ cases[c].created_at = number[2] /\ ~cases[c].typed
  BY DEF CasesGrow
<1>2. number \in Numbers
  BY DEF TypeInv, TypeOK, CaseRow
<1>3. number[3] <= CountIn(cases, number[2]) /\ number[3] \in Nat
  BY <1>1, <1>2 DEF Counted, Numbers
<1>4. /\ CountIn(cases, number[2]) \in Nat /\ CountIn(cases', number[2]) \in Nat
      /\ CountIn(cases, number[2]) <= CountIn(cases', number[2])
  BY CountGrows
<1>5. QED
  BY <1>1, <1>3, <1>4

\* A step that keeps the cases, and the session of all but w.
LEMMA CountKept ==
  ASSUME TypeInv, TypeInv', CountInv, CasesGrow, Counted(cases'),
         NEW w \in Workers, \A v \in Workers : v # w => session'[v] = session[v],
         today' = today, Promised(w)'
  PROVE  CountInv'
<1>1. \A v \in Workers : Promised(v)'
  BY PromiseKept DEF CountInv
<1>2. QED
  BY <1>1 DEF CountInv

LEMMA NextCount == TypeInv /\ FreshIds /\ CountInv /\ [Next]_vars => CountInv'
<1> SUFFICES ASSUME TypeInv, FreshIds, CountInv, [Next]_vars PROVE CountInv'
  OBVIOUS
<1> TypeOK /\ Ready /\ TypeInv'
  BY NextTypeInv DEF TypeInv
<1>1. ASSUME cases' = cases, NEW w \in Workers, \A v \in Workers : v # w => session'[v] = session[v],
             today' = today, Promised(w)'
      PROVE  CountInv'
  <2>1. CasesGrow /\ Counted(cases')
    BY <1>1 DEF CasesGrow, CountInv
  <2>2. QED
    BY <1>1, <2>1, CountKept
<1>2. CASE UNCHANGED vars
  BY <1>2, PromiseKept DEF vars, CountInv, CasesGrow
<1>3. ASSUME Midnight PROVE CountInv'
  <2>1. CasesGrow /\ cases' = cases /\ session' = session /\ today' = today + 1
    BY <1>3 DEF Midnight, CasesGrow
  <2>2. \A w \in Workers : Promised(w)'
    BY <2>1, PromiseKept DEF CountInv
  <2>3. QED
    BY <2>1, <2>2 DEF CountInv
<1>4. ASSUME NEW w \in Workers, session'[w].op # "create", UNCHANGED <<cases, today>>,
             \A v \in Workers : v # w => session'[v] = session[v]
      PROVE  CountInv'
  BY <1>1, <1>4 DEF Promised
<1>5. ASSUME NEW w \in Workers, NEW s, Begins(w, s), s.op # "create", UNCHANGED <<cases, today>>
      PROVE  CountInv'
  BY <1>4, <1>5 DEF Begins, TypeOK
<1>6. ASSUME NEW w \in Workers, Ends(w), UNCHANGED <<cases, today>> PROVE CountInv'
  BY <1>4, <1>6 DEF Ends, TypeOK, Idle
<1>7. ASSUME NEW w \in Workers, NEW c \in Cases, NEW i \in Initials,
             NEW n \in Manual \cup {None}, CreateStart(w, c, i, n)
      PROVE  CountInv'
  <2> DEFINE s == [op |-> "create", pc |-> IF n = None THEN "count" ELSE "unique",
                   id |-> c, initials |-> i, created_at |-> today, count |-> 0,
                   number |-> n, typed |-> n # None]
  <2>1. CASE n = None
    <3>1. s.pc = "count" /\ s.created_at = today
      BY <2>1
    <3> HIDE DEF s
    <3>2. /\ session'[w] = s
          /\ \A v \in Workers : v # w => session'[v] = session[v]
          /\ cases' = cases /\ today' = today /\ today \in Nat
      BY <1>7 DEF CreateStart, Begins, TypeOK, Days, s
    <3>3. Promised(w)'
      BY <3>1, <3>2 DEF Promised
    <3>4. QED
      BY <1>1, <3>2, <3>3
  <2>2. CASE n # None
    <3>1. s.typed /\ s.created_at = today
      BY <2>2
    <3> HIDE DEF s
    <3>2. /\ session'[w] = s
          /\ \A v \in Workers : v # w => session'[v] = session[v]
          /\ cases' = cases /\ today' = today /\ today \in Nat
      BY <1>7 DEF CreateStart, Begins, TypeOK, Days, s
    <3>3. Promised(w)'
      BY <3>1, <3>2 DEF Promised
    <3>4. QED
      BY <1>1, <3>2, <3>3
  <2>3. QED
    BY <2>1, <2>2
<1>8. ASSUME NEW w \in Workers, CreateCount(w) PROVE CountInv'
  <2>1. /\ session[w].op = "create" /\ cases' = cases /\ today' = today
        /\ session'[w] = [session[w] EXCEPT !.pc = "date", !.count = CountIn(cases, today)]
        /\ \A v \in Workers : v # w => session'[v] = session[v]
    BY <1>8, CountsIn DEF CreateCount, TypeOK
  <2>2. session[w] \in CreateSession
    BY <2>1, SessionOf
  <2>3. CasesGrow
    BY <2>1 DEF CasesGrow
  <2>4. CountIn(cases, today) \in Nat /\ session[w].created_at <= today
    BY <2>1, <2>3, CountGrows DEF CountInv, Promised
  <2>5. /\ session'[w].op = "create" /\ session'[w].pc = "date"
        /\ session'[w].created_at = session[w].created_at
        /\ session'[w].count = CountIn(cases, today)
    BY <2>1, <2>2 DEF CreateSession
  <2>6. Promised(w)'
    BY <2>1, <2>4, <2>5 DEF Promised
  <2>7. QED
    BY <1>1, <2>1, <2>6
<1>9. ASSUME NEW w \in Workers, CreateDate(w) PROVE CountInv'
  <2>1. /\ session[w].op = "create" /\ session[w].pc = "date" /\ cases' = cases /\ today' = today
        /\ session'[w] = [session[w] EXCEPT !.pc = "unique",
               !.number = <<session[w].initials, today, session[w].count + 1>>]
        /\ \A v \in Workers : v # w => session'[v] = session[v]
    BY <1>9 DEF CreateDate, TypeOK
  <2>2. session[w] \in CreateSession
    BY <2>1, SessionOf
  <2>3. CasesGrow
    BY <2>1 DEF CasesGrow
  <2>4. /\ CountIn(cases, today) \in Nat /\ session[w].created_at <= today
        /\ ~session[w].typed /\ session[w].created_at = today => session[w].count <= CountIn(cases, today)
    BY <2>1, <2>3, CountGrows DEF CountInv, Promised
  <2>5. /\ session'[w].op = "create" /\ session'[w].pc = "unique"
        /\ session'[w].created_at = session[w].created_at /\ session'[w].typed = session[w].typed
        /\ session'[w].number[2] = today /\ session'[w].number[3] = session[w].count + 1
        /\ session[w].count \in Nat
    BY <2>1, <2>2 DEF CreateSession
  <2>6. ~session[w].typed /\ session[w].created_at = today =>
            session[w].count + 1 <= CountIn(cases, today) + 1
    BY <2>4, <2>5
  <2>7. Promised(w)'
    BY <2>1, <2>4, <2>5, <2>6 DEF Promised
  <2>8. QED
    BY <1>1, <2>1, <2>7
<1>10. ASSUME NEW w \in Workers, CreateUnique(w) PROVE CountInv'
  <2>1. /\ session[w].op = "create" /\ session[w].pc = "unique"
        /\ cases' = cases /\ today' = today /\ (Goes(w, "commit") \/ Ends(w))
    BY <1>10 DEF CreateUnique
  <2>2. ASSUME Goes(w, "commit") PROVE CountInv'
    <3>1. session[w] \in CreateSession
      BY <2>1, SessionOf
    <3>2. /\ session'[w] = [session[w] EXCEPT !.pc = "commit"]
          /\ \A v \in Workers : v # w => session'[v] = session[v]
      BY <2>2 DEF Goes, TypeOK
    <3>3. Promised(w)'
      BY <2>1, <3>1, <3>2 DEF CountInv, Promised, CreateSession
    <3>4. QED
      BY <1>1, <2>1, <3>2, <3>3
  <2>3. QED
    BY <1>6, <2>1, <2>2
<1>11. ASSUME NEW w \in Workers, UpdateUnique(w) PROVE CountInv'
  <2>1. /\ session[w].op = "update" /\ cases' = cases /\ today' = today
        /\ (Goes(w, "commit") \/ Ends(w))
    BY <1>11 DEF UpdateUnique
  <2>2. ASSUME Goes(w, "commit") PROVE CountInv'
    <3>1. session'[w].op # "create" /\ \A v \in Workers : v # w => session'[v] = session[v]
      BY <2>1, <2>2, SessionOf DEF Goes, TypeOK
    <3>2. QED
      BY <1>4, <2>1, <3>1
  <2>3. QED
    BY <1>6, <2>1, <2>2
<1>12. ASSUME NEW w \in Workers, CreateCommit(w) PROVE CountInv'
  <2> DEFINE s == session[w]
             row == [reference_number |-> s.number, typed |-> s.typed,
                     created_at |-> s.created_at, status |-> "open"]
  <2>1. /\ s.op = "create" /\ s.pc = "commit" /\ Ends(w) /\ today' = today
        /\ cases' = cases \/ cases' = Extend(cases, s.id, row)
    BY <1>12 DEF CreateCommit
  <2>2. CASE cases' = cases
    BY <1>6, <2>1, <2>2
  <2>3. CASE cases' = Extend(cases, s.id, row)
    <3>1. s \in CreateSession /\ s.number \in Numbers /\ s.id \notin DOMAIN cases
      BY <2>1, SessionOf DEF Ready, FreshIds
    <3>2. /\ DOMAIN cases' = DOMAIN cases \cup {s.id} /\ cases'[s.id] = row
          /\ \A c \in DOMAIN cases : cases'[c] = cases[c]
      BY <2>3, <3>1 DEF Extend
    <3>3. CasesGrow
      BY <3>2 DEF CasesGrow
    <3>4. CountIn(cases', s.created_at) = CountIn(cases, s.created_at) + 1
      <4> DEFINE S == {c \in DOMAIN cases : cases[c].created_at = s.created_at}
      <4>1. {c \in DOMAIN cases' : cases'[c].created_at = s.created_at} = S \cup {s.id}
        BY <3>2
      <4>2. S \subseteq Cases
        BY DEF TypeOK
      <4>3. IsFiniteSet(S) /\ s.id \notin S
        BY <3>1, <4>2, CaseAssumption, FS_Subset DEF CaseAssumption
      <4>4. Cardinality(S \cup {s.id}) = Cardinality(S) + 1
        BY <4>3, FS_AddElement
      <4>5. QED
        BY <4>1, <4>4 DEF CountIn
    <3>5. ~s.typed /\ s.created_at = s.number[2] =>
              s.number[3] <= CountIn(cases', s.number[2])
      BY <2>1, <3>4 DEF CountInv, Promised
    <3>6. Counted(cases')
      <4> SUFFICES ASSUME NEW c \in DOMAIN cases', ~cases'[c].typed,
                          cases'[c].created_at = cases'[c].reference_number[2]
                   PROVE  cases'[c].reference_number[3] <=
                              CountIn(cases', cases'[c].reference_number[2])
        BY DEF Counted
      <4>1. CASE c \in DOMAIN cases
        BY <3>2, <3>3, <4>1, StillCounted DEF CountInv
      <4>2. CASE c = s.id
        BY <3>2, <3>5, <4>2
      <4>3. QED
        BY <3>2, <4>1, <4>2
    <3>7. session'[w].op = "idle" /\ \A v \in Workers : v # w => session'[v] = session[v]
      BY <2>1 DEF Ends, TypeOK, Idle
    <3>8. Promised(w)'
      BY <3>7 DEF Promised
    <3>9. QED
      BY <2>1, <3>3, <3>6, <3>7, <3>8, CountKept
  <2>4. QED
    BY <2>1, <2>2, <2>3
<1>13. ASSUME NEW w \in Workers, UpdateCommit(w) \/ StatusCommit(w) PROVE CountInv'
  <2>1. Ends(w) /\ today' = today /\ session[w].id \in DOMAIN cases
    BY <1>13 DEF UpdateCommit, StatusCommit, Ready
  <2>2. /\ DOMAIN cases' = DOMAIN cases
        /\ \A c \in DOMAIN cases :
               /\ cases'[c].created_at = cases[c].created_at
               /\ \/ /\ cases'[c].reference_number = cases[c].reference_number
                     /\ cases'[c].typed = cases[c].typed
                  \/ cases'[c].typed
    <3>1. cases \in [DOMAIN cases -> CaseRow]
      BY DEF TypeOK
    <3>2. ASSUME UpdateCommit(w) PROVE <2>2!:
      BY <2>1, <3>1, <3>2 DEF UpdateCommit, CaseRow
    <3>3. ASSUME StatusCommit(w) PROVE <2>2!:
      BY <2>1, <3>1, <3>3 DEF StatusCommit, CaseRow
    <3>4. QED
      BY <1>13, <3>2, <3>3
  <2>3. CasesGrow
    BY <2>2 DEF CasesGrow
  <2>4. Counted(cases')
    <3> SUFFICES ASSUME NEW c \in DOMAIN cases, ~cases'[c].typed,
                        cases'[c].created_at = cases'[c].reference_number[2]
                 PROVE  cases'[c].reference_number[3] <=
                            CountIn(cases', cases'[c].reference_number[2])
      BY <2>2 DEF Counted
    <3>1. QED
      BY <2>2, <2>3, StillCounted DEF CountInv
  <2>5. session'[w].op = "idle" /\ \A v \in Workers : v # w => session'[v] = session[v]
    BY <2>1 DEF Ends, TypeOK, Idle
  <2>6. Promised(w)'
    BY <2>5 DEF Promised
  <2>7. QED
    BY <2>1, <2>3, <2>4, <2>5, <2>6, CountKept
<1>14. ASSUME NEW w \in Workers, TaskCommit(w) \/ EditCommit(w) \/ Abort(w) PROVE CountInv'
  BY <1>6, <1>14 DEF TaskCommit, EditCommit, Abort
<1>15. ASSUME NEW w \in Workers, NEW c \in Cases, NEW patch \in CasePatches, UpdateStart(w, c, patch)
       PROVE  CountInv'
  BY <1>5, <1>15 DEF UpdateStart
<1>16. ASSUME NEW w \in Workers, NEW c \in Cases, NEW status \in Statuses, StatusStart(w, c, status)
       PROVE  CountInv'
  BY <1>5, <1>16 DEF StatusStart
<1>17. ASSUME NEW w \in Workers, NEW t \in Tasks, NEW c \in Cases, NEW due \in DueDates,
              TaskStart(w, t, c, due)
       PROVE  CountInv'
  BY <1>5, <1>17 DEF TaskStart
<1>18. ASSUME NEW w \in Workers, NEW t \in Tasks, NEW patch, EditStart(w, t, patch)
       PROVE  CountInv'
  BY <1>5, <1>18 DEF EditStart
<1>19. QED
  BY <1>2, <1>3, <1>7, <1>8, <1>9, <1>10, <1>11, <1>12, <1>13, <1>14, <1>15, <1>16, <1>17, <1>18
  DEF Next, MoveStart

\* No two cases have one number, whatever lookups were stale (case_service.py:402): the
\* index has the last word.
THEOREM NumbersUnique == Spec => []UniqueNumbers
<1>1. Init => UniqueNumbers
  BY DEF Init, UniqueNumbers
<1>2. TypeInv /\ UniqueNumbers /\ [Next]_vars => UniqueNumbers'
  <2> SUFFICES ASSUME TypeInv, UniqueNumbers, [Next]_vars PROVE UniqueNumbers'
    OBVIOUS
  <2> TypeOK /\ Ready
    BY DEF TypeInv
  <2>1. ASSUME NEW w \in Workers, CreateCommit(w) PROVE UniqueNumbers'
    BY <2>1 DEF CreateCommit, Extend, UniqueNumbers, _ensure_unique_reference_number
  <2>2. ASSUME NEW w \in Workers, UpdateCommit(w) PROVE UniqueNumbers'
    <3>1. session[w].id \in DOMAIN cases /\ cases \in [DOMAIN cases -> CaseRow]
      BY <2>2 DEF UpdateCommit, Ready, TypeOK
    <3>2. QED
      BY <2>2, <3>1 DEF UpdateCommit, UniqueNumbers, _ensure_unique_reference_number, CaseRow
  <2>3. ASSUME NEW w \in Workers, StatusCommit(w) PROVE UniqueNumbers'
    <3>1. session[w].id \in DOMAIN cases /\ cases \in [DOMAIN cases -> CaseRow]
      BY <2>3 DEF StatusCommit, Ready, TypeOK
    <3>2. QED
      BY <2>3, <3>1 DEF StatusCommit, UniqueNumbers, CaseRow
  <2>4. ASSUME cases' = cases PROVE UniqueNumbers'
    BY <2>4 DEF UniqueNumbers
  <2>5. cases' = cases \/ \E w \in Workers : CreateCommit(w) \/ UpdateCommit(w) \/ StatusCommit(w)
    BY DEF Next, vars, CreateStart, CreateCount, CreateDate, CreateUnique, UpdateStart, UpdateUnique,
       StatusStart, TaskStart, TaskCommit, EditStart, MoveStart, EditCommit, Abort, Midnight
  <2>6. QED
    BY <2>1, <2>2, <2>3, <2>4, <2>5
<1>3. QED
  BY <1>1, <1>2, Invariants, PTL DEF Spec

----------------------------------------------------------------------------
(* Requests that run one at a time.                                        *)

\* What a request read is still so, ...
ReadsTrue(w) ==
    /\ session[w].op = "status" => session[w].before = cases[session[w].id].status
    /\ session[w].op = "edit" => session[w].before = tasks[session[w].id]
    /\ session[w].op = "add" => cases[session[w].case_id].status # "closed"
\* ... nobody else is at work, ...
OneBusy == \A v, w \in Workers : Busy(v) /\ Busy(w) => v = w
\* ... and the log has the status of every row.
Logged ==
    /\ \A c \in DOMAIN cases : cases[c].status = logged[c]
    /\ \A t \in DOMAIN tasks : tasks[t].status = logged[t]
AloneInv == alone => OneBusy /\ Logged /\ \A w \in Workers : ReadsTrue(w)

\* A step that writes nothing.
LEMMA QuietAlone ==
  ASSUME TypeInv, AloneInv, alone, OneBusy', NEW w \in Workers,
         UNCHANGED <<cases, tasks, logged>>,
         \A v \in Workers : v # w => session'[v] = session[v], ReadsTrue(w)'
  PROVE  AloneInv'
<1>1. \A v \in Workers : ReadsTrue(v)'
  BY DEF AloneInv, ReadsTrue
<1>2. Logged'
  BY DEF AloneInv, Logged
<1>3. QED
  BY <1>1, <1>2 DEF AloneInv

\* When the only request ends, nothing is held that could be outdated.
LEMMA EndAlone ==
  ASSUME TypeInv, AloneInv, alone, NEW w \in Workers, Busy(w), Ends(w), Logged'
  PROVE  AloneInv'
<1>1. \A v \in Workers : session'[v] = Idle
  BY DEF AloneInv, OneBusy, Busy, Ends, TypeInv, TypeOK
<1>2. OneBusy'
  BY <1>1 DEF OneBusy, Busy
<1>3. \A v \in Workers : ReadsTrue(v)'
  BY <1>1 DEF ReadsTrue, Idle
<1>4. QED
  BY <1>2, <1>3 DEF AloneInv

LEMMA NextAlone == TypeInv /\ FreshIds /\ AloneInv /\ [Next]_vars => AloneInv'
<1> SUFFICES ASSUME TypeInv, FreshIds, AloneInv, [Next]_vars PROVE AloneInv'
  OBVIOUS
<1> TypeOK /\ Ready
  BY DEF TypeInv
<1>0. alone' = alone
  BY DEF Next, vars, CreateStart, CreateCount, CreateDate, CreateUnique, CreateCommit,
     UpdateStart, UpdateUnique, UpdateCommit, StatusStart, StatusCommit, TaskStart, TaskCommit,
     EditStart, MoveStart, EditCommit, Abort, Midnight
<1>1. CASE ~alone
  BY <1>0, <1>1 DEF AloneInv
<1>2. CASE UNCHANGED vars
  BY <1>2 DEF vars, AloneInv, OneBusy, Logged, ReadsTrue, Busy
<1> SUFFICES ASSUME alone, Next PROVE AloneInv'
  BY <1>1, <1>2
<1>3. OneBusy' /\ Logged /\ \A w \in Workers : ReadsTrue(w)
  BY <1>0 DEF Next, OneBusy, AloneInv
<1>4. ASSUME NEW w \in Workers, UNCHANGED <<cases, tasks, logged>>,
             \A v \in Workers : v # w => session'[v] = session[v],
             session'[w].op \in {"idle", "create", "update"}
      PROVE  AloneInv'
  BY <1>3, <1>4, QuietAlone DEF ReadsTrue
<1>5. ASSUME NEW w \in Workers, NEW s, Begins(w, s), UNCHANGED <<cases, tasks, logged>>,
             s.op = "status" => s.before = cases[s.id].status,
             s.op = "edit" => s.before = tasks[s.id],
             s.op = "add" => cases[s.case_id].status # "closed"
      PROVE  AloneInv'
  <2>1. session'[w] = s /\ \A v \in Workers : v # w => session'[v] = session[v]
    BY <1>5 DEF Begins, TypeOK
  <2>2. QED
    BY <1>3, <1>5, <2>1, QuietAlone DEF ReadsTrue
<1>6. ASSUME NEW w \in Workers, Ends(w), UNCHANGED <<cases, tasks, logged>> PROVE AloneInv'
  BY <1>4, <1>6 DEF Ends, TypeOK, Idle
<1>7. ASSUME NEW w \in Workers, NEW c \in Cases, NEW i \in Initials,
             NEW n \in Manual \cup {None}, CreateStart(w, c, i, n)
      PROVE  AloneInv'
  BY <1>5, <1>7 DEF CreateStart
<1>8. ASSUME NEW w \in Workers, CreateCount(w) \/ CreateDate(w) PROVE AloneInv'
  <2>1. session[w] \in CreateSession /\ UNCHANGED <<cases, tasks, logged>>
    BY <1>8, SessionOf DEF CreateCount, CreateDate
  <2>2. /\ \A v \in Workers : v # w => session'[v] = session[v]
        /\ session'[w].op = "create"
    BY <1>8, <2>1 DEF CreateCount, CreateDate, TypeOK, CreateSession
  <2>3. QED
    BY <1>4, <2>1, <2>2
<1>9. ASSUME NEW w \in Workers, CreateUnique(w) \/ UpdateUnique(w) PROVE AloneInv'
  <2>1. /\ UNCHANGED <<cases, tasks, logged>> /\ (Goes(w, "commit") \/ Ends(w))
        /\ session[w].op \in {"create", "update"}
    BY <1>9 DEF CreateUnique, UpdateUnique
  <2>2. ASSUME Goes(w, "commit") PROVE AloneInv'
    <3>1. /\ \A v \in Workers : v # w => session'[v] = session[v]
          /\ session'[w].op \in {"create", "update"}
      BY <2>1, <2>2, SessionOf DEF Goes, TypeOK, CreateSession
    <3>2. QED
      BY <1>4, <2>1, <3>1
  <2>3. QED
    BY <1>6, <2>1, <2>2
<1>10. ASSUME NEW w \in Workers, CreateCommit(w) PROVE AloneInv'
  <2> DEFINE s == session[w]
             row == [reference_number |-> s.number, typed |-> s.typed,
                     created_at |-> s.created_at, status |-> "open"]
  <2>1. /\ s.op = "create" /\ Ends(w) /\ tasks' = tasks
        /\ \/ UNCHANGED <<cases, logged>>
           \/ cases' = Extend(cases, s.id, row) /\ logged' = Extend(logged, s.id, "open")
    BY <1>10 DEF CreateCommit
  <2>2. s.id \in Cases /\ Busy(w)
    BY <2>1, SessionOf DEF CreateSession, Busy, Idle
  <2>3. s.id \notin DOMAIN tasks
    BY <2>2, CaseAssumption DEF CaseAssumption, TypeOK
  <2>4. row.status = "open"
    OBVIOUS
  <2> HIDE DEF row
  <2>5. DOMAIN logged = DOMAIN cases \cup DOMAIN tasks
    BY DEF TypeOK
  <2>6. Logged'
    BY <1>3, <2>1, <2>3, <2>4, <2>5 DEF Logged, Extend
  <2>7. QED
    BY <2>1, <2>2, <2>6, EndAlone
<1>11. ASSUME NEW w \in Workers, NEW c \in Cases, NEW patch \in CasePatches, UpdateStart(w, c, patch)
       PROVE  AloneInv'
  BY <1>5, <1>11 DEF UpdateStart
<1>12. ASSUME NEW w \in Workers, UpdateCommit(w) PROVE AloneInv'
  <2>1. /\ Ends(w) /\ Busy(w) /\ UNCHANGED <<tasks, logged>>
        /\ session[w].id \in DOMAIN cases
    BY <1>12 DEF UpdateCommit, Ready, Busy, Idle
  <2>2. /\ DOMAIN cases' = DOMAIN cases
        /\ \A c \in DOMAIN cases : cases'[c].status = cases[c].status
    <3>1. cases \in [DOMAIN cases -> CaseRow]
      BY DEF TypeOK
    <3>2. QED
      BY <1>12, <2>1, <3>1 DEF UpdateCommit, CaseRow
  <2>3. Logged'
    BY <1>3, <2>1, <2>2 DEF Logged
  <2>4. QED
    BY <2>1, <2>3, EndAlone
<1>13. ASSUME NEW w \in Workers, NEW c \in Cases, NEW status \in Statuses, StatusStart(w, c, status)
       PROVE  AloneInv'
  BY <1>5, <1>13 DEF StatusStart
<1>14. ASSUME NEW w \in Workers, StatusCommit(w) PROVE AloneInv'
  <2> DEFINE s == session[w]
  <2>1. /\ s.op = "status" /\ Ends(w) /\ Busy(w) /\ tasks' = tasks
        /\ s.id \in DOMAIN cases /\ s.before = cases[s.id].status
        /\ logged' = [logged EXCEPT ![s.id] = s.status]
    BY <1>3, <1>14 DEF StatusCommit, Ready, Busy, Idle, ReadsTrue
  <2>2. /\ DOMAIN cases' = DOMAIN cases
        /\ cases'[s.id].status = s.status
        /\ \A c \in DOMAIN cases : c # s.id => cases'[c] = cases[c]
    <3>1. cases \in [DOMAIN cases -> CaseRow]
      BY DEF TypeOK
    <3>2. QED
      BY <1>14, <2>1, <3>1 DEF StatusCommit, CaseRow, Column
  <2>3. s.id \notin DOMAIN tasks /\ DOMAIN logged = DOMAIN cases \cup DOMAIN tasks
    BY <2>1, CaseAssumption DEF CaseAssumption, TypeOK
  <2>4. Logged'
    BY <1>3, <2>1, <2>2, <2>3 DEF Logged
  <2>5. QED
    BY <2>1, <2>4, EndAlone
<1>15. ASSUME NEW w \in Workers, NEW t \in Tasks, NEW c \in Cases, NEW due \in DueDates,
              TaskStart(w, t, c, due)
       PROVE  AloneInv'
  BY <1>5, <1>15 DEF TaskStart, ensure_case_open
<1>16. ASSUME NEW w \in Workers, TaskCommit(w) PROVE AloneInv'
  <2> DEFINE s == session[w]
             row == [case_id |-> s.case_id, status |-> "todo", due_date |-> s.due_date]
  <2>1. /\ s.op = "add" /\ Ends(w) /\ cases' = cases
        /\ tasks' = Extend(tasks, s.id, row) /\ logged' = Extend(logged, s.id, "todo")
    BY <1>16 DEF TaskCommit
  <2>2. s.id \in Tasks /\ Busy(w)
    BY <2>1, SessionOf DEF Busy, Idle
  <2>3. s.id \notin DOMAIN cases
    BY <2>2, CaseAssumption DEF CaseAssumption, TypeOK
  <2>4. row.status = "todo"
    OBVIOUS
  <2> HIDE DEF row
  <2>5. DOMAIN logged = DOMAIN cases \cup DOMAIN tasks
    BY DEF TypeOK
  <2>6. Logged'
    BY <1>3, <2>1, <2>3, <2>4, <2>5 DEF Logged, Extend
  <2>7. QED
    BY <2>1, <2>2, <2>6, EndAlone
<1>17. ASSUME NEW w \in Workers, NEW t \in Tasks, NEW patch, EditStart(w, t, patch)
       PROVE  AloneInv'
  BY <1>5, <1>17 DEF EditStart
<1>18. ASSUME NEW w \in Workers, EditCommit(w) PROVE AloneInv'
  <2> DEFINE s == session[w]
  <2>1. /\ s.op = "edit" /\ Ends(w) /\ Busy(w) /\ cases' = cases
        /\ s.id \in DOMAIN tasks /\ s.before = tasks[s.id]
    BY <1>3, <1>18 DEF EditCommit, Ready, Busy, Idle, ReadsTrue
  <2>2. s.patch \in TaskPatch
    BY <2>1, SessionOf
  <2>3. s.id \notin DOMAIN cases /\ DOMAIN logged = DOMAIN cases \cup DOMAIN tasks
    BY <2>1, CaseAssumption DEF CaseAssumption, TypeOK
  <2>4. CASE s.patch.status = None \/ s.patch.due_date \in Days
    <3>1. UNCHANGED <<tasks, logged>>
      BY <1>18, <2>4 DEF EditCommit
    <3>2. QED
      BY <1>6, <2>1, <3>1
  <2>5. CASE ~(s.patch.status = None \/ s.patch.due_date \in Days)
    <3>1. tasks \in [DOMAIN tasks -> TaskRow]
      BY DEF TypeOK
    <3>2. /\ DOMAIN tasks' = DOMAIN tasks
          /\ \A t \in DOMAIN tasks : t # s.id => tasks'[t] = tasks[t]
          /\ tasks'[s.id].status =
                 IF s.patch.status = Unset THEN tasks[s.id].status ELSE s.patch.status
          /\ logged' = IF s.patch.status = Unset THEN logged
                       ELSE [logged EXCEPT ![s.id] = s.patch.status]
      BY <1>18, <2>1, <2>5, <3>1 DEF EditCommit, Column, TaskRow
    <3>3. Logged'
      BY <1>3, <2>1, <2>3, <3>2 DEF Logged
    <3>4. QED
      BY <2>1, <3>3, EndAlone
  <2>6. QED
    BY <2>4, <2>5
<1>19. ASSUME NEW w \in Workers, Abort(w) PROVE AloneInv'
  BY <1>6, <1>19 DEF Abort
<1>20. ASSUME Midnight PROVE AloneInv'
  BY <1>3, <1>20 DEF Midnight, AloneInv, Logged, ReadsTrue
<1>21. QED
  BY <1>7, <1>8, <1>9, <1>10, <1>11, <1>12, <1>13, <1>14, <1>15, <1>16, <1>17, <1>18, <1>19, <1>20
  DEF Next, MoveStart

LEMMA AloneInvariant == Spec => [](TypeInv /\ FreshIds /\ AloneInv)
<1>1. Init => AloneInv
  BY DEF Init, AloneInv, OneBusy, Logged, ReadsTrue, Busy, Idle
<1>2. QED
  BY <1>1, Invariants, NextAlone, PTL DEF Spec

\* No case is of a day to come.
PastDays == \A c \in DOMAIN cases : cases[c].created_at <= today

LEMMA NextPast == TypeInv /\ FreshIds /\ CountInv /\ PastDays /\ [Next]_vars => PastDays'
<1> SUFFICES ASSUME TypeInv, FreshIds, CountInv, PastDays, [Next]_vars PROVE PastDays'
  OBVIOUS
<1> TypeOK /\ Ready
  BY DEF TypeInv
<1>0. today' = today \/ Midnight
  BY DEF Next, vars, CreateStart, CreateCount, CreateDate, CreateUnique,
     CreateCommit, UpdateStart, UpdateUnique, UpdateCommit, StatusStart, StatusCommit, TaskStart,
     TaskCommit, EditStart, MoveStart, EditCommit, Abort
<1>1. today \in Nat /\ (today' = today \/ today' = today + 1)
  BY <1>0 DEF Midnight, TypeOK, Days
<1>2. ASSUME NEW w \in Workers, CreateCommit(w) PROVE PastDays'
  <2>1. session[w].op = "create" /\ session[w].created_at <= today /\ today' = today
    BY <1>2 DEF CreateCommit, CountInv, Promised
  <2>2. QED
    BY <1>2, <2>1 DEF CreateCommit, Extend, PastDays
<1>3. ASSUME NEW w \in Workers, UpdateCommit(w) \/ StatusCommit(w) PROVE PastDays'
  <2>1. cases \in [DOMAIN cases -> CaseRow] /\ session[w].id \in DOMAIN cases /\ today' = today
    BY <1>3 DEF UpdateCommit, StatusCommit, Ready, TypeOK
  <2>2. DOMAIN cases' = DOMAIN cases
        /\ \A c \in DOMAIN cases : cases'[c].created_at = cases[c].created_at
    BY <1>3, <2>1 DEF UpdateCommit, StatusCommit, CaseRow
  <2>3. QED
    BY <2>1, <2>2 DEF PastDays
<1>4. ASSUME cases' = cases PROVE PastDays'
  <2>1. \A c \in DOMAIN cases : cases[c].created_at \in Nat
    BY DEF TypeOK, CaseRow, Days
  <2>2. QED
    BY <1>1, <1>4, <2>1 DEF PastDays
<1>5. cases' = cases \/ \E w \in Workers : CreateCommit(w) \/ UpdateCommit(w) \/ StatusCommit(w)
  BY DEF Next, vars, CreateStart, CreateCount, CreateDate, CreateUnique, UpdateStart, UpdateUnique,
     StatusStart, TaskStart, TaskCommit, EditStart, MoveStart, EditCommit, Abort, Midnight
<1>6. QED
  BY <1>2, <1>3, <1>4, <1>5

\* A creation that runs alone has counted every case of the day of its number.
Exact(w) ==
    LET s == session[w] IN
    s.op = "create" /\ ~s.typed =>
        /\ s.pc = "date" => CountIn(cases, today) <= s.count
        /\ s.pc \in {"unique", "commit"} => CountIn(cases, s.number[2]) <= s.count
ExactInv == alone => \A w \in Workers : Exact(w)

LEMMA NextExact ==
  TypeInv /\ AloneInv /\ PastDays /\ ExactInv /\ [Next]_vars => ExactInv'
<1> SUFFICES ASSUME TypeInv, AloneInv, PastDays, ExactInv, [Next]_vars PROVE ExactInv'
  OBVIOUS
<1> TypeOK /\ Ready
  BY DEF TypeInv
<1>0. alone' = alone
  BY DEF Next, vars, CreateStart, CreateCount, CreateDate, CreateUnique, CreateCommit,
     UpdateStart, UpdateUnique, UpdateCommit, StatusStart, StatusCommit, TaskStart, TaskCommit,
     EditStart, MoveStart, EditCommit, Abort, Midnight
<1>1. CASE ~alone
  BY <1>0, <1>1 DEF ExactInv
<1>2. CASE UNCHANGED vars
  BY <1>2 DEF vars, ExactInv, Exact, CountIn
<1> SUFFICES ASSUME alone, Next PROVE ExactInv'
  BY <1>1, <1>2
<1>3. OneBusy /\ \A w \in Workers : Exact(w)
  BY DEF AloneInv, ExactInv
<1>4. ASSUME NEW w \in Workers, UNCHANGED <<cases, today>>,
             \A v \in Workers : v # w => session'[v] = session[v], Exact(w)'
      PROVE  ExactInv'
  <2>1. \A day : CountIn(cases', day) = CountIn(cases, day)
    BY <1>4 DEF CountIn
  <2>2. \A v \in Workers : v # w => Exact(v)'
    BY <1>3, <1>4, <2>1 DEF Exact
  <2>3. QED
    BY <1>4, <2>2 DEF ExactInv
<1>5. ASSUME NEW w \in Workers, UNCHANGED <<cases, today>>,
             \A v \in Workers : v # w => session'[v] = session[v],
             session'[w].op # "create" \/ session'[w].typed \/ session'[w].pc = "count"
      PROVE  ExactInv'
  BY <1>4, <1>5 DEF Exact
<1>6. ASSUME NEW w \in Workers, NEW s, Begins(w, s), UNCHANGED <<cases, today>>,
             s.op # "create" \/ s.typed \/ s.pc = "count"
      PROVE  ExactInv'
  BY <1>5, <1>6 DEF Begins, TypeOK
<1>7. ASSUME NEW w \in Workers, Busy(w), Ends(w) PROVE ExactInv'
  <2>1. \A v \in Workers : session'[v] = Idle
    BY <1>3, <1>7 DEF OneBusy, Busy, Ends, TypeOK
  <2>2. QED
    BY <2>1 DEF ExactInv, Exact, Idle
<1>8. ASSUME NEW w \in Workers, NEW c \in Cases, NEW i \in Initials,
             NEW n \in Manual \cup {None}, CreateStart(w, c, i, n)
      PROVE  ExactInv'
  <2>1. CASE n = None
    BY <1>6, <1>8, <2>1 DEF CreateStart
  <2>2. CASE n # None
    BY <1>6, <1>8, <2>2 DEF CreateStart
  <2>3. QED
    BY <2>1, <2>2
<1>9. ASSUME NEW w \in Workers, CreateCount(w) PROVE ExactInv'
  <2>1. /\ session[w].op = "create" /\ cases' = cases /\ today' = today
        /\ session'[w] = [session[w] EXCEPT !.pc = "date", !.count = CountIn(cases, today)]
        /\ \A v \in Workers : v # w => session'[v] = session[v]
    BY <1>9, CountsIn DEF CreateCount, TypeOK
  <2>2. session[w] \in CreateSession
    BY <2>1, SessionOf
  <2>3. session'[w].pc = "date" /\ session'[w].count = CountIn(cases, today)
    BY <2>1, <2>2 DEF CreateSession
  <2>4. Exact(w)'
    <3>1. {c \in DOMAIN cases : cases[c].created_at = today} \subseteq Cases
      BY DEF TypeOK
    <3>2. CountIn(cases, today) \in Nat
      BY <3>1, CaseAssumption, FS_Subset, FS_CardinalityType DEF CountIn, CaseAssumption
    <3>3. QED
      BY <2>1, <2>3, <3>2 DEF Exact
  <2>5. QED
    BY <1>4, <2>1, <2>4
<1>10. ASSUME NEW w \in Workers, CreateDate(w) PROVE ExactInv'
  <2>1. /\ session[w].op = "create" /\ session[w].pc = "date" /\ cases' = cases /\ today' = today
        /\ session'[w] = [session[w] EXCEPT !.pc = "unique",
               !.number = <<session[w].initials, today, session[w].count + 1>>]
        /\ \A v \in Workers : v # w => session'[v] = session[v]
    BY <1>10 DEF CreateDate, TypeOK
  <2>2. session[w] \in CreateSession
    BY <2>1, SessionOf
  <2>3. /\ session'[w].pc = "unique" /\ session'[w].number[2] = today
        /\ session'[w].created_at = session[w].created_at
        /\ session'[w].typed = session[w].typed /\ session'[w].count = session[w].count
    BY <2>1, <2>2 DEF CreateSession
  <2>4. ~session[w].typed => CountIn(cases, today) <= session[w].count
    BY <1>3, <2>1 DEF Exact
  <2>5. Exact(w)'
    BY <2>1, <2>3, <2>4 DEF Exact
  <2>6. QED
    BY <1>4, <2>1, <2>5
<1>11. ASSUME NEW w \in Workers, CreateUnique(w) PROVE ExactInv'
  <2>1. /\ session[w].op = "create" /\ session[w].pc = "unique" /\ Busy(w)
        /\ cases' = cases /\ today' = today /\ (Goes(w, "commit") \/ Ends(w))
    BY <1>11 DEF CreateUnique, Busy, Idle
  <2>2. ASSUME Goes(w, "commit") PROVE ExactInv'
    <3>1. session[w] \in CreateSession
      BY <2>1, SessionOf
    <3>2. /\ session'[w] = [session[w] EXCEPT !.pc = "commit"]
          /\ \A v \in Workers : v # w => session'[v] = session[v]
      BY <2>2 DEF Goes, TypeOK
    <3>3. Exact(w)'
      BY <1>3, <2>1, <3>1, <3>2 DEF Exact, CreateSession
    <3>4. QED
      BY <1>4, <2>1, <3>2, <3>3
  <2>3. QED
    BY <1>7, <2>1, <2>2
<1>12. ASSUME NEW w \in Workers, UpdateUnique(w) PROVE ExactInv'
  <2>1. /\ session[w].op = "update" /\ cases' = cases /\ today' = today /\ Busy(w)
        /\ (Goes(w, "commit") \/ Ends(w))
    BY <1>12 DEF UpdateUnique, Busy, Idle
  <2>2. ASSUME Goes(w, "commit") PROVE ExactInv'
    <3>1. session'[w].op # "create" /\ \A v \in Workers : v # w => session'[v] = session[v]
      BY <2>1, <2>2, SessionOf DEF Goes, TypeOK
    <3>2. QED
      BY <1>5, <2>1, <3>1
  <2>3. QED
    BY <1>7, <2>1, <2>2
<1>13. ASSUME NEW w \in Workers,
              \/ CreateCommit(w) \/ UpdateCommit(w) \/ StatusCommit(w)
              \/ TaskCommit(w) \/ EditCommit(w) \/ Abort(w)
       PROVE  ExactInv'
  <2>1. /\ Busy(w) => Ends(w)
        /\ session[w].op \in {"create", "update", "status", "add", "edit"} \/ Busy(w)
    BY <1>13 DEF CreateCommit, UpdateCommit, StatusCommit, TaskCommit, EditCommit, Abort
  <2>2. Idle.op = "idle"
    BY DEF Idle
  <2>3. Busy(w)
    BY <2>1, <2>2 DEF Busy
  <2>4. QED
    BY <1>7, <2>1, <2>3
<1>14. ASSUME NEW w \in Workers, NEW c \in Cases, NEW patch \in CasePatches, UpdateStart(w, c, patch)
       PROVE  ExactInv'
  BY <1>6, <1>14 DEF UpdateStart
<1>15. ASSUME NEW w \in Workers, NEW c \in Cases, NEW status \in Statuses, StatusStart(w, c, status)
       PROVE  ExactInv'
  BY <1>6, <1>15 DEF StatusStart
<1>16. ASSUME NEW w \in Workers, NEW t \in Tasks, NEW c \in Cases, NEW due \in DueDates,
              TaskStart(w, t, c, due)
       PROVE  ExactInv'
  BY <1>6, <1>16 DEF TaskStart
<1>17. ASSUME NEW w \in Workers, NEW t \in Tasks, NEW patch, EditStart(w, t, patch)
       PROVE  ExactInv'
  BY <1>6, <1>17 DEF EditStart
<1>18. ASSUME Midnight PROVE ExactInv'
  <2>1. cases' = cases /\ session' = session /\ today' = today + 1 /\ today \in Nat
    BY <1>18 DEF Midnight, TypeOK, Days
  <2>2. \A c \in DOMAIN cases : cases[c].created_at \in Nat /\ cases[c].created_at <= today
    BY DEF PastDays, TypeOK, CaseRow, Days
  <2>3. {c \in DOMAIN cases : cases[c].created_at = today'} = {}
    BY <2>1, <2>2
  <2>4. CountIn(cases', today') = 0
    BY <2>1, <2>3, FS_EmptySet DEF CountIn
  <2>5. \A w \in Workers : session[w].op = "create" => session[w].count \in Nat
    BY SessionOf DEF CreateSession
  <2>6. \A w \in Workers : Exact(w)'
    <3> SUFFICES ASSUME NEW w \in Workers, session[w].op = "create", ~session[w].typed
                 PROVE  Exact(w)'
      BY <2>1 DEF Exact
    <3>1. 0 <= session[w].count
      BY <2>5
    <3>2. QED
      BY <1>3, <2>1, <2>4, <3>1 DEF Exact
  <2>7. QED
    BY <2>6 DEF ExactInv
<1>19. QED
  BY <1>8, <1>9, <1>10, <1>11, <1>12, <1>13, <1>14, <1>15, <1>16, <1>17, <1>18 DEF Next, MoveStart

\* A creation without a number is refused only for a number that was typed in, for that
\* of a case made across midnight or, when requests race, because a case of that day was
\* added after it had counted them (case_service.py:380-402).
THEOREM NumbersRefused == Spec => []GeneratedNumberRefused
<1>1. Init => CountInv /\ PastDays /\ ExactInv
  BY DEF Init, CountInv, Counted, Promised, PastDays, ExactInv, Exact, Idle
<1>2. TypeInv /\ CountInv /\ ExactInv => GeneratedNumberRefused
  <2> SUFFICES ASSUME TypeInv, CountInv, ExactInv, NEW w \in Workers,
                      session[w].op = "create", session[w].pc \in {"unique", "commit"},
                      ~session[w].typed, NEW c \in DOMAIN cases, ~cases[c].typed,
                      cases[c].reference_number = session[w].number,
                      cases[c].created_at = session[w].number[2]
               PROVE  ~alone /\ session[w].count < Count(session[w].number[2])
    BY DEF GeneratedNumberRefused
  <2> DEFINE day == session[w].number[2]
  <2>1. session[w].number[3] <= CountIn(cases, day)
    BY DEF CountInv, Counted
  <2>2. session[w].number[3] = session[w].count + 1
    BY DEF CountInv, Promised
  <2>3. session[w].count \in Nat
    BY SessionOf DEF TypeInv, CreateSession
  <2>4. {d \in DOMAIN cases : cases[d].created_at = day} \subseteq Cases
    BY DEF TypeInv, TypeOK
  <2>5. CountIn(cases, day) \in Nat
    BY <2>4, CaseAssumption, FS_Subset, FS_CardinalityType DEF CountIn, CaseAssumption
  <2>6. alone => CountIn(cases, day) <= session[w].count
    BY DEF ExactInv, Exact
  <2>7. Count(day) = CountIn(cases, day)
    BY CountsIn
  <2> HIDE DEF day
  <2>8. session[w].count < CountIn(cases, day)
    BY <2>1, <2>2, <2>3, <2>5
  <2>9. ~alone
    BY <2>3, <2>5, <2>6, <2>8
  <2>10. QED
    BY <2>7, <2>8, <2>9 DEF day
<1>3. QED
  BY <1>1, <1>2, AloneInvariant, NextCount, NextPast, NextExact, PTL DEF Spec

\* While requests run one at a time the audit log has the status of every case and
\* the column of every task (case_service.py:168, 342, 365).
THEOREM LogsAgree == Spec => []LogTellsStatus
<1>1. TypeInv /\ AloneInv => LogTellsStatus
  <2> SUFFICES ASSUME TypeInv, AloneInv, alone PROVE LogTellsStatus
    BY DEF LogTellsStatus
  <2>1. Logged
    BY DEF AloneInv
  <2>2. ASSUME NEW t \in DOMAIN tasks
        PROVE  \E column \in KANBAN_COLUMNS :
                   /\ API_TO_DB_STATUS[column] = logged[t]
                   /\ t \in get_kanban_board(tasks[t].case_id)[column]
    <3>1. tasks[t].status \in TaskStatus /\ logged[t] = tasks[t].status
      BY <2>1 DEF Logged, TypeInv, TypeOK, TaskRow
    <3>2. PICK column \in KANBAN_COLUMNS : API_TO_DB_STATUS[column] = tasks[t].status
      BY <3>1 DEF KANBAN_COLUMNS, API_TO_DB_STATUS, TaskStatus
    <3>3. QED
      BY <3>1, <3>2 DEF get_kanban_board, TasksOf
  <2>3. QED
    BY <2>1, <2>2 DEF LogTellsStatus, Logged
<1>2. QED
  BY <1>1, AloneInvariant, PTL

\* While requests run one at a time no task joins a closed case (case_guards.py:9).
THEOREM ClosedStaysClosed == Spec => NoTaskJoinsClosed
<1> DEFINE Step == alone => \A t \in DOMAIN tasks' \ DOMAIN tasks :
                                cases[tasks'[t].case_id].status # "closed"
<1>1. TypeInv /\ AloneInv /\ [Next]_vars => Step
  <2> SUFFICES ASSUME TypeInv, AloneInv, [Next]_vars, alone,
                      NEW t \in DOMAIN tasks' \ DOMAIN tasks
               PROVE  cases[tasks'[t].case_id].status # "closed"
    OBVIOUS
  <2>1. \A w \in Workers : EditCommit(w) => DOMAIN tasks' = DOMAIN tasks
    BY DEF EditCommit
  <2>2. PICK w \in Workers : TaskCommit(w)
    BY <2>1 DEF Next, vars, CreateStart, CreateCount, CreateDate, CreateUnique, CreateCommit,
       UpdateStart, UpdateUnique, UpdateCommit, StatusStart, StatusCommit, TaskStart,
       EditStart, MoveStart, Abort, Midnight
  <2>3. tasks'[t].case_id = session[w].case_id /\ session[w].op = "add"
    BY <2>2 DEF TaskCommit, Extend
  <2>4. QED
    BY <2>3 DEF AloneInv, ReadsTrue
<1>2. QED
  BY <1>1, AloneInvariant, PTL DEF Spec, NoTaskJoinsClosed

----------------------------------------------------------------------------
(* The organization chart.                                                 *)

\* R holds the tops and the children of its members, and is the least such set: what is
\* in it is a top or the child of another member.
Reaches(parent, tops, R) ==
    /\ tops \subseteq R /\ R \subseteq DOMAIN parent
    /\ \A n \in DOMAIN parent : parent[n] \in R => n \in R
    /\ \A S \in SUBSET DOMAIN parent :
           tops \subseteq S /\ (\A n \in DOMAIN parent : parent[n] \in S => n \in S) => R \subseteq S
    /\ \A n \in R : n \in tops \/ parent[n] \in R

LEMMA ReachedLeast ==
  ASSUME NEW tops, tops \subseteq DOMAIN nodes
  PROVE  Reaches(nodes, tops, Org!Reached(tops))
<1> DEFINE R == Org!Reached(tops)
<1>1. tops \subseteq R /\ R \subseteq DOMAIN nodes
  BY DEF Org!Reached
<1>2. ASSUME NEW S \in SUBSET DOMAIN nodes, tops \subseteq S,
             \A n \in DOMAIN nodes : nodes[n] \in S => n \in S
      PROVE  R \subseteq S
  BY <1>2 DEF Org!Reached, Org!Children
<1>3. ASSUME NEW n \in DOMAIN nodes, nodes[n] \in R PROVE n \in R
  <2>1. ASSUME NEW S \in SUBSET DOMAIN nodes, tops \cup Org!Children(S) \subseteq S PROVE n \in S
    BY <1>3, <2>1 DEF Org!Children, Org!Reached
  <2>2. QED
    BY <1>3, <2>1 DEF Org!Reached
<1>4. ASSUME NEW n \in R PROVE n \in tops \/ nodes[n] \in R
  <2> DEFINE S == {m \in R : m \in tops \/ nodes[m] \in R}
  <2>1. S \in SUBSET DOMAIN nodes /\ tops \subseteq S /\ S \subseteq R
    BY <1>1
  <2>2. \A m \in DOMAIN nodes : nodes[m] \in S => m \in S
    BY <1>3
  <2> HIDE DEF S, R
  <2>3. R \subseteq S
    BY <1>2, <2>1, <2>2
  <2>4. QED
    BY <1>4, <2>3 DEF S
<1> HIDE DEF R
<1>5. Reaches(nodes, tops, R)
  BY <1>1, <1>2, <1>3, <1>4 DEF Reaches
<1>6. QED
  BY <1>5 DEF R

LEMMA ForestReached == Reaches(nodes, Org!Roots, Org!get_hierarchy_forest)
  BY ReachedLeast DEF Org!Roots, Org!get_hierarchy_forest

LEMMA OrgTypes == Org!Spec => []Org!TypeOK
<1>1. Org!Init => Org!TypeOK
  BY DEF Org!Init, Org!TypeOK
<1>2. Org!TypeOK /\ [Org!Next]_nodes => Org!TypeOK'
  BY DEF Org!TypeOK, Org!Next, Org!CreateNode, Org!UpdateNode
<1>3. QED
  BY <1>1, <1>2, PTL DEF Org!Spec

\* What an update of n does to the forest F of the roots, B being the nodes below n.
LEMMA UpdateLoses ==
  ASSUME NEW parent, NEW parents, NEW roots, NEW rootsp, NEW F, NEW G, NEW B, NEW n, NEW p,
         n \in DOMAIN parent, p \in DOMAIN parent, None \notin DOMAIN parent,
         DOMAIN parents = DOMAIN parent, parents[n] = p,
         \A m \in DOMAIN parent : m # n => parents[m] = parent[m],
         roots = {m \in DOMAIN parent : parent[m] = None},
         rootsp = {m \in DOMAIN parent : parents[m] = None},
         Reaches(parent, roots, F), Reaches(parents, rootsp, G), Reaches(parent, {n}, B)
  PROVE  F \subseteq G \/ (p \in B \cup (DOMAIN parent \ F) /\ F \ G = B)
<1>1. n \notin rootsp /\ rootsp \subseteq roots /\ roots \subseteq rootsp \cup {n}
  OBVIOUS
<1>2. F \subseteq G \cup B
  <2> DEFINE S == G \cup B
  <2>1. S \subseteq DOMAIN parent /\ roots \subseteq S
    BY <1>1 DEF Reaches
  <2>2. \A m \in DOMAIN parent : parent[m] \in S => m \in S
    BY DEF Reaches
  <2> HIDE DEF S
  <2>3. F \subseteq S
    BY <2>1, <2>2 DEF Reaches
  <2>4. QED
    BY <2>3 DEF S
<1>3. CASE n \notin F
  <2> DEFINE S == F \cap G
  <2>1. S \subseteq DOMAIN parent /\ roots \subseteq S
    BY <1>1, <1>3 DEF Reaches
  <2>2. \A m \in DOMAIN parent : parent[m] \in S => m \in S
    BY <1>3 DEF Reaches
  <2> HIDE DEF S
  <2>3. F \subseteq S
    BY <2>1, <2>2 DEF Reaches
  <2>4. QED
    BY <2>3 DEF S
<1>4. CASE n \in F /\ p \in F /\ p \notin B
  <2>1. n \in G
    BY <1>2, <1>4 DEF Reaches
  <2>2. \A m \in DOMAIN parent : parent[m] \in G => m \in G
    BY <2>1 DEF Reaches
  <2>3. B \subseteq G
    BY <2>1, <2>2 DEF Reaches
  <2>4. QED
    BY <1>2, <2>3
<1>5. CASE n \in F /\ (p \notin F \/ p \in B)
  <2>1. B \subseteq F
    BY <1>5 DEF Reaches
  <2> DEFINE S == F \ B
  <2>2. S \subseteq DOMAIN parents /\ rootsp \subseteq S
    <3>1. \A m \in B : m = n \/ parent[m] # None
      BY DEF Reaches
    <3>2. QED
      BY <1>1, <3>1 DEF Reaches
  <2>3. \A m \in DOMAIN parents : parents[m] \in S => m \in S
    <3> SUFFICES ASSUME NEW m \in DOMAIN parent, parents[m] \in S PROVE m \in S
      OBVIOUS
    <3>1. m # n
      BY <1>5
    <3>2. m \in F
      BY <3>1 DEF Reaches
    <3>3. m \notin B
      BY <3>1 DEF Reaches
    <3>4. QED
      BY <3>2, <3>3
  <2> HIDE DEF S
  <2>4. G \subseteq S
    BY <2>2, <2>3 DEF Reaches
  <2>5. QED
    BY <1>2, <1>5, <2>1, <2>4 DEF S
<1>6. QED
  BY <1>3, <1>4, <1>5

\* Nodes are lost from the chart only below a node put under its own descendant, or under
\* a node already lost (organization_service.py:34, 92-97), for any number of nodes.
THEOREM LostBelowCycles ==
  ASSUME None \notin Nodes
  PROVE  Org!Spec => LostOnlyInCycles
<1> DEFINE F == Org!get_hierarchy_forest
           Loses(n) == /\ nodes'[n] # nodes[n]
                       /\ nodes'[n] \in Org!Below(n) \cup (DOMAIN nodes \ F)
                       /\ F \ F' = Org!Below(n)
<1>1. Org!TypeOK /\ [Org!Next]_nodes =>
          (F \subseteq F' \/ \E n \in DOMAIN nodes : Loses(n)) \/ UNCHANGED nodes
  <2> SUFFICES ASSUME Org!TypeOK, Org!Next
               PROVE  F \subseteq F' \/ \E n \in DOMAIN nodes : Loses(n)
    OBVIOUS
  <2>0. Reaches(nodes, Org!Roots, F)
    BY ForestReached
  <2>1. Reaches(nodes', Org!Roots', F')
    <3>1. Reaches(nodes, Org!Roots, Org!get_hierarchy_forest)'
      BY ForestReached, PTL
    <3>2. QED
      BY <3>1
  <2> HIDE DEF F
  <2>2. ASSUME NEW n \in Nodes, NEW parent \in Nodes \cup {None}, Org!CreateNode(n, parent)
        PROVE  F \subseteq F'
    <3>1. /\ DOMAIN nodes \subseteq DOMAIN nodes' /\ n \notin DOMAIN nodes
          /\ \A m \in DOMAIN nodes : nodes'[m] = nodes[m]
      BY <2>2 DEF Org!CreateNode
    <3> DEFINE S == F' \cap DOMAIN nodes
    <3>2. S \subseteq DOMAIN nodes /\ Org!Roots \subseteq S
      BY <2>1, <3>1 DEF Reaches, Org!Roots
    <3>3. \A m \in DOMAIN nodes : nodes[m] \in S => m \in S
      BY <2>1, <3>1 DEF Reaches
    <3> HIDE DEF S
    <3>4. F \subseteq S
      BY <2>0, <3>2, <3>3 DEF Reaches
    <3>5. QED
      BY <3>4 DEF S
  <2>3. ASSUME NEW n \in Nodes, NEW parent \in Nodes \cup {None}, Org!UpdateNode(n, parent)
        PROVE  F \subseteq F' \/ \E m \in DOMAIN nodes : Loses(m)
    <3>1. /\ n \in DOMAIN nodes /\ parent \in DOMAIN nodes /\ None \notin DOMAIN nodes
          /\ DOMAIN nodes' = DOMAIN nodes /\ nodes'[n] = parent
          /\ \A m \in DOMAIN nodes : m # n => nodes'[m] = nodes[m]
      BY <2>3 DEF Org!UpdateNode, Org!TypeOK
    <3>2. CASE nodes[n] = parent
      <4>1. nodes' = nodes
        BY <2>3, <3>1, <3>2 DEF Org!UpdateNode, Org!TypeOK
      <4>2. Org!Roots' = Org!Roots
        BY <4>1 DEF Org!Roots
      <4>3. QED
        BY <2>0, <2>1, <4>1, <4>2 DEF Reaches
    <3>3. CASE nodes[n] # parent
      <4>1. Reaches(nodes, {n}, Org!Below(n))
        BY <3>1, ReachedLeast DEF Org!Below
      <4>2. F \subseteq F' \/ (parent \in Org!Below(n) \cup (DOMAIN nodes \ F) /\ F \ F' = Org!Below(n))
        <5> DEFINE B == Org!Below(n)
        <5>1. /\ Org!Roots = {m \in DOMAIN nodes : nodes[m] = None}
              /\ Org!Roots' = {m \in DOMAIN nodes : nodes'[m] = None}
          BY <3>1 DEF Org!Roots
        <5> HIDE DEF B
        <5>2. QED
          BY <2>0, <2>1, <3>1, <4>1, <5>1, UpdateLoses DEF B
      <4>3. QED
        BY <3>1, <3>3, <4>2
    <3>4. QED
      BY <3>2, <3>3
  <2>4. QED
    BY <2>2, <2>3 DEF Org!Next
<1>2. QED
  BY <1>1, OrgTypes, PTL DEF Org!Spec, Org!LostOnlyInCycles, LostOnlyInCycles
=============================================================================
