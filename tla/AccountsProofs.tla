---------------------------- MODULE AccountsProofs ---------------------------
(* Theorems about Accounts, for every value of its constants. *)
EXTENDS Accounts, FiniteSetTheorems, TLAPS

----------------------------------------------------------------------------
(* Rows.                                                                   *)

LEMMA ApplyRow ==
  ASSUME NEW row \in UserRow, NEW patch \in Patch
  PROVE  Apply(row, patch) \in UserRow
  BY AccountsAssumption DEF AccountsAssumption, Apply, Given, UserRow, Patch, Roles, Assignable

LEMMA WrittenRow ==
  ASSUME NEW now \in UserRow, NEW before \in UserRow, NEW new \in UserRow
  PROVE  Written(now, before, new) \in UserRow
  BY DEF Written, Column, UserRow

LEMMA SeededRows ==
  ASSUME NEW rows, DOMAIN rows \subseteq Users, rows \in [DOMAIN rows -> UserRow],
         NEW u \in Users, NEW email \in Emails, NEW role \in Roles
  PROVE  LET more == Seeded(rows, u, email, role) IN
         /\ DOMAIN more \subseteq Users
         /\ more \in [DOMAIN more -> UserRow]
         /\ DOMAIN rows \subseteq DOMAIN more
         /\ \A v \in DOMAIN rows : more[v] = rows[v]
  BY DEF Seeded, UserRow

----------------------------------------------------------------------------
(* Type correctness, whatever races.                                       *)

\* The rows and tokens a request works on are there.
Ready ==
    \A w \in Workers :
        /\ session[w].op \in {"update", "login"} => session[w].id \in DOMAIN users
        /\ session[w].op \in {"refresh", "logout"} => session[w].token \in DOMAIN tokens

TypeInv == TypeOK /\ Ready

LEMMA InitTypeInv == Init => TypeInv
<1> SUFFICES ASSUME Init PROVE TypeInv
  OBVIOUS
<1>1. PICK A \in SUBSET Users :
          users \in [A -> [email : Emails, role : {"admin"}, is_active : {TRUE}]]
  BY DEF Init
<1>2. DOMAIN users \subseteq Users /\ users \in [DOMAIN users -> UserRow]
  BY <1>1 DEF UserRow, Roles
<1>3. tokens = << >> /\ DOMAIN tokens = {} /\ tokens \in [DOMAIN tokens -> DOMAIN users]
  BY DEF Init
<1>4. QED
  BY <1>2, <1>3 DEF Init, TypeInv, TypeOK, Ready, Idle, Session

\* A step that changes nothing but the session of w.
LEMMA SessionStep ==
  ASSUME TypeInv, NEW w \in Workers,
         NEW s \in Session,
         session' = [session EXCEPT ![w] = s],
         UNCHANGED <<users, tokens, revoked, logged_out, answered, late>>,
         s.op \in {"update", "login"} => s.id \in DOMAIN users,
         s.op \in {"refresh", "logout"} => s.token \in DOMAIN tokens
  PROVE  TypeInv'
  BY DEF TypeInv, TypeOK, Ready

\* What the op of a session says of its other fields.
LEMMA SessionOps ==
  ASSUME TypeOK, NEW w \in Workers
  PROVE  /\ session[w].op = "create" => session[w] \in CreateSession
         /\ session[w].op = "update" => session[w] \in UpdateSession
         /\ session[w].op = "login" => session[w] \in LoginSession
         /\ session[w].op = "refresh" => session[w] \in RefreshSession
         /\ session[w].op = "logout" => session[w] \in LogoutSession
  BY DEF TypeOK, Session, Idle, CreateSession, UpdateSession, LoginSession,
         RefreshSession, LogoutSession

LEMMA EndStep ==
  ASSUME TypeInv, NEW w \in Workers, Ends(w),
         UNCHANGED <<users, tokens, revoked, logged_out, answered, late>>
  PROVE  TypeInv'
  BY SessionStep DEF Ends, Idle, Session

LEMMA GoStep ==
  ASSUME TypeInv, NEW w \in Workers, NEW pc, Goes(w, pc),
         UNCHANGED <<users, tokens, revoked, logged_out, answered, late>>,
         \/ session[w] \in CreateSession /\ pc = "commit"
         \/ session[w] \in UpdateSession /\ pc \in {"count", "commit"}
  PROVE  TypeInv'
<1> DEFINE s == [session[w] EXCEPT !.pc = pc]
<1>1. CASE session[w] \in CreateSession /\ pc = "commit"
  <2>1. s \in CreateSession /\ s.op = "create"
    BY <1>1 DEF CreateSession
  <2>2. QED
    BY <2>1, SessionStep DEF Goes, Session
<1>2. CASE session[w] \in UpdateSession /\ pc \in {"count", "commit"}
  <2>1. s \in UpdateSession /\ s.op = "update" /\ s.id = session[w].id
    BY <1>2 DEF UpdateSession
  <2>2. s.id \in DOMAIN users
    BY <1>2, <2>1 DEF TypeInv, Ready, UpdateSession
  <2>3. QED
    BY <2>1, <2>2, SessionStep DEF Goes, Session
<1>3. QED
  BY <1>1, <1>2

\* A step that adds rows or changes some, and ends the request of w or none.
LEMMA RowsStep ==
  ASSUME TypeInv, DOMAIN users' \subseteq Users, users' \in [DOMAIN users' -> UserRow],
         DOMAIN users \subseteq DOMAIN users',
         UNCHANGED <<tokens, revoked, logged_out, answered, late>>,
         \/ UNCHANGED session
         \/ \E w \in Workers : Ends(w)
  PROVE  TypeInv'
  BY DEF TypeInv, TypeOK, Ready, Ends, Idle, Session

LEMMA NextTypeInv == TypeInv /\ [Next]_vars => TypeInv'
<1> SUFFICES ASSUME TypeInv, [Next]_vars PROVE TypeInv'
  OBVIOUS
<1> USE AccountsAssumption DEF AccountsAssumption
<1> TypeOK /\ Ready
  BY DEF TypeInv
<1>1. ASSUME NEW w \in Workers, NEW by \in Users, NEW u \in Users, NEW email \in Emails,
             NEW role \in Assignable, CreateStart(w, by, u, email, role)
      PROVE  TypeInv'
  <2> DEFINE s == [op |-> "create", pc |-> "lookup", by |-> by, id |-> u,
                   new |-> [email |-> email, role |-> role, is_active |-> TRUE]]
  <2>1. s \in CreateSession
    BY DEF CreateSession, UserRow, Assignable, Roles
  <2>2. QED
    BY <1>1, <2>1, SessionStep DEF CreateStart, Session
<1>2. ASSUME NEW w \in Workers, CreateLookup(w)
      PROVE  TypeInv'
  BY <1>2, SessionOps, GoStep, EndStep DEF CreateLookup
<1>3. ASSUME NEW w \in Workers, CreateCommit(w)
      PROVE  TypeInv'
  <2>1. session[w].id \in Users /\ session[w].new \in UserRow
    BY <1>3, SessionOps DEF CreateCommit, CreateSession
  <2>2. /\ DOMAIN users' \subseteq Users
        /\ users' \in [DOMAIN users' -> UserRow]
        /\ DOMAIN users \subseteq DOMAIN users'
    BY <1>3, <2>1 DEF CreateCommit, TypeOK
  <2>3. QED
    BY <1>3, <2>2, RowsStep DEF CreateCommit
<1>4. ASSUME NEW w \in Workers, NEW by \in Users, NEW u \in Users, NEW patch \in Patches,
             UpdateStart(w, by, u, patch)
      PROVE  TypeInv'
  <2> DEFINE s == [op |-> "update", pc |-> "email", by |-> by, id |-> u,
                   before |-> users[u], new |-> Apply(users[u], patch),
                   deactivates |-> patch.is_active = FALSE]
  <2>1. users[u] \in UserRow /\ Apply(users[u], patch) \in UserRow
    BY <1>4, ApplyRow DEF UpdateStart, TypeOK
  <2>2. s \in UpdateSession /\ s.id \in DOMAIN users
    BY <1>4, <2>1 DEF UpdateSession, UpdateStart
  <2>3. QED
    BY <1>4, <2>2, SessionStep DEF UpdateStart, Session
<1>5. ASSUME NEW w \in Workers, NEW by \in Users, NEW u \in Users, DeactivateStart(w, by, u)
      PROVE  TypeInv'
  <2> DEFINE s == [op |-> "update", pc |-> "count", by |-> by, id |-> u,
                   before |-> users[u], new |-> [users[u] EXCEPT !.is_active = FALSE],
                   deactivates |-> TRUE]
  <2>1. users[u] \in UserRow
    BY <1>5 DEF DeactivateStart, TypeOK
  <2>2. s \in UpdateSession /\ s.id \in DOMAIN users
    BY <1>5, <2>1 DEF UpdateSession, UserRow, DeactivateStart
  <2>3. QED
    BY <1>5, <2>2, SessionStep DEF DeactivateStart, Session
<1>6. ASSUME NEW w \in Workers, UpdateReadEmail(w)
      PROVE  TypeInv'
  BY <1>6, SessionOps, GoStep, EndStep DEF UpdateReadEmail
<1>7. ASSUME NEW w \in Workers, UpdateReadCount(w)
      PROVE  TypeInv'
  BY <1>7, SessionOps, GoStep, EndStep DEF UpdateReadCount
<1>8. ASSUME NEW w \in Workers, UpdateCommit(w)
      PROVE  TypeInv'
  <2> DEFINE s == session[w]
             row == Written(users[s.id], s.before, s.new)
  <2>1. s \in UpdateSession /\ s.id \in DOMAIN users
    BY <1>8, SessionOps DEF UpdateCommit, Ready
  <2>2. row \in UserRow
    BY <2>1, WrittenRow DEF UpdateSession, TypeOK
  <2>3. users' \in {users, [users EXCEPT ![s.id] = row]}
    BY <1>8 DEF UpdateCommit
  <2> HIDE DEF row
  <2>4. users' \in [DOMAIN users -> UserRow] /\ DOMAIN users' = DOMAIN users
    BY <2>2, <2>3 DEF TypeOK
  <2>5. QED
    BY <1>8, <2>4, RowsStep DEF UpdateCommit, TypeOK
<1>9. ASSUME NEW u \in Users, NEW v \in Users, NEW e \in Emails, NEW f \in Emails,
             Seed(u, e, v, f)
      PROVE  TypeInv'
  <2> DEFINE rows == Seeded(users, u, e, "admin")
  <2> "admin" \in Roles /\ "investigator" \in Roles
    BY DEF Roles
  <2>1. /\ DOMAIN rows \subseteq Users /\ rows \in [DOMAIN rows -> UserRow]
        /\ DOMAIN users \subseteq DOMAIN rows
    BY SeededRows DEF TypeOK
  <2> HIDE DEF rows
  <2>2. users' = Seeded(rows, v, f, "investigator")
    BY <1>9 DEF Seed, rows
  <2>3. /\ DOMAIN users' \subseteq Users /\ users' \in [DOMAIN users' -> UserRow]
        /\ DOMAIN users \subseteq DOMAIN users'
    BY <2>1, <2>2, SeededRows
  <2>4. QED
    BY <1>9, <2>3, RowsStep DEF Seed
<1>10. ASSUME NEW w \in Workers, NEW u \in Users, LoginStart(w, u)
       PROVE  TypeInv'
  BY <1>10, SessionStep DEF LoginStart, LoginSession, Session
<1>11. ASSUME NEW w \in Workers, NEW t \in Tokens, LoginEnd(w, t)
       PROVE  TypeInv'
  <2>1. session[w].id \in DOMAIN users
    BY <1>11 DEF LoginEnd, Ready
  <2>2. /\ DOMAIN tokens' = DOMAIN tokens \cup {t}
        /\ tokens' \in [DOMAIN tokens' -> DOMAIN users]
    BY <1>11, <2>1 DEF LoginEnd, TypeOK
  <2>3. QED
    BY <1>11, <2>2 DEF LoginEnd, Ends, TypeInv, TypeOK, Ready, Idle, Session
<1>12. ASSUME NEW w \in Workers, NEW t \in Tokens, RefreshStart(w, t)
       PROVE  TypeInv'
  <2> DEFINE s == [op |-> "refresh", token |-> t, after_logout |-> t \in logged_out,
                   after_answer |-> t \in answered[process_of[w]]]
  <2>1. s \in RefreshSession /\ t \in DOMAIN tokens
    BY <1>12 DEF RefreshSession, RefreshStart, validate_refresh_token
  <2>2. s \in Session
    BY <2>1 DEF Session
  <2>3. QED
    BY <1>12, <2>1, <2>2, SessionStep DEF RefreshStart
<1>13. ASSUME NEW w \in Workers, NEW t \in Tokens, LogoutStart(w, t)
       PROVE  TypeInv'
  <2> DEFINE s == [op |-> "logout", token |-> t]
  <2>1. s \in Session
    BY DEF Session, LogoutSession
  <2>2. (revoked \in [Processes -> SUBSET DOMAIN tokens])'
    BY <1>13 DEF LogoutStart, TypeOK
  <2>3. QED
    BY <1>13, <2>1, <2>2 DEF LogoutStart, TypeInv, TypeOK, Ready
<1>14. ASSUME NEW w \in Workers, RefreshEnd(w)
       PROVE  TypeInv'
  <2>1. session[w] \in RefreshSession
    BY <1>14, SessionOps DEF RefreshEnd, TypeInv
  <2>2. late' \subseteq LateExchange
    BY <1>14, <2>1 DEF RefreshEnd, RefreshSession, LateExchange, TypeInv, TypeOK
  <2>3. session' \in [Workers -> Session]
    BY <1>14 DEF RefreshEnd, Ends, Session, TypeInv, TypeOK
  <2>4. QED
    BY <1>14, <2>2, <2>3 DEF RefreshEnd, Ends, TypeInv, TypeOK, Ready, Idle
<1>15. ASSUME NEW w \in Workers, LogoutEnd(w)
       PROVE  TypeInv'
  <2>1. session[w].token \in DOMAIN tokens
    BY <1>15 DEF LogoutEnd, Ready
  <2>2. answered' \in [Processes -> SUBSET logged_out']
    BY <1>15 DEF LogoutEnd, TypeInv, TypeOK
  <2>3. session' \in [Workers -> Session]
    BY <1>15 DEF LogoutEnd, Ends, Session, TypeInv, TypeOK
  <2>4. QED
    BY <1>15, <2>1, <2>2, <2>3 DEF LogoutEnd, Ends, TypeInv, TypeOK, Ready, Idle
<1>16. ASSUME NEW w \in Workers, Abort(w)
       PROVE  TypeInv'
  BY <1>16, EndStep DEF Abort
<1>17. ASSUME NEW p \in Processes, Restart(p)
       PROVE  TypeInv'
  BY <1>17 DEF Restart, TypeInv, TypeOK, Ready, Idle, Session
<1>18. CASE UNCHANGED vars
  BY <1>18 DEF vars, TypeInv, TypeOK, Ready
<1>19. QED
  BY <1>1, <1>2, <1>3, <1>4, <1>5, <1>6, <1>7, <1>8, <1>9, <1>10, <1>11, <1>12, <1>13,
     <1>14, <1>15, <1>16, <1>17, <1>18 DEF Next

\* The types of all variables, whatever requests race and processes die.
THEOREM TypeCorrect == Spec => []TypeOK
<1>1. TypeInv => TypeOK
  BY DEF TypeInv
<1>2. QED
  BY <1>1, InitTypeInv, NextTypeInv, PTL DEF Spec

----------------------------------------------------------------------------
(* Logouts.                                                                *)

\* What a process has answered is in its memory, and what a logout under way will
\* answer, too; so no refresh under way is of a token answered before it.
LogoutInv ==
    /\ AnsweredStaysOut
    /\ \A p \in Processes : answered[p] \subseteq revoked[p]
    /\ \A w \in Workers :
          /\ session[w].op = "logout" => session[w].token \in revoked[process_of[w]]
          /\ session[w].op = "refresh" => session[w].after_answer = FALSE

\* A step that neither starts, answers nor forgets anything about tokens.
LEMMA QuietLogouts ==
  ASSUME TypeOK, LogoutInv, UNCHANGED <<revoked, answered, late>>,
         \A w \in Workers :
             \/ session'[w] = session[w]
             \/ session'[w].op \in {"idle", "create", "update", "login"}
  PROVE  LogoutInv'
  BY DEF LogoutInv, AnsweredStaysOut

LEMMA NextLogoutInv == TypeInv /\ LogoutInv /\ [Next]_vars => LogoutInv'
<1> SUFFICES ASSUME TypeInv, LogoutInv, [Next]_vars PROVE LogoutInv'
  OBVIOUS
<1>a. TypeOK /\ process_of \in [Workers -> Processes]
  BY AccountsAssumption DEF TypeInv
<1>1. ASSUME NEW w \in Workers, NEW t \in Tokens, RefreshStart(w, t)
      PROVE  LogoutInv'
  <2>1. t \notin answered[process_of[w]]
    BY <1>1, <1>a DEF RefreshStart, validate_refresh_token, LogoutInv
  <2>2. (t \in answered[process_of[w]]) = FALSE
    BY <2>1
  <2>3. session'[w].op = "refresh" /\ session'[w].after_answer = FALSE
    BY <1>1, <1>a, <2>2 DEF RefreshStart, TypeOK
  <2>4. \A v \in Workers : v # w => session'[v] = session[v]
    BY <1>1, <1>a DEF RefreshStart, TypeOK
  <2>5. QED
    BY <1>1, <2>3, <2>4 DEF RefreshStart, LogoutInv, AnsweredStaysOut
<1>2. ASSUME NEW w \in Workers, RefreshEnd(w)
      PROVE  LogoutInv'
  <2>1. session[w].after_answer = FALSE
    BY <1>2 DEF RefreshEnd, LogoutInv
  <2>2. AnsweredStaysOut'
    BY <1>2, <2>1 DEF RefreshEnd, LogoutInv, AnsweredStaysOut
  <2>3. QED
    BY <1>2, <1>a, <2>2 DEF RefreshEnd, Ends, LogoutInv, TypeOK, Idle
<1>3. ASSUME NEW w \in Workers, NEW t \in Tokens, LogoutStart(w, t)
      PROVE  LogoutInv'
  <2>1. \A p \in Processes : revoked[p] \subseteq revoked'[p]
    BY <1>3, <1>a DEF LogoutStart, TypeOK
  <2>2. t \in revoked'[process_of[w]]
    BY <1>3, <1>a DEF LogoutStart, TypeOK
  <2>3. \A v \in Workers :
            /\ session'[v].op = "logout" => session'[v].token \in revoked'[process_of[v]]
            /\ session'[v].op = "refresh" => session'[v].after_answer = FALSE
    BY <1>3, <1>a, <2>1, <2>2 DEF LogoutStart, LogoutInv, TypeOK
  <2>4. QED
    BY <1>3, <2>1, <2>3 DEF LogoutStart, LogoutInv, AnsweredStaysOut
<1>4. ASSUME NEW w \in Workers, LogoutEnd(w)
      PROVE  LogoutInv'
  <2>1. session[w].token \in revoked[process_of[w]]
    BY <1>4 DEF LogoutEnd, LogoutInv
  <2>2. \A p \in Processes : answered'[p] \subseteq revoked'[p]
    BY <1>4, <1>a, <2>1 DEF LogoutEnd, LogoutInv, TypeOK
  <2>3. QED
    BY <1>4, <1>a, <2>2 DEF LogoutEnd, Ends, LogoutInv, AnsweredStaysOut, TypeOK, Idle
<1>5. ASSUME NEW p \in Processes, Restart(p)
      PROVE  LogoutInv'
  <2>1. \A q \in Processes : answered'[q] \subseteq revoked'[q]
    BY <1>5, <1>a DEF Restart, LogoutInv, TypeOK
  <2>2. \A v \in Workers :
            /\ session'[v].op = "logout" => session'[v].token \in revoked'[process_of[v]]
            /\ session'[v].op = "refresh" => session'[v].after_answer = FALSE
    BY <1>5, <1>a DEF Restart, LogoutInv, TypeOK, Idle
  <2>3. QED
    BY <1>5, <2>1, <2>2 DEF Restart, LogoutInv, AnsweredStaysOut
<1>6. ASSUME NEW w \in Workers, NEW by \in Users, NEW u \in Users, NEW email \in Emails,
             NEW role \in Assignable, CreateStart(w, by, u, email, role)
      PROVE  LogoutInv'
  BY <1>6, <1>a, QuietLogouts DEF CreateStart, TypeOK
<1>7. ASSUME NEW w \in Workers, CreateLookup(w)
      PROVE  LogoutInv'
  BY <1>7, <1>a, QuietLogouts, SessionOps DEF CreateLookup, Ends, Goes, TypeOK, Idle, CreateSession
<1>8. ASSUME NEW w \in Workers, CreateCommit(w) \/ UpdateCommit(w) \/ Abort(w)
      PROVE  LogoutInv'
  BY <1>8, <1>a, QuietLogouts DEF CreateCommit, UpdateCommit, Abort, Ends, TypeOK, Idle
<1>9. ASSUME NEW w \in Workers, NEW by \in Users, NEW u \in Users, NEW patch \in Patches,
             UpdateStart(w, by, u, patch)
      PROVE  LogoutInv'
  BY <1>9, <1>a, QuietLogouts DEF UpdateStart, TypeOK
<1>10. ASSUME NEW w \in Workers, NEW by \in Users, NEW u \in Users, DeactivateStart(w, by, u)
       PROVE  LogoutInv'
  BY <1>10, <1>a, QuietLogouts DEF DeactivateStart, TypeOK
<1>11. ASSUME NEW w \in Workers, UpdateReadEmail(w) \/ UpdateReadCount(w)
       PROVE  LogoutInv'
  BY <1>11, <1>a, QuietLogouts, SessionOps
     DEF UpdateReadEmail, UpdateReadCount, Ends, Goes, TypeOK, Idle, UpdateSession
<1>12. ASSUME NEW w \in Workers, NEW u \in Users, LoginStart(w, u)
       PROVE  LogoutInv'
  BY <1>12, <1>a, QuietLogouts DEF LoginStart, TypeOK
<1>13. ASSUME NEW w \in Workers, NEW t \in Tokens, LoginEnd(w, t)
       PROVE  LogoutInv'
  BY <1>13, <1>a, QuietLogouts DEF LoginEnd, Ends, TypeOK, Idle
<1>14. ASSUME NEW u \in Users, NEW v \in Users, NEW e \in Emails, NEW f \in Emails,
              Seed(u, e, v, f)
       PROVE  LogoutInv'
  BY <1>14, <1>a, QuietLogouts DEF Seed
<1>15. CASE UNCHANGED vars
  BY <1>15, <1>a, QuietLogouts DEF vars
<1>16. QED
  BY <1>1, <1>2, <1>3, <1>4, <1>5, <1>6, <1>7, <1>8, <1>9, <1>10, <1>11, <1>12, <1>13,
     <1>14, <1>15 DEF Next

\* A process that has answered a logout exchanges that token for no later request
\* while it runs, whatever other requests and processes do.
THEOREM AnsweredTokensStayOut == Spec => []AnsweredStaysOut
<1>1. Init => LogoutInv
  BY DEF Init, LogoutInv, AnsweredStaysOut, Idle
<1>2. LogoutInv => AnsweredStaysOut
  BY DEF LogoutInv
<1>3. QED
  BY <1>1, <1>2, InitTypeInv, NextTypeInv, NextLogoutInv, PTL DEF Spec

----------------------------------------------------------------------------
(* Emails.                                                                 *)

\* The index keeps emails unique, whatever requests race, however stale the
\* lookups of create_user and update_user are, and whatever the seed adds.
THEOREM EmailsUnique == Spec => []UniqueEmails
<1> DEFINE Inv == TypeInv /\ UniqueEmails
<1>1. Init => Inv
  BY InitTypeInv DEF Init, UniqueEmails
<1>2. Inv /\ [Next]_vars => Inv'
  <2> SUFFICES ASSUME TypeInv, UniqueEmails, [Next]_vars
               PROVE  UniqueEmails'
    BY NextTypeInv
  <2> TypeOK /\ Ready
    BY DEF TypeInv
  <2>1. ASSUME UNCHANGED users
        PROVE  UniqueEmails'
    BY <2>1 DEF UniqueEmails
  <2>2. ASSUME NEW w \in Workers, CreateCommit(w)
        PROVE  UniqueEmails'
    BY <2>1, <2>2 DEF CreateCommit, UniqueEmails, FreeEmail
  <2>3. ASSUME NEW w \in Workers, UpdateCommit(w)
        PROVE  UniqueEmails'
    <3> DEFINE s == session[w]
               row == Written(users[s.id], s.before, s.new)
    <3>1. CASE FreeEmail(row.email, DOMAIN users \ {s.id}) /\ users' = [users EXCEPT ![s.id] = row]
      <4> HIDE DEF row
      <4>1. DOMAIN users' = DOMAIN users
        BY <3>1
      <4>2. \A u \in DOMAIN users : users'[u] = IF u = s.id THEN row ELSE users[u]
        BY <3>1 DEF TypeOK
      <4>3. QED
        BY <3>1, <4>1, <4>2 DEF UniqueEmails, FreeEmail
    <3>2. CASE users' = users
      BY <3>2, <2>1
    <3>3. QED
      BY <2>3, <3>1, <3>2 DEF UpdateCommit
  <2>4. ASSUME NEW u \in Users, NEW v \in Users, NEW e \in Emails, NEW f \in Emails,
               Seed(u, e, v, f)
        PROVE  UniqueEmails'
    BY <2>4 DEF Seed, UniqueEmails
  <2>5. QED
    BY <2>1, <2>2, <2>3, <2>4 DEF Next, CreateStart, CreateLookup, UpdateStart,
       DeactivateStart, UpdateReadEmail, UpdateReadCount, LoginStart, LoginEnd, RefreshStart,
       RefreshEnd, LogoutStart, LogoutEnd, Abort, Restart, vars
<1>3. QED
  BY <1>1, <1>2, PTL DEF Spec

----------------------------------------------------------------------------
(* Administrators.                                                         *)

\* Who was an administrator is one, and nobody became one.
SameAdmins ==
    \A u \in DOMAIN users :
        u \in DOMAIN users' /\ (users[u].role = "admin") = (users'[u].role = "admin")

\* An update that sets a role sets it to another than administrator, of a user
\* who is not one: still so at its commit, however long it takes.
KeepsAdmins ==
    \A w \in Workers :
        LET s == session[w] IN
        s.op = "update" /\ s.new.role # s.before.role =>
            s.new.role # "admin" /\ users[s.id].role # "admin"

RoleInv == TypeInv /\ KeepsAdmins

\* Rows are only added, and an update in flight was in flight, the same.
RowsGrow == \A u \in DOMAIN users : u \in DOMAIN users' /\ users'[u] = users[u]

SameUpdate(v) ==
    LET s == session[v]  t == session'[v] IN
    /\ s.op = "update"
    /\ t.by = s.by /\ t.id = s.id /\ t.before = s.before /\ t.new = s.new
    /\ t.deactivates = s.deactivates

QuietStep == RowsGrow /\ \A v \in Workers : session'[v].op = "update" => SameUpdate(v)

LEMMA QuietSession ==
  ASSUME TypeOK, NEW w \in Workers, NEW s, session' = [session EXCEPT ![w] = s],
         s.op # "update", RowsGrow
  PROVE  QuietStep
  BY DEF TypeOK, QuietStep, SameUpdate

LEMMA QuietGo ==
  ASSUME TypeOK, NEW w \in Workers, NEW pc, Goes(w, pc), UNCHANGED users,
         session[w] \in CreateSession \cup UpdateSession
  PROVE  QuietStep
<1> DEFINE s == [session[w] EXCEPT !.pc = pc]
<1>1. RowsGrow
  BY DEF RowsGrow
<1>2. CASE session[w] \in CreateSession
  <2>1. s.op # "update"
    BY <1>2 DEF CreateSession
  <2>2. QED
    BY <1>1, <2>1, QuietSession DEF Goes
<1>3. CASE session[w] \in UpdateSession
  <2>1. /\ session[w].op = "update"
        /\ s.by = session[w].by /\ s.id = session[w].id /\ s.before = session[w].before
        /\ s.new = session[w].new /\ s.deactivates = session[w].deactivates
    BY <1>3 DEF UpdateSession
  <2> HIDE DEF s
  <2>2. \A v \in Workers : session'[v] = IF v = w THEN s ELSE session[v]
    BY DEF Goes, TypeOK, s
  <2>3. QED
    BY <1>1, <2>1, <2>2 DEF QuietStep, SameUpdate
<1>4. QED
  BY <1>2, <1>3

\* The steps of Next that matter to updates are the first and the last of one.
LEMMA UpdateSteps ==
  ASSUME TypeInv, [Next]_vars
  PROVE  \/ \E w \in Workers, by, u \in Users, patch \in Patches : UpdateStart(w, by, u, patch)
         \/ \E w \in Workers, by, u \in Users : DeactivateStart(w, by, u)
         \/ \E w \in Workers : UpdateCommit(w)
         \/ QuietStep
<1> TypeOK /\ Ready
  BY DEF TypeInv
<1>a. UNCHANGED users => RowsGrow
  BY DEF RowsGrow
<1>b. Idle.op # "update"
  BY DEF Idle
<1>1. ASSUME NEW w \in Workers, NEW by \in Users, NEW u \in Users, NEW email \in Emails,
             NEW role \in Assignable, CreateStart(w, by, u, email, role)
      PROVE  QuietStep
  <2> DEFINE s == [op |-> "create", pc |-> "lookup", by |-> by, id |-> u,
                   new |-> [email |-> email, role |-> role, is_active |-> TRUE]]
  <2>1. s.op # "update" /\ session' = [session EXCEPT ![w] = s] /\ UNCHANGED users
    BY <1>1 DEF CreateStart
  <2> HIDE DEF s
  <2>2. QED
    BY <2>1, <1>a, QuietSession
<1>2. ASSUME NEW w \in Workers,
             CreateLookup(w) \/ UpdateReadEmail(w) \/ UpdateReadCount(w) \/ Abort(w)
      PROVE  QuietStep
  BY <1>2, <1>a, <1>b, SessionOps, QuietSession, QuietGo
  DEF CreateLookup, UpdateReadEmail, UpdateReadCount, Abort, Ends
<1>3. ASSUME NEW w \in Workers, CreateCommit(w)
      PROVE  QuietStep
  <2>1. RowsGrow
    BY <1>3 DEF CreateCommit, RowsGrow
  <2>2. QED
    BY <1>3, <2>1, <1>b, QuietSession DEF CreateCommit, Ends
<1>4. ASSUME NEW u \in Users, NEW v \in Users, NEW e \in Emails, NEW f \in Emails,
             Seed(u, e, v, f)
      PROVE  QuietStep
  BY <1>4 DEF Seed, Seeded, QuietStep, RowsGrow, SameUpdate
<1>5. ASSUME NEW w \in Workers, NEW u \in Users, LoginStart(w, u)
      PROVE  QuietStep
  <2> DEFINE s == [op |-> "login", id |-> u]
  <2>1. s.op # "update" /\ session' = [session EXCEPT ![w] = s] /\ UNCHANGED users
    BY <1>5 DEF LoginStart
  <2> HIDE DEF s
  <2>2. QED
    BY <2>1, <1>a, QuietSession
<1>6. ASSUME NEW w \in Workers, NEW t \in Tokens,
             LoginEnd(w, t) \/ RefreshStart(w, t) \/ LogoutStart(w, t)
      PROVE  QuietStep
  BY <1>6, <1>a, <1>b, QuietSession DEF LoginEnd, RefreshStart, LogoutStart, Ends
<1>7. ASSUME NEW w \in Workers, RefreshEnd(w) \/ LogoutEnd(w)
      PROVE  QuietStep
  BY <1>7, <1>a, <1>b, QuietSession DEF RefreshEnd, LogoutEnd, Ends
<1>8. ASSUME NEW p \in Processes, Restart(p)
      PROVE  QuietStep
  BY <1>8, <1>a, <1>b DEF Restart, QuietStep, SameUpdate
<1>9. CASE UNCHANGED vars
  BY <1>9 DEF vars, QuietStep, RowsGrow, SameUpdate
<1>10. QED
  BY <1>1, <1>2, <1>3, <1>4, <1>5, <1>6, <1>7, <1>8, <1>9 DEF Next

\* The administrators at a commit: those before it.
LEMMA CommitKeepsAdmins ==
  ASSUME TypeInv, KeepsAdmins, NEW w \in Workers, UpdateCommit(w)
  PROVE  SameAdmins
<1> DEFINE s == session[w]
           row == Written(users[s.id], s.before, s.new)
<1>1. s \in UpdateSession /\ s.op = "update" /\ s.id \in DOMAIN users
  BY SessionOps DEF UpdateCommit, TypeInv, Ready
<1>2. users[s.id] \in UserRow
  BY <1>1 DEF TypeInv, TypeOK
<1>3. (users[s.id].role = "admin") = (row.role = "admin")
  BY <1>1, <1>2 DEF KeepsAdmins, Written, Column, UserRow, UpdateSession
<1>4. users' = users \/ users' = [users EXCEPT ![s.id] = row]
  BY DEF UpdateCommit
<1> HIDE DEF row
<1>5. QED
  BY <1>3, <1>4 DEF SameAdmins, TypeInv, TypeOK

LEMMA NextRoleInv == RoleInv /\ [Next]_vars => RoleInv' /\ SameAdmins
<1> SUFFICES ASSUME TypeInv, TypeInv', KeepsAdmins, [Next]_vars
             PROVE  KeepsAdmins' /\ SameAdmins
  BY NextTypeInv DEF RoleInv
<1> TypeOK /\ Ready
  BY DEF TypeInv
<1>1. ASSUME NEW w \in Workers, NEW by \in Users, NEW u \in Users, NEW patch \in Patches,
             UpdateStart(w, by, u, patch)
      PROVE  KeepsAdmins' /\ SameAdmins
  <2> DEFINE new == Apply(users[u], patch)
  <2>1. users[u] \in UserRow
    BY <1>1 DEF UpdateStart, TypeOK
  <2>2. new.role # users[u].role => new.role # "admin" /\ users[u].role # "admin"
    BY <1>1, <2>1 DEF UpdateStart, Apply, Given, UserRow, _ensure_role_assignable, Assignable
  <2>3. session'[w].before = users[u] /\ session'[w].id = u /\ session'[w].new = new
    BY <1>1 DEF UpdateStart, TypeOK
  <2>4. \A v \in Workers \ {w} : session'[v] = session[v]
    BY <1>1 DEF UpdateStart, TypeOK
  <2>5. users' = users
    BY <1>1 DEF UpdateStart
  <2> HIDE DEF new
  <2>6. KeepsAdmins'
    BY <2>2, <2>3, <2>4, <2>5 DEF KeepsAdmins
  <2>7. QED
    BY <2>5, <2>6 DEF SameAdmins
<1>2. ASSUME NEW w \in Workers, NEW by \in Users, NEW u \in Users, DeactivateStart(w, by, u)
      PROVE  KeepsAdmins' /\ SameAdmins
  <2>1. users[u] \in UserRow
    BY <1>2 DEF DeactivateStart, TypeOK
  <2>2. session'[w].new.role = session'[w].before.role
    BY <1>2, <2>1 DEF DeactivateStart, TypeOK, UserRow
  <2>3. \A v \in Workers \ {w} : session'[v] = session[v]
    BY <1>2 DEF DeactivateStart, TypeOK
  <2>4. users' = users
    BY <1>2 DEF DeactivateStart
  <2>5. QED
    BY <2>2, <2>3, <2>4 DEF KeepsAdmins, SameAdmins
<1>3. ASSUME NEW w \in Workers, UpdateCommit(w)
      PROVE  KeepsAdmins' /\ SameAdmins
  <2>1. SameAdmins
    BY <1>3, CommitKeepsAdmins
  <2>2. \A v \in Workers : session'[v] = IF v = w THEN Idle ELSE session[v]
    BY <1>3 DEF UpdateCommit, Ends, TypeOK
  <2>3. KeepsAdmins'
    BY <2>1, <2>2 DEF KeepsAdmins, SameAdmins, Ready, Idle
  <2>4. QED
    BY <2>1, <2>3
<1>4. CASE QuietStep
  <2>1. SameAdmins
    BY <1>4 DEF QuietStep, RowsGrow, SameAdmins
  <2>2. KeepsAdmins'
    BY <1>4 DEF QuietStep, RowsGrow, SameUpdate, KeepsAdmins, Ready
  <2>3. QED
    BY <2>1, <2>2
<1>5. QED
  BY <1>1, <1>2, <1>3, <1>4, UpdateSteps

\* Requests neither make administrators nor unmake them, whatever races: the
\* row that was checked may be stale at the commit, but its role is not one the
\* check could mistake.
THEOREM AdministratorsStay == Spec => AdminsStay
<1>1. Init => RoleInv
  <2> SUFFICES ASSUME Init PROVE RoleInv
    OBVIOUS
  <2>1. \A w \in Workers : session[w] = Idle
    BY DEF Init
  <2>2. QED
    BY <2>1, InitTypeInv DEF RoleInv, KeepsAdmins, Idle
<1>2. RoleInv /\ [Next]_vars => RoleInv'
  BY NextRoleInv
<1>3. RoleInv /\ [Next]_vars =>
          [\A u \in DOMAIN users :
              /\ u \in DOMAIN users'
              /\ (users[u].role = "admin") = (users'[u].role = "admin")]_vars
  BY NextRoleInv DEF SameAdmins
<1>4. QED
  BY <1>1, <1>2, <1>3, PTL DEF Spec, AdminsStay

----------------------------------------------------------------------------
(* One change of an account at a time.                                     *)

\* Whoever updates an account is an active administrator, the row is the one it
\* read, and it is not its own account that it deactivates.
AdminInFlight ==
    \A w \in Workers :
        LET s == session[w] IN
        s.op = "update" =>
            /\ s.by \in ActiveAdmins
            /\ s.before = users[s.id]
            /\ s.new.role # s.before.role => s.before.role # "admin"
            /\ s.id = s.by => s.new.is_active

AdminInv == TypeInv /\ Isolated /\ AdminInFlight /\ AnAdminRemains

INext == Next /\ Isolated'

LEMMA InitAdmin == Init => AdminInv
<1> SUFFICES ASSUME Init PROVE AdminInv
  OBVIOUS
<1>1. \A w \in Workers : session[w].op = "idle"
  BY DEF Init, Idle
<1>2. AnAdminRemains
  BY DEF Init, AnAdminRemains, ActiveAdmins
<1>3. QED
  BY <1>1, <1>2, InitTypeInv DEF AdminInv, Isolated, AdminInFlight

LEMMA AdminsGrow ==
  ASSUME RowsGrow
  PROVE  ActiveAdmins \subseteq ActiveAdmins'
  BY DEF RowsGrow, ActiveAdmins

LEMMA NextAdmin == AdminInv /\ [INext]_vars => AdminInv'
<1> SUFFICES ASSUME AdminInv, [INext]_vars PROVE AdminInv'
  OBVIOUS
<1> TypeInv /\ TypeOK /\ Ready /\ Isolated /\ AdminInFlight /\ AnAdminRemains /\ [Next]_vars
  BY DEF AdminInv, TypeInv, INext
<1>1. ASSUME NEW w \in Workers, NEW by \in Users, NEW u \in Users, NEW patch \in Patches,
             UpdateStart(w, by, u, patch)
      PROVE  (AdminInFlight /\ AnAdminRemains)'
  <2> DEFINE new == Apply(users[u], patch)
  <2> AccountsAssumption
    BY AccountsAssumption
  <2>1. by \in ActiveAdmins /\ users[u] \in UserRow /\ UNCHANGED users
    BY <1>1 DEF UpdateStart, AdminUser, ActiveAdmins, TypeOK
  <2>2. new.role # users[u].role => users[u].role # "admin"
    BY <1>1, <2>1 DEF UpdateStart, Apply, Given, UserRow, _ensure_role_assignable
  <2>3. u = by => new.is_active
    <3>1. SUFFICES ASSUME u = by PROVE new.is_active
      OBVIOUS
    <3>2. users[u].is_active /\ patch.is_active # FALSE
      BY <1>1, <3>1 DEF UpdateStart, AdminUser
    <3>3. patch.is_active = Unset \/ patch.is_active = TRUE
      BY <3>2 DEF AccountsAssumption, Patch
    <3>4. QED
      BY <2>1, <3>2, <3>3 DEF Apply, Given, UserRow
  <2>4. /\ session'[w].by = by /\ session'[w].id = u
        /\ session'[w].before = users[u] /\ session'[w].new = new
    BY <1>1 DEF UpdateStart, TypeOK
  <2>5. \A v \in Workers \ {w} : session'[v] = session[v]
    BY <1>1 DEF UpdateStart, TypeOK
  <2>6. ActiveAdmins' = ActiveAdmins
    BY <2>1 DEF ActiveAdmins
  <2> HIDE DEF new
  <2>7. QED
    BY <2>1, <2>2, <2>3, <2>4, <2>5, <2>6 DEF AdminInFlight, AnAdminRemains
<1>2. ASSUME NEW w \in Workers, NEW by \in Users, NEW u \in Users, DeactivateStart(w, by, u)
      PROVE  (AdminInFlight /\ AnAdminRemains)'
  <2>1. by \in ActiveAdmins /\ users[u] \in UserRow /\ u # by /\ UNCHANGED users
    BY <1>2 DEF DeactivateStart, AdminUser, ActiveAdmins, TypeOK
  <2>2. /\ session'[w].by = by /\ session'[w].id = u /\ session'[w].before = users[u]
        /\ session'[w].new.role = users[u].role
    BY <1>2, <2>1 DEF DeactivateStart, TypeOK, UserRow
  <2>3. \A v \in Workers \ {w} : session'[v] = session[v]
    BY <1>2 DEF DeactivateStart, TypeOK
  <2>4. ActiveAdmins' = ActiveAdmins
    BY <2>1 DEF ActiveAdmins
  <2>5. QED
    BY <2>1, <2>2, <2>3, <2>4 DEF AdminInFlight, AnAdminRemains
<1>3. ASSUME NEW w \in Workers, UpdateCommit(w)
      PROVE  (AdminInFlight /\ AnAdminRemains)'
  <2> DEFINE s == session[w]
             row == Written(users[s.id], s.before, s.new)
  <2>1. s.op = "update" /\ s \in UpdateSession /\ s.id \in DOMAIN users
    BY <1>3, SessionOps DEF UpdateCommit, Ready
  <2>2. /\ s.by \in ActiveAdmins /\ s.before = users[s.id]
        /\ s.new.role # s.before.role => s.before.role # "admin"
        /\ s.id = s.by => s.new.is_active
    BY <2>1 DEF AdminInFlight
  <2>3. s.id = s.by => row.role = "admin" /\ row.is_active
    BY <2>1, <2>2 DEF ActiveAdmins, Written, Column, TypeOK, UserRow, UpdateSession
  <2>4. users' = users \/ users' = [users EXCEPT ![s.id] = row]
    BY <1>3 DEF UpdateCommit
  <2> HIDE DEF row
  <2>5. s.by \in ActiveAdmins'
    BY <2>2, <2>3, <2>4 DEF ActiveAdmins, TypeOK
  <2>6. \A v \in Workers : session'[v].op # "update"
    BY <1>3, <2>1 DEF Isolated, UpdateCommit, Ends, TypeOK, Idle
  <2>7. QED
    BY <2>5, <2>6 DEF AdminInFlight, AnAdminRemains
<1>4. ASSUME QuietStep
      PROVE  (AdminInFlight /\ AnAdminRemains)'
  <2>1. ActiveAdmins \subseteq ActiveAdmins'
    BY <1>4, AdminsGrow DEF QuietStep
  <2>2. AdminInFlight'
    BY <1>4, <2>1 DEF QuietStep, RowsGrow, SameUpdate, AdminInFlight, Ready
  <2>3. QED
    BY <2>1, <2>2 DEF AnAdminRemains
<1>5. TypeInv' /\ Isolated'
  <2>1. CASE INext
    BY <2>1, NextTypeInv DEF INext
  <2>2. CASE UNCHANGED vars
    BY <2>2, NextTypeInv DEF vars, Isolated
  <2>3. QED
    BY <2>1, <2>2
<1>6. QED
  BY <1>1, <1>2, <1>3, <1>4, <1>5, UpdateSteps DEF AdminInv

\* With one change of an account at a time some administrator stays active,
\* because the one who deactivates is another than the one deactivated.
THEOREM AnAdminStaysActive == IsolatedSpec => []AnAdminRemains
<1>1. [Next /\ Isolated']_vars => [INext]_vars
  BY DEF INext
<1>2. AdminInv => AnAdminRemains
  BY DEF AdminInv
<1>3. QED
  BY <1>1, <1>2, InitAdmin, NextAdmin, PTL DEF IsolatedSpec
=============================================================================
