------------------------------ MODULE Accounts ------------------------------
(***************************************************************************)
(* Accounts and refresh tokens (backend/services/user_service.py,          *)
(* auth_service.py, core/auth.py).  Users are rows of the database;        *)
(* revocations are a set in the memory of each server process, of which    *)
(* docs/DEPLOYMENT.md:140 starts four.                                     *)
(*                                                                         *)
(* A user is known by its username, which never changes.  Passwords, audit *)
(* entries and the expiry of tokens are left out: no guard below depends   *)
(* on them.  An access token grants nothing by itself: each request reads  *)
(* the row of its user (api/deps.py:28).                                   *)
(***************************************************************************)
EXTENDS Naturals, FiniteSets

CONSTANTS
    Users,       \* usernames
    Emails,
    Processes,   \* server processes
    Workers,     \* request threads
    process_of,  \* the process of a thread
    Tokens,      \* refresh tokens
    Patches,     \* payloads of updates
    Unset        \* a field left out of a payload

Roles == {"admin", "investigator", "viewer"}
Assignable == {"investigator", "viewer"}

\* UpdateUserRequest, without the password.
Patch ==
    [email : Emails \cup {Unset}, role : Assignable \cup {Unset},
     is_active : BOOLEAN \cup {Unset}]

ASSUME AccountsAssumption ==
    /\ IsFiniteSet(Users)
    /\ process_of \in [Workers -> Processes]
    /\ Patches \subseteq Patch
    /\ Unset \notin Emails /\ Unset \notin Roles /\ Unset \notin BOOLEAN

VARIABLES
    users,      \* table users
    tokens,     \* the user of each refresh token handed out
    revoked,    \* _revoked_refresh_jtis of each process
    session,    \* what each request thread is doing
    logged_out, \* tokens whose logout has been answered
    answered,   \* of those, the ones each process answered since it started
    late        \* exchanges of a token by a request that came after that

vars == <<users, tokens, revoked, session, logged_out, answered, late>>

UserRow == [email : Emails, role : Roles, is_active : BOOLEAN]

\* A request in flight: who asks, and the row it read or makes.
Idle == [op |-> "idle"]
CreateSession == [op : {"create"}, pc : {"lookup", "commit"}, by : Users, id : Users, new : UserRow]
UpdateSession ==
    [op : {"update"}, pc : {"email", "count", "commit"}, by : Users, id : Users,
     before : UserRow, new : UserRow, deactivates : BOOLEAN]
LoginSession == [op : {"login"}, id : Users]
RefreshSession ==
    [op : {"refresh"}, token : Tokens, after_logout : BOOLEAN, after_answer : BOOLEAN]
LogoutSession == [op : {"logout"}, token : Tokens]
Session ==
    {Idle} \cup CreateSession \cup UpdateSession \cup LoginSession
           \cup RefreshSession \cup LogoutSession

\* A token exchanged after its logout, maybe by the process that answered it.
LateExchange == [token : Tokens, answered : BOOLEAN]

TypeOK ==
    /\ DOMAIN users \subseteq Users
    /\ users \in [DOMAIN users -> UserRow]
    /\ DOMAIN tokens \subseteq Tokens
    /\ tokens \in [DOMAIN tokens -> DOMAIN users]
    /\ revoked \in [Processes -> SUBSET DOMAIN tokens]
    /\ session \in [Workers -> Session]
    /\ logged_out \subseteq DOMAIN tokens
    /\ answered \in [Processes -> SUBSET logged_out]
    /\ late \subseteq LateExchange

Busy(w) == session[w] # Idle
Ends(w) == session' = [session EXCEPT ![w] = Idle]
Goes(w, pc) == session' = [session EXCEPT ![w] = [@ EXCEPT !.pc = pc]]

\* get_current_user and require_roles(ADMIN_ROLES), on the row of the caller.
AdminUser(by) == by \in DOMAIN users /\ users[by].is_active /\ users[by].role = "admin"

ActiveAdmins == {u \in DOMAIN users : users[u].role = "admin" /\ users[u].is_active}

\* Unique indexes of table users; the one on username is the domain of users.
FreeEmail(email, others) == \A v \in others : users[v].email # email

\* Fault: an administrator can be given another role.
AnyRoleAssignable(row, role) == role \in Assignable

\* _ensure_role_assignable
_ensure_role_assignable(row, role) == role \in Assignable /\ row.role # "admin"

\* _ensure_can_deactivate, for the row read.
_ensure_can_deactivate(row) == row.role = "admin" => Cardinality(ActiveAdmins) > 1

----------------------------------------------------------------------------
\* run_seed has made at least one administrator.
Init ==
    /\ \E A \in SUBSET Users :
           /\ A # {}
           /\ users \in [A -> [email : Emails, role : {"admin"}, is_active : {TRUE}]]
           /\ \A u, v \in A : u # v => users[u].email # users[v].email
    /\ tokens = << >>
    /\ revoked = [p \in Processes |-> {}]
    /\ session = [w \in Workers |-> Idle]
    /\ logged_out = {}
    /\ answered = [p \in Processes |-> {}]
    /\ late = {}

\* create_user: an administrator registers an investigator or a viewer; ...
CreateStart(w, by, u, email, role) ==
    /\ ~Busy(w)
    /\ AdminUser(by)
    /\ session' = [session EXCEPT ![w] =
           [op |-> "create", pc |-> "lookup", by |-> by, id |-> u,
            new |-> [email |-> email, role |-> role, is_active |-> TRUE]]]
    /\ UNCHANGED <<users, tokens, revoked, logged_out, answered, late>>

\* ... username and email must be free (409); ...
CreateLookup(w) ==
    LET s == session[w] IN
    /\ s.op = "create" /\ s.pc = "lookup"
    /\ IF s.id \notin DOMAIN users /\ FreeEmail(s.new.email, DOMAIN users)
         THEN Goes(w, "commit") ELSE Ends(w)
    /\ UNCHANGED <<users, tokens, revoked, logged_out, answered, late>>

\* ... and the row is inserted, unless an index raises.
CreateCommit(w) ==
    LET s == session[w] IN
    /\ s.op = "create" /\ s.pc = "commit"
    /\ users' =
           IF s.id \notin DOMAIN users /\ FreeEmail(s.new.email, DOMAIN users)
           THEN [u \in DOMAIN users \cup {s.id} |-> IF u = s.id THEN s.new ELSE users[u]]
           ELSE users
    /\ Ends(w)
    /\ UNCHANGED <<tokens, revoked, logged_out, answered, late>>

\* A column after the payload is applied: left alone when the field is unset.
Given(column, value) == IF value = Unset THEN column ELSE value

Apply(row, patch) ==
    [row EXCEPT !.email = Given(@, patch.email), !.role = Given(@, patch.role),
                !.is_active = Given(@, patch.is_active)]

\* update_user: the caller is an administrator, the user is read, its role may be
\* set, and it is not the caller that is deactivated; ...
UpdateStart(w, by, u, patch) ==
    /\ ~Busy(w)
    /\ AdminUser(by)
    /\ u \in DOMAIN users
    /\ patch.role # Unset => _ensure_role_assignable(users[u], patch.role)
    /\ ~(u = by /\ patch.is_active = FALSE)
    /\ session' = [session EXCEPT ![w] =
           [op |-> "update", pc |-> "email", by |-> by, id |-> u,
            before |-> users[u], new |-> Apply(users[u], patch),
            deactivates |-> patch.is_active = FALSE]]
    /\ UNCHANGED <<users, tokens, revoked, logged_out, answered, late>>

\* deactivate_user: likewise, and nothing is done when it is inactive.
DeactivateStart(w, by, u) ==
    /\ ~Busy(w)
    /\ AdminUser(by)
    /\ u \in DOMAIN users /\ u # by /\ users[u].is_active
    /\ session' = [session EXCEPT ![w] =
           [op |-> "update", pc |-> "count", by |-> by, id |-> u,
            before |-> users[u], new |-> [users[u] EXCEPT !.is_active = FALSE],
            deactivates |-> TRUE]]
    /\ UNCHANGED <<users, tokens, revoked, logged_out, answered, late>>

\* ... a new email must be free (409); ...
UpdateReadEmail(w) ==
    LET s == session[w] IN
    /\ s.op = "update" /\ s.pc = "email"
    /\ IF s.new.email # s.before.email /\ ~FreeEmail(s.new.email, DOMAIN users \ {s.id})
         THEN Ends(w) ELSE Goes(w, "count")
    /\ UNCHANGED <<users, tokens, revoked, logged_out, answered, late>>

\* ... the active administrators are counted before one is deactivated (403); ...
UpdateReadCount(w) ==
    LET s == session[w] IN
    /\ s.op = "update" /\ s.pc = "count"
    /\ IF s.deactivates /\ ~_ensure_can_deactivate(s.before)
         THEN Ends(w) ELSE Goes(w, "commit")
    /\ UNCHANGED <<users, tokens, revoked, logged_out, answered, late>>

\* What an UPDATE leaves in a column: the value now there, unless the request
\* changed the one it read.
Column(now, before, new) == IF new = before THEN now ELSE new

Written(now, before, new) ==
    [now EXCEPT !.email = Column(@, before.email, new.email),
                !.role = Column(@, before.role, new.role),
                !.is_active = Column(@, before.is_active, new.is_active)]

\* ... and the changed columns are written, unless the index on email raises.
UpdateCommit(w) ==
    LET s == session[w]
        row == Written(users[s.id], s.before, s.new)
    IN
    /\ s.op = "update" /\ s.pc = "commit"
    /\ users' = IF FreeEmail(row.email, DOMAIN users \ {s.id})
                THEN [users EXCEPT ![s.id] = row] ELSE users
    /\ Ends(w)
    /\ UNCHANGED <<tokens, revoked, logged_out, answered, late>>

\* run_seed, by the script or at start: an account is made unless its username
\* is there (as when none is configured), ...
Seeded(rows, u, email, role) ==
    [v \in DOMAIN rows \cup {u} |->
        IF v \in DOMAIN rows THEN rows[v]
        ELSE [email |-> email, role |-> role, is_active |-> TRUE]]

\* ... an administrator and an investigator in one transaction, which fails when
\* the index on email raises.
Seed(admin, admin_email, investigator, investigator_email) ==
    LET rows == Seeded(Seeded(users, admin, admin_email, "admin"),
                       investigator, investigator_email, "investigator")
    IN
    /\ \A u, v \in DOMAIN rows : u # v => rows[u].email # rows[v].email
    /\ users' = rows
    /\ UNCHANGED <<tokens, revoked, session, logged_out, answered, late>>

----------------------------------------------------------------------------
\* login: the password is right and the account active; ...
LoginStart(w, u) ==
    /\ ~Busy(w)
    /\ u \in DOMAIN users /\ users[u].is_active
    /\ session' = [session EXCEPT ![w] = [op |-> "login", id |-> u]]
    /\ UNCHANGED <<users, tokens, revoked, logged_out, answered, late>>

\* ... a refresh token is handed out.
LoginEnd(w, t) ==
    /\ session[w].op = "login"
    /\ t \notin DOMAIN tokens
    /\ tokens' = [x \in DOMAIN tokens \cup {t} |-> IF x = t THEN session[w].id ELSE tokens[x]]
    /\ Ends(w)
    /\ UNCHANGED <<users, revoked, logged_out, answered, late>>

\* validate_refresh_token, in the process of the request.
validate_refresh_token(w, t) == t \in DOMAIN tokens /\ t \notin revoked[process_of[w]]

\* refresh: the token is valid; ...
RefreshStart(w, t) ==
    /\ ~Busy(w)
    /\ validate_refresh_token(w, t)
    /\ session' = [session EXCEPT ![w] =
           [op |-> "refresh", token |-> t, after_logout |-> t \in logged_out,
            after_answer |-> t \in answered[process_of[w]]]]
    /\ UNCHANGED <<users, tokens, revoked, logged_out, answered, late>>

\* ... its user is active, and an access token is handed out.
RefreshEnd(w) ==
    LET s == session[w] IN
    /\ s.op = "refresh"
    /\ late' = IF users[tokens[s.token]].is_active /\ s.after_logout
               THEN late \cup {[token |-> s.token, answered |-> s.after_answer]} ELSE late
    /\ Ends(w)
    /\ UNCHANGED <<users, tokens, revoked, logged_out, answered>>

\* Fault: only a token of an active user is revoked.
RevokeIfActive(w, t) ==
    /\ ~Busy(w)
    /\ t \in DOMAIN tokens
    /\ revoked' = IF users[tokens[t]].is_active
                  THEN [revoked EXCEPT ![process_of[w]] = @ \cup {t}] ELSE revoked
    /\ session' = [session EXCEPT ![w] = [op |-> "logout", token |-> t]]
    /\ UNCHANGED <<users, tokens, logged_out, answered, late>>

\* logout: the token is revoked in the memory of this process; ...
LogoutStart(w, t) ==
    /\ ~Busy(w)
    /\ t \in DOMAIN tokens
    /\ revoked' = [revoked EXCEPT ![process_of[w]] = @ \cup {t}]
    /\ session' = [session EXCEPT ![w] = [op |-> "logout", token |-> t]]
    /\ UNCHANGED <<users, tokens, logged_out, answered, late>>

\* ... the audit entry is committed and the answer sent.
LogoutEnd(w) ==
    /\ session[w].op = "logout"
    /\ logged_out' = logged_out \cup {session[w].token}
    /\ answered' = [answered EXCEPT ![process_of[w]] = @ \cup {session[w].token}]
    /\ Ends(w)
    /\ UNCHANGED <<users, tokens, revoked, late>>

\* A request fails or is lost before its commit.
Abort(w) ==
    /\ Busy(w)
    /\ Ends(w)
    /\ UNCHANGED <<users, tokens, revoked, logged_out, answered, late>>

\* A process dies and comes back: its memory is lost.
Restart(p) ==
    /\ session' = [w \in Workers |-> IF process_of[w] = p THEN Idle ELSE session[w]]
    /\ revoked' = [revoked EXCEPT ![p] = {}]
    /\ answered' = [answered EXCEPT ![p] = {}]
    /\ UNCHANGED <<users, tokens, logged_out, late>>

Next ==
    \/ \E w \in Workers :
           \/ \E by, u \in Users, email \in Emails, role \in Assignable :
                  CreateStart(w, by, u, email, role)
           \/ CreateLookup(w)
           \/ CreateCommit(w)
           \/ \E by, u \in Users, patch \in Patches : UpdateStart(w, by, u, patch)
           \/ \E by, u \in Users : DeactivateStart(w, by, u)
           \/ UpdateReadEmail(w)
           \/ UpdateReadCount(w)
           \/ UpdateCommit(w)
           \/ \E u \in Users : LoginStart(w, u)
           \/ \E t \in Tokens : LoginEnd(w, t) \/ RefreshStart(w, t) \/ LogoutStart(w, t)
           \/ RefreshEnd(w)
           \/ LogoutEnd(w)
           \/ Abort(w)
    \/ \E u, v \in Users :
           /\ ~({u, v} \subseteq DOMAIN users)
           /\ \E e, f \in Emails : Seed(u, e, v, f)
    \/ \E p \in Processes : Restart(p)

Spec == Init /\ [][Next]_vars

\* One change of an account at a time.
Isolated ==
    \A v, w \in Workers :
        session[v].op \in {"create", "update"} /\ session[w].op \in {"create", "update"} => v = w

IsolatedSpec == Init /\ [][Next /\ Isolated']_vars

----------------------------------------------------------------------------
(* Properties.                                                             *)

\* "Admin terakhir yang masih aktif tidak dapat dinonaktifkan"
\* (docs/API_SPECIFICATION.md:649): the last active administrator cannot be
\* deactivated, so somebody can always manage accounts.
AnAdminRemains == ActiveAdmins # {}

\* "Role admin tidak dapat diubah lewat API" (docs/API_SPECIFICATION.md:647):
\* requests neither make administrators nor unmake them, whatever races.
AdminsStay ==
    [][\A u \in DOMAIN users :
           /\ u \in DOMAIN users'
           /\ (users[u].role = "admin") = (users'[u].role = "admin")]_vars

\* Lookups can be stale, the index cannot: no two accounts share the email a
\* login looks for (models/user.py:20).
UniqueEmails ==
    \A u, v \in DOMAIN users : users[u].email = users[v].email => u = v

\* A process that has answered a logout exchanges that token for no request that
\* comes later, as long as it runs (auth_service.py:68-95, core/auth.py:100, 112).
AnsweredStaysOut == \A x \in late : ~x.answered
=============================================================================
