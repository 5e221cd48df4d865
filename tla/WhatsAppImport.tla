--------------------------- MODULE WhatsAppImport ---------------------------
(***************************************************************************)
(* Import of WhatsApp message stores (backend/services/                    *)
(* whatsapp_service.py, d.5.1).  One request accepts the import, parses    *)
(* the file and stores its chats in three transactions: "queued",          *)
(* "processing", and the chats with "completed", or else "failed".         *)
(*                                                                         *)
(* The messages one import stores in one chat come and go together: they   *)
(* are a batch.  What the last transaction deletes and inserts is seen by  *)
(* others at its commit.                                                   *)
(*                                                                         *)
(* Bounds: the sets, and MaxFaults, the number of faults.                  *)
(***************************************************************************)
EXTENDS Naturals, FiniteSets

CONSTANTS
    Cases,
    Imports,    \* import ids
    Workers,    \* request threads
    Sources,    \* device, account and path: what a payload names
    Jids,       \* chats, the same for every source
    Contents,   \* what a message store can hold: how many messages of each chat
    Missing,    \* there is no file
    Corrupt,    \* the file is no message store
    None,       \* SQL NULL, and no row
    LosesAcks,  \* whether a commit may take effect and still raise
    MaxFaults

VARIABLES
    cases,    \* column status of table cases
    files,    \* what each source holds on disk
    imports,  \* table whatsapp_imports
    chats,    \* tables whatsapp_data and whatsapp_messages
    session,  \* what each request thread is doing
    faults    \* faults so far

vars == <<cases, files, imports, chats, session, faults>>

Status == {"open", "in_progress", "closed"}
Terminal == {"completed", "failed"}

ImportRow ==
    [case_id : Cases, source : Sources, status : {"queued", "processing"} \cup Terminal,
     conversations_imported : Nat \cup {None}, messages_imported : Nat \cup {None}]

Batch == [import : Imports, size : Nat \ {0}]
ChatRow == [message_count : Nat, messages : SUBSET Batch]

ASSUME ImportAssumption ==
    /\ IsFiniteSet(Jids)
    /\ Contents \subseteq [Jids -> Nat]
    /\ Missing \notin Contents /\ Corrupt \notin Contents /\ Missing # Corrupt
    /\ None \notin Nat \cup Jids \cup Contents \cup ChatRow
    /\ LosesAcks \in BOOLEAN
    /\ MaxFaults \in Nat

\* A request in flight.  todo holds the chats it has not looked up, read the rows and
\* messages it found, at the chat whose row it has and whose messages it has not.
Idle == [pc |-> "idle"]
Session ==
    [pc : {"queued", "processing", "parse", "record", "messages", "failing"},
     import : Imports, case_id : Cases, source : Sources, content : Contents \cup {None},
     todo : SUBSET Jids, at : Jids \cup {None}, read : [Jids -> ChatRow \cup {None}]]

TypeOK ==
    /\ cases \in [Cases -> Status]
    /\ files \in [Sources -> Contents \cup {Missing, Corrupt}]
    /\ DOMAIN imports \subseteq Imports
    /\ imports \in [DOMAIN imports -> ImportRow]
    /\ DOMAIN chats \subseteq Cases \X Jids
    /\ chats \in [DOMAIN chats -> ChatRow]
    /\ session \in [Workers -> {Idle} \cup Session]
    /\ faults \in 0..MaxFaults

Busy(w) == session[w] # Idle
Ends(w) == session' = [session EXCEPT ![w] = Idle]
Goes(w, pc) == session' = [session EXCEPT ![w] = [@ EXCEPT !.pc = pc]]

\* ensure_case_open
Open(c) == cases[c] # "closed"

\* A chat is known by its case and its id in WhatsApp, whatever source it is from.
Key(s, j) == <<s.case_id, j>>

Stored(key) == IF key \in DOMAIN chats THEN chats[key] ELSE None

\* resolve_msgstore_paths finds a file.
resolve_msgstore_paths(src) == files[src] # Missing

\* Fault: chats without messages are not skipped.
EveryChat(content) == Jids

\* Chats of a message store that have messages.
Conversations(content) == {j \in Jids : content[j] > 0}

\* The number of all its messages.
Messages(content) == Cardinality(UNION {{j} \X (1..content[j]) : j \in Jids})

----------------------------------------------------------------------------
Init ==
    /\ cases = [c \in Cases |-> "open"]
    /\ files \in [Sources -> Contents \cup {Missing, Corrupt}]
    /\ imports = << >>
    /\ chats = << >>
    /\ session = [w \in Workers |-> Idle]
    /\ faults = 0

\* start_import: the case must be open (409) and the file there (422).  The id is
\* fresh; no other request in flight has it.
Submit(w, i, c, src) ==
    /\ ~Busy(w)
    /\ i \notin DOMAIN imports
    /\ \A v \in Workers : Busy(v) => session[v].import # i
    /\ Open(c)
    /\ resolve_msgstore_paths(src)
    /\ session' = [session EXCEPT ![w] =
           [pc |-> "queued", import |-> i, case_id |-> c, source |-> src, content |-> None,
            todo |-> {}, at |-> None, read |-> [j \in Jids |-> None]]]
    /\ UNCHANGED <<cases, files, imports, chats, faults>>

\* First commit: the job is queued.
QueuedCommit(w) ==
    LET s == session[w] IN
    /\ s.pc = "queued"
    /\ imports' = [i \in DOMAIN imports \cup {s.import} |->
           IF i # s.import THEN imports[i]
           ELSE [case_id |-> s.case_id, source |-> s.source, status |-> "queued",
                 conversations_imported |-> None, messages_imported |-> None]]
    /\ Goes(w, "processing")
    /\ UNCHANGED <<cases, files, chats, faults>>

\* Fault: the jobs are found by their case.
ProcessingOfCase(w) ==
    LET s == session[w] IN
    /\ s.pc = "processing"
    /\ imports' = [i \in DOMAIN imports |->
           IF imports[i].case_id = s.case_id
           THEN [imports[i] EXCEPT !.status = "processing"] ELSE imports[i]]
    /\ Goes(w, "parse")
    /\ UNCHANGED <<cases, files, chats, faults>>

\* Second commit: it is being processed.
ProcessingCommit(w) ==
    LET s == session[w] IN
    /\ s.pc = "processing"
    /\ imports' = [imports EXCEPT ![s.import].status = "processing"]
    /\ Goes(w, "parse")
    /\ UNCHANGED <<cases, files, chats, faults>>

\* Fault: the parser runs before the try block.
ParseOutsideTry(w) ==
    LET s == session[w] IN
    /\ s.pc = "parse"
    /\ IF files[s.source] = Corrupt \/ ~resolve_msgstore_paths(s.source)
         THEN Ends(w)
         ELSE session' = [session EXCEPT ![w] =
                 [s EXCEPT !.pc = "record", !.content = files[s.source],
                           !.todo = Conversations(files[s.source])]]
    /\ UNCHANGED <<cases, files, imports, chats, faults>>

\* The file is looked for again and parsed.
Parse(w) ==
    LET s == session[w] IN
    /\ s.pc = "parse"
    /\ IF files[s.source] = Corrupt \/ ~resolve_msgstore_paths(s.source)
         THEN Goes(w, "failing")
         ELSE session' = [session EXCEPT ![w] =
                 [s EXCEPT !.pc = "record", !.content = files[s.source],
                           !.todo = Conversations(files[s.source])]]
    /\ UNCHANGED <<cases, files, imports, chats, faults>>

\* The row of a chat is looked up; ...
ReadRecord(w, j) ==
    LET s == session[w]
        row == Stored(Key(s, j))
    IN
    /\ s.pc = "record" /\ j \in s.todo
    /\ session' = [session EXCEPT ![w] =
           IF row = None
           THEN [s EXCEPT !.todo = @ \ {j}]
           ELSE [s EXCEPT !.todo = @ \ {j}, !.pc = "messages", !.at = j,
                          !.read[j] = [row EXCEPT !.messages = {}]]]
    /\ UNCHANGED <<cases, files, imports, chats, faults>>

\* ... the messages of a row that is there are read, to be deleted.
ReadMessages(w) ==
    LET s == session[w] IN
    /\ s.pc = "messages"
    /\ session' = [session EXCEPT ![w] =
           [s EXCEPT !.pc = "record", !.at = None,
                     !.read[s.at].messages = chats[Key(s, s.at)].messages]]
    /\ UNCHANGED <<cases, files, imports, chats, faults>>

\* The row of a chat after the import: the messages read are gone, the new ones
\* there, and the count is set if it differs from the one read.
Replaced(now, read, i, size) ==
    [message_count |-> IF read # None /\ read.message_count = size
                       THEN now.message_count ELSE size,
     messages |-> (IF read = None THEN {} ELSE now.messages \ read.messages)
                  \cup {[import |-> i, size |-> size]}]

\* What persisting the chats done of request s makes of the tables.
Persisted(s, done) ==
    [k \in DOMAIN chats \cup {Key(s, j) : j \in done} |->
        IF k[2] \in done /\ k = Key(s, k[2])
        THEN Replaced(Stored(k), s.read[k[2]], s.import, s.content[k[2]])
        ELSE chats[k]]

Completed(s) ==
    [imports EXCEPT ![s.import] =
        [@ EXCEPT !.status = "completed",
                  !.conversations_imported = Cardinality(Conversations(s.content)),
                  !.messages_imported = Messages(s.content)]]

\* A chat found missing has been inserted by another request: the unique
\* constraint raises.
Clash(s) ==
    \E j \in Conversations(s.content) : s.read[j] = None /\ Stored(Key(s, j)) # None

\* Third commit: the chats and "completed".
CompletedCommit(w) ==
    LET s == session[w] IN
    /\ s.pc = "record" /\ s.todo = {}
    /\ IF Clash(s)
         THEN /\ Goes(w, "failing")
              /\ UNCHANGED <<imports, chats>>
         ELSE /\ imports' = Completed(s)
              /\ chats' = Persisted(s, Conversations(s.content))
              /\ Ends(w)
    /\ UNCHANGED <<cases, files, faults>>

\* Any statement of the third transaction may raise.
Raise(w) ==
    /\ session[w].pc \in {"parse", "record", "messages"}
    /\ Goes(w, "failing")
    /\ UNCHANGED <<cases, files, imports, chats, faults>>

\* Fault: what has been stored so far is kept.
FailedCommitKeeps(w) ==
    LET s == session[w] IN
    /\ s.pc = "failing"
    /\ imports' = [imports EXCEPT ![s.import].status = "failed"]
    /\ chats' = IF s.content = None \/ Clash(s) THEN chats
                ELSE Persisted(s, Conversations(s.content) \ s.todo)
    /\ Ends(w)
    /\ UNCHANGED <<cases, files, faults>>

\* Third commit of an import that raised: after a rollback, "failed".
FailedCommit(w) ==
    LET s == session[w] IN
    /\ s.pc = "failing"
    /\ imports' = [imports EXCEPT ![s.import].status = "failed"]
    /\ Ends(w)
    /\ UNCHANGED <<cases, files, chats, faults>>

----------------------------------------------------------------------------
(* Faults.                                                                 *)

Faulty == faults < MaxFaults /\ faults' = faults + 1

\* A request is lost outside the try block: refused, or its connection is.
Abort(w) ==
    /\ Faulty
    /\ session[w].pc \in {"queued", "processing", "failing"}
    /\ Ends(w)
    /\ UNCHANGED <<cases, files, imports, chats>>

\* The process dies; nothing looks for its imports when it comes back.
Restart ==
    /\ Faulty
    /\ session' = [w \in Workers |-> Idle]
    /\ UNCHANGED <<cases, files, imports, chats>>

\* The third commit takes effect and its answer is lost.
LostAnswer(w) ==
    LET s == session[w] IN
    /\ LosesAcks /\ Faulty
    /\ s.pc = "record" /\ s.todo = {} /\ ~Clash(s)
    /\ imports' = Completed(s)
    /\ chats' = Persisted(s, Conversations(s.content))
    /\ Goes(w, "failing")
    /\ UNCHANGED <<cases, files>>

----------------------------------------------------------------------------
\* update_case_status: any status may follow any other.
SetStatus(c, status) ==
    /\ cases' = [cases EXCEPT ![c] = status]
    /\ UNCHANGED <<files, imports, chats, session, faults>>

\* The extractors write a file.
WriteFile(src, content) ==
    /\ files' = [files EXCEPT ![src] = content]
    /\ UNCHANGED <<cases, imports, chats, session, faults>>

\* What an accepted request does next.
Step(w) ==
    \/ QueuedCommit(w)
    \/ ProcessingCommit(w)
    \/ Parse(w)
    \/ \E j \in Jids : ReadRecord(w, j)
    \/ ReadMessages(w)
    \/ CompletedCommit(w)
    \/ FailedCommit(w)

Next ==
    \/ \E w \in Workers :
           \/ \E i \in Imports, c \in Cases, src \in Sources : Submit(w, i, c, src)
           \/ Step(w)
           \/ Raise(w)
           \/ Abort(w)
           \/ LostAnswer(w)
    \/ Restart
    \/ \E c \in Cases, status \in Status : SetStatus(c, status)
    \/ \E src \in Sources, content \in Contents \cup {Missing, Corrupt} : WriteFile(src, content)

Spec == Init /\ [][Next]_vars

\* Threads run: an accepted request takes its next step.
FairSpec == Spec /\ \A w \in Workers : WF_vars(Step(w))

\* One import per case at a time, and no case changes its status during one.
Isolated ==
    \A v, w \in Workers :
        Busy(v) /\ Busy(w) /\ session[v].case_id = session[w].case_id => v = w
Serial ==
    \A w \in Workers : Busy(w) => cases'[session[w].case_id] = cases[session[w].case_id]

IsolatedSpec == Init /\ [][Next /\ Isolated' /\ Serial]_vars

----------------------------------------------------------------------------
(* Properties of imports that do not overlap.                              *)

\* An import is all or nothing.
job == [i \in Imports |->
           IF i \notin DOMAIN imports THEN <<"none">>
           ELSE <<IF imports[i].status \in Terminal THEN imports[i].status ELSE "accepted",
                  imports[i].case_id>>]
store == [k \in Cases \X Jids |-> IF k \in DOMAIN chats THEN chats[k].messages ELSE {}]

Store == INSTANCE ImportStore
ImplementsStore == Store!Spec

----------------------------------------------------------------------------
(* Properties of concurrent imports.                                       *)

\* The messages stored are those of imports that completed, and no import stored
\* more than its row reports; one that is failed by then lost the answer to its
\* third commit, and its row reports what that stored (whatsapp_service.py:330-351).
OnlyReportedImports ==
    \A k \in DOMAIN chats : \A b \in chats[k].messages :
        /\ b.import \in DOMAIN imports
        /\ imports[b.import].status \in Terminal
        /\ imports[b.import].case_id = k[1]
        /\ imports[b.import].messages_imported # None
        /\ b.size <= imports[b.import].messages_imported

\* An import that has ended does not change any more, but for one whose third
\* commit took effect and raised: that one is failed yet (whatsapp_service.py:352-368).
EndIsFinal ==
    [][\A i \in DOMAIN imports :
           imports[i].status \in Terminal =>
               /\ i \in DOMAIN imports'
               /\ \/ imports'[i] = imports[i]
                  \/ /\ \E w \in Workers : session[w].pc = "failing" /\ session[w].import = i
                     /\ imports'[i] = [imports[i] EXCEPT !.status = "failed"]]_vars

InFlight(i) == \E w \in Workers : Busy(w) /\ session[w].import = i
Ended(i) == i \in DOMAIN imports /\ imports[i].status \in Terminal

\* An import under way ends, as completed or failed, unless a fault comes first.
ImportsEnd ==
    \A i \in Imports, n \in 0..MaxFaults :
        (InFlight(i) /\ faults = n) ~> (Ended(i) \/ faults # n)

----------------------------------------------------------------------------
(* What the documentation says and the code does not do.                   *)

\* The import runs as a background task whose status can be watched
\* (docs/API_SPECIFICATION.md:159): every queued import ends, faults or not.
QueuedImportsEnd ==
    \A i \in Imports :
        (i \in DOMAIN imports /\ imports[i].status = "queued") ~> Ended(i)
=============================================================================
