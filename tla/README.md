# Formal model of the Evidentra back end

TLA+ modules, TLC runs and TLAPS proofs about the program in `src/`: a FastAPI
application (`src/backend`) that registers cases and digital evidence, tracks who
holds an item, imports WhatsApp databases and runs small analyses over them
(`src/ml`), and a set of stand-alone extraction scripts (`src/extractors`).
`PROJECT.json` has the machine-readable side: which lines each definition models,
the runs, the mutants, the findings, the hazards and the theorems.

## 1. The system

How requests run decides most of what can go wrong, and every module relies on it:

* Handlers are plain `def` functions, so each request runs in a thread of the
  server's pool, with its own SQLAlchemy session (`core/database.py:21-37`,
  `autoflush=False`).
* Every SELECT is a statement of its own and sees what is committed when it runs.
  No query takes a lock (`FOR UPDATE`), no row has a version column, and no
  service catches an integrity error. An object once loaded keeps its columns for
  the rest of the request.
* What a request writes reaches the database in its (usually single) commit. An
  UPDATE names the row and sets the changed columns; it does not repeat the
  condition the handler checked.
* Closing the session without a commit rolls it back: an error, a lost connection
  or the death of the process before the commit leaves nothing behind.
* Rows survive a restart, module-level variables do not. At start the lifespan
  creates tables, runs `run_migrations` and may run `run_seed` (`main.py:21-29`).

So the shape of every model is the same: tables are variables, a request is a
sequence of steps, one per read another request can invalidate, that ends in a
commit step, in an error (nothing changes) or in an abort.

### Inventory

| Component (code) | State | Operations | Hard behaviour | What makes it correct |
|---|---|---|---|---|
| Evidence custody (`services/custody_service.py`, `modules/d7_evidence/custody.py`, `integrity.py`) | `transfer_approvals`, `custody_logs`, `evidence.sha256_hash`, audit entries | initial custody, request transfer, approve or reject, verify, read history | check-then-act over two tables, decisions racing, a baseline set from a stale row, migration at restart | no gap in the chain of custody; one pending transfer, from the holder; a decision is final, consented and audited; a baseline never moves |
| Evidence registry (`services/evidence_service.py`, `validation.py`, `registration_number.py`, `case_guards.py`) | `evidence` | create, update, list, vault, geospatial | IMEI and number uniqueness checked by query; number = count + 1; case closed in between | IMEI unique; number unique and free; no registration in a closed case |
| Cases and tasks (`services/case_service.py`, `kanban.py`, `reference_number.py`) | `cases`, `tasks` | create, update, status, board | reference numbers by count; edits and moves of one task race; task gate checked on create only | a number made for a case is refused only for three known reasons; a move is not undone; the log names the status; a closed case gets no tasks |
| WhatsApp import (`services/whatsapp_service.py`, `msgstore_parser.py`, `import_paths.py`) | `whatsapp_imports`, `whatsapp_data`, `whatsapp_messages` | import (queued, processing, completed or failed), search, summaries | three commits per import, crash between them, two imports of one chat | an import ends; a chat holds the messages of one import and its count says so |
| Accounts and tokens (`services/user_service.py`, `auth_service.py`, `core/auth.py`) | `users`, the set of revoked refresh tokens in memory | login, refresh, logout, create, update, deactivate | last-admin check by count; revocations lost at restart | an active administrator remains; a revoked token is never accepted |
| Intelligence (`services/intelligence_service.py`, `core/cache.py`, `ml/pipeline/inference.py`, `ml/graph`) | documents, graphs, `InferencePipeline._cache`, latencies, `TTLCache` | NER, graph, APK analysis, dashboard | a cache keyed by the request and not by the file; caches shared by threads without a lock | a result is never another request's; changes reach the dashboard in the end |
| Case analysis (`services/integration_service.py`) | audit entries about the steps it calls | run the analyses of a case one after the other, read back what was done | up to five commits; one failing leaves the earlier ones | the log never runs ahead of the work |
| Organization (`services/organization_service.py`) | `org_hierarchy` | create, update, forest | re-parenting checked against the node itself only | nodes are lost from the chart only below a cycle |
| Audit log (`services/audit_service.py`, `modules/d6_operations/audit.py`) | `audit_logs` | append within the writer's transaction, list | none of its own: appended by the other components | append only |
| Extraction from a phone (`extractors/whatsapp_extractor/whatsapp_backup_setup.py`, `extract_keys_wa.py`, `paths.py`) | key files, pulled backups, databases on the host; settings of the phone | per account: encryption on, key read, backup, pull, decrypt, switch | any tap may miss, any call may fail, the tool may be stopped, two accounts share an app | the key file is true, databases are their account's own, what was in hand is not lost, a run ends |
| Decryption of backups (`decrypt-wa.py`) | the output file | read the header or guess it, decrypt at once or in chunks, check the trailer | three shapes of trailer, chunk boundaries, damaged files, `--force` | success means the database |
| Merge of databases (`merge_dbs_sqlite.py`) | two SQLite files | give keys, insert row by row, remove the source | a commit per row, retries, remapped references | the account's rows stay, the source is removed when its rows are there, jids are added once |
| Named entities and APK files (`ml/ner`, `ml/apk`) | none | patterns over text, parsing of an archive | none | pure string work |
| Reports (`services/report_service.py`) | none | renders PDF and spreadsheets | none | layout only |
| Device acquisition (`modules/d7_evidence/device_probe.py`, `adb_helper.py`) | none | runs `adb` | timeouts of a subprocess | pure I/O |
| Older extractor entry points (`cmd.py`, `extract-keys.py`, `get_number_wa.py`, `backup/decryptor.py`) | files | parts of the above by hand | as above | copies of what is modelled |

The components meet in the database: custody and registry share `evidence`,
custody, tasks and analyses read `users` and `cases`, and all of them append to
`audit_logs` in the transaction of what they record. The tools on the host share files
only: the databases they leave are what an import reads.

## 2. Plan

In the order of importance; done means modelled, checked and mapped.

1. **done** `EvidenceCustody` with the abstract `CustodyChain`; proofs in
   `EvidenceCustodyProofs`.
2. **done** `EvidenceRegistry`: the gates of create and update (case, IMEI,
   registration number), the migration; proofs in `EvidenceRegistryProofs`.
3. **done** `WhatsAppImport` with the abstract `ImportStore`: job life cycle with
   crashes, chats and messages, liveness; proofs in `WhatsAppImportProofs`.
4. **done** `Accounts`: last administrator, refresh tokens, restarts; proofs in
   `AccountsProofs`.
5. **done** `CaseBoard`: cases, reference numbers, tasks and the board;
   `OrgHierarchy`: re-parenting and the chart; `Casework` puts them together, proofs in
   `CaseworkProofs`.
6. **done** `Intelligence`: the inference cache and the case analysis with its partial
   failures; `Dashboard`: `TTLCache` and latencies; `IntelligenceServices` puts them
   together, proofs in `IntelligenceProofs`.
7. **done** `WhatsAppExtraction`, `BackupDecryptor`, `MergeDatabases`: the tools on the host;
   `HostTools` puts them together, proofs in `MergeDatabasesProofs` and `HostToolsProofs`.
8. To come: theorems about single promises under weaker isolation (which requests may
   overlap without breaking them).
9. Pure algorithms against reference definitions: IMEI check digit, number
   formats, conversation statistics, graph measures, the message-store parser.

`CustodyChain` and `ImportStore` are the abstract specifications, of the two components
whose promise is a protocol; what the others promise is said by invariants and action
properties. `MCCasework`, `MCIntelligence` and `MCExtraction` put modules side by side
that share no state: a behaviour belongs to one of them, so that one run checks them
without multiplying their states.

## 3. Custody

### Correspondence

| TLA+ | Code |
|---|---|
| `users`, `evidence`, `transfers`, `custody_logs`, `audit_logs` | the tables, rows reduced to the columns the properties tell apart; a table keyed by id is a function on the ids it holds, a log a set of rows |
| `clock` | `datetime.now(UTC)`; it ticks whenever a stamp is taken, so stamps are ordered as taken, not as committed |
| `session[w]` | what thread `w` has read so far and where it is |
| `CreateEvidence` | `create_evidence`; one step, since nobody can name the new id before its commit |
| `RequestStart`, `RequestReadHolder`, `RequestReadPending`, `RequestCommit` | `request_transfer`, split at its reads |
| `ApproveStart`, `ApproveReadEvidence`, `ApproveCommit` | `approve_transfer`; the status is read once, at the start, and the UPDATE does not name it |
| `VerifyStart`, `VerifyCommit` | `verify_integrity`; the baseline is written only when it was NULL in the row read |
| `UpdateStart`, `UpdateCommit` | `update_evidence`, as far as the hashed columns go |
| `Abort` | a request that fails or is lost before its commit |
| `UpdateUser` | an account is edited by an administrator |
| `Restart(dead)` | some or all of the four processes of docs/DEPLOYMENT.md:140 restart: their sessions vanish and `_migrate_evidence_table` rewrites legacy types |

The content of the hashed columns is a member of a small set, and SHA-256 an
injective function of it. The columns of an item that are not hashed, notes and
texts are left out. Two updates of one item that touch different columns merge in
the database; with one abstract content the later wins, which no property depends on.

`Spec` lets any requests race. `IsolatedSpec` admits at most one request in flight
per evidence item: what the tests do, and what one `SELECT ... FOR UPDATE` on the
evidence row at the top of the handlers would enforce; nor does a process that restarts
migrate the item of a request that goes on elsewhere (`Undisturbed`). The code promises more than
it keeps under races, so the properties come in two groups.

*Under isolation*: `ChainContinuity`, `OnePendingTransfer`, `ApprovedIffMoved`,
`ProcessedOnce`, `MovedIntact` (checked by the run), `PendingFromHolder` and
`ReadsStayTrue` (parts of the inductive invariant, proved) and `ImplementsChain`, the refinement of `CustodyChain`: an item has one holder and
at most one offer, which only its recipient accepts or declines.

*Under any race*: `MovesAreConsented`, `DecisionsAreAudited`, `BaselineAudited`. They are what an auditor can still rely on.

### Runs

| Run | Specification and instance | Shows |
|---|---|---|
| `custody_isolated` | isolated; 2 users, 1 item, 2 transfers, 3 stamps, legacy and current content | chain, pending transfers, agreement, finality, tampered items, refinement; requests, verifications, updates, account edits, crashes and migrations in any order |
| `custody_races` | any race; 2 users, 1 item, 1 transfer, 2 threads, 2 stamps, two contents | hand-overs consented and audited, baselines taken by an audited verification |
| `custody_double_pending` | any race; 2 transfers | violated: two pending transfers of one item |

Bounds: `Users`, `Evidences`, `TransferIds`, `Workers`, `Contents`, `Editable` (the
accounts edited) and `MaxClock` (stamps handed out). When ids or stamps run out the
actions that need them stop; reads and aborts never do. Two transfers and three
stamps are a registration and a hand-over there and back, or a decision to spare. Two
threads suffice for a race between two handlers, and one transfer for two decisions
that race. The runs have 323,140, 1,707,476 and 605 distinct states. What the small scope leaves out, three users, more transfers, requests for
two items at once, the theorems below cover, as they hold for every scope. No
liveness is stated: nothing in the code obliges a recipient to decide.

Under `Spec` and with two threads the promises of isolated requests fail, each by the
race its hazard describes: `OnePendingTransfer` (the run above), `PendingFromHolder`
(the holder is read before an approval commits, the pending transfers after),
`ProcessedOnce` (two decisions both find the transfer pending, the later commit
overwrites the earlier). Three promises of the documents are not made by the code in
any schedule, so no property states them: that sender and recipient both confirm a
change of holder (docs/PROJECT_SCENARIO.md:101; `request_transfer` never asks who the
sender is), that every item has a hash from its registration
(docs/SECURITY.md:84; `create_evidence` leaves it NULL), and that every change of an
item is audited (docs/SECURITY.md:86; `_migrate_evidence_table` is not).

A consequence of the code no property judges: a transfer addressed to a viewer, or to
a user deactivated before deciding, stays pending for ever and blocks the item, as
there is neither cancellation nor expiry; and after an update of a verified item its
transfers can only be rejected, since nothing renews the baseline.

### Proofs

All theorems hold for every value of the constants that satisfies
`ConstantsAssumption` (`MigrateType` maps contents to contents, `None` is no user and no hash).

* `EvidenceCustodyProofs`: `TypeInv` is `TypeOK` with the facts every commit relies
  on; `TypeCorrect`. For the races, the inductive invariant adds
  `ApproversAreRecipients` (an approval in flight is of an existing transfer, by its
  recipient) and `RequestsAreAudited` to the property: `MovesAreConsented` alone is
  not inductive, because the commit of an approval trusts what was read at its start.
  That survives races as no step removes a transfer or changes its parties
  (`TransfersPersist`) and audit entries are never removed (`AuditGrows`). Hence
  `Consent` and `AuditedDecisions`, for any number of threads, users and items.
  `BaselinesAreAudited` has the same shape: a verification in flight sets a baseline only
  where its row had none, in the commit that logs it, and an update of a row never
  touches a hash.
* The second half of the module: `ChainInv`, under isolation. `ReadsStayTrue` is the heart of
  it: what each request has read is still true, which is exactly what fails when
  requests share an item. With `UniqueStamps` and `Referential` it makes
  `ChainContinuity`, `OnePendingTransfer`, `PendingFromHolder` and `ApprovedIffMoved`
  inductive together; `DecidedOnce` and `Refinement` follow from it step by step.
  `IntactHolds` says that a transfer is approved only of an item whose content is still the
  one compared: the comparison is made on the row read at the start, and no other request
  of the item runs, and none of its columns is migrated, until the commit (`ComparedStays`).

All properties of the two passing runs are theorems.

## 4. Registry

`EvidenceRegistry` has the tables `cases` (their status) and `evidence` with the
columns that depend on each other: registration number, type and category, both
IMEI slots, case and day of receipt. A registration number is a pair of day and
sequence (what the printed form encodes), an IMEI a valid, normalized one:
`validate_evidence_fields` is modelled by which combinations it lets through.
`create_evidence` is split at its reads (case, IMEIs, count of the day, number),
`update_evidence` likewise; `Column` and `Written` say what the UPDATE leaves in a
row somebody else has changed meanwhile. `Restart(dead)` is the restart of some or all
processes, with the migration of legacy types.
Audit and custody rows written with an item are in `EvidenceCustody`; an update with
`received_at` is left out, since it fails as a whole (see the hazards).

| Run | Instance | Shows |
|---|---|---|
| `registry_isolated` | one request at a time; 2 cases, 3 items, 2 IMEIs, a typed-in number | IMEIs unique over both slots; a number made for an item refused only if it was typed in for another; columns of a row fit together; closed cases frozen |

`MaxSequence` bounds the sequence within a day. *Isolated* means here that one request
is in flight, and that meanwhile no case changes its status and no other process migrates
rows. There are 158,748 distinct states. Three items are one to change,
one to collide with and one more for the count of the day.

Under `Spec` three of the promises fail: `UniqueImeis` (two requests look an IMEI up
before either commits, and no index backs the rule), `SlotsFit` (two updates, each
valid on the row it read, merge into one that is not) and `FrozenWhenClosed` (the case
is closed between the gate and the commit). `UniqueNumbers`, that no two items share a
number, survives by the unique index; as it restates that index it is in no run, but
proved for any race. What the run checks of numbers is `GeneratedNumberFree`: a number is
made by counting (`evidence_service.py:96-118`), and with one request at a time it is
refused only if somebody typed it in, whatever was typed over made numbers, closed or
migrated since. A number that was typed in does make the next one a duplicate, and the
request is answered 409 until the count has passed it; so is the slower of two racing
requests. `CategoryFollowsType` is a conjunct of the proofs'
invariant and in no run.

`EvidenceRegistryProofs`: `TypeCorrect` and `NumbersUnique` under any race. Under
isolation, `IsolatedInv` adds `ReadsStayTrue`: a request's reads stay true until its
commit (`StaysTrue`), so that checks made on the row read hold of the row written.
From it follow `ImeisUnique`, `RowsFit` and `ClosedIsFrozen`. None of these is
inductive without it. `NumbersFree` rests on `NumbersMade`: an item whose number was made
has one no higher than the count of its day (`Counts`), and a request that counted has in
hand the count plus one (`Awaits`); no step lowers a count, as items are not deleted and
keep their day (`SequenceGrows`).

## 5. WhatsApp import

An import is one request with three commits. `Submit` and `QueuedCommit` are
`start_import`, `ProcessingCommit` to `CompletedCommit` or `FailedCommit` are
`_process_import`, `ReadRecord` and `ReadMessages` the reads of
`_persist_conversations`, whose writes show at the third commit (`Persisted`).
The messages that one import stores in one chat are a batch of a size: single
messages, their texts and dates are left out, as none is ever changed alone. What a
file holds is a function from chats to numbers of messages; `WriteFile` lets
the extractors change files at any time, to something missing or corrupt, too.

Faults are counted by `MaxFaults`: a request lost outside the `try` block
(`Abort`), the death of the process (`Restart`), and, where `LosesAcks` is TRUE, a
third commit that takes effect and raises (`LostAnswer`). Inside the `try` block any
statement may raise (`Raise`), which is no fault: the handler answers it.

| Run | Specification and instance | Shows |
|---|---|---|
| `import_isolated` | one import per case; 3 imports, contents with 1 or 2 messages in 2 chats | types, and `ImportStore` is implemented: an import replaces all its chats at once or changes nothing |
| `import_races` | any race, fair; 3 imports, 2 threads, 1 chat, one fault, lost answers | what is stored is what imports report, an ended import stays as it ended but for a lost answer, and an import under way ends unless the fault comes |
| `import_orphaned` | fair, one fault | violated: a job that stays queued or processing |

Fairness is weak fairness of `Step(w)` for each thread: an accepted request is run by
a thread of the pool, which the operating system schedules, and every step of it is
enabled until it is taken. Nothing is assumed of submissions, faults or writes of
files. A step that can raise may always raise instead, so `ImportsEnd` does not rely
on success.

Three imports let a chat be replaced twice, or once while a third races; sizes 1 and
2 let the count differ; two chats let an import fail between them.

That a chat holds the messages of one import is true of imports that do not overlap,
by the refinement; two re-imports of a chat that overlap read the same old messages
(`whatsapp_service.py:396`), delete those and each insert their own. Two more
consequences of the code: after a lost answer the job reads failed while its
messages are there, which `OnlyReportedImports` and `EndIsFinal` admit and nothing
else; and chats are keyed by case and WhatsApp id, so the import of a second device
of a case replaces the messages of the chats it shares with the first.

### Proofs

`WhatsAppImportProofs`, from `ImportAssumption` alone and for `Spec`, so for any
number of imports racing and any faults. `TypeInv` adds to `TypeOK` what a request
relies on (`Fits`): its row is there once it is past the first commit, its content
is parsed before it looks up chats, the chat whose messages it reads is there.
`MessagesCover` bounds the messages of one chat by those an import reports. `JobInv`
adds that requests in flight have imports of their own (`Distinct`) and that the
status of a row tells how far its request is (`Job`); without it `EndIsFinal` fails,
since a request could turn an import that ended back to processing. From it follow
`EndsAreFinal`, and with `StaysReported` (a batch that was reported still is, after
any step on the imports table) `StoredIsReported`.

`Refinement` is the theorem that an import, alone in its case, implements `ImportStore`: it replaces all
its chats at once or changes nothing. The invariant is `AloneInv`: imports under way are of
different cases (`Isolated`), what a request has read of its chats is what is stored
(`ReadRight`), and the row of an import that failed still says `processing` until the
third commit, which marks it, is through (`Unended`). Each step of a request is then a stutter but for `Submit`, and the
third commit is the one step of the abstract store (`StoresAll`); steps of other cases
leave its chats alone (`OthersAlone`). The hypothesis `~LosesAcks` is needed: a commit that takes
effect and raises leaves an import that is stored and then marked failed, which the
abstract store has no step for. `import_isolated` is checked with the same hypothesis,
`import_races` without it. Only model-checked: `ImportsEnd`, which is liveness.

## 6. Accounts and tokens

`users` maps usernames to rows; `tokens` maps the refresh tokens handed out to their
users; `revoked` is `_revoked_refresh_jtis`, one set per server process; `logged_out`,
`answered` and `late` are history: tokens whose logout has been answered, by which
process since its start, and the exchanges made for requests that came afterwards. The handlers are split at the lookups other requests
can invalidate: `CreateStart`, `CreateLookup`, `CreateCommit` are `create_user`;
`UpdateStart`, `UpdateReadEmail`, `UpdateReadCount`, `UpdateCommit` are `update_user`;
`deactivate_user` enters at the count. The gate (caller active and an administrator)
is read with the row it is about. `Seed` is `run_seed`, one transaction. `Restart(p)`
loses the memory and the requests of one process.

| Run | Specification and instance | Shows |
|---|---|---|
| `accounts_isolated` | one change of an account at a time; 3 users, 3 emails, 2 threads, 1 token, restarts | an active administrator remains, no request makes or unmakes one, and a running process exchanges no token whose logout it has answered |
| `accounts_no_admin` | any race | violated: two administrators deactivate each other |

Three users are two administrators and a third party; three emails let a rename meet
a creation; seeds come between the lookups and the commit of a creation. Two threads
let a refresh overlap a logout. The versions with any number of racing changes are the
theorems.

`AccountsProofs`: `TypeCorrect`; `EmailsUnique` under any race, by the index alone;
`AdministratorsStay` under any race, from `KeepsAdmins`: an update that sets a role
is of a user who is no administrator, still so at its commit because no update ever
makes one. `AnAdminStaysActive` under isolation, from `AdminInFlight`: the caller of
an update in flight is still an active administrator and does not deactivate itself.
The proof never mentions the count of administrators (`user_service.py:130`): with
changes one at a time the ban on deactivating oneself suffices, and with races the
count does not help. `AnsweredTokensStayOut` under any race, from `LogoutInv`: what a
process has answered is in its memory, and so is the token of a logout under way, so
no refresh can have begun after the answer.
Revocations live in the memory of one process: another one (docs/DEPLOYMENT.md:140
starts four), or the same after a restart, exchanges the token again, which is why the
property is about the process that answered.

## 7. Cases, tasks and the organization

### Correspondence

| TLA+ | Code |
|---|---|
| `cases`, `tasks` | the tables, with the columns that are checked or compared; `typed` remembers that a user typed the number in |
| `logged` | the status in the last audit entry that has one, per case and task |
| `today` | the day in Jakarta, by which numbers are counted and tasks are overdue |
| `CreateStart`, `CreateCount`, `CreateDate`, `CreateUnique`, `CreateCommit` | `create_case` with `_generate_reference_number`, which reads the clock twice, and the unique index |
| `UpdateStart`, `UpdateUnique`, `UpdateCommit` | `update_case`; a payload that carries a date fails in the JSON of the audit entry |
| `StatusStart`, `StatusCommit` | `update_case_status` |
| `TaskStart`, `TaskCommit`; `EditStart`, `MoveStart`, `EditCommit` | `create_task`; `update_task` and `move_task`. `Column` is what the UPDATE leaves: nothing is written to a column whose value is the one read |
| `nodes`, `CreateNode`, `UpdateNode`, `get_hierarchy_forest` | `org_hierarchy` and `OrganizationService`; nodes are never deleted, so a request is one step |

Behaviours with `alone` TRUE have one request in flight at most; in the others
requests race. `GeneratedNumberRefused` and `NoMoveUndone` hold in all of them,
`LogTellsStatus` and `NoTaskJoinsClosed` when requests come one at a time: a request
that sets the status it read logs it and writes no column, and a case may be closed
between the gate and the commit of a task. A creation without a number is refused one that
was made for it (409, or 500 at the index) for three reasons, which `GeneratedNumberRefused`
names: it was typed in for a case, it belongs to a case made across midnight, or a case of
that day was added after this request counted. The last happens only when requests race,
and the property is checked with that reason struck out where they do not.

| Run | Instance | Shows |
|---|---|---|
| `casework` | 2 cases, 1 task, 2 threads, 2 days, one number that can be typed in; 4 nodes | a number made for a case is refused for three reasons only; moves are not undone; log and board agree; no task joins a closed case; the chart loses nodes only below a cycle |

Two cases are a number and the next one; two threads race a creation with another, an
edit with a move or a gate with a closing; two days are one midnight, which may fall
between the two looks at the clock. There are 217,112 distinct states. `MaxSequence` and `MaxRows` are 2, so that both rows
may be cases. A cycle of two or three nodes and a node beside it need four.

What follows from the code and no property judges: a closed case can be opened again,
its tasks moved and edited all the time; a number typed in, or made across midnight, makes
the next generated one a duplicate (409), as two racing creations make each other's; an update that carries `registered_at` or a
`due_date` always fails as a whole; a node put below one of its descendants vanishes with
all that is below it, and nothing but another update brings it back.

### Proofs

`CaseworkProofs`, for every value of the constants with `CaseAssumption`.
`TypeInv` adds to `TypeOK` that the rows a request works on exist and that the number to be checked has
been made; `FreshIds` that the id of a creation in flight is in no table: together they
are enough for `TypeCorrect`, `NumbersUnique`, `MovesStand` and `OverdueStays`, none of
which depends on what races. `NumbersRefused` needs more: `NumbersCounted` says that a
number made for a case of its own day is no higher than the cases of that day, and
`Promised(w)` that the number a request has in hand is what it counted, plus one. Both rest on
one fact, that no step lowers a count (`CountGrows`): cases are not deleted and keep their
`created_at`. So a case of that day with this number was counted in, or was added since; and
where requests run one at a time nothing is added between the count and the commit
(`ExactInv`), with `PastDays` for the midnight between them.
`LogsAgree` and `ClosedStaysClosed` follow from `AloneInv`: when the only request in
flight commits, what it read is still so.

The chart: `get_hierarchy_forest` collects children from the roots down, as often as there
are nodes. A node is shown exactly if a path of parents leads from it to a root
(`Reaches`), and the set of these is the least one with the roots in it and closed under
children (`ReachedLeast`), so the recursion need not be unfolded. Creating a node loses
none; an update can lose only the node it moves and what hangs below it, and only by putting
it below one of its own descendants (`UpdateLoses`). From these follows the action
property of the run, for forests of any size (`LostBelowCycles`).

## 8. Intelligence and the dashboard

`Intelligence` has the files by version, the documents and graphs stored, and the audit
log as a sequence. What a task finds is a function of task, path and version, so that a
result shows where it came from. `RunHit`, `RunHandler` and `RunStore` are
`InferencePipeline.run`, whose cache is keyed by task and payload; `DocumentCommit` and
`GraphCommit` the commits of a document with its entities and of a graph with its nodes
and edges; `LogCaseGraph`, `LogCaseDocument`, `LogAnalyzed` the commits that
`run_case_analysis` adds to those, five in all; `Abort` may come between any two of
them. `get_case_integration` is what is read back. `Dashboard` has one entry of
`TTLCache`, whose age grows with `Tick`; `Miss`, `Drop`, `Count` and `Store` are the steps
of a request that finds it expired, and `percentile` is that of `PipelineStats`.

| Run | Instance | Shows |
|---|---|---|
| `intelligence` | 1 case, 1 path of 2 versions, 2 documents, 1 graph, 2 threads, 2 lives of the process; an entry that lives 2 ticks, 2 rows; 2 latencies of up to 21 runs | cached results are never another request's; the log stays behind the work; the latest analysis heads the list; changes reach the dashboard in the end; few runs are slower than the percentile shown |

`MaxLog` lets one whole case analysis be logged where requests come one at a time, and
`MaxRaceLog` one entry where they race. `MaxWeight` 1 stands for 999: a heavier edge does
not fit `Numeric(5, 2)`, so the graph of a pair with a thousand messages can never be
stored, and the case analysis that wants it fails each time. With 21 runs five percent
are more than one run. The bounds stop a behaviour in the end, so deadlock is not checked.

Fairness is weak fairness of `Tick` (time passes) and of each thread's `Step`: the
dashboard is asked for again and again, as its page does, and a thread that is serving a
request goes on. Without visitors there would be no answer to be outdated.
`ChangesAreShown` is what the races leave: two threads that find an entry expired may
raise `KeyError` (`core/cache.py:23`), and the slower one may put an older count over a
newer one, for a whole lifetime, but not for ever. `OneReadingPerLife` says what the key
of the inference cache does: as long as the process lives a file that was replaced is
shown as it was read first.

### Proofs

`IntelligenceProofs`, from `IntelligenceAssumption` and `DashboardAssumption`.
`CacheSafe`: a request that is about to store holds what the handler made of its own
payload (`OwnInv`), since the key of the cache has task and payload in it; where requests
come one at a time, what this life of the process has read is moreover in the cache, so
that documents of one key and life agree (`ReadInv`). `LogTellsOfWork`: an entry for a graph
names a stored graph of its case, and one for an analysis what earlier entries have named
(`Backed`), because a case analysis writes them in commits after the one of the work, with
what the request has stored by then (`LoggedRequest`).
`LatestHeads`: the list shown is in the order of the log's places, and its first is the
last place (`LastIsLatest`). `SlowRunsAreFew`: the percentile is the least latency that
covers the wanted number of runs, so at most the rest is slower; the proof picks the least by
the well-ordering of the naturals and counts the runs beyond it. `ServicesAreTyped` joins
both type invariants. Only model-checked: `ChangesAreShown`, which is liveness.

## 9. The tools on the host

A behaviour of `MCExtraction` is one of the phone, of the decryption script or of the merge.

`WhatsAppExtraction` follows `backup_chat` and what it calls, for each account and app:
`pc` is the place in the code, `screen` the page shown, and each navigation helper may
miss. `phone_key` is the key the phone encrypts with, `keys`, `pulled` and `db` the files of the
host, which outlive a run; `Crash` may end it at any step. Of the backups on the phone
(`remote`), each of an account, with a key and an age, one is the newest; `saving` are the
accounts whose backup is under way. `BackupEnds`, `NightlyBackup` and `PhoneUsed` are what
the phone and whoever holds it do meanwhile.

Five things can go wrong that the code does not look at. The model has them all, nothing
in it prevents them, and the history `missed` notes them (`Lapses`):

| Lapse | What happens | Code |
|---|---|---|
| `account` | a turn begins while com.whatsapp shows the other account: it was left there by a run that was stopped or could not switch back, or a tap on "switch account" had no effect | `whatsapp_backup_setup.py:317-321`, `889-893`, `911-912` |
| `backup` | the progress bar is not seen within ten seconds and the backup is not over, or it fails, or another one ends while the tool is at work | `whatsapp_backup_setup.py:816-833` |
| `list` | `ls -t` does not answer and the first file that `find` named is not the newest | `extract_keys_wa.py:84-94` |
| `pull` | `adb pull` breaks midway and leaves a part of the file over the earlier one | `extract_keys_wa.py:147-157` |
| `user` | somebody else makes a key, leaves the page or changes the account | |

Each property of the phone names the lapses that it excludes, per account, because the
code does not keep it after them. After `account` the key of one account is
filed under the other, which breaks `KeyFileTrue`, and the script with `--force`
then writes over a good database, which breaks `MessagesKept`; after `backup` the newest
file is that of another account or of an older key. `Concern(a)` leaves out what cannot
touch an account: the business app has one account, and its filter lets no other
file through, so `OwnAccount` holds for it in any case and the other two unless a pull broke or
somebody used the phone; and a file of the second account is told by its path, so that it does not
depend on `ls` once it has one.

`RunEnds` assumes, by `WF` of the steps, that the tool goes on as long as it can, and, by `WF`
of `BackupStops`, that the phone ends its backups. Two loops have no deadline: the wait for
the entry "Chats" once it was seen (`whatsapp_backup_setup.py:401-411`, `ClickChats`) and the wait
for the page of the backup (`824-833`, `wait_for_cancel_download`). The run leaves them because
nobody but a user takes away what they wait for; after the lapse `user` it may hang there,
and the property says nothing.

`BackupDecryptor` counts lengths in units: `Tag` 2 stands for 16 bytes, `Foot` 1 for 4,
`Default` 8 for 8192, and the offsets are scaled likewise. A unit knows which part of the
file it is, which is all that checksum, tag and zlib are asked. Every file of up to 8 units
with every kind of trailer, cut or changed at every place, is read at once and with every
size of buffer; every pair of offsets is guessed.

`MergeDatabases` has two tables for all, one with a reference to the other. Tables are
processed in any order, as the code iterates over a set. The code takes the positions of
columns from the database of the account and the rows of the pulled one as they come
(`merge_dbs_sqlite.py:92-106, 139-171`): `db2` is what is read so, which is the pulled database
if its columns come in the same order. If they do not, columns are mixed up by the reading,
which no property judges.

| Run | Instance | Shows |
|---|---|---|
| `extraction` | two accounts or two apps, 3 keys, 2 runs of the tool; files and databases as above, 2 merges | under the conditions each property names: a key file that passes holds the key; a database comes from its own account; messages in hand are not lost; runs end; success of the script means the database; a merge keeps the rows of the account and does not remove its source before the rows are there, but for jids whose name is taken; jids are added once, and after a first merge new messages refer to their new jids |

Two runs are a run that is stopped and the one after it. To keep the instance small
(`PhoneNext`), a behaviour has one lapse at most, in either run, and no new run after
it; the tool is stopped in its first run only; the phone makes a backup of its own just before a pull;
others use the phone between runs, during a backup or where "Chats" is due; `wa.db` is pulled
as `msgstore.db` was. The theorems below have none of these bounds.

What else the properties exclude, because the code does not do it: a file of fewer than 384 bytes
is refused when its header is to be guessed (`decrypt-wa.py:487-488`; in the model `short`); a buffer no
longer than a trailer, and a file shorter than a buffer, are not decrypted; an IV that ends at the
default offset of the data or behind it (`decrypt-wa.py:197-222`) lets `oscillate` start at or below its
lower bound, walk past it and stop at 0 with offsets untried. Of merges: a jid refused because its name
is taken is counted with those skipped, and its other columns go with the source
(`merge_dbs_sqlite.py:178-196, 229-237`); a message that refers to a jid that is in the database already
under another key keeps the number it had in the other database (`166-171`), and one that refers to a
refused jid is given a key that no row has; messages are inserted again by a second try, as their
references differ by then (`102`, `145-177`); tables without a primary key or with other columns are
skipped and are lost with the source. And the ciphertext of `wa.db` is removed once `msgstore` is
decrypted, whether or not `wa.db` was; a path of `com.whatsapp.w4b` contains `com.whatsapp` and
passes that filter, which the filter by account makes up for unless an account has no file of its own.

The instance has 1,120,830 distinct states and takes two to three minutes.

### Proofs

*The phone* (`HostToolsProofs`, from `ExtractionAssumption`). `TypeCorrect` has one case per
step of the tool. `ToolInv` is inductive for any number of keys, runs and lapses, and each of
its parts names the lapses it does not survive: the app shows the account the run is at
(`PlaceInv`); keys are made one after the other, and no file was made under the one still on the
screen (`MadeInv`); the key file and the phone agree as far as the run has come (`KeyInv`), and
afterwards, as long as the account is encrypted (`KeyFile`); the backup waited for is under way or
its file is the newest of all, and at the pull it is (`PullInv`); files on the host are of their account
(`OwnInv`); messages in hand came under the key that phone, key file and last backup still have, and no
file under another key waits to be decrypted over them (`HandInv`). `KeyFilesTrue` and `OwnAccounts`
follow; `MessagesStay` is the action property: the steps that write or remove files, those
of the pull, of decryption and cleaning up, leave the messages in hand, in one file or the other
(`HandKept`).

*The merge* (`MergeDatabasesProofs`, and `HostToolsProofs` for the tools together). Rows and
tables are to come only while a merge writes (`Steady`). Rows of the pulled database without
a new key have their content in the database, and new keys differ and are not in use before their
rows are written (`MappingRight`), so an insertion overwrites nothing. While a table is written,
the contents known are in the database, those of the rows without a new key among them
(`DataMapRight`). Hence a row that is not to come is there in all its columns, or its name is taken (`Settled`),
also when the source is removed. `NoJidAddedTwice` rests on `JidsKnown`, the converse for jids: what the database has
of them is known while they are written. `AddsRight` needs what is special about the first merge
(`FirstInv`): it starts from the database as it was, the new keys are those of rows whose
content was not there, what was added comes from rows already through, and so a jid that was
pulled once is stored under its new key and a message with the new key of its jid.
Hypotheses: `MaxTries` is a number, and `None`, which stands for a missing file, is no
database.

*The decryption* (`HostToolsProofs`, from `ToolsAssumption`). `BackupsDecrypt` holds for
every length of database, tag, checksum and buffer, and for all offsets. Its three
conjuncts have an invariant each:

* `SuccessInv`: what went through the cipher is what was written, as long as it begins the
  database (`FedKept`, kept by every call of `Feed`); before that nothing is written. The
  verification at the end then tells whether all of it was fed, and a database that is not
  a ZIP and ends in noise is one unit too short, which the last check sees (`TooShort`).
* `WholeInv`: unforced, an error ends the script; read at once, the output is written in one
  step.
* `IntactInv`, about `Regular` files: what was fed, what is held back and what is unread lie
  side by side in the file (`Streams`, from `PartPieces` and `PartConcat`), and more than a
  trailer is held back until the last read (`LoopInv`), so that the trailer is in hand
  whole, however the reads fall on it (`TrailerIsHeld`). `AllAreTried` is the lemma about
  `oscillate`: from strictly between its bounds it tries every offset; `ToolsAssumption`
  and `Regular` put the defaults there, the checks of `main` (`decrypt-wa.py:528-532`) the first of them.

Each of the three is proved of the script's own `Spec`, a step of which leaves phone and merge
alone; `ToolsAreTyped` joins the type invariants. Only model-checked: `RunEnds`, which is
liveness.

## 10. Not modelled

* Named entities (`ml/ner`), APK files (`ml/apk`), key files and the details of
  `msgstore_parser.py`: functions of the bytes of a file, without state or order. The models
  take their results as given, damaged input included.
* Reports and the listings, searches and summaries of the services: they read and render.
* Device acquisition: a subprocess and its timeout; nothing is kept.
* `cmd.py`, `extract-keys.py`, `get_number_wa.py` and `backup/decryptor.py`: parts of the
  extraction run by hand; the last has the functions of `decrypt-wa.py` once more.
* Passwords, token expiry and rate limits: times and cryptography, no interplay.

## 11. Limits

Liveness under fairness and ENABLED, induction over data and RECURSIVE operators are
beyond the prover and stay with TLC: of the properties of passing runs these are
`ImportsEnd`, `ChangesAreShown` and `RunEnds`. Every other one is the subject of a theorem.

The database is taken at READ COMMITTED, as PostgreSQL runs it by default. Time stamps are
distinct and never run backwards. UUIDs
are unique. Formatting, pagination and rendering are not modelled.
