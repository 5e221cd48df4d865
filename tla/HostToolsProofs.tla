--------------------------- MODULE HostToolsProofs ---------------------------
(***************************************************************************)
(* Theorems about the tools on the host: the phone (WhatsAppExtraction),    *)
(* what MergeDatabasesProofs shows of the merge, and the decryption        *)
(* (BackupDecryptor).                                                      *)
(***************************************************************************)
EXTENDS HostTools, SequenceTheorems, FiniteSetTheorems, TLAPS

----------------------------------------------------------------------------
(* Type correctness.                                                       *)

\* The places of a run before those where files are read.
LEMMA Constants ==
    /\ MaxKey \in Nat \ {0} /\ MaxRuns \in Nat /\ Off = 0 /\ Partial = MaxKey + 1
    /\ Off \in 0..MaxKey /\ Partial \in 0..Partial /\ 0..MaxKey \subseteq 0..Partial
    /\ Partial \notin 0..MaxKey /\ 1..MaxKey \subseteq 0..MaxKey
    /\ None \notin Backup /\ None \notin Database /\ None \notin Saved
BY ExtractionAssumption DEF ExtractionAssumption, Off, Partial

LEMMA ShownInSlots == TypeOK => Shown \in Slots
BY DEF TypeOK, Shown, Slots

\* Where a run may go.
LEMMA Places ==
  ASSUME TypeOK, NEW pc \in PCs, Goes(pc)
  PROVE  run' \in [pc : PCs, slot : Slots]
BY DEF TypeOK, Goes

LEMMA BeginPlaces ==
  ASSUME NEW slot \in Slots, Begin(slot)
  PROVE  run' \in [pc : PCs, slot : Slots]
BY DEF Begin, Idle, PCs, Slots

\* The new file is the newest of any it is among; the others are as they were.
LEMMA SaveTypes ==
  ASSUME TypeOK, NEW account \in Slots, SaveBackup(account)
  PROVE  /\ remote' \in [Slots -> Saved \cup {None}]
         /\ (\A files \in (SUBSET Present) \ {{}} :
                 \E a \in files : \A b \in files : IsNewest(b, files) <=> b = a)'
         /\ remote'[account] = [key |-> phone_key[account], newer |-> {}]
         /\ \A a \in Slots \ {account} : remote'[a] # None => account \in remote'[a].newer
<1>1. remote'[account] = [key |-> phone_key[account], newer |-> {}] /\ remote'[account] \in Saved
  BY DEF SaveBackup, TypeOK, Saved
<1>2. ASSUME NEW a \in Slots \ {account}
      PROVE  /\ remote[a] = None => remote'[a] = None
             /\ remote[a] # None => /\ remote'[a] \in Saved
                                    /\ remote'[a].newer = remote[a].newer \cup {account}
  <2>1. remote'[a] = IF remote[a] = None THEN None
                     ELSE [remote[a] EXCEPT !.newer = @ \cup {account}]
    BY DEF SaveBackup
  <2>2. CASE remote[a] = None
    BY <2>1, <2>2
  <2>3. CASE remote[a] # None
    <3>1. remote[a] \in Saved
      BY <2>3 DEF TypeOK
    <3>2. QED
      BY <2>1, <2>3, <3>1 DEF Saved
  <2>4. QED
    BY <2>2, <2>3
<1>3. remote' \in [Slots -> Saved \cup {None}]
  <2>1. remote' = [a \in Slots |-> remote'[a]]
    BY DEF SaveBackup
  <2>2. \A a \in Slots : remote'[a] \in Saved \cup {None}
    BY <1>1, <1>2
  <2>3. QED
    BY <2>1, <2>2
<1>4. \A a \in Slots \ {account} : remote'[a] # None => account \in remote'[a].newer
  BY <1>2
<1>5. ASSUME NEW files \in (SUBSET Present') \ {{}}
      PROVE  \E a \in files : \A b \in files : (remote'[b].newer \cap files = {}) <=> b = a
  <2>0. files \subseteq Slots
    BY DEF Present
  <2>1. CASE account \in files
    <3>1. remote'[account].newer \cap files = {}
      BY <1>1
    <3>2. \A b \in files : b # account => account \in remote'[b].newer
      BY <1>4, <2>0 DEF Present
    <3>3. QED
      BY <2>1, <3>1, <3>2
  <2>2. CASE account \notin files
    <3>1. \A b \in files : remote[b] # None /\ remote'[b].newer = remote[b].newer \cup {account}
      BY <1>2, <2>0, <2>2 DEF Present
    <3>2. files \in (SUBSET Present) \ {{}}
      BY <2>0, <3>1 DEF Present
    <3>3. \A b \in files : remote'[b].newer \cap files = remote[b].newer \cap files
      BY <2>2, <3>1
    <3>4. \E a \in files : \A b \in files : (remote[b].newer \cap files = {}) <=> b = a
      BY <3>2 DEF TypeOK, IsNewest
    <3>5. QED
      BY <3>3, <3>4
  <2>3. QED
    BY <2>1, <2>2
<1>6. QED
  BY <1>1, <1>3, <1>4, <1>5 DEF IsNewest

\* What is pulled is a file, or a part of it, of one of the accounts whose files were found.
LEMMA PullTypes ==
  ASSUME TypeOK, NEW kept \in Backup \cup {None}, NEW files \in SUBSET Present, NEW p \in Pulls(kept, files)
  PROVE  p.file \in Backup \cup {None}
<1>1. ASSUME NEW a \in files
      PROVE  a \in Slots /\ remote[a].key \in 0..MaxKey
  BY DEF TypeOK, Present, Saved
<1>2. QED
  BY <1>1, Constants DEF Pulls, Backup

LEMMA FoundPresent ==
  ASSUME NEW slot
  PROVE  Found(slot) \in SUBSET Present
BY DEF Found, _filter_db_files_for_account

\* What is missed is never forgotten.
LEMMA LapsesKnown ==
  /\ Concern("_account1") = Lapses /\ Concern("_account2") = Lapses \ {"list"}
  /\ Concern("_business") = {"pull", "user"}
  /\ Lapses = {"account", "backup", "list", "pull", "user"}
BY DEF Concern, Lapses

LEMMA NotedGrows ==
  ASSUME missed \subseteq Lapses, NEW lapse \in Lapses, NEW occurs, Noted(lapse, occurs)
  PROVE  missed \subseteq missed' /\ missed' \subseteq Lapses
BY DEF Noted

LEMMA BeginNotes ==
  ASSUME missed \subseteq Lapses, NEW slot, Begin(slot)
  PROVE  missed \subseteq missed' /\ missed' \subseteq Lapses
BY NotedGrows, LapsesKnown DEF Begin

LEMMA BackupNotes ==
  ASSUME missed \subseteq Lapses, BackupStops \/ \E a \in Slots : NightlyBackup(a)
  PROVE  missed \subseteq missed' /\ missed' \subseteq Lapses
<1>1. \E occurs \in BOOLEAN : Noted("backup", occurs)
  BY DEF BackupStops, BackupEnds, NightlyBackup
<1>2. QED
  BY <1>1, NotedGrows, LapsesKnown

LEMMA PullNotes ==
  ASSUME missed \subseteq Lapses, pull_whatsapp_database
  PROVE  missed \subseteq missed' /\ missed' \subseteq Lapses
<1>1. ASSUME NEW kept, NEW files, NEW p \in Pulls(kept, files)
      PROVE  p.lapses \subseteq {"list", "pull"}
  BY DEF Pulls, Unlisted
<1>2. QED
  BY <1>1, LapsesKnown DEF pull_whatsapp_database

LEMMA MissedGrows ==
  ASSUME missed \subseteq Lapses, [Next]_vars
  PROVE  missed \subseteq missed' /\ missed' \subseteq Lapses
<1>1. CASE Start \/ Switch \/ SwitchBack
  BY <1>1, BeginNotes DEF Start, Switch, SwitchBack
<1>2. CASE wait_for_cancel_download
  BY <1>2, NotedGrows, LapsesKnown DEF wait_for_cancel_download
<1>3. CASE BackupStops \/ \E a \in Slots : NightlyBackup(a)
  BY <1>3, BackupNotes
<1>4. CASE PhoneUsed
  BY <1>4, NotedGrows, LapsesKnown DEF PhoneUsed
<1>5. CASE pull_whatsapp_database
  BY <1>5, PullNotes
<1>6. CASE decrypt_whatsapp_db
  BY <1>6 DEF decrypt_whatsapp_db, RunScript
<1>7. CASE \/ backup_chat \/ OpenSettings \/ OpenChats \/ ClickChats \/ chat_backup_preference
           \/ FindEncryption \/ _get_encryption_status \/ _validate_encryption_key_file
           \/ _disable_encryption \/ enable_encryption \/ extract_whatsapp_keys \/ ConfirmKey
           \/ _press_backup_now \/ cleanup_pull_account_dir \/ Fails \/ Raises \/ Leave \/ Crash
           \/ UNCHANGED vars
  <2>1. UNCHANGED missed
    BY <1>7 DEF backup_chat, OpenSettings, OpenChats, ClickChats, chat_backup_preference,
       FindEncryption, _get_encryption_status, _validate_encryption_key_file, _disable_encryption,
       enable_encryption, extract_whatsapp_keys, ConfirmKey, _press_backup_now,
       cleanup_pull_account_dir, Fails, Raises, Leave, Crash, vars
  <2>2. QED
    BY <2>1
<1>8. QED
  BY <1>1, <1>2, <1>3, <1>4, <1>5, <1>6, <1>7 DEF Next, Step

\* TypeOK in two parts: the files on the phone, and the rest.
FilesOK ==
    /\ remote \in [Slots -> Saved \cup {None}]
    /\ \A files \in (SUBSET Present) \ {{}} : \E a \in files : \A b \in files : IsNewest(b, files) <=> b = a
RestOK ==
    /\ installed \subseteq {"com.whatsapp", "com.whatsapp.w4b"} /\ second \in BOOLEAN
    /\ active \in {"_account1", "_account2"}
    /\ phone_key \in [Slots -> 0..MaxKey] /\ made \in 0..MaxKey
    /\ screen \in Screens
    /\ keys \in [Slots -> 0..Partial]
    /\ pulled \in [Slots -> [Kinds -> Backup \cup {None}]]
    /\ db \in [Slots -> [Kinds -> Database \cup {None}]]
    /\ run \in [pc : PCs, slot : Slots]
    /\ runs \in 0..MaxRuns /\ saving \subseteq Slots /\ missed \subseteq Lapses

LEMMA TypeParts == TypeOK <=> FilesOK /\ RestOK
BY DEF TypeOK, FilesOK, RestOK

LEMMA FilesStay ==
  ASSUME FilesOK, UNCHANGED remote
  PROVE  FilesOK'
BY DEF FilesOK, Present, IsNewest

\* The ways of the screen.
LEMMA ScreensStay ==
  ASSUME TypeOK
  PROVE  /\ UNION {open_whatsapp_menu(s) : s \in settings_whatsapp(screen)} \subseteq Screens
         /\ menu_chats(screen) \subseteq Screens
         /\ _click_chat_backup_entry(screen) \subseteq Screens
         /\ _navigate_back_to_chat_backup(screen) \subseteq Screens
         /\ back_to_main_whatsapp(screen) \subseteq Screens
         /\ {"main", "other", "encryption"} \subseteq Screens
BY DEF TypeOK, Screens, open_whatsapp_menu, settings_whatsapp, menu_chats, _click_chat_backup_entry,
       _navigate_back_to_chat_backup, back_to_main_whatsapp

\* What the script may do: nothing, succeed or fail.
LEMMA ScriptCases ==
  ASSUME NEW kind, NEW next, NEW stop, RunScript(kind, next, stop)
  PROVE  /\ UNCHANGED <<handset, screen, keys, runs, missed, fixed>>
         /\ \/ UNCHANGED <<pulled, db>> /\ Goes(stop)
            \/ /\ pulled[run.slot][kind] # None /\ keys[run.slot] \notin {Off, Partial}
               /\ pulled' = [pulled EXCEPT ![run.slot][kind] = None]
               /\ db' = [db EXCEPT ![run.slot][kind] = Decrypted(pulled[run.slot][kind])]
               /\ Goes(next)
            \/ /\ pulled[run.slot][kind] # None /\ keys[run.slot] \notin {Off, Partial}
               /\ db' = [db EXCEPT ![run.slot][kind] = IF @ = None THEN None ELSE [of |-> @.of, good |-> FALSE]]
               /\ UNCHANGED pulled /\ Goes(stop)
<1>1. CASE pulled[run.slot][kind] = None \/ keys[run.slot] \in {Off, Partial}
  BY <1>1, Zenon DEF RunScript
<1>2. CASE ~(pulled[run.slot][kind] = None \/ keys[run.slot] \in {Off, Partial})
  BY <1>2, Zenon DEF RunScript
<1>3. QED
  BY <1>1, <1>2

LEMMA ScriptTypes ==
  ASSUME TypeOK, NEW kind \in Kinds, NEW next \in PCs, NEW stop \in PCs, RunScript(kind, next, stop)
  PROVE  TypeOK'
<1>1. FilesOK /\ RestOK
  BY TypeParts
<1>2. FilesOK'
  BY <1>1, FilesStay DEF RunScript, handset
<1>3. run' \in [pc : PCs, slot : Slots]
  BY Places DEF RunScript
<1>4. run.slot \in Slots
  BY <1>1 DEF RestOK
<1>5. ASSUME NEW p \in Backup \cup {None}
      PROVE  [pulled EXCEPT ![run.slot][kind] = p] \in [Slots -> [Kinds -> Backup \cup {None}]]
  BY <1>1, <1>4 DEF RestOK
<1>6. ASSUME NEW d \in Database \cup {None}
      PROVE  [db EXCEPT ![run.slot][kind] = d] \in [Slots -> [Kinds -> Database \cup {None}]]
  BY <1>1, <1>4 DEF RestOK
<1>7. pulled' \in [Slots -> [Kinds -> Backup \cup {None}]]
  <2>1. pulled \in [Slots -> [Kinds -> Backup \cup {None}]]
    BY <1>1 DEF RestOK
  <2>2. UNCHANGED pulled \/ pulled' = [pulled EXCEPT ![run.slot][kind] = None]
    BY ScriptCases, Zenon
  <2>3. QED
    BY <1>5, <2>1, <2>2
<1>8. db' \in [Slots -> [Kinds -> Database \cup {None}]]
  <2>1. db \in [Slots -> [Kinds -> Database \cup {None}]]
    BY <1>1 DEF RestOK
  <2>2. CASE UNCHANGED db
    BY <2>1, <2>2
  <2>3. CASE /\ pulled[run.slot][kind] # None
             /\ db' = [db EXCEPT ![run.slot][kind] = Decrypted(pulled[run.slot][kind])]
    <3>1. pulled[run.slot][kind] \in Backup
      BY <1>1, <1>4, <2>3 DEF RestOK
    <3>2. Decrypted(pulled[run.slot][kind]) \in Database
      BY <3>1 DEF Decrypted, Backup, Database
    <3>3. QED
      BY <1>6, <2>3, <3>2
  <2>4. CASE db' = [db EXCEPT ![run.slot][kind] = IF @ = None THEN None ELSE [of |-> @.of, good |-> FALSE]]
    <3>1. db[run.slot][kind] \in Database \cup {None}
      BY <1>1, <1>4 DEF RestOK
    <3>2. (IF db[run.slot][kind] = None THEN None ELSE [of |-> db[run.slot][kind].of, good |-> FALSE])
             \in Database \cup {None}
      BY <3>1 DEF Database
    <3>3. QED
      BY <1>6, <2>4, <3>2, Zenon
  <2>5. QED
    BY <2>2, <2>3, <2>4, ScriptCases, Zenon
<1>9. RestOK'
  BY <1>1, <1>3, <1>7, <1>8 DEF RunScript, RestOK, handset, fixed
<1>10. QED
  BY <1>2, <1>9, TypeParts, PTL
LEMMA StepTypes ==
  ASSUME TypeOK, Step
  PROVE  TypeOK'
<1>1. FilesOK /\ RestOK
  BY TypeParts
<1>0. missed' \subseteq Lapses
  BY MissedGrows DEF TypeOK, Next
<1>2. run.slot \in Slots /\ Shown \in Slots /\ run.pc \in PCs
  BY ShownInSlots DEF TypeOK
<1>3. ASSUME FilesOK', RestOK'
      PROVE  TypeOK'
  BY <1>3, TypeParts, PTL
<1> USE <1>0, <1>1
<1>4. CASE backup_chat \/ OpenSettings \/ OpenChats \/ ClickChats \/ chat_backup_preference
           \/ FindEncryption
  <2>1. screen' \in Screens
    BY <1>4, ScreensStay DEF backup_chat, OpenSettings, OpenChats, ClickChats,
       chat_backup_preference, FindEncryption, RestOK
  <2>2. run' \in [pc : PCs, slot : Slots]
    <3>1. \E pc \in PCs : Goes(pc)
      BY <1>4 DEF backup_chat, OpenSettings, OpenChats, ClickChats, chat_backup_preference,
         FindEncryption, PCs
    <3>2. QED
      BY <3>1, Places
  <2>3. UNCHANGED <<handset, host, runs, fixed>>
    BY <1>4 DEF backup_chat, OpenSettings, OpenChats, ClickChats, chat_backup_preference,
       FindEncryption
  <2>4. FilesOK'
    BY <2>3, FilesStay DEF handset
  <2>5. RestOK'
    BY <2>1, <2>2, <2>3 DEF RestOK, handset, host, fixed
  <2>6. QED
    BY <1>3, <2>4, <2>5
<1>15. CASE _press_backup_now
  <2>1. screen' \in Screens
    BY <1>15, ScreensStay DEF _press_backup_now
  <2>2. run' \in [pc : PCs, slot : Slots]
    <3>1. \E pc \in PCs : Goes(pc)
      BY <1>15 DEF _press_backup_now, PCs
    <3>2. QED
      BY <3>1, Places
  <2>3. UNCHANGED <<active, phone_key, made, remote, host, runs, fixed>>
    BY <1>15 DEF _press_backup_now
  <2>4. saving' \subseteq Slots
    BY <1>2, <1>15 DEF _press_backup_now, RestOK
  <2>5. FilesOK'
    BY <2>3, FilesStay
  <2>6. RestOK'
    BY <2>1, <2>2, <2>3, <2>4 DEF RestOK, host, fixed
  <2>7. QED
    BY <1>3, <2>5, <2>6
<1>5. CASE _get_encryption_status \/ _validate_encryption_key_file \/ Fails \/ wait_for_cancel_download
  <2>1. \E pc \in PCs : Goes(pc)
    BY <1>5 DEF _get_encryption_status, _validate_encryption_key_file, Fails,
       wait_for_cancel_download, PCs
  <2>2. run' \in [pc : PCs, slot : Slots]
    BY <2>1, Places
  <2>3. UNCHANGED <<handset, screen, host, runs, fixed>>
    BY <1>5 DEF _get_encryption_status, _validate_encryption_key_file, Fails,
       wait_for_cancel_download
  <2>4. FilesOK'
    BY <2>3, FilesStay DEF handset
  <2>5. RestOK'
    BY <2>2, <2>3 DEF RestOK, handset, host, fixed
  <2>6. QED
    BY <1>3, <2>4, <2>5
<1>6. CASE _disable_encryption \/ ConfirmKey
  <2>1. \E pc \in PCs : Goes(pc)
    BY <1>6 DEF _disable_encryption, ConfirmKey, PCs
  <2>2. run' \in [pc : PCs, slot : Slots]
    BY <2>1, Places
  <2>3. UNCHANGED <<active, made, remote, saving, screen, host, runs, fixed>>
    BY <1>6 DEF _disable_encryption, ConfirmKey
  <2>4. \E n \in 0..MaxKey : phone_key' = [phone_key EXCEPT ![Shown] = n]
    BY <1>6, Constants DEF _disable_encryption, ConfirmKey, RestOK
  <2>5. phone_key' \in [Slots -> 0..MaxKey]
    BY <2>4 DEF RestOK
  <2>6. FilesOK'
    BY <2>3, FilesStay
  <2>7. RestOK'
    BY <2>2, <2>3, <2>5 DEF RestOK, host, fixed
  <2>8. QED
    BY <1>3, <2>6, <2>7
<1>7. CASE enable_encryption
  <2>1. run' \in [pc : PCs, slot : Slots]
    <3>1. Goes("extract") /\ "extract" \in PCs
      BY <1>7 DEF enable_encryption, PCs
    <3>2. QED
      BY <3>1, Places
  <2>2. made' \in 0..MaxKey
    BY <1>7, Constants DEF enable_encryption, RestOK
  <2>3. FilesOK'
    BY <1>7, FilesStay DEF enable_encryption
  <2>4. RestOK'
    BY <1>7, <2>1, <2>2 DEF enable_encryption, RestOK, host, fixed
  <2>5. QED
    BY <1>3, <2>3, <2>4
<1>8. CASE extract_whatsapp_keys
  <2>1. run' \in [pc : PCs, slot : Slots]
    <3>1. Goes("confirm") /\ "confirm" \in PCs
      BY <1>8 DEF extract_whatsapp_keys, PCs
    <3>2. QED
      BY <3>1, Places
  <2>2. \E n \in 0..Partial : keys' = [keys EXCEPT ![run.slot] = n]
    BY <1>8, Constants DEF extract_whatsapp_keys, RestOK
  <2>3. keys' \in [Slots -> 0..Partial]
    BY <2>2 DEF RestOK
  <2>4. FilesOK'
    BY <1>8, FilesStay DEF extract_whatsapp_keys, handset
  <2>5. RestOK'
    BY <1>8, <2>1, <2>3 DEF extract_whatsapp_keys, RestOK, handset, fixed
  <2>6. QED
    BY <1>3, <2>4, <2>5
<1>9. CASE pull_whatsapp_database
  <2>1. run' \in [pc : PCs, slot : Slots]
    <3>1. Goes("decrypt") /\ "decrypt" \in PCs
      BY <1>9 DEF pull_whatsapp_database, PCs
    <3>2. QED
      BY <3>1, Places
  <2>2. pulled' \in [Slots -> [Kinds -> Backup \cup {None}]]
    <3>1. PICK m \in Pulls(pulled[run.slot]["msgstore"], Found(run.slot)),
               w \in Pulls(pulled[run.slot]["wa"], Found(run.slot)) :
              pulled' = [pulled EXCEPT ![run.slot] = [msgstore |-> m.file, wa |-> w.file]]
      BY <1>9 DEF pull_whatsapp_database
    <3>2. m.file \in Backup \cup {None} /\ w.file \in Backup \cup {None}
      <4>1. \A k \in Kinds : pulled[run.slot][k] \in Backup \cup {None}
        BY <1>2 DEF RestOK
      <4>2. QED
        BY <4>1, PullTypes, FoundPresent DEF Kinds
    <3>3. [msgstore |-> m.file, wa |-> w.file] \in [Kinds -> Backup \cup {None}]
      BY <3>2 DEF Kinds
    <3>4. QED
      BY <3>1, <3>3 DEF RestOK
  <2>3. FilesOK'
    BY <1>9, FilesStay DEF pull_whatsapp_database, handset
  <2>4. RestOK'
    BY <1>9, <2>1, <2>2 DEF pull_whatsapp_database, RestOK, handset, fixed
  <2>5. QED
    BY <1>3, <2>3, <2>4
<1>10. CASE decrypt_whatsapp_db
  <2>1. \E kind \in Kinds, next, stop \in PCs : RunScript(kind, next, stop)
    BY <1>10, Zenon DEF decrypt_whatsapp_db, Kinds, PCs
  <2>2. QED
    BY <2>1, ScriptTypes
<1>11. CASE cleanup_pull_account_dir
  <2>1. run' \in [pc : PCs, slot : Slots]
    <3>1. Goes("leave") /\ "leave" \in PCs
      BY <1>11 DEF cleanup_pull_account_dir, PCs
    <3>2. QED
      BY <3>1, Places
  <2>2. pulled' \in [Slots -> [Kinds -> Backup \cup {None}]]
    BY <1>11 DEF cleanup_pull_account_dir, RestOK
  <2>3. FilesOK'
    BY <1>11, FilesStay DEF cleanup_pull_account_dir, handset
  <2>4. RestOK'
    BY <1>11, <2>1, <2>2 DEF cleanup_pull_account_dir, RestOK, handset, fixed
  <2>5. QED
    BY <1>3, <2>3, <2>4
<1>12. CASE Leave
  <2>1. run' \in [pc : PCs, slot : Slots]
    <3>1. Goes("switch") \/ Goes("switch_back") \/ run' = Idle
      BY <1>2, <1>12 DEF Leave, Slots
    <3>2. {"switch", "switch_back"} \subseteq PCs /\ Idle \in [pc : PCs, slot : Slots]
      BY DEF PCs, Slots, Idle
    <3>3. QED
      BY <3>1, <3>2, Places
  <2>2. screen' \in Screens
    BY <1>12, ScreensStay DEF Leave
  <2>3. FilesOK'
    BY <1>12, FilesStay DEF Leave, handset
  <2>4. RestOK'
    BY <1>12, <2>1, <2>2 DEF Leave, RestOK, handset, host, fixed
  <2>5. QED
    BY <1>3, <2>3, <2>4
<1>13. CASE Switch \/ SwitchBack
  <2>1. run' \in [pc : PCs, slot : Slots]
    BY <1>13, BeginPlaces DEF Switch, SwitchBack, Slots
  <2>2. active' \in {"_account1", "_account2"}
    BY <1>13 DEF Switch, SwitchBack, click_switch_account_if_available, Other, RestOK
  <2>3. FilesOK'
    BY <1>13, FilesStay DEF Switch, SwitchBack
  <2>4. RestOK'
    BY <1>13, <2>1, <2>2 DEF Switch, SwitchBack, RestOK, host, fixed
  <2>5. QED
    BY <1>3, <2>3, <2>4
<1>14. QED
  BY <1>4, <1>5, <1>6, <1>7, <1>8, <1>9, <1>10, <1>11, <1>12, <1>13, <1>15 DEF Step

LEMMA NextTypeOK ==
  ASSUME TypeOK, [Next]_vars
  PROVE  TypeOK'
<1>1. FilesOK /\ RestOK
  BY TypeParts
<1>0. missed' \subseteq Lapses
  BY MissedGrows DEF TypeOK
<1>2. ASSUME FilesOK', RestOK'
      PROVE  TypeOK'
  BY <1>2, TypeParts, PTL
<1> USE <1>0, <1>1
<1>3. CASE Start
  <2>1. run' \in [pc : PCs, slot : Slots]
    BY <1>3, BeginPlaces DEF Start, Slots
  <2>2. runs' \in 0..MaxRuns
    BY <1>3, Constants DEF Start, RestOK
  <2>3. FilesOK'
    BY <1>3, FilesStay DEF Start, handset
  <2>4. RestOK'
    BY <1>3, <2>1, <2>2, ScreensStay DEF Start, RestOK, handset, host, fixed
  <2>5. QED
    BY <1>2, <2>3, <2>4
<1>4. CASE Step
  BY <1>4, StepTypes
<1>5. CASE BackupStops \/ \E a \in Slots : NightlyBackup(a)
  <2>1. UNCHANGED <<active, phone_key, made, screen, host, run, runs, fixed>>
    BY <1>5 DEF BackupStops, BackupEnds, NightlyBackup
  <2>2. saving' \subseteq Slots
    BY <1>5 DEF BackupStops, BackupEnds, NightlyBackup, RestOK
  <2>3. (\E a \in Slots : SaveBackup(a)) \/ UNCHANGED remote
    BY <1>5 DEF BackupStops, BackupEnds, NightlyBackup
  <2>4. FilesOK'
    BY <2>3, FilesStay, SaveTypes DEF FilesOK
  <2>5. RestOK'
    BY <2>1, <2>2 DEF RestOK, host, fixed
  <2>6. QED
    BY <1>2, <2>4, <2>5
<1>6. CASE Crash
  <2>1. Idle \in [pc : PCs, slot : Slots]
    BY DEF Idle, PCs, Slots
  <2>2. FilesOK'
    BY <1>6, FilesStay DEF Crash, handset
  <2>3. RestOK'
    BY <1>6, <2>1 DEF Crash, RestOK, handset, host, fixed
  <2>4. QED
    BY <1>2, <2>2, <2>3
<1>7. CASE PhoneUsed
  <2>1. UNCHANGED <<remote, saving, host, run, runs, fixed>>
    BY <1>7 DEF PhoneUsed
  <2>2. FilesOK'
    BY <2>1, FilesStay
  <2>3. made' \in 0..MaxKey /\ phone_key' \in [Slots -> 0..MaxKey]
    <3>1. CASE UNCHANGED <<made, phone_key>>
      BY <3>1 DEF RestOK
    <3>2. CASE made < MaxKey /\ made' = made + 1
      <4>1. made' \in 0..MaxKey
        BY <3>2, Constants DEF RestOK
      <4>2. PICK a \in Slots : phone_key' = [phone_key EXCEPT ![a] = made'] \/ UNCHANGED phone_key
        BY <1>7, ShownInSlots DEF PhoneUsed, Accounts
      <4>3. QED
        BY <4>1, <4>2 DEF RestOK
    <3>3. QED
      BY <1>7, <3>1, <3>2 DEF PhoneUsed
  <2>4. screen' \in Screens /\ active' \in {"_account1", "_account2"}
    BY <1>7, ScreensStay DEF PhoneUsed, Other, RestOK
  <2>5. RestOK'
    BY <2>1, <2>3, <2>4 DEF RestOK, host, fixed
  <2>6. QED
    BY <1>2, <2>2, <2>5
<1>9. CASE Raises
  <2>1. run' \in [pc : PCs, slot : Slots]
    <3>1. Goes("entry") \/ Goes("leave")
      BY <1>9 DEF Raises
    <3>2. QED
      BY <3>1, Places DEF PCs
  <2>2. UNCHANGED <<handset, screen, host, runs, fixed>>
    BY <1>9 DEF Raises
  <2>3. FilesOK'
    BY <2>2, FilesStay DEF handset
  <2>4. RestOK'
    BY <2>1, <2>2 DEF RestOK, handset, host, fixed
  <2>5. QED
    BY <1>2, <2>3, <2>4
<1>8. CASE UNCHANGED vars
  <2>1. UNCHANGED <<handset, screen, host, run, runs, fixed>>
    BY <1>8 DEF vars
  <2>2. FilesOK'
    BY <2>1, FilesStay DEF handset
  <2>3. RestOK'
    BY <2>1 DEF RestOK, handset, host, fixed
  <2>4. QED
    BY <1>2, <2>2, <2>3
<1>10. QED
  BY <1>3, <1>4, <1>5, <1>6, <1>7, <1>8, <1>9 DEF Next

(* Every variable of the phone and of the tool keeps its type, and of any files
   on the phone exactly one is the newest (whatsapp_backup_setup.py,
   extract_keys_wa.py:123-146). *)
THEOREM TypeCorrect == Spec => []TypeOK
<1>1. Init => TypeOK
  <2> SUFFICES ASSUME Init PROVE TypeOK
    OBVIOUS
  <2>1. Present = {}
    BY DEF Init, Present
  <2>2. FilesOK
    <3>1. remote \in [Slots -> Saved \cup {None}]
      BY DEF Init
    <3>2. QED
      BY <2>1, <3>1 DEF FilesOK
  <2>3. RestOK
    <3>1. Idle \in [pc : PCs, slot : Slots]
      BY DEF Idle, PCs, Slots
    <3>2. phone_key \in [Slots -> 0..MaxKey] /\ made \in 0..MaxKey /\ runs \in 0..MaxRuns
      <4>1. {Off, 1} \subseteq 0..MaxKey /\ 0 \in 0..MaxRuns
        BY Constants
      <4>2. phone_key \in [Slots -> {Off, 1}] /\ made = 1 /\ runs = 0
        BY DEF Init
      <4>3. QED
        BY <4>1, <4>2
    <3>3. keys \in [Slots -> 0..Partial]
      BY Constants DEF Init
    <3>4. pulled \in [Slots -> [Kinds -> Backup \cup {None}]] /\ db \in [Slots -> [Kinds -> Database \cup {None}]]
      BY DEF Init
    <3>5. QED
      BY <3>1, <3>2, <3>3, <3>4 DEF Init, RestOK, Screens
  <2>4. QED
    BY <2>2, <2>3, TypeParts
<1>2. QED
  BY <1>1, NextTypeOK, PTL DEF Spec
----------------------------------------------------------------------------
(* What holds of an account that was spared.                               *)

\* com.whatsapp shows the account that the run is at.
PlaceInv ==
    missed \cap {"account", "user"} = {} /\ ~At("idle") /\ run.slot # "_business" => active = run.slot

\* Keys are made one after the other; no file was made with the one that is on the screen.
MadeInv ==
    /\ made >= 1
    /\ \A a \in Slots : phone_key[a] <= made
    /\ \A a \in Slots : remote[a] # None => remote[a].key <= made
    /\ \A a \in Slots, k \in Kinds : pulled[a][k] # None =>
           pulled[a][k].key <= made \/ (pulled[a][k].key = Partial /\ "pull" \in missed)
    /\ At("extract") /\ "user" \notin missed =>
           \A a \in Slots, k \in Kinds : pulled[a][k] # None => pulled[a][k].key # made

\* What phone and key file say of encryption at each place of a run.
KeyInv ==
    Spared(run.slot, {"account", "user"}) =>
        /\ At("validate") => phone_key[run.slot] # Off
        /\ At("disable") => keys[run.slot] \in {Off, Partial}
        /\ run.pc \in {"enable", "extract", "confirm"} => phone_key[run.slot] = Off
        /\ At("confirm") => keys[run.slot] \in {made, Partial}
        /\ run.pc \in {"press", "backup", "progress", "pull"} =>
               phone_key[run.slot] # Off /\ keys[run.slot] \in {phone_key[run.slot], Partial}

\* The newest file of the phone is that of the account whose backup was waited for.
Newest(a) == remote[a] # None /\ remote[a].newer = {}
PullInv ==
    run.slot # "_business" /\ Spared(run.slot, {"account", "backup", "user"}) =>
        /\ run.pc \in {"backup", "progress"} => run.slot \in saving \/ Newest(run.slot)
        /\ At("pull") => Newest(run.slot)

\* Files on the host are of their account.
OwnOf(a) == a = "_business" \/ Spared(a, {"account", "backup", "list", "user"})
OwnInv ==
    \A a \in Slots, k \in Kinds : OwnOf(a) =>
        /\ pulled[a][k] # None => pulled[a][k].of = a
        /\ db[a][k] # None => db[a][k].of = a

\* Messages in hand came under the key that phone, key file and the last backup still have,
\* and no file under another key waits to be decrypted over them.
HandOf(a) ==
    /\ InHand(a) =>
           /\ keys[a] = phone_key[a] /\ keys[a] \in 1..MaxKey
           /\ remote[a] # None /\ remote[a].key = keys[a]
    /\ db[a]["msgstore"] # None /\ db[a]["msgstore"].good =>
           pulled[a]["msgstore"] = None \/ pulled[a]["msgstore"].key = keys[a]
HandInv ==
    /\ \A a \in Slots : Spared(a, Lapses) => HandOf(a)
    /\ run.pc \in {"decrypt_wa", "cleanup"} => pulled[run.slot]["msgstore"] = None

KeyFile ==
    \A a \in Slots : Spared(a, {"account", "user"}) =>
        /\ keys[a] \in 1..MaxKey /\ phone_key[a] # Off => keys[a] = phone_key[a]
        /\ phone_key[a] > 1 => keys[a] # Off

ToolInv == PlaceInv /\ MadeInv /\ KeyInv /\ PullInv /\ OwnInv /\ HandInv /\ KeyFile

\* What an account is spared in the next state it was spared before; and it is spared any part.
LEMMA SparedBefore ==
  ASSUME NEW a, NEW lapses, missed \subseteq missed', Spared(a, lapses)'
  PROVE  Spared(a, lapses)
BY DEF Spared

LEMMA SparedAll ==
  ASSUME NEW a, Spared(a, Lapses)
  PROVE  /\ Spared(a, {"account", "user"}) /\ Spared(a, {"account", "backup", "user"})
         /\ a # "_account2" => Spared(a, {"account", "backup", "list", "user"})
BY DEF Spared, Lapses

\* Nobody is spared a stranger, nor a part of a file in place of the whole.
LEMMA ConcernsAll == \A a \in Slots : {"user", "pull"} \subseteq Concern(a)
BY LapsesKnown DEF Slots

\* The account on the screen is the account of the run.
LEMMA ShownIsOwn ==
  ASSUME TypeOK, PlaceInv, ~At("idle"), NEW a \in Slots, Spared(a, {"account", "user"})
  PROVE  Shown = a <=> run.slot = a
<1>1. run.slot \in Slots /\ active \in {"_account1", "_account2"}
  BY DEF TypeOK
<1>2. CASE a = "_business"
  BY <1>1, <1>2 DEF Shown
<1>3. CASE a # "_business"
  <2>1. missed \cap {"account", "user"} = {}
    BY <1>3, LapsesKnown DEF Slots, Spared
  <2>2. run.slot # "_business" => active = run.slot
    BY <2>1 DEF PlaceInv
  <2>3. QED
    BY <1>1, <1>3, <2>2 DEF Shown
<1>4. QED
  BY <1>2, <1>3

----------------------------------------------------------------------------
(* The steps.                                                              *)

\* The steps that leave keys and files alone, and of which no place depends.
Passing ==
    Start \/ backup_chat \/ OpenSettings \/ OpenChats \/ ClickChats \/ chat_backup_preference
    \/ FindEncryption \/ Fails \/ Raises \/ Leave \/ Switch \/ SwitchBack \/ Crash \/ UNCHANGED vars
Passed == {"idle", "open", "settings", "chats", "click_chats", "entry", "encryption", "status",
           "leave", "switch", "switch_back"}

\* Where the tool goes on leaving an account.
LEMMA LeaveGoes ==
  ASSUME TypeOK, Leave
  PROVE  Goes("switch") \/ Goes("switch_back") \/ run' = Idle
<1>1. run.slot \in {"_account1", "_account2", "_business"}
  BY DEF TypeOK, Slots
<1>2. CASE run.slot = "_account1"
  BY <1>2 DEF Leave
<1>3. CASE run.slot = "_account2"
  BY <1>3 DEF Leave
<1>4. CASE run.slot = "_business"
  BY <1>4 DEF Leave
<1>5. QED
  BY <1>1, <1>2, <1>3, <1>4

LEMMA PassingStays ==
  ASSUME TypeOK, Passing
  PROVE  /\ UNCHANGED <<phone_key, made, remote, saving, keys, pulled, db>>
         /\ (run' = run /\ UNCHANGED missed) \/ run'.pc \in Passed
<1>1. UNCHANGED <<phone_key, made, remote, saving, keys, pulled, db>>
  BY DEF Passing, Start, backup_chat, OpenSettings, OpenChats, ClickChats, chat_backup_preference,
     FindEncryption, Fails, Raises, Leave, Switch, SwitchBack, Crash, vars, handset, host
<1>2. run \in [pc : PCs, slot : Slots]
  BY DEF TypeOK
<1>3. ASSUME NEW slot, Begin(slot)
      PROVE  run'.pc \in {"open", "idle"}
  BY <1>3 DEF Begin, Idle
<1>4. (run' = run /\ UNCHANGED missed) \/ run'.pc \in Passed
  <2>1. CASE Start \/ Switch \/ SwitchBack
    BY <1>3, <2>1 DEF Start, Switch, SwitchBack, Passed
  <2>2. CASE Leave
    BY <1>2, <2>2, LeaveGoes DEF Goes, Idle, Passed
  <2>3. CASE backup_chat \/ OpenSettings \/ OpenChats \/ ClickChats \/ chat_backup_preference
             \/ FindEncryption \/ Fails \/ Raises
    BY <1>2, <2>3 DEF backup_chat, OpenSettings, OpenChats, ClickChats, chat_backup_preference,
       FindEncryption, Fails, Raises, Goes, Passed
  <2>4. CASE Crash \/ UNCHANGED vars
    BY <2>4 DEF Crash, Idle, vars, Passed
  <2>5. QED
    BY <2>1, <2>2, <2>3, <2>4 DEF Passing
<1>5. QED
  BY <1>1, <1>4

Backups == BackupStops \/ \E a \in Slots : NightlyBackup(a)

LEMMA OtherSteps ==
  ASSUME [Next]_vars, ~Passing
  PROVE  \/ _get_encryption_status \/ _validate_encryption_key_file \/ _disable_encryption
         \/ enable_encryption \/ extract_whatsapp_keys \/ ConfirmKey \/ _press_backup_now
         \/ wait_for_cancel_download \/ Backups \/ PhoneUsed \/ pull_whatsapp_database
         \/ decrypt_whatsapp_db \/ cleanup_pull_account_dir
BY DEF Next, Step, Passing, Backups

\* A backup leaves the run and the keys alone; the file of an account has the key that
\* it had, or that of the phone.
LEMMA BackupsKeep ==
  ASSUME TypeOK, Backups
  PROVE  /\ UNCHANGED <<active, phone_key, made, keys, pulled, db, run>>
         /\ \A a \in Slots :
                /\ remote[a] # None => remote'[a] # None
                /\ remote'[a] # None =>
                       remote'[a].key = phone_key[a] \/ (remote[a] # None /\ remote'[a].key = remote[a].key)
<1>1. UNCHANGED <<active, phone_key, made, keys, pulled, db, run>>
  BY DEF Backups, BackupStops, BackupEnds, NightlyBackup, host
<1>2. PICK b \in Slots : SaveBackup(b) \/ UNCHANGED remote
  BY DEF Backups, BackupStops, BackupEnds, NightlyBackup
<1>3. CASE UNCHANGED remote
  BY <1>1, <1>3
<1>4. CASE SaveBackup(b)
  <2>1. ASSUME NEW a \in Slots
        PROVE  /\ remote[a] # None => remote'[a] # None
               /\ remote'[a] # None =>
                      remote'[a].key = phone_key[a] \/ (remote[a] # None /\ remote'[a].key = remote[a].key)
    <3>1. CASE a = b
      <4>1. remote'[a] = [key |-> phone_key[a], newer |-> {}]
        BY <1>4, <3>1, SaveTypes
      <4>2. remote'[a] \in Saved
        BY <4>1 DEF Saved, TypeOK
      <4>3. QED
        BY <4>1, <4>2, Constants
    <3>2. CASE a # b /\ remote[a] = None
      BY <1>4, <3>2 DEF SaveBackup
    <3>3. CASE a # b /\ remote[a] # None
      <4>1. remote[a] \in Saved
        BY <3>3 DEF TypeOK
      <4>2. remote'[a] = [remote[a] EXCEPT !.newer = @ \cup {b}]
        BY <1>4, <3>3 DEF SaveBackup
      <4>3. remote'[a] \in Saved /\ remote'[a].key = remote[a].key
        BY <4>1, <4>2 DEF Saved
      <4>4. QED
        BY <3>3, <4>3, Constants
    <3>4. QED
      BY <3>1, <3>2, <3>3
  <2>2. QED
    BY <1>1, <2>1
<1>5. QED
  BY <1>2, <1>3, <1>4

LEMMA StrangerNoted ==
  ASSUME PhoneUsed
  PROVE  /\ "user" \in missed' /\ UNCHANGED <<remote, saving, keys, pulled, db, run>>
         /\ \A a \in Slots : ~Spared(a, {"account", "user"})' /\ ~Spared(a, Lapses)'
                             /\ ~Spared(a, {"account", "backup", "user"})'
<1>1. "user" \in missed' /\ UNCHANGED <<remote, saving, keys, pulled, db, run>>
  BY DEF PhoneUsed, Noted, host
<1>2. \A a \in Slots : "user" \in missed' \cap Concern(a) /\ "user" \in Lapses
  BY <1>1, ConcernsAll, LapsesKnown
<1>3. QED
  BY <1>1, <1>2 DEF Spared

LEMMA PlaceStep ==
  ASSUME TypeOK, PlaceInv, [Next]_vars
  PROVE  PlaceInv'
<1>1. run \in [pc : PCs, slot : Slots] /\ missed \subseteq missed'
  BY MissedGrows DEF TypeOK
<1>2. ASSUME NEW slot, Begin(slot)
      PROVE  PlaceInv'
  <2>1. SUFFICES ASSUME missed' \cap {"account", "user"} = {}, run'.pc # "idle", run'.slot # "_business"
                 PROVE  active' = run'.slot
    BY DEF PlaceInv, At
  <2>2. run' # Idle
    BY <2>1 DEF Idle
  <2>3. "account" \notin missed'
    BY <2>1
  <2>4. Noted("account", run' # Idle /\ run'.slot \notin {"_business", active'})
    BY <1>2 DEF Begin
  <2>5. run'.slot \in {"_business", active'}
    BY <2>2, <2>3, <2>4 DEF Noted
  <2>6. QED
    BY <2>1, <2>5
<1>3. CASE Start \/ Switch \/ SwitchBack
  BY <1>2, <1>3 DEF Start, Switch, SwitchBack
<1>4. CASE PhoneUsed
  BY <1>4, StrangerNoted DEF PlaceInv
<1>5. CASE Crash
  BY <1>5 DEF Crash, Idle, PlaceInv, At
<1>6. CASE Leave
  <2>1. UNCHANGED <<active, missed>> /\ ~At("idle")
    BY <1>6 DEF Leave, handset, At
  <2>2. run' = Idle \/ run'.slot = run.slot
    BY <1>1, <1>6, LeaveGoes DEF Goes
  <2>3. QED
    BY <2>1, <2>2 DEF PlaceInv, At, Idle
<1>7. CASE UNCHANGED vars
  BY <1>7 DEF vars, handset, PlaceInv, At
<1>8. CASE Backups
  BY <1>1, <1>8, BackupsKeep DEF PlaceInv, At
<1>9. CASE \/ backup_chat \/ OpenSettings \/ OpenChats \/ ClickChats \/ chat_backup_preference
           \/ FindEncryption \/ _get_encryption_status \/ _validate_encryption_key_file
           \/ _disable_encryption \/ enable_encryption \/ extract_whatsapp_keys \/ ConfirmKey
           \/ _press_backup_now \/ wait_for_cancel_download \/ pull_whatsapp_database
           \/ decrypt_whatsapp_db \/ cleanup_pull_account_dir \/ Fails \/ Raises
  <2>1. UNCHANGED active /\ ~At("idle") /\ run'.slot = run.slot
    <3>1. CASE decrypt_whatsapp_db
      BY <1>1, <3>1, ScriptCases DEF decrypt_whatsapp_db, handset, At, Goes
    <3>2. CASE ~decrypt_whatsapp_db
      BY <1>1, <1>9, <3>2 DEF backup_chat, OpenSettings, OpenChats, ClickChats,
         chat_backup_preference, FindEncryption, _get_encryption_status,
         _validate_encryption_key_file, _disable_encryption, enable_encryption,
         extract_whatsapp_keys, ConfirmKey, _press_backup_now, wait_for_cancel_download,
         pull_whatsapp_database, cleanup_pull_account_dir, Fails, Raises, handset, At, Goes
    <3>3. QED
      BY <3>1, <3>2
  <2>2. QED
    BY <1>1, <2>1 DEF PlaceInv, At
<1>10. QED
  BY <1>3, <1>4, <1>5, <1>6, <1>7, <1>8, <1>9 DEF Next, Step, Backups

\* File by file, what the script leaves: each as it was, or decrypted, or its database spoilt.
Ran(a, k) ==
    \/ pulled'[a][k] = pulled[a][k] /\ db'[a][k] = db[a][k]
    \/ /\ a = run.slot /\ pulled[a][k] # None /\ keys[a] \notin {Off, Partial}
       /\ \/ pulled'[a][k] = None /\ db'[a][k] = Decrypted(pulled[a][k])
          \/ /\ pulled'[a][k] = pulled[a][k]
             /\ IF db[a][k] = None THEN db'[a][k] = None
                ELSE db'[a][k] = [of |-> db[a][k].of, good |-> FALSE]

LEMMA ScriptFiles ==
  ASSUME TypeOK, NEW kind \in Kinds, NEW next \in PCs, NEW stop \in PCs, RunScript(kind, next, stop)
  PROVE  /\ UNCHANGED <<phone_key, made, remote, keys>>
         /\ \A a \in Slots, k \in Kinds : Ran(a, k) /\ (k # kind => pulled'[a][k] = pulled[a][k])
         /\ Goes(stop) \/ (Goes(next) /\ pulled'[run.slot][kind] = None)
<1>1. run.slot \in Slots /\ pulled \in [Slots -> [Kinds -> Backup \cup {None}]]
      /\ db \in [Slots -> [Kinds -> Database \cup {None}]]
  BY DEF TypeOK
<1>0. UNCHANGED <<phone_key, made, remote, keys>>
  BY DEF RunScript, handset
<1>2. CASE UNCHANGED <<pulled, db>> /\ Goes(stop)
  <2>1. \A a \in Slots, k \in Kinds : Ran(a, k) /\ pulled'[a][k] = pulled[a][k]
    BY <1>2 DEF Ran
  <2>2. QED
    BY <1>0, <1>2, <2>1, Zenon
<1>3. CASE /\ pulled[run.slot][kind] # None /\ keys[run.slot] \notin {Off, Partial}
           /\ pulled' = [pulled EXCEPT ![run.slot][kind] = None]
           /\ db' = [db EXCEPT ![run.slot][kind] = Decrypted(pulled[run.slot][kind])]
           /\ Goes(next)
  <2>1. ASSUME NEW a \in Slots, NEW k \in Kinds
        PROVE  IF a = run.slot /\ k = kind
               THEN pulled'[a][k] = None /\ db'[a][k] = Decrypted(pulled[a][k])
               ELSE pulled'[a][k] = pulled[a][k] /\ db'[a][k] = db[a][k]
    BY <1>1, <1>3
  <2>2. QED
    BY <1>0, <1>1, <1>3, <2>1 DEF Ran
<1>4. CASE /\ pulled[run.slot][kind] # None /\ keys[run.slot] \notin {Off, Partial}
           /\ db' = [db EXCEPT ![run.slot][kind] = IF @ = None THEN None ELSE [of |-> @.of, good |-> FALSE]]
           /\ UNCHANGED pulled /\ Goes(stop)
  <2>1. ASSUME NEW a \in Slots, NEW k \in Kinds
        PROVE  IF a = run.slot /\ k = kind
               THEN db'[a][k] = IF db[a][k] = None THEN None ELSE [of |-> db[a][k].of, good |-> FALSE]
               ELSE db'[a][k] = db[a][k]
    <3> DEFINE spoilt == IF db[run.slot][kind] = None THEN None ELSE [of |-> db[run.slot][kind].of, good |-> FALSE]
    <3>1. db' = [db EXCEPT ![run.slot][kind] = spoilt]
      BY <1>4, Zenon
    <3> HIDE DEF spoilt
    <3>2. IF a = run.slot /\ k = kind THEN db'[a][k] = spoilt ELSE db'[a][k] = db[a][k]
      BY <1>1, <3>1
    <3>3. QED
      BY <3>2 DEF spoilt
  <2>2. QED
    <3>1. \A a \in Slots, k \in Kinds : Ran(a, k) /\ pulled'[a][k] = pulled[a][k]
      BY <1>4, <2>1 DEF Ran
    <3>2. QED
      BY <1>0, <1>4, <3>1, Zenon
<1>5. QED
  BY <1>2, <1>3, <1>4, ScriptCases, Zenon

LEMMA ScriptEffects ==
  ASSUME TypeOK, decrypt_whatsapp_db
  PROVE  /\ UNCHANGED <<phone_key, made, remote, keys>> /\ run'.slot = run.slot
         /\ \A a \in Slots, k \in Kinds : Ran(a, k)
         /\ run'.pc \in {"decrypt_wa", "cleanup", "leave", "decrypt_last"}
         /\ run'.pc = "decrypt_wa" => pulled'[run.slot]["msgstore"] = None
         /\ run'.pc = "cleanup" =>
                At("decrypt_wa") /\ pulled'[run.slot]["msgstore"] = pulled[run.slot]["msgstore"]
<1>1. run \in [pc : PCs, slot : Slots] /\ {"msgstore", "wa"} \subseteq Kinds
      /\ {"decrypt_wa", "cleanup", "leave", "decrypt_last"} \subseteq PCs
  BY DEF TypeOK, Kinds, PCs
<1>2. CASE At("decrypt") /\ RunScript("msgstore", "decrypt_wa", "decrypt_last")
  <2>1. /\ UNCHANGED <<phone_key, made, remote, keys>>
        /\ \A a \in Slots, k \in Kinds : Ran(a, k)
        /\ Goes("decrypt_last") \/ (Goes("decrypt_wa") /\ pulled'[run.slot]["msgstore"] = None)
    BY <1>1, <1>2, ScriptFiles
  <2>2. QED
    BY <1>1, <2>1 DEF Goes
<1>3. CASE At("decrypt_wa") /\ RunScript("wa", "cleanup", "cleanup")
  <2>1. /\ UNCHANGED <<phone_key, made, remote, keys>>
        /\ \A a \in Slots, k \in Kinds : Ran(a, k) /\ (k # "wa" => pulled'[a][k] = pulled[a][k])
        /\ Goes("cleanup")
    BY <1>1, <1>3, ScriptFiles
  <2>2. QED
    BY <1>1, <1>3, <2>1 DEF Goes
<1>4. CASE At("decrypt_last") /\ RunScript("wa", "leave", "leave")
  <2>1. /\ UNCHANGED <<phone_key, made, remote, keys>>
        /\ \A a \in Slots, k \in Kinds : Ran(a, k)
        /\ Goes("leave")
    BY <1>1, <1>4, ScriptFiles
  <2>2. QED
    BY <1>1, <2>1 DEF Goes
<1>5. QED
  BY <1>2, <1>3, <1>4 DEF decrypt_whatsapp_db

\* What is pulled for a kind: nothing, a file that was found or a part of it.
LEMMA PullEffects ==
  ASSUME TypeOK, pull_whatsapp_database
  PROVE  /\ UNCHANGED <<phone_key, made, remote, keys, db>>
         /\ run'.slot = run.slot /\ run'.pc = "decrypt"
         /\ \A a \in Slots, k \in Kinds :
                \/ pulled'[a][k] = pulled[a][k]
                \/ /\ a = run.slot
                   /\ \E b \in Found(a) :
                         /\ Unlisted(b, Found(a)) \subseteq missed'
                         /\ \/ pulled'[a][k] = [of |-> b, key |-> remote[b].key]
                            \/ pulled'[a][k] = [of |-> b, key |-> Partial] /\ "pull" \in missed'
<1>1. run \in [pc : PCs, slot : Slots] /\ pulled \in [Slots -> [Kinds -> Backup \cup {None}]]
  BY DEF TypeOK
<1>2. UNCHANGED <<phone_key, made, remote, keys, db>> /\ run'.slot = run.slot /\ run'.pc = "decrypt"
  BY <1>1 DEF pull_whatsapp_database, handset, Goes, PCs
<1>3. PICK m \in Pulls(pulled[run.slot]["msgstore"], Found(run.slot)),
           w \in Pulls(pulled[run.slot]["wa"], Found(run.slot)) :
        /\ pulled' = [pulled EXCEPT ![run.slot] = [msgstore |-> m.file, wa |-> w.file]]
        /\ missed' = missed \cup m.lapses \cup w.lapses
  BY DEF pull_whatsapp_database
<1>4. ASSUME NEW kept, NEW p \in Pulls(kept, Found(run.slot)), p.lapses \subseteq missed'
      PROVE  \/ p.file = kept
             \/ \E b \in Found(run.slot) :
                   /\ Unlisted(b, Found(run.slot)) \subseteq missed'
                   /\ \/ p.file = [of |-> b, key |-> remote[b].key]
                      \/ p.file = [of |-> b, key |-> Partial] /\ "pull" \in missed'
  BY <1>4 DEF Pulls
<1>5. ASSUME NEW a \in Slots, NEW k \in Kinds, a = run.slot
      PROVE  \/ pulled'[a][k] = pulled[a][k]
             \/ \E b \in Found(a) :
                   /\ Unlisted(b, Found(a)) \subseteq missed'
                   /\ \/ pulled'[a][k] = [of |-> b, key |-> remote[b].key]
                      \/ pulled'[a][k] = [of |-> b, key |-> Partial] /\ "pull" \in missed'
  <2>1. pulled'[a]["msgstore"] = m.file /\ pulled'[a]["wa"] = w.file
    BY <1>1, <1>3, <1>5
  <2>2. CASE k = "msgstore"
    BY <1>3, <1>4, <1>5, <2>1, <2>2
  <2>3. CASE k = "wa"
    BY <1>3, <1>4, <1>5, <2>1, <2>3
  <2>4. QED
    BY <2>2, <2>3 DEF Kinds
<1>6. ASSUME NEW a \in Slots, a # run.slot
      PROVE  pulled'[a] = pulled[a]
  BY <1>1, <1>3, <1>6
<1>7. QED
  BY <1>2, <1>5, <1>6

\* The filters and the list find the file of the account itself.
LEMMA FoundIsOwn ==
  ASSUME TypeOK, PullInv, At("pull"), missed \subseteq missed', OwnOf(run.slot)',
         run'.slot = run.slot,
         NEW b \in Found(run.slot), Unlisted(b, Found(run.slot)) \subseteq missed'
  PROVE  b = run.slot
<1>1. run.slot \in Slots
  BY DEF TypeOK
<1>2. CASE run.slot = "_business"
  BY <1>2 DEF Found, _filter_db_files_for_account, package_name
<1>3. CASE run.slot # "_business"
  <2>1. missed' \cap {"account", "backup", "list", "user"} \cap Concern(run.slot) = {}
    BY <1>3 DEF OwnOf, Spared
  <2>2. Newest(run.slot)
    <3>1. Spared(run.slot, {"account", "backup", "user"})
      BY <2>1 DEF Spared
    <3>2. QED
      BY <1>3, <3>1 DEF PullInv
  <2>3. run.slot \in Found(run.slot)
    BY <1>1, <1>3, <2>2 DEF Found, _filter_db_files_for_account, package_name, Slots, Present, Newest
  <2>4. CASE run.slot = "_account2"
    BY <2>3, <2>4 DEF Found, _filter_db_files_for_account, package_name
  <2>5. CASE run.slot = "_account1"
    <3>1. "list" \notin missed'
      BY <2>1, <2>5, LapsesKnown
    <3>2. IsNewest(b, Found(run.slot)) /\ IsNewest(run.slot, Found(run.slot))
      BY <2>2, <3>1 DEF Unlisted, Newest, IsNewest
    <3>3. Found(run.slot) \in (SUBSET Present) \ {{}}
      BY <2>3, FoundPresent
    <3>4. PICK c \in Found(run.slot) : \A d \in Found(run.slot) : IsNewest(d, Found(run.slot)) <=> d = c
      BY <3>3 DEF TypeOK
    <3>5. QED
      BY <2>3, <3>2, <3>4
  <2>6. QED
    BY <1>1, <1>3, <2>4, <2>5 DEF Slots
<1>4. QED
  BY <1>2, <1>3

\* So what is pulled for an account that is spared is its own.
LEMMA PullIsOwn ==
  ASSUME TypeOK, PullInv, pull_whatsapp_database, missed \subseteq missed',
         NEW a \in Slots, OwnOf(a)', NEW k \in Kinds
  PROVE  \/ pulled'[a][k] = pulled[a][k]
         \/ a = run.slot /\ pulled'[a][k] = [of |-> a, key |-> remote[a].key] /\ a \in Present
         \/ a = run.slot /\ pulled'[a][k] = [of |-> a, key |-> Partial] /\ "pull" \in missed'
<1>1. CASE pulled'[a][k] = pulled[a][k]
  BY <1>1
<1>2. CASE pulled'[a][k] # pulled[a][k]
  <2>1. a = run.slot /\ At("pull") /\ run'.slot = run.slot
    BY <1>2, PullEffects DEF pull_whatsapp_database
  <2>2. PICK b \in Found(a) :
           /\ Unlisted(b, Found(a)) \subseteq missed'
           /\ \/ pulled'[a][k] = [of |-> b, key |-> remote[b].key]
              \/ pulled'[a][k] = [of |-> b, key |-> Partial] /\ "pull" \in missed'
    BY <1>2, PullEffects
  <2>3. b = a
    BY <2>1, <2>2, FoundIsOwn
  <2>4. b \in Present
    BY FoundPresent
  <2>5. QED
    BY <2>1, <2>2, <2>3, <2>4
<1>3. QED
  BY <1>1, <1>2

LEMMA MadeStep ==
  ASSUME TypeOK, MadeInv, [Next]_vars
  PROVE  MadeInv'
<1>1. /\ run \in [pc : PCs, slot : Slots] /\ made \in 0..MaxKey
      /\ phone_key \in [Slots -> 0..MaxKey]
      /\ remote \in [Slots -> Saved \cup {None}]
      /\ pulled \in [Slots -> [Kinds -> Backup \cup {None}]]
      /\ Shown \in Slots /\ missed \subseteq missed'
  BY ShownInSlots, MissedGrows DEF TypeOK
<1>2. MaxKey \in Nat /\ Off = 0 /\ Partial = MaxKey + 1
  BY Constants
<1>3. CASE Passing
  <2>1. UNCHANGED <<phone_key, made, remote, pulled>>
    BY <1>3, PassingStays
  <2>2. run'.pc = "extract" => run' = run
    BY <1>3, PassingStays DEF Passed
  <2>3. QED
    BY <1>1, <2>1, <2>2 DEF MadeInv, At
<1>4. CASE \/ _get_encryption_status \/ _validate_encryption_key_file \/ _disable_encryption
           \/ _press_backup_now \/ wait_for_cancel_download \/ ConfirmKey
  <2>1. UNCHANGED <<made, remote, pulled>> /\ run'.pc # "extract"
    BY <1>1, <1>4 DEF _get_encryption_status, _validate_encryption_key_file, _disable_encryption,
       _press_backup_now, wait_for_cancel_download, ConfirmKey, Goes, handset, host
  <2>2. \E n \in {Off, made} : phone_key' = [phone_key EXCEPT ![Shown] = n] \/ UNCHANGED phone_key
    BY <1>4 DEF _get_encryption_status, _validate_encryption_key_file, _disable_encryption,
       _press_backup_now, wait_for_cancel_download, ConfirmKey, handset
  <2>3. \A a \in Slots : phone_key'[a] <= made
    BY <1>1, <1>2, <2>2 DEF MadeInv
  <2>4. QED
    BY <1>1, <2>1, <2>3 DEF MadeInv, At
<1>5. ASSUME made' = made + 1, made' <= MaxKey, UNCHANGED <<remote, pulled>>,
             \A a \in Slots : phone_key'[a] \in {phone_key[a], made'},
             run'.pc = "extract" => "user" \in missed' \/ enable_encryption
      PROVE  MadeInv'
  <2>1. \A a \in Slots, k \in Kinds : pulled[a][k] # None => pulled[a][k].key \in 0..Partial
    BY <1>1 DEF Backup
  <2>2. \A a \in Slots : remote[a] # None => remote[a].key \in 0..MaxKey
    BY <1>1 DEF Saved
  <2>3. made' >= 1 /\ \A a \in Slots : phone_key'[a] <= made'
    BY <1>1, <1>2, <1>5 DEF MadeInv
  <2>4. \A a \in Slots : remote'[a] # None => remote'[a].key <= made'
    BY <1>1, <1>2, <1>5, <2>2 DEF MadeInv
  <2>5. \A a \in Slots, k \in Kinds : pulled'[a][k] # None =>
            pulled'[a][k].key <= made' \/ (pulled'[a][k].key = Partial /\ "pull" \in missed')
    BY <1>1, <1>2, <1>5, <2>1 DEF MadeInv
  <2>6. \A a \in Slots, k \in Kinds : pulled'[a][k] # None => pulled'[a][k].key # made'
    BY <1>1, <1>2, <1>5, <2>1 DEF MadeInv
  <2>7. QED
    BY <2>3, <2>4, <2>5, <2>6 DEF MadeInv
<1>6. CASE enable_encryption
  <2>1. made' = made + 1 /\ made' <= MaxKey /\ UNCHANGED <<phone_key, remote, pulled>>
    BY <1>1, <1>2, <1>6 DEF enable_encryption, host
  <2>2. QED
    BY <1>5, <1>6, <2>1
<1>7. CASE PhoneUsed
  <2>1. "user" \in missed' /\ UNCHANGED <<remote, pulled>>
    BY <1>7, StrangerNoted
  <2>2. CASE UNCHANGED <<phone_key, made>>
    BY <1>1, <2>1, <2>2 DEF MadeInv
  <2>3. CASE made < MaxKey /\ made' = made + 1 /\ \E a \in Accounts : phone_key' = [phone_key EXCEPT ![a] = made']
    <3>1. \A a \in Slots : phone_key'[a] \in {phone_key[a], made'}
      BY <1>1, <2>3 DEF Accounts
    <3>2. made' <= MaxKey
      BY <1>1, <1>2, <2>3
    <3>3. QED
      BY <1>5, <2>1, <2>3, <3>1, <3>2
  <2>4. QED
    BY <1>7, <2>2, <2>3 DEF PhoneUsed
<1>8. CASE Backups
  <2>1. UNCHANGED <<phone_key, made, pulled, run>>
    BY <1>8, BackupsKeep
  <2>2. \A a \in Slots : remote'[a] # None =>
            remote'[a].key = phone_key[a] \/ (remote[a] # None /\ remote'[a].key = remote[a].key)
    BY <1>8, BackupsKeep
  <2>3. \A a \in Slots : remote'[a] # None => remote'[a].key <= made
    BY <2>2 DEF MadeInv
  <2>4. QED
    BY <1>1, <2>1, <2>3 DEF MadeInv, At
<1>9. CASE extract_whatsapp_keys
  BY <1>1, <1>9 DEF extract_whatsapp_keys, Goes, handset, MadeInv, At
<1>10. CASE pull_whatsapp_database
  <2>1. UNCHANGED <<phone_key, made, remote>> /\ run'.pc # "extract"
    BY <1>10, PullEffects
  <2>2. ASSUME NEW a \in Slots, NEW k \in Kinds, pulled'[a][k] # None
        PROVE  pulled'[a][k].key <= made \/ (pulled'[a][k].key = Partial /\ "pull" \in missed')
    <3>1. CASE pulled'[a][k] = pulled[a][k]
      BY <1>1, <2>2, <3>1 DEF MadeInv
    <3>2. CASE \E b \in Found(a) : pulled'[a][k] = [of |-> b, key |-> remote[b].key]
      <4>1. \A b \in Found(a) : b \in Slots /\ remote[b] # None
        BY FoundPresent DEF Present
      <4>2. QED
        BY <3>2, <4>1 DEF MadeInv
    <3>3. CASE \E b \in Found(a) : pulled'[a][k] = [of |-> b, key |-> Partial] /\ "pull" \in missed'
      BY <3>3
    <3>4. QED
      BY <1>10, <3>1, <3>2, <3>3, PullEffects
  <2>3. QED
    BY <2>1, <2>2 DEF MadeInv, At
<1>11. CASE decrypt_whatsapp_db
  <2>1. \A a \in Slots, k \in Kinds : pulled'[a][k] \in {pulled[a][k], None}
    BY <1>11, ScriptEffects DEF Ran
  <2>2. UNCHANGED <<phone_key, made, remote>> /\ run'.pc # "extract"
    BY <1>11, ScriptEffects
  <2>3. QED
    BY <1>1, <2>1, <2>2 DEF MadeInv, At
<1>12. CASE cleanup_pull_account_dir
  <2>1. \A a \in Slots, k \in Kinds : pulled'[a][k] \in {pulled[a][k], None}
    BY <1>1, <1>12 DEF cleanup_pull_account_dir
  <2>2. UNCHANGED <<phone_key, made, remote>> /\ run'.pc # "extract"
    BY <1>1, <1>12 DEF cleanup_pull_account_dir, Goes, handset
  <2>3. QED
    BY <1>1, <2>1, <2>2 DEF MadeInv, At
<1>13. QED
  BY <1>3, <1>4, <1>6, <1>7, <1>8, <1>9, <1>10, <1>11, <1>12, OtherSteps

LEMMA KeyStep ==
  ASSUME TypeOK, PlaceInv, MadeInv, KeyInv, KeyFile, [Next]_vars
  PROVE  KeyInv'
<1>1. /\ run \in [pc : PCs, slot : Slots] /\ made \in 0..MaxKey
      /\ phone_key \in [Slots -> 0..MaxKey] /\ keys \in [Slots -> 0..Partial]
      /\ missed \subseteq missed'
  BY MissedGrows DEF TypeOK
<1>2. MaxKey \in Nat /\ Off = 0 /\ Partial = MaxKey + 1
  BY Constants
<1>0. ASSUME run'.slot = run.slot, Spared(run.slot, {"account", "user"})'
      PROVE  /\ Spared(run.slot, {"account", "user"})
             /\ ~At("idle") => Shown = run.slot
             /\ keys[run.slot] \in 1..MaxKey /\ phone_key[run.slot] # Off => keys[run.slot] = phone_key[run.slot]
  <2>1. Spared(run.slot, {"account", "user"})
    BY <1>0, <1>1 DEF Spared
  <2>2. ~At("idle") => Shown = run.slot
    BY <1>1, <2>1, ShownIsOwn
  <2>3. QED
    BY <1>1, <2>1, <2>2 DEF KeyFile
<1>3. CASE Passing
  <2>1. UNCHANGED <<phone_key, made, keys>>
    BY <1>3, PassingStays
  <2>2. CASE run' = run
    BY <1>0, <2>1, <2>2 DEF KeyInv, At
  <2>3. CASE run'.pc \in Passed
    BY <2>3 DEF KeyInv, At, Passed
  <2>4. QED
    BY <1>3, <2>2, <2>3, PassingStays
<1>4. CASE _get_encryption_status
  <2>1. UNCHANGED <<phone_key, keys>> /\ ~At("idle")
    BY <1>4 DEF _get_encryption_status, handset, host, At
  <2>2. run' = [run EXCEPT !.pc = IF phone_key[Shown] = Off THEN "enable" ELSE "validate"]
    BY <1>4 DEF _get_encryption_status, Goes
  <2>3. QED
    BY <1>0, <1>1, <2>1, <2>2 DEF KeyInv, At
<1>5. CASE _validate_encryption_key_file
  <2>1. UNCHANGED <<phone_key, keys>> /\ At("validate")
    BY <1>5 DEF _validate_encryption_key_file, handset, host
  <2>2. run' = [run EXCEPT !.pc = IF keys[run.slot] \in {Off, Partial} THEN "disable" ELSE "press"]
    BY <1>5 DEF _validate_encryption_key_file, Goes
  <2>3. keys[run.slot] \notin {Off, Partial} => keys[run.slot] \in 1..MaxKey
    BY <1>1, <1>2
  <2>4. QED
    BY <1>0, <1>1, <2>1, <2>2, <2>3 DEF KeyInv, At
<1>6. CASE _disable_encryption
  <2>1. ~At("idle") /\ phone_key' = [phone_key EXCEPT ![Shown] = Off]
    BY <1>6 DEF _disable_encryption, At
  <2>2. run'.slot = run.slot /\ run'.pc \in {"enable", "leave"}
    BY <1>1, <1>6 DEF _disable_encryption, Goes
  <2>3. Spared(run.slot, {"account", "user"})' => phone_key'[run'.slot] = Off
    BY <1>0, <1>1, <2>1, <2>2
  <2>4. QED
    BY <2>2, <2>3 DEF KeyInv, At, Spared
<1>7. CASE enable_encryption
  <2>1. UNCHANGED <<phone_key, keys>> /\ run'.slot = run.slot /\ run'.pc = "extract" /\ At("enable")
    BY <1>1, <1>7 DEF enable_encryption, Goes, host
  <2>2. QED
    BY <1>0, <2>1 DEF KeyInv, At
<1>8. CASE extract_whatsapp_keys
  <2>1. UNCHANGED <<phone_key, made>> /\ run'.slot = run.slot /\ run'.pc = "confirm" /\ At("extract")
    BY <1>1, <1>8 DEF extract_whatsapp_keys, handset, Goes
  <2>2. keys'[run.slot] \in {made, Partial}
    BY <1>1, <1>8 DEF extract_whatsapp_keys
  <2>3. QED
    BY <1>0, <2>1, <2>2 DEF KeyInv, At
<1>9. CASE ConfirmKey
  <2>1. phone_key' = [phone_key EXCEPT ![Shown] = made] /\ UNCHANGED keys /\ At("confirm")
    BY <1>9 DEF ConfirmKey, host
  <2>2. run'.slot = run.slot /\ run'.pc \in {"press", "leave"}
    BY <1>1, <1>9 DEF ConfirmKey, Goes
  <2>3. made # Off
    BY <1>1, <1>2 DEF MadeInv
  <2>4. ASSUME Spared(run.slot, {"account", "user"})'
        PROVE  phone_key'[run.slot] = made /\ keys[run.slot] \in {made, Partial}
    <3>1. Shown = run.slot /\ keys[run.slot] \in {made, Partial}
      BY <1>0, <2>1, <2>2, <2>4 DEF KeyInv, At
    <3>2. QED
      BY <1>1, <2>1, <3>1
  <2>5. QED
    BY <2>1, <2>2, <2>3, <2>4 DEF KeyInv, At, Spared
<1>10. CASE _press_backup_now
  <2>1. UNCHANGED <<phone_key, keys>> /\ run'.slot = run.slot /\ run'.pc \in {"backup", "leave"} /\ At("press")
    BY <1>1, <1>10 DEF _press_backup_now, host, Goes
  <2>2. QED
    BY <1>0, <2>1 DEF KeyInv, At
<1>11. CASE wait_for_cancel_download
  <2>1. /\ UNCHANGED <<phone_key, keys>> /\ run'.slot = run.slot /\ run'.pc \in {"progress", "pull"}
        /\ run.pc \in {"backup", "progress"}
    BY <1>1, <1>11 DEF wait_for_cancel_download, handset, host, Goes, At
  <2>2. QED
    BY <1>0, <2>1 DEF KeyInv, At
<1>12. CASE Backups
  <2>1. UNCHANGED <<phone_key, made, keys, run>>
    BY <1>12, BackupsKeep
  <2>2. QED
    BY <1>0, <2>1 DEF KeyInv, At
<1>13. CASE PhoneUsed
  <2>1. run' = run /\ \A a \in Slots : ~Spared(a, {"account", "user"})'
    BY <1>13, StrangerNoted
  <2>2. QED
    BY <1>1, <2>1 DEF KeyInv, Spared
<1>14. CASE pull_whatsapp_database \/ decrypt_whatsapp_db \/ cleanup_pull_account_dir
  <2>1. run'.pc \in {"decrypt", "decrypt_wa", "cleanup", "leave", "decrypt_last"}
    BY <1>1, <1>14, PullEffects, ScriptEffects DEF cleanup_pull_account_dir, Goes
  <2>2. QED
    BY <2>1 DEF KeyInv, At
<1>15. QED
  BY <1>3, <1>4, <1>5, <1>6, <1>7, <1>8, <1>9, <1>10, <1>11, <1>12, <1>13, <1>14, OtherSteps

LEMMA PullStep ==
  ASSUME TypeOK, PlaceInv, PullInv, [Next]_vars
  PROVE  PullInv'
<1>1. run \in [pc : PCs, slot : Slots] /\ missed \subseteq missed'
  BY MissedGrows DEF TypeOK
<1>0. ASSUME run'.slot = run.slot, run.slot # "_business",
             Spared(run.slot, {"account", "backup", "user"})', ~At("idle")
      PROVE  /\ Spared(run.slot, {"account", "backup", "user"})
             /\ "backup" \notin missed' /\ Shown = run.slot
             /\ run.pc \in {"backup", "progress"} => run.slot \in saving \/ Newest(run.slot)
             /\ At("pull") => Newest(run.slot)
  <2>1. Spared(run.slot, {"account", "backup", "user"})
    BY <1>0, <1>1 DEF Spared
  <2>2. "backup" \in Concern(run.slot)
    BY <1>0, <1>1, LapsesKnown DEF Slots
  <2>3. "backup" \notin missed'
    BY <1>0, <2>2 DEF Spared
  <2>4. Shown = run.slot
    <3>1. Spared(run.slot, {"account", "user"})
      BY <2>1 DEF Spared
    <3>2. QED
      BY <1>0, <1>1, <3>1, ShownIsOwn
  <2>5. QED
    BY <1>0, <2>1, <2>3, <2>4 DEF PullInv
<1>2. CASE Passing
  <2>1. UNCHANGED <<remote, saving>>
    BY <1>2, PassingStays
  <2>2. CASE run' = run /\ UNCHANGED missed
    BY <2>1, <2>2 DEF PullInv, At, Newest, Spared
  <2>3. CASE run'.pc \in Passed
    BY <2>3 DEF PullInv, At, Passed
  <2>4. QED
    BY <1>2, <2>2, <2>3, PassingStays
<1>3. CASE _press_backup_now
  <2>1. run'.slot = run.slot /\ run'.pc \in {"backup", "leave"} /\ UNCHANGED active
    BY <1>1, <1>3 DEF _press_backup_now, Goes
  <2>2. ~At("idle") /\ (run'.pc = "backup" => Shown \in saving')
    BY <1>1, <1>3 DEF _press_backup_now, Goes, At
  <2>3. QED
    BY <1>0, <2>1, <2>2 DEF PullInv, At
<1>4. CASE wait_for_cancel_download
  <2>1. UNCHANGED <<remote, saving>> /\ run'.slot = run.slot /\ run.pc \in {"backup", "progress"}
    BY <1>1, <1>4 DEF wait_for_cancel_download, handset, Goes, At
  <2>2. \/ run'.pc = "progress"
        \/ run'.pc = "pull" /\ Shown \notin saving
        \/ run'.pc = "pull" /\ "backup" \in missed'
    BY <1>1, <1>4 DEF wait_for_cancel_download, Goes, At, Noted
  <2>3. QED
    BY <1>0, <2>1, <2>2 DEF PullInv, At, Newest
<1>5. CASE Backups
  <2>1. run' = run
    BY <1>5, BackupsKeep
  <2>2. SUFFICES ASSUME run.slot # "_business", Spared(run.slot, {"account", "backup", "user"})',
                        run.pc \in {"backup", "progress", "pull"}
                 PROVE  run.pc \in {"backup", "progress"} /\ Newest(run.slot)'
    BY <2>1 DEF PullInv, At, Newest
  <2>3. ~At("idle") /\ "backup" \notin missed' /\ Shown = run.slot
    BY <1>0, <2>1, <2>2 DEF At
  <2>4. PICK a \in Slots, ok \in BOOLEAN : BackupEnds(a, ok)
    BY <1>5, <2>3 DEF Backups, BackupStops, NightlyBackup, Noted
  <2>5. ok /\ a = Shown /\ run.pc \in {"backup", "progress"}
    BY <2>3, <2>4 DEF BackupEnds, Noted
  <2>6. SaveBackup(run.slot)
    BY <2>3, <2>4, <2>5 DEF BackupEnds
  <2>7. remote'[run.slot] = [key |-> phone_key[run.slot], newer |-> {}] /\ remote'[run.slot] \in Saved
    BY <1>1, <2>6, SaveTypes DEF TypeOK, Saved
  <2>8. remote'[run.slot].newer = {}
    BY <2>7
  <2>9. remote'[run.slot] # None
    BY <2>7, Constants, Zenon
  <2>10. Newest(run.slot)'
    BY <2>1, <2>8, <2>9 DEF Newest
  <2>11. QED
    BY <2>5, <2>10
<1>6. CASE PhoneUsed
  <2>1. run' = run /\ \A a \in Slots : ~Spared(a, {"account", "backup", "user"})'
    BY <1>6, StrangerNoted
  <2>2. QED
    BY <1>1, <2>1 DEF PullInv, Spared
<1>7. CASE \/ _get_encryption_status \/ _validate_encryption_key_file \/ _disable_encryption
           \/ enable_encryption \/ extract_whatsapp_keys \/ ConfirmKey
           \/ pull_whatsapp_database \/ decrypt_whatsapp_db \/ cleanup_pull_account_dir
  <2>1. run'.pc \notin {"backup", "progress", "pull"}
    BY <1>1, <1>7, PullEffects, ScriptEffects DEF _get_encryption_status,
       _validate_encryption_key_file, _disable_encryption, enable_encryption,
       extract_whatsapp_keys, ConfirmKey, cleanup_pull_account_dir, Goes
  <2>2. QED
    BY <2>1 DEF PullInv, At
<1>8. QED
  BY <1>2, <1>3, <1>4, <1>5, <1>6, <1>7, OtherSteps

\* The steps that leave what is on the host and the keys of the phone alone.
LEMMA KeysStay ==
  ASSUME TypeOK, \/ _get_encryption_status \/ _validate_encryption_key_file
                 \/ _press_backup_now \/ wait_for_cancel_download \/ enable_encryption
  PROVE  UNCHANGED <<phone_key, remote, keys, pulled, db>> /\ run'.pc \notin {"decrypt_wa", "cleanup"}
<1>1. run \in [pc : PCs, slot : Slots]
  BY DEF TypeOK
<1>2. QED
  BY <1>1 DEF _get_encryption_status, _validate_encryption_key_file, _press_backup_now,
     wait_for_cancel_download, enable_encryption, handset, host, Goes

LEMMA OwnStep ==
  ASSUME TypeOK, PullInv, OwnInv, [Next]_vars
  PROVE  OwnInv'
<1>1. /\ run \in [pc : PCs, slot : Slots] /\ missed \subseteq missed'
      /\ pulled \in [Slots -> [Kinds -> Backup \cup {None}]]
  BY MissedGrows DEF TypeOK
<1>0. \A a \in Slots : OwnOf(a)' => OwnOf(a)
  BY <1>1 DEF OwnOf, Spared
<1>2. CASE \/ Passing \/ _get_encryption_status \/ _validate_encryption_key_file
           \/ _press_backup_now \/ wait_for_cancel_download \/ enable_encryption
           \/ _disable_encryption \/ extract_whatsapp_keys \/ ConfirmKey \/ Backups \/ PhoneUsed
  <2>1. UNCHANGED <<pulled, db>>
    BY <1>2, PassingStays, KeysStay, BackupsKeep, StrangerNoted DEF _disable_encryption,
       extract_whatsapp_keys, ConfirmKey, host
  <2>2. QED
    BY <1>0, <2>1 DEF OwnInv
<1>3. CASE pull_whatsapp_database
  <2>1. UNCHANGED db
    BY <1>3, PullEffects
  <2>2. ASSUME NEW a \in Slots, NEW k \in Kinds, OwnOf(a)', pulled'[a][k] # None
        PROVE  pulled'[a][k].of = a
    <3>1. CASE pulled'[a][k] = pulled[a][k]
      BY <1>0, <2>2, <3>1 DEF OwnInv
    <3>2. CASE pulled'[a][k] = [of |-> a, key |-> remote[a].key] \/ pulled'[a][k] = [of |-> a, key |-> Partial]
      BY <3>2
    <3>3. QED
      BY <1>1, <1>3, <2>2, <3>1, <3>2, PullIsOwn
  <2>3. QED
    BY <1>0, <2>1, <2>2 DEF OwnInv
<1>4. CASE decrypt_whatsapp_db
  <2>1. ASSUME NEW a \in Slots, NEW k \in Kinds, OwnOf(a)
        PROVE  /\ pulled'[a][k] # None => pulled'[a][k].of = a
               /\ db'[a][k] # None => db'[a][k].of = a
    <3>1. Ran(a, k)
      BY <1>4, ScriptEffects
    <3>2. QED
      BY <2>1, <3>1 DEF Ran, Decrypted, OwnInv
  <2>2. QED
    BY <1>0, <2>1 DEF OwnInv
<1>5. CASE cleanup_pull_account_dir
  <2>1. UNCHANGED db /\ \A a \in Slots, k \in Kinds : pulled'[a][k] \in {pulled[a][k], None}
    BY <1>1, <1>5 DEF cleanup_pull_account_dir
  <2>2. QED
    BY <1>0, <2>1 DEF OwnInv
<1>6. QED
  BY <1>2, <1>3, <1>4, <1>5, OtherSteps

LEMMA KeyFileStep ==
  ASSUME TypeOK, PlaceInv, MadeInv, KeyInv, KeyFile, [Next]_vars
  PROVE  KeyFile'
<1>1. /\ run \in [pc : PCs, slot : Slots] /\ made \in 0..MaxKey
      /\ phone_key \in [Slots -> 0..MaxKey] /\ keys \in [Slots -> 0..Partial]
      /\ Shown \in Slots /\ missed \subseteq missed'
  BY ShownInSlots, MissedGrows DEF TypeOK
<1>2. MaxKey \in Nat /\ Off = 0 /\ Partial = MaxKey + 1
  BY Constants
<1>0. ASSUME NEW a \in Slots, Spared(a, {"account", "user"})'
      PROVE  /\ Spared(a, {"account", "user"})
             /\ ~At("idle") => (Shown = a <=> run.slot = a)
             /\ keys[a] \in 1..MaxKey /\ phone_key[a] # Off => keys[a] = phone_key[a]
             /\ phone_key[a] > 1 => keys[a] # Off
  <2>1. Spared(a, {"account", "user"})
    BY <1>0, <1>1, SparedBefore
  <2>2. QED
    BY <2>1, ShownIsOwn DEF KeyFile
<1>3. CASE \/ Passing \/ _get_encryption_status \/ _validate_encryption_key_file
           \/ _press_backup_now \/ wait_for_cancel_download \/ enable_encryption \/ Backups
           \/ pull_whatsapp_database \/ decrypt_whatsapp_db \/ cleanup_pull_account_dir
  <2>1. UNCHANGED <<phone_key, keys>>
    BY <1>3, PassingStays, KeysStay, BackupsKeep, PullEffects, ScriptEffects
       DEF cleanup_pull_account_dir, handset
  <2>2. QED
    BY <1>0, <2>1 DEF KeyFile
<1>4. CASE PhoneUsed
  BY <1>4, StrangerNoted DEF KeyFile
<1>5. CASE _disable_encryption
  <2>1. phone_key' = [phone_key EXCEPT ![Shown] = Off] /\ UNCHANGED keys
    BY <1>5 DEF _disable_encryption, host
  <2>2. \A a \in Slots : phone_key'[a] \in {phone_key[a], Off}
    BY <1>1, <2>1
  <2>3. QED
    BY <1>0, <1>1, <1>2, <2>1, <2>2 DEF KeyFile
<1>6. CASE extract_whatsapp_keys
  <2>1. UNCHANGED phone_key /\ At("extract")
    BY <1>6 DEF extract_whatsapp_keys, handset
  <2>2. \A a \in Slots : a # run.slot => keys'[a] = keys[a]
    BY <1>1, <1>6 DEF extract_whatsapp_keys
  <2>3. Spared(run.slot, {"account", "user"}) => phone_key[run.slot] = Off
    BY <2>1 DEF KeyInv, At
  <2>4. QED
    BY <1>0, <1>1, <1>2, <2>1, <2>2, <2>3 DEF KeyFile
<1>7. CASE ConfirmKey
  <2>1. phone_key' = [phone_key EXCEPT ![Shown] = made] /\ UNCHANGED keys /\ At("confirm")
    BY <1>7 DEF ConfirmKey, host
  <2>2. ASSUME NEW a \in Slots, Spared(a, {"account", "user"})'
        PROVE  /\ keys[a] \in 1..MaxKey /\ phone_key'[a] # Off => keys[a] = phone_key'[a]
               /\ phone_key'[a] > 1 => keys[a] # Off
    <3>1. CASE a = Shown
      <4>1. run.slot = a
        BY <1>0, <2>1, <2>2, <3>1 DEF At
      <4>2. keys[a] \in {made, Partial} /\ made >= 1
        BY <1>0, <2>1, <2>2, <4>1 DEF KeyInv, MadeInv
      <4>3. phone_key'[a] = made
        BY <1>1, <2>1, <3>1
      <4>4. QED
        BY <1>1, <1>2, <4>2, <4>3
    <3>2. CASE a # Shown
      <4>1. phone_key'[a] = phone_key[a]
        BY <1>1, <2>1, <3>2
      <4>2. QED
        BY <1>0, <2>2, <4>1
    <3>3. QED
      BY <3>1, <3>2
  <2>3. QED
    BY <2>1, <2>2 DEF KeyFile
<1>8. QED
  BY <1>3, <1>4, <1>5, <1>6, <1>7, OtherSteps

\* While encryption is off, or the key file does not hold its key, an account has nothing in hand.
LEMMA NothingInHand ==
  ASSUME NEW a \in Slots, HandOf(a), phone_key[a] = Off \/ keys[a] \in {Off, Partial}
  PROVE  ~InHand(a)
BY Constants DEF HandOf

\* What a step keeps of an account.
HandKept(a) == HandOf(a)' /\ (InHand(a) => InHand(a)')

LEMMA HandStep ==
  ASSUME TypeOK, PlaceInv, MadeInv, KeyInv, PullInv, HandInv, [Next]_vars
  PROVE  HandInv' /\ \A a \in Slots : Spared(a, Lapses)' /\ InHand(a) => InHand(a)'
<1>1. /\ run \in [pc : PCs, slot : Slots] /\ made \in 0..MaxKey
      /\ phone_key \in [Slots -> 0..MaxKey] /\ keys \in [Slots -> 0..Partial]
      /\ remote \in [Slots -> Saved \cup {None}]
      /\ pulled \in [Slots -> [Kinds -> Backup \cup {None}]]
      /\ db \in [Slots -> [Kinds -> Database \cup {None}]]
      /\ "msgstore" \in Kinds /\ Shown \in Slots /\ missed \subseteq missed'
  BY ShownInSlots, MissedGrows DEF TypeOK, Kinds
<1>2. MaxKey \in Nat /\ Off = 0 /\ Partial = MaxKey + 1
  BY Constants
<1>3. ASSUME NEW a \in Slots, Spared(a, Lapses)'
      PROVE  /\ Spared(a, Lapses) /\ Spared(a, {"account", "user"}) /\ HandOf(a)
             /\ "pull" \notin missed' /\ "user" \notin missed /\ OwnOf(a)'
             /\ ~At("idle") => (Shown = a <=> run.slot = a)
  <2>1. Spared(a, Lapses)
    BY <1>1, <1>3, SparedBefore
  <2>2. Spared(a, {"account", "user"})
    BY <2>1, SparedAll
  <2>3. "pull" \notin missed' /\ "user" \notin missed'
    BY <1>3, ConcernsAll, LapsesKnown DEF Spared
  <2>4. OwnOf(a)'
    BY <1>3, LapsesKnown DEF OwnOf, Spared
  <2>5. QED
    BY <1>1, <2>1, <2>2, <2>3, <2>4, ShownIsOwn DEF HandInv
<1>4. ASSUME NEW a \in Slots, HandOf(a), keys'[a] = keys[a],
             pulled'[a]["msgstore"] = pulled[a]["msgstore"], db'[a]["msgstore"] = db[a]["msgstore"],
             InHand(a) => /\ phone_key'[a] = phone_key[a] /\ remote'[a] # None
                          /\ remote'[a].key \in {remote[a].key, phone_key[a]}
      PROVE  HandKept(a)
  BY <1>4 DEF HandOf, HandKept, InHand
<1>5. ASSUME \A a \in Slots : Spared(a, Lapses)' => HandKept(a),
             (run' = run /\ UNCHANGED pulled) \/ run'.pc \notin {"decrypt_wa", "cleanup"}
      PROVE  HandInv' /\ \A a \in Slots : Spared(a, Lapses)' /\ InHand(a) => InHand(a)'
  BY <1>5 DEF HandInv, HandKept
<1>6. CASE \/ Passing \/ _get_encryption_status \/ _validate_encryption_key_file
           \/ _press_backup_now \/ wait_for_cancel_download \/ enable_encryption
  <2>1. UNCHANGED <<phone_key, remote, keys, pulled, db>>
    BY <1>6, PassingStays, KeysStay
  <2>2. run' = run \/ run'.pc \notin {"decrypt_wa", "cleanup"}
    BY <1>6, PassingStays, KeysStay DEF Passed
  <2>3. \A a \in Slots : HandOf(a) /\ InHand(a) => remote[a] # None
    BY DEF HandOf
  <2>4. QED
    BY <1>3, <1>4, <1>5, <2>1, <2>2, <2>3
<1>12. CASE Backups
  <2>1. UNCHANGED <<phone_key, keys, pulled, db, run>>
    BY <1>12, BackupsKeep
  <2>2. ASSUME NEW a \in Slots, HandOf(a), InHand(a)
        PROVE  remote'[a] # None /\ remote'[a].key \in {remote[a].key, phone_key[a]}
    <3>1. remote[a] # None
      BY <2>2 DEF HandOf
    <3>2. QED
      BY <1>12, <3>1, BackupsKeep
  <2>3. QED
    BY <1>3, <1>4, <1>5, <2>1, <2>2
<1>13. CASE PhoneUsed
  <2>1. UNCHANGED <<pulled, run>> /\ \A a \in Slots : ~Spared(a, Lapses)'
    BY <1>13, StrangerNoted
  <2>2. QED
    BY <1>5, <2>1
<1>7. CASE _disable_encryption \/ ConfirmKey
  <2>1. UNCHANGED <<remote, keys, pulled, db>> /\ run'.pc \notin {"decrypt_wa", "cleanup"}
        /\ ~At("idle") /\ run.pc \in {"disable", "confirm"}
    BY <1>1, <1>7 DEF _disable_encryption, ConfirmKey, host, Goes, At
  <2>2. \A a \in Slots : a # Shown => phone_key'[a] = phone_key[a]
    BY <1>1, <1>7 DEF _disable_encryption, ConfirmKey
  <2>3. ASSUME NEW a \in Slots, Spared(a, Lapses)', a = Shown
        PROVE  ~InHand(a)
    <3>1. run.slot = a /\ Spared(a, {"account", "user"}) /\ HandOf(a)
      BY <1>3, <2>1, <2>3
    <3>2. phone_key[a] = Off \/ keys[a] \in {Off, Partial}
      BY <2>1, <3>1 DEF KeyInv, At
    <3>3. QED
      BY <3>1, <3>2, NothingInHand
  <2>4. \A a \in Slots : HandOf(a) /\ InHand(a) => remote[a] # None
    BY DEF HandOf
  <2>5. QED
    BY <1>3, <1>4, <1>5, <2>1, <2>2, <2>3, <2>4
<1>8. CASE extract_whatsapp_keys
  <2>1. UNCHANGED <<phone_key, remote, pulled, db>> /\ run'.pc \notin {"decrypt_wa", "cleanup"}
        /\ At("extract")
    BY <1>1, <1>8 DEF extract_whatsapp_keys, handset, Goes
  <2>2. \A a \in Slots : a # run.slot => keys'[a] = keys[a]
    BY <1>1, <1>8 DEF extract_whatsapp_keys
  <2>3. keys'[run.slot] \in {made, Partial}
    BY <1>1, <1>8 DEF extract_whatsapp_keys
  <2>4. ASSUME NEW a \in Slots, Spared(a, Lapses)', a = run.slot
        PROVE  HandKept(a)
    <3>1. HandOf(a) /\ phone_key[a] = Off
      BY <1>3, <2>1, <2>4 DEF KeyInv, At
    <3>2. ~InHand(a)
      BY <3>1, NothingInHand
    <3>3. pulled[a]["msgstore"] # None => pulled[a]["msgstore"].key # keys'[a]
      <4>1. "pull" \notin missed /\ "user" \notin missed
        BY <1>1, <1>3, <2>4
      <4>2. pulled[a]["msgstore"] # None =>
                /\ pulled[a]["msgstore"].key <= made /\ pulled[a]["msgstore"].key # made
                /\ pulled[a]["msgstore"].key \in 0..Partial
        BY <1>1, <2>1, <4>1 DEF MadeInv, Backup
      <4>3. QED
        BY <1>1, <1>2, <2>3, <2>4, <4>2
    <3>4. ~InHand(a)'
      BY <2>1, <3>2, <3>3 DEF InHand
    <3>5. QED
      BY <2>1, <3>2, <3>4 DEF HandKept, HandOf, InHand
  <2>5. \A a \in Slots : HandOf(a) /\ InHand(a) => remote[a] # None
    BY DEF HandOf
  <2>6. QED
    BY <1>3, <1>4, <1>5, <2>1, <2>2, <2>4, <2>5
<1>9. CASE pull_whatsapp_database
  <2>1. UNCHANGED <<phone_key, keys, remote, db>> /\ run'.pc = "decrypt" /\ At("pull")
    BY <1>9, PullEffects DEF pull_whatsapp_database
  <2>2. ASSUME NEW a \in Slots, Spared(a, Lapses)'
        PROVE  HandKept(a)
    <3>0. HandOf(a) /\ Spared(a, {"account", "user"}) /\ "pull" \notin missed' /\ OwnOf(a)'
      BY <1>3, <2>2
    <3>1. CASE pulled'[a]["msgstore"] = pulled[a]["msgstore"]
      <4>1. HandOf(a) /\ InHand(a) => remote[a] # None
        BY DEF HandOf
      <4>2. QED
        BY <1>4, <2>1, <3>0, <3>1, <4>1
    <3>2. CASE a = run.slot /\ pulled'[a]["msgstore"] = [of |-> a, key |-> remote[a].key] /\ a \in Present
      <4>1. remote[a] # None /\ remote[a].key \in 0..MaxKey
        BY <1>1, <3>2 DEF Present, Saved
      <4>2. pulled'[a]["msgstore"].key = remote[a].key /\ pulled'[a]["msgstore"] # None
        <5>1. [of |-> a, key |-> remote[a].key] \in Backup
          BY <1>2, <4>1 DEF Backup
        <5>2. QED
          BY <3>2, <5>1, Constants
      <4>3. phone_key[a] # Off /\ keys[a] \in {phone_key[a], Partial}
        BY <2>1, <3>0, <3>2 DEF KeyInv, At
      <4>4. CASE remote[a].key # Off /\ remote[a].key = keys[a]
        <5>1. keys[a] = phone_key[a] /\ keys[a] \in 1..MaxKey
          BY <1>1, <1>2, <4>1, <4>3, <4>4
        <5>2. InHand(a)'
          BY <2>1, <4>2, <4>4 DEF InHand
        <5>3. QED
          BY <2>1, <4>1, <4>2, <4>4, <5>1, <5>2 DEF HandKept, HandOf
      <4>5. CASE ~(remote[a].key # Off /\ remote[a].key = keys[a])
        <5>1. ~InHand(a)
          BY <1>2, <3>0, <4>5 DEF HandOf
        <5>2. ~InHand(a)' /\ ~(db[a]["msgstore"] # None /\ db[a]["msgstore"].good)
          BY <2>1, <4>2, <4>5, <5>1 DEF InHand
        <5>3. QED
          BY <2>1, <5>1, <5>2 DEF HandKept, HandOf
      <4>6. QED
        BY <4>4, <4>5
    <3>3. QED
      BY <1>1, <1>9, <3>0, <3>1, <3>2, PullIsOwn
  <2>3. QED
    BY <1>5, <2>1, <2>2
<1>10. CASE decrypt_whatsapp_db
  <2>1. /\ UNCHANGED <<phone_key, remote, keys>> /\ run'.slot = run.slot
        /\ \A a \in Slots, k \in Kinds : Ran(a, k)
        /\ run'.pc = "decrypt_wa" => pulled'[run.slot]["msgstore"] = None
        /\ run'.pc = "cleanup" =>
               At("decrypt_wa") /\ pulled'[run.slot]["msgstore"] = pulled[run.slot]["msgstore"]
    BY <1>10, ScriptEffects
  <2>2. ASSUME NEW a \in Slots, Spared(a, Lapses)'
        PROVE  HandKept(a)
    <3>0. HandOf(a)
      BY <1>3, <2>2
    <3>1. CASE pulled'[a]["msgstore"] = pulled[a]["msgstore"] /\ db'[a]["msgstore"] = db[a]["msgstore"]
      BY <2>1, <3>0, <3>1 DEF HandOf, HandKept, InHand
    <3>2. CASE /\ pulled[a]["msgstore"] # None /\ keys[a] \notin {Off, Partial}
               /\ pulled'[a]["msgstore"] = None
               /\ db'[a]["msgstore"] = Decrypted(pulled[a]["msgstore"])
      <4>1. a = run.slot
        BY <1>1, <2>1, <3>2, Constants DEF Ran
      <4>2. db'[a]["msgstore"] # None /\ (db'[a]["msgstore"].good <=> pulled[a]["msgstore"].key = keys[a])
        <5>1. Decrypted(pulled[a]["msgstore"]) \in Database
          BY <1>1, <3>2 DEF Decrypted, Backup, Database
        <5>2. Decrypted(pulled[a]["msgstore"]).good <=> pulled[a]["msgstore"].key = keys[run.slot]
          BY Zenon DEF Decrypted
        <5>3. db'[a]["msgstore"].good <=> pulled[a]["msgstore"].key = keys[a]
          BY <3>2, <4>1, <5>2, Zenon
        <5>4. QED
          BY <3>2, <5>1, <5>3, Constants, Zenon
      <4>3. InHand(a) <=> pulled[a]["msgstore"].key = keys[a]
        BY <1>2, <3>0, <3>2 DEF InHand, HandOf
      <4>4. InHand(a)' <=> InHand(a)
        BY <3>2, <4>2, <4>3 DEF InHand
      <4>5. QED
        BY <2>1, <3>0, <3>2, <4>4 DEF HandOf, HandKept
    <3>3. CASE /\ pulled[a]["msgstore"] # None /\ keys[a] \notin {Off, Partial}
               /\ pulled'[a]["msgstore"] = pulled[a]["msgstore"]
               /\ IF db[a]["msgstore"] = None THEN db'[a]["msgstore"] = None
                  ELSE db'[a]["msgstore"] = [of |-> db[a]["msgstore"].of, good |-> FALSE]
      <4>1. db'[a]["msgstore"] # None => ~db'[a]["msgstore"].good
        BY <3>3
      <4>2. InHand(a) <=> pulled[a]["msgstore"].key = keys[a]
        BY <1>2, <3>0, <3>3 DEF InHand, HandOf
      <4>3. InHand(a)' <=> InHand(a)
        BY <2>1, <3>3, <4>1, <4>2 DEF InHand
      <4>4. QED
        BY <2>1, <3>0, <3>3, <4>1, <4>3 DEF HandOf, HandKept
    <3>4. QED
      BY <1>1, <2>1, <3>1, <3>2, <3>3 DEF Ran
  <2>3. run'.pc \in {"decrypt_wa", "cleanup"} => pulled'[run'.slot]["msgstore"] = None
    BY <2>1 DEF HandInv, At
  <2>4. QED
    BY <2>2, <2>3 DEF HandInv, HandKept
<1>11. CASE cleanup_pull_account_dir
  <2>1. UNCHANGED <<phone_key, remote, keys, db>> /\ run'.pc = "leave" /\ At("cleanup")
    BY <1>1, <1>11 DEF cleanup_pull_account_dir, handset, Goes, PCs
  <2>2. \A a \in Slots : pulled'[a]["msgstore"] = pulled[a]["msgstore"]
    <3>1. pulled[run.slot]["msgstore"] = None
      BY <2>1 DEF HandInv, At
    <3>2. pulled' = [pulled EXCEPT ![run.slot] = [k \in Kinds |-> None]]
      BY <1>11 DEF cleanup_pull_account_dir
    <3>3. QED
      BY <1>1, <3>1, <3>2
  <2>3. \A a \in Slots : HandOf(a) /\ InHand(a) => remote[a] # None
    BY DEF HandOf
  <2>4. QED
    BY <1>3, <1>4, <1>5, <2>1, <2>2, <2>3
<1>14. QED
  BY <1>6, <1>7, <1>8, <1>9, <1>10, <1>11, <1>12, <1>13, OtherSteps

LEMMA InitTool ==
  ASSUME Init
  PROVE  ToolInv
<1>1. run = Idle /\ made = 1 /\ phone_key \in [Slots -> {Off, 1}] /\ Off = 0
  BY DEF Init, Off
<1>2. \A a \in Slots, k \in Kinds : pulled[a][k] = None /\ db[a][k] = None
  BY DEF Init
<1>3. \A a \in Slots : keys[a] = Off /\ remote[a] = None
  BY DEF Init
<1>4. "msgstore" \in Kinds
  BY DEF Kinds
<1>5. PlaceInv /\ KeyInv /\ PullInv
  BY <1>1 DEF PlaceInv, KeyInv, PullInv, At, Idle
<1>6. MadeInv /\ OwnInv
  BY <1>1, <1>2, <1>3 DEF MadeInv, OwnInv, At, Idle
<1>7. HandInv
  BY <1>1, <1>2, <1>4 DEF HandInv, HandOf, InHand, Idle
<1>8. KeyFile
  BY <1>1, <1>3 DEF KeyFile
<1>9. QED
  BY <1>5, <1>6, <1>7, <1>8 DEF ToolInv

LEMMA ToolHolds == Spec => [](TypeOK /\ ToolInv)
<1>1. TypeOK /\ ToolInv /\ [Next]_vars => ToolInv'
  <2> SUFFICES ASSUME TypeOK, ToolInv, [Next]_vars
               PROVE  ToolInv'
    OBVIOUS
  <2>1. PlaceInv' /\ MadeInv' /\ KeyInv' /\ PullInv' /\ OwnInv' /\ HandInv' /\ KeyFile'
    BY PlaceStep, MadeStep, KeyStep, PullStep, OwnStep, HandStep, KeyFileStep DEF ToolInv
  <2>2. QED
    BY <2>1 DEF ToolInv
<1>2. QED
  BY <1>1, InitTool, TypeCorrect, PTL DEF Spec

(* Wherever the tool was stopped, a key file that passes the check holds the key of
   the phone, and no key of the tool's making takes effect without a file, with any
   number of keys and runs; unless somebody used the phone or, for the accounts of
   com.whatsapp, a turn began on the other one (extract_keys_wa.py:73,
   whatsapp_backup_setup.py:739-748, 889-893). *)
THEOREM KeyFilesTrue == Spec => []KeyFileTrue
<1>1. ToolInv => KeyFileTrue
  BY DEF ToolInv, KeyFile, KeyFileTrue
<1>2. QED
  BY <1>1, ToolHolds, PTL

(* The database of an account comes from its own backup: navigation, the newest file
   and the filters fit together, on the conditions that OwnAccount names, and for
   the business app without any (extract_keys_wa.py:96-141). *)
THEOREM OwnAccounts == Spec => []OwnAccount
<1>1. ToolInv => OwnAccount
  BY DEF ToolInv, OwnInv, OwnOf, OwnAccount
<1>2. QED
  BY <1>1, ToolHolds, PTL

(* Messages in hand stay in hand, through failures, crashes and the next runs, for each
   account that was spared the lapses that concern it
   (extract_keys_wa.py:219-236, decrypt-wa.py:163). *)
THEOREM MessagesStay == Spec => MessagesKept
<1>1. TypeOK /\ ToolInv /\ [Next]_vars =>
          [\A a \in Slots : Spared(a, Lapses)' /\ InHand(a) => InHand(a)']_vars
  BY HandStep DEF ToolInv
<1>2. QED
  BY <1>1, ToolHolds, PTL DEF Spec, MessagesKept

----------------------------------------------------------------------------
(* The merge, as HostTools sees it.                                        *)
Merges == INSTANCE MergeDatabasesProofs

(* What is in the existing database stays, and the new database is removed only once
   its rows are there in all their columns, or are jids whose names were taken, for databases
   of any size (merge_dbs_sqlite.py:95-196). *)
THEOREM MergesLoseNothing ==
  ASSUME MaxTries \in Nat, ~Merges!Database(None)
  PROVE  Merges!Spec => MergeLosesNothing
<1>1. Merges!RowsKept => Merge!RowsKept
  BY DEF Merges!RowsKept, Merge!RowsKept, Merges!Tables, Merge!Tables, Merges!vars, Merge!vars
<1>2. Merges!RemovedWhenMerged => Merge!RemovedWhenMerged
  BY DEF Merges!RemovedWhenMerged, Merge!RemovedWhenMerged, Merges!Present, Merge!Present,
         Merges!NameTaken, Merge!NameTaken, Merges!Remapped, Merge!Remapped, Merges!Mapped, Merge!Mapped,
         Merges!Contents, Merge!Contents, Merges!Tables, Merge!Tables, Merges!vars, Merge!vars
<1>3. Merges!MergeLosesNothing => MergeLosesNothing
  BY <1>1, <1>2 DEF Merges!MergeLosesNothing, Merge!MergeLosesNothing, MergeLosesNothing
<1>4. QED
  BY <1>3, Merges!NothingLost, PTL

(* Jids are added once, and after a first merge a new message refers to its new jid
   (merge_dbs_sqlite.py:95-196, 208-237). *)
THEOREM MergesAddRight ==
  ASSUME MaxTries \in Nat, ~Merges!Database(None)
  PROVE  Merges!Spec => []MergeAddsRight
<1>1. Merges!JidsOnce => Merge!JidsOnce
  BY DEF Merges!JidsOnce, Merge!JidsOnce
<1>2. Merges!NewReferencesFollow => Merge!NewReferencesFollow
  BY DEF Merges!NewReferencesFollow, Merge!NewReferencesFollow, Merges!Contents, Merge!Contents
<1>3. Merges!MergeAddsRight => MergeAddsRight
  BY <1>1, <1>2 DEF Merges!MergeAddsRight, Merge!MergeAddsRight, MergeAddsRight
<1>4. QED
  BY <1>3, Merges!AddsRight, PTL

----------------------------------------------------------------------------
(* The decryption: what its operators do with units.                       *)

LEMMA ToolConstants ==
  /\ Tag \in Nat \ {0} /\ Foot \in Nat \ {0} /\ IvLength \in Nat \ {0} /\ LastOffset \in Nat \ {0}
  /\ Default \in Nat /\ MaxSize \in Nat
  /\ DEFAULT_IV_OFFSET \in 1..(LastOffset - 1) /\ DEFAULT_DATA_OFFSET \in 1..(LastOffset - 1)
  /\ Script!TrailerLength = 2 * Tag + Foot
BY ToolsAssumption DEF ToolsAssumption, Script!TrailerLength

LEMMA FunctionIsSeq ==
  ASSUME NEW S, NEW n \in Nat, NEW f \in [1..n -> S]
  PROVE  f \in Seq(S) /\ Len(f) = n
<1>1. f \in Seq(S)
  BY SeqDef
<1>2. DOMAIN f = 1..n /\ DOMAIN f = 1..Len(f) /\ Len(f) \in Nat
  BY <1>1, LenProperties
<1>3. QED
  BY <1>1, <1>2

\* The pieces that are cut off a sequence.
LEMMA Pieces ==
  ASSUME NEW S, NEW s \in Seq(S), NEW n \in Nat
  PROVE  /\ Len(s) \in Nat
         /\ Script!First(s, n) \in Seq(S)
         /\ Len(Script!First(s, n)) = IF n < Len(s) THEN n ELSE Len(s)
         /\ \A i \in 1..Len(Script!First(s, n)) : Script!First(s, n)[i] = s[i]
         /\ Script!Rest(s, n) \in Seq(S)
         /\ Len(Script!Rest(s, n)) = IF n < Len(s) THEN Len(s) - n ELSE 0
         /\ \A i \in 1..Len(Script!Rest(s, n)) : Script!Rest(s, n)[i] = s[n + i]
         /\ Script!Without(s, n) \in Seq(S)
         /\ Len(Script!Without(s, n)) = IF n < Len(s) THEN Len(s) - n ELSE 0
         /\ \A i \in 1..Len(Script!Without(s, n)) : Script!Without(s, n)[i] = s[i]
         /\ Script!Ending(s, n) \in Seq(S)
         /\ Len(Script!Ending(s, n)) = IF n < Len(s) THEN n ELSE Len(s)
         /\ \A i \in 1..Len(Script!Ending(s, n)) :
                Script!Ending(s, n)[i] = s[IF n < Len(s) THEN Len(s) - n + i ELSE i]
<1>1. Len(s) \in Nat /\ \A i \in 1..Len(s) : s[i] \in S
  BY LenProperties, ElementOfSeq
<1>2. ASSUME NEW a \in Nat \ {0}, NEW b \in Nat, b <= Len(s)
      PROVE  /\ SubSeq(s, a, b) \in Seq(S)
             /\ Len(SubSeq(s, a, b)) = IF a <= b THEN b - a + 1 ELSE 0
             /\ \A i \in 1..Len(SubSeq(s, a, b)) : SubSeq(s, a, b)[i] = s[a + i - 1]
  <2>1. \A i \in a..b : s[i] \in S
    BY <1>1, <1>2
  <2>2. /\ SubSeq(s, a, b) \in Seq(S)
        /\ Len(SubSeq(s, a, b)) = IF a <= b THEN b - a + 1 ELSE 0
        /\ \A i \in 1..(b - a + 1) : SubSeq(s, a, b)[i] = s[a + i - 1]
    BY <2>1, SubSeqProperties
  <2>3. QED
    BY <2>2
<1> DEFINE first == IF n < Len(s) THEN n ELSE Len(s)
           short == IF n < Len(s) THEN Len(s) - n ELSE 0
           from == IF n < Len(s) THEN Len(s) - n + 1 ELSE 1
<1>3. /\ first \in Nat /\ first <= Len(s) /\ short \in Nat /\ short <= Len(s)
      /\ from \in Nat \ {0} /\ n + 1 \in Nat \ {0}
  BY <1>1
<1>4. /\ Script!First(s, n) \in Seq(S)
      /\ Len(Script!First(s, n)) = first
      /\ \A i \in 1..Len(Script!First(s, n)) : Script!First(s, n)[i] = s[i]
  BY <1>1, <1>2, <1>3 DEF Script!First
<1>5. /\ Script!Without(s, n) \in Seq(S)
      /\ Len(Script!Without(s, n)) = short
      /\ \A i \in 1..Len(Script!Without(s, n)) : Script!Without(s, n)[i] = s[i]
  BY <1>1, <1>2, <1>3 DEF Script!Without
<1>6. /\ Script!Rest(s, n) \in Seq(S)
      /\ Len(Script!Rest(s, n)) = short
      /\ \A i \in 1..Len(Script!Rest(s, n)) : Script!Rest(s, n)[i] = s[n + i]
  <2>1. /\ SubSeq(s, n + 1, Len(s)) \in Seq(S)
        /\ Len(SubSeq(s, n + 1, Len(s))) = IF n + 1 <= Len(s) THEN Len(s) - (n + 1) + 1 ELSE 0
        /\ \A i \in 1..Len(SubSeq(s, n + 1, Len(s))) :
               SubSeq(s, n + 1, Len(s))[i] = s[(n + 1) + i - 1]
    BY <1>1, <1>2, <1>3
  <2>2. QED
    BY <1>1, <2>1 DEF Script!Rest
<1>7. /\ Script!Ending(s, n) \in Seq(S)
      /\ Len(Script!Ending(s, n)) = IF n < Len(s) THEN n ELSE Len(s)
      /\ \A i \in 1..Len(Script!Ending(s, n)) :
             Script!Ending(s, n)[i] = s[IF n < Len(s) THEN Len(s) - n + i ELSE i]
  <2>1. Script!Ending(s, n) = SubSeq(s, from, Len(s))
    BY DEF Script!Ending
  <2>2. /\ SubSeq(s, from, Len(s)) \in Seq(S)
        /\ Len(SubSeq(s, from, Len(s))) = IF from <= Len(s) THEN Len(s) - from + 1 ELSE 0
        /\ \A i \in 1..Len(SubSeq(s, from, Len(s))) : SubSeq(s, from, Len(s))[i] = s[from + i - 1]
    BY <1>1, <1>2, <1>3
  <2>3. CASE n < Len(s)
    <3>1. from = Len(s) - n + 1 /\ Len(Script!Ending(s, n)) = n
      BY <1>1, <2>1, <2>2, <2>3
    <3>2. ASSUME NEW i \in 1..n PROVE from + i - 1 = Len(s) - n + i
      BY <1>1, <3>1
    <3>3. QED
      BY <2>1, <2>2, <2>3, <3>1, <3>2
  <2>4. CASE ~(n < Len(s))
    BY <1>1, <2>1, <2>2, <2>4
  <2>5. QED
    BY <2>3, <2>4
<1>8. QED
  BY <1>1, <1>4, <1>5, <1>6, <1>7

LEMMA UnitsOf ==
  ASSUME NEW part \in {"body", "tag", "sum", "foot", "bad", "noise"}, NEW n \in Nat
  PROVE  /\ Script!Units(part, n) \in Seq(Script!Unit)
         /\ Len(Script!Units(part, n)) = n
         /\ \A i \in 1..n : Script!Units(part, n)[i] = <<part, i>>
<1>1. \A i \in 1..n : <<part, i>> \in Script!Unit
  BY DEF Script!Unit
<1>2. Script!Units(part, n) \in [1..n -> Script!Unit]
  BY <1>1 DEF Script!Units
<1>3. QED
  BY <1>2, FunctionIsSeq DEF Script!Units

LEMMA FileOf ==
  ASSUME NEW f \in Script!Files
  PROVE  /\ f.size \in Nat \ {0} /\ f.at \in Nat \ {0} /\ f.at <= Len(Script!Written(f))
         /\ f.zip \in BOOLEAN /\ f.multi \in BOOLEAN /\ f.foot \in BOOLEAN /\ f.looks \in BOOLEAN
         /\ f.proto \in {"c15", "c14", "none"} /\ f.damage \in {"none", "cut", "flip"}
         /\ f.foot => f.looks /\ ~f.multi
         /\ f.iv \in 0..LastOffset /\ f.data \in 0..LastOffset /\ f.data >= f.iv + IvLength
<1>1. f \in [size : 1..MaxSize, zip : BOOLEAN, multi : BOOLEAN, foot : BOOLEAN, looks : BOOLEAN,
             short : BOOLEAN, proto : {"c15", "c14", "none"}, iv : 0..LastOffset, data : 0..LastOffset,
             damage : {"none", "cut", "flip"}, at : 1..(MaxSize + Script!TrailerLength)]
  BY DEF Script!Files
<1>2. /\ f.foot => f.looks /\ ~f.multi
      /\ f.at <= Len(Script!Written(f))
      /\ f.data >= f.iv + IvLength
  BY DEF Script!Files, Script!Possible
<1>3. /\ f.size \in 1..MaxSize /\ f.at \in 1..(MaxSize + Script!TrailerLength)
      /\ f.proto \in {"c15", "c14", "none"} /\ f.damage \in {"none", "cut", "flip"}
      /\ f.iv \in 0..LastOffset /\ f.data \in 0..LastOffset
  BY <1>1
<1>4. f.zip \in BOOLEAN /\ f.multi \in BOOLEAN /\ f.foot \in BOOLEAN /\ f.looks \in BOOLEAN
  BY <1>1, Zenon
<1>5. f.size \in Nat \ {0} /\ f.at \in Nat \ {0}
  BY <1>3, ToolConstants
<1>6. QED
  BY <1>2, <1>3, <1>4, <1>5

\* A file as the phone wrote it, unit by unit.
LEMMA WrittenUnits ==
  ASSUME NEW f \in Script!Files
  PROVE  /\ Script!Written(f) \in Seq(Script!Unit)
         /\ Len(Script!Written(f)) =
                f.size + Tag + (IF f.multi THEN 0 ELSE Tag) + (IF f.foot THEN Foot ELSE 0)
         /\ \A i \in 1..f.size : Script!Written(f)[i] = <<"body", i>>
         /\ \A i \in 1..Tag : Script!Written(f)[f.size + i] = <<"tag", i>>
         /\ ~f.multi => \A i \in 1..Tag : Script!Written(f)[f.size + Tag + i] = <<"sum", i>>
<1> DEFINE U == Script!Unit
           body == Script!Units("body", f.size)
           tag == Script!Units("tag", Tag)
           sum == IF f.multi THEN << >> ELSE Script!Units("sum", Tag)
           foot == IF f.foot THEN Script!Units("foot", Foot) ELSE << >>
<1>1. Script!Written(f) = ((body \o tag) \o sum) \o foot
  BY DEF Script!Written
<1>2. f.size \in Nat /\ Tag \in Nat /\ Foot \in Nat /\ f.multi \in BOOLEAN /\ f.foot \in BOOLEAN
  BY FileOf, ToolConstants
<1>3. /\ body \in Seq(U) /\ Len(body) = f.size /\ \A i \in 1..f.size : body[i] = <<"body", i>>
      /\ tag \in Seq(U) /\ Len(tag) = Tag /\ \A i \in 1..Tag : tag[i] = <<"tag", i>>
  BY <1>2, UnitsOf
<1>4. /\ sum \in Seq(U) /\ Len(sum) = (IF f.multi THEN 0 ELSE Tag)
      /\ ~f.multi => \A i \in 1..Tag : sum[i] = <<"sum", i>>
  BY <1>2, UnitsOf, EmptySeq
<1>5. foot \in Seq(U) /\ Len(foot) = (IF f.foot THEN Foot ELSE 0)
  BY <1>2, UnitsOf, EmptySeq
<1> HIDE DEF body, tag, sum, foot, U
<1> DEFINE two == body \o tag
           three == two \o sum
<1>6. /\ two \in Seq(U) /\ Len(two) = f.size + Tag
      /\ \A i \in 1..(f.size + Tag) : two[i] = IF i <= f.size THEN body[i] ELSE tag[i - f.size]
  <2>1. /\ two \in Seq(U) /\ Len(two) = Len(body) + Len(tag)
        /\ \A i \in 1..(Len(body) + Len(tag)) :
               two[i] = IF i <= Len(body) THEN body[i] ELSE tag[i - Len(body)]
    BY <1>3, ConcatProperties
  <2> HIDE DEF two
  <2>2. QED
    BY <1>3, <2>1
<1> HIDE DEF two
<1>7. /\ three \in Seq(U) /\ Len(three) = f.size + Tag + Len(sum)
      /\ \A i \in 1..(f.size + Tag + Len(sum)) :
             three[i] = IF i <= f.size + Tag THEN two[i] ELSE sum[i - (f.size + Tag)]
  BY <1>4, <1>6, ConcatProperties
<1> HIDE DEF three
<1>8. /\ three \o foot \in Seq(U) /\ Len(three \o foot) = Len(three) + Len(foot)
      /\ \A i \in 1..(Len(three) + Len(foot)) :
             (three \o foot)[i] = IF i <= Len(three) THEN three[i] ELSE foot[i - Len(three)]
  BY <1>5, <1>7, ConcatProperties
<1>9. Script!Written(f) = three \o foot
  BY <1>1 DEF two, three
<1>10. Len(sum) \in Nat /\ Len(foot) \in Nat /\ Len(three) \in Nat
  BY <1>2, <1>4, <1>5, <1>7
<1>11. Script!Written(f) \in Seq(U)
       /\ Len(Script!Written(f)) = f.size + Tag + Len(sum) + Len(foot)
       /\ \A i \in 1..(f.size + Tag + Len(sum)) : Script!Written(f)[i] = three[i]
  BY <1>2, <1>7, <1>8, <1>9, <1>10
<1>12. ASSUME NEW i \in 1..f.size PROVE Script!Written(f)[i] = <<"body", i>>
  <2>1. i \in 1..(f.size + Tag) /\ i \in 1..(f.size + Tag + Len(sum)) /\ i <= f.size + Tag
    BY <1>2, <1>10
  <2>2. Script!Written(f)[i] = three[i]
    BY <1>11, <2>1
  <2>3. three[i] = two[i]
    BY <1>7, <2>1
  <2>4. two[i] = body[i]
    BY <1>6, <2>1
  <2>5. QED
    BY <1>3, <2>2, <2>3, <2>4
<1>13. ASSUME NEW i \in 1..Tag PROVE Script!Written(f)[f.size + i] = <<"tag", i>>
  <2>1. f.size + i \in 1..(f.size + Tag) /\ f.size + i \in 1..(f.size + Tag + Len(sum))
        /\ f.size + i <= f.size + Tag /\ ~(f.size + i <= f.size) /\ (f.size + i) - f.size = i
    BY <1>2, <1>10
  <2>2. Script!Written(f)[f.size + i] = three[f.size + i]
    BY <1>11, <2>1
  <2>3. three[f.size + i] = two[f.size + i]
    BY <1>7, <2>1
  <2>4. two[f.size + i] = tag[(f.size + i) - f.size]
    BY <1>6, <2>1
  <2>5. QED
    BY <1>3, <2>1, <2>2, <2>3, <2>4
<1>14. ASSUME ~f.multi, NEW i \in 1..Tag PROVE Script!Written(f)[f.size + Tag + i] = <<"sum", i>>
  <2>1. Len(sum) = Tag /\ f.size + Tag + i \in 1..(f.size + Tag + Len(sum))
        /\ ~(f.size + Tag + i <= f.size + Tag) /\ (f.size + Tag + i) - (f.size + Tag) = i
    BY <1>2, <1>4, <1>14
  <2>2. Script!Written(f)[f.size + Tag + i] = three[f.size + Tag + i]
        /\ three[f.size + Tag + i] = sum[(f.size + Tag + i) - (f.size + Tag)]
    BY <1>7, <1>11, <2>1
  <2>3. QED
    BY <1>4, <1>14, <2>1, <2>2
<1>15. Len(Script!Written(f)) =
           f.size + Tag + (IF f.multi THEN 0 ELSE Tag) + (IF f.foot THEN Foot ELSE 0)
  BY <1>4, <1>5, <1>11
<1>16. QED
  BY <1>11, <1>12, <1>13, <1>14, <1>15 DEF U

LEMMA StoredUnits ==
  ASSUME NEW f \in Script!Files
  PROVE  /\ Script!Stored(f) \in Seq(Script!Unit)
         /\ f.damage = "none" => Script!Stored(f) = Script!Written(f)
<1> DEFINE all == Script!Written(f)
<1>1. all \in Seq(Script!Unit) /\ f.at \in Nat \ {0} /\ f.at <= Len(all)
      /\ f.damage \in {"none", "cut", "flip"} /\ Len(all) \in Nat
  BY WrittenUnits, FileOf, LenProperties
<1> HIDE DEF all
<1>2. SubSeq(all, 1, f.at - 1) \in Seq(Script!Unit)
  <2>1. \A i \in 1..(f.at - 1) : i \in 1..Len(all)
    BY <1>1
  <2>2. \A i \in 1..(f.at - 1) : all[i] \in Script!Unit
    BY <1>1, <2>1, ElementOfSeq
  <2>3. 1 \in Int /\ f.at - 1 \in Int
    BY <1>1
  <2>4. QED
    BY <2>2, <2>3, SubSeqProperties
<1>3. [all EXCEPT ![f.at] = <<"bad", f.at>>] \in Seq(Script!Unit)
  <2>1. f.at \in 1..Len(all) /\ <<"bad", f.at>> \in Script!Unit
    BY <1>1 DEF Script!Unit
  <2>2. QED
    BY <1>1, <2>1, ExceptSeq
<1>4. CASE f.damage = "none"
  BY <1>1, <1>4 DEF Script!Stored, all
<1>5. CASE f.damage = "cut"
  BY <1>2, <1>5 DEF Script!Stored, all
<1>6. CASE f.damage = "flip"
  BY <1>3, <1>6 DEF Script!Stored, all
<1>7. QED
  BY <1>1, <1>4, <1>5, <1>6

\* What the cipher and the decompression make of units.
LEMMA PlainUnits ==
  ASSUME NEW new \in Seq(Script!Unit), NEW n \in Nat
  PROVE  /\ Script!Plain(new, n) \in Seq(Script!Unit)
         /\ Len(Script!Plain(new, n)) = Len(new)
         /\ cipher = "right" /\ file.zip /\ (\A i \in 1..Len(new) : new[i] = <<"body", n + i>>) =>
                Script!Plain(new, n) = new
         /\ ~file.zip => \A i \in 1..Len(new) : Script!Plain(new, n)[i] = <<"noise", 0>>
<1> DEFINE plain == Script!Plain(new, n)
<1>1. Len(new) \in Nat /\ DOMAIN new = 1..Len(new) /\ \A i \in 1..Len(new) : new[i] \in Script!Unit
  BY LenProperties, ElementOfSeq
<1>2. <<"noise", 0>> \in Script!Unit
  BY DEF Script!Unit
<1>3. /\ plain \in [1..Len(new) -> Script!Unit]
      /\ \A i \in 1..Len(new) :
             plain[i] = IF cipher = "right" /\ file.zip /\ new[i] = <<"body", n + i>>
                        THEN new[i] ELSE <<"noise", 0>>
  BY <1>1, <1>2 DEF Script!Plain
<1> HIDE DEF plain
<1>4. plain \in Seq(Script!Unit) /\ Len(plain) = Len(new)
  BY <1>1, <1>3, FunctionIsSeq
<1>5. ASSUME cipher = "right", file.zip, \A i \in 1..Len(new) : new[i] = <<"body", n + i>>
      PROVE  plain = new
  <2>1. \A i \in 1..Len(plain) : plain[i] = new[i]
    BY <1>3, <1>4, <1>5
  <2>2. QED
    BY <1>4, <2>1, SeqEqual
<1>6. ~file.zip => \A i \in 1..Len(new) : plain[i] = <<"noise", 0>>
  BY <1>3
<1>7. QED
  BY <1>4, <1>5, <1>6 DEF plain

LEMMA InflatedUnits ==
  ASSUME Script!TypeOK, NEW new \in Seq(Script!Unit)
  PROVE  /\ Script!Inflated(new) \in Seq(Script!Unit)
         /\ Len(fed) + Len(new) <= file.size => Script!Inflated(new) = new
<1> DEFINE n == IF file.size > Len(fed) THEN file.size - Len(fed) ELSE 0
<1>1. fed \in Seq(Script!Unit) /\ file.size \in Nat
  BY FileOf DEF Script!TypeOK
<1>2. Len(fed) \in Nat /\ Len(new) \in Nat
  BY <1>1, LenProperties
<1>3. n \in Nat
  BY <1>1, <1>2
<1>4. Len(fed) + Len(new) <= file.size => ~(n < Len(new))
  BY <1>1, <1>2
<1>5. Script!Inflated(new) = Script!First(new, n)
  BY DEF Script!Inflated
<1> HIDE DEF n
<1>6. /\ Script!First(new, n) \in Seq(Script!Unit)
      /\ Len(Script!First(new, n)) = IF n < Len(new) THEN n ELSE Len(new)
      /\ \A i \in 1..Len(Script!First(new, n)) : Script!First(new, n)[i] = new[i]
  BY <1>3, Pieces
<1>7. ~(n < Len(new)) => Script!First(new, n) = new
  BY <1>6, SeqEqual
<1>8. QED
  BY <1>4, <1>5, <1>6, <1>7

LEMMA ScriptParts ==
  Script!TypeOK =>
      /\ file \in Script!Files /\ opts \in Script!Options /\ key \in Script!Keys(file)
      /\ unread \in Seq(Script!Unit) /\ chunk \in Seq(Script!Unit)
      /\ fed \in Seq(Script!Unit) /\ out \in Seq(Script!Unit)
      /\ Len(unread) \in Nat /\ Len(chunk) \in Nat /\ Len(fed) \in Nat /\ Len(out) \in Nat
BY LenProperties DEF Script!TypeOK

\* What Log.e and a write may do.
LEMMA LogsOrStops ==
  ASSUME NEW ok, NEW next, Script!e(ok, next)
  PROVE  /\ step' \in {next, "failed"}
         /\ ok => step' = next
         /\ opts.force => step' = next
         /\ ~ok /\ ~opts.force => step' = "failed"
         /\ erred' <=> erred \/ ~ok
         /\ erred' \in BOOLEAN
BY DEF Script!e

LEMMA BufferIsNat == Script!TypeOK => Script!Buffer \in Nat
<1>1. Script!TypeOK => opts.buffer \in Nat
  BY ToolConstants DEF Script!TypeOK, Script!Options
<1>2. QED
  BY <1>1, ToolConstants DEF Script!Buffer

\* What one call of the loop, or of what follows it, feeds to the cipher.
LEMMA FeedEffects ==
  ASSUME Script!TypeOK, NEW new \in Seq(Script!Unit), NEW mayBeZip \in BOOLEAN, NEW next,
         Script!Feed(new, mayBeZip, next)
  PROVE  /\ fed' = fed \o new /\ fed' \in Seq(Script!Unit) /\ out' \in Seq(Script!Unit)
         /\ is_zip' \in BOOLEAN /\ step' \in {next, "failed"} /\ erred' \in BOOLEAN
<1> DEFINE plain == Script!Plain(new, Len(fed))
           inflates == is_zip /\ Script!Inflates(fed \o new)
           ok == ~is_zip \/ new = << >> \/ inflates \/ (mayBeZip /\ Script!test_decompression(plain))
           data == IF inflates THEN Script!Inflated(new) ELSE plain
<1>1. /\ fed' = fed \o new
      /\ Script!e(ok, next)
      /\ out' = (IF ok \/ opts.force THEN out \o data ELSE out)
      /\ is_zip' = (is_zip /\ (new = << >> \/ inflates \/ ~mayBeZip))
  BY DEF Script!Feed, Script!Writes
<1>2. fed \in Seq(Script!Unit) /\ out \in Seq(Script!Unit) /\ Len(fed) \in Nat
  BY ScriptParts
<1>3. plain \in Seq(Script!Unit) /\ Script!Inflated(new) \in Seq(Script!Unit)
  BY <1>2, PlainUnits, InflatedUnits
<1> HIDE DEF plain, inflates
<1>4. data \in Seq(Script!Unit)
  BY <1>3
<1> HIDE DEF ok, data
<1>5. out' \in Seq(Script!Unit)
  <2>1. out \o data \in Seq(Script!Unit)
    BY <1>2, <1>4, ConcatProperties
  <2>2. QED
    BY <1>1, <1>2, <2>1
<1>6. fed' \in Seq(Script!Unit)
  BY <1>1, <1>2, ConcatProperties
<1>7. is_zip' \in BOOLEAN
  BY <1>1
<1>8. step' \in {next, "failed"} /\ erred' \in BOOLEAN
  BY <1>1, LogsOrStops
<1>9. QED
  BY <1>1, <1>5, <1>6, <1>7, <1>8

LEMMA ScriptTypesNext ==
  ASSUME Script!TypeOK, [Script!Next]_script
  PROVE  Script!TypeOK'
<1> USE DEF Script!given
<1>1. file \in Script!Files /\ Len(fed) \in Nat /\ {unread, chunk, fed, out} \subseteq Seq(Script!Unit)
      /\ unread \in Seq(Script!Unit) /\ chunk \in Seq(Script!Unit) /\ fed \in Seq(Script!Unit)
      /\ out \in Seq(Script!Unit) /\ << >> \in Seq(Script!Unit) /\ Script!Buffer \in Nat
      /\ Tag \in Nat /\ Foot \in Nat
  BY ScriptParts, BufferIsNat, EmptySeq, ToolConstants
<1>2. \A n \in Nat : \A s \in Seq(Script!Unit) :
          /\ Script!First(s, n) \in Seq(Script!Unit) /\ Script!Rest(s, n) \in Seq(Script!Unit)
          /\ Script!Without(s, n) \in Seq(Script!Unit) /\ Script!Ending(s, n) \in Seq(Script!Unit)
  BY Pieces
<1>3. \A s, t \in Seq(Script!Unit) : s \o t \in Seq(Script!Unit)
  BY ConcatProperties
<1>4. CASE Script!parse_protobuf
  <2>1. /\ UNCHANGED <<file, opts, key, unread, chunk, fed, is_zip, out>>
        /\ step' \in {"guess", "open", "failed"}
        /\ cipher' \in {cipher, "right", "wrong"} /\ clean' \in BOOLEAN /\ erred' \in BOOLEAN
    <3>1. clean \in BOOLEAN /\ erred \in BOOLEAN
      BY DEF Script!TypeOK
    <3>2. QED
      BY <1>4, <3>1 DEF Script!parse_protobuf, Script!e
  <2>2. QED
    BY <2>1 DEF Script!TypeOK
<1>5. CASE Script!guess_offsets
  BY <1>5 DEF Script!guess_offsets, Script!TypeOK
<1>6. CASE Script!decrypt
  <2>1. /\ UNCHANGED <<file, opts, key, cipher, clean, fed, is_zip, out, erred>>
        /\ step' \in {"verify", "loop", "failed"}
        /\ unread' \in Seq(Script!Unit) /\ chunk' \in Seq(Script!Unit)
    <3> DEFINE all == Script!Stored(file)
    <3>1. /\ UNCHANGED <<file, opts, key, cipher, clean, fed, is_zip, out, erred>>
          /\ IF opts.buffer = 0
             THEN unread' = all /\ step' = "verify" /\ UNCHANGED chunk
             ELSE /\ chunk' = Script!First(all, Script!Buffer) /\ unread' = Script!Rest(all, Script!Buffer)
                  /\ step' = IF Len(all) < Script!Buffer THEN "failed" ELSE "loop"
      BY <1>6 DEF Script!decrypt
    <3>2. all \in Seq(Script!Unit)
      BY <1>1, StoredUnits
    <3> HIDE DEF all
    <3>3. CASE opts.buffer = 0
      BY <1>1, <3>1, <3>2, <3>3
    <3>4. CASE opts.buffer # 0
      BY <1>1, <1>2, <3>1, <3>2, <3>4
    <3>5. QED
      BY <3>3, <3>4
  <2>2. QED
    BY <2>1 DEF Script!TypeOK
<1>7. CASE Script!Verify
  <2>1. /\ UNCHANGED <<file, opts, key, cipher, clean, unread, chunk, is_zip, out>>
        /\ step' \in {"inflate", "failed"} /\ erred' \in BOOLEAN
        /\ fed' \in Seq(Script!Unit)
    <3> DEFINE all == IF Script!HasJid(unread) THEN Script!Without(unread, Foot) ELSE unread
               sum == Script!Ending(all, Tag)
               tag == Script!Ending(Script!Without(all, Tag), Tag)
               body == Script!Without(all, 2 * Tag)
               single == Script!ChecksumFits(body, tag, sum)
               ok == IF single THEN Script!Verifies(body, tag) ELSE Script!Verifies(fed', sum)
    <3>1. /\ UNCHANGED <<file, opts, key, cipher, clean, unread, chunk, is_zip, out>>
          /\ fed' = IF single THEN body ELSE body \o tag
          /\ Script!e(ok, "inflate")
      BY <1>7 DEF Script!Verify
    <3>2. all \in Seq(Script!Unit) /\ 2 * Tag \in Nat
      BY <1>1, <1>2
    <3> HIDE DEF all
    <3>3. body \in Seq(Script!Unit) /\ tag \in Seq(Script!Unit)
      BY <1>1, <1>2, <3>2
    <3> HIDE DEF body, tag
    <3>4. fed' \in Seq(Script!Unit)
      BY <1>3, <3>1, <3>3
    <3> HIDE DEF ok
    <3>5. QED
      BY <3>1, <3>4, LogsOrStops
  <2>2. QED
    BY <2>1 DEF Script!TypeOK
<1>8. CASE Script!Inflate
  <2>1. /\ UNCHANGED <<file, opts, key, cipher, clean, unread, chunk, fed, is_zip>>
        /\ step' \in {"done", "failed"} /\ erred' \in BOOLEAN
        /\ out' \in Seq(Script!Unit)
    <3> DEFINE plain == Script!Plain(fed, 0)
               ok == IF Script!Inflates(fed) THEN Len(fed) >= file.size
                     ELSE Script!test_decompression(plain)
               data == IF Script!Inflates(fed) THEN Script!First(fed, file.size) ELSE plain
    <3>1. /\ UNCHANGED <<file, opts, key, cipher, clean, unread, chunk, fed, is_zip>>
          /\ Script!e(ok, "done")
          /\ out' = IF ok \/ opts.force THEN out \o data ELSE out
      BY <1>8 DEF Script!Inflate, Script!Writes
    <3>2. plain \in Seq(Script!Unit) /\ Script!First(fed, file.size) \in Seq(Script!Unit)
      BY <1>1, <1>2, PlainUnits, FileOf
    <3>3. data \in Seq(Script!Unit)
      BY <3>2
    <3> HIDE DEF ok, data
    <3>4. QED
      BY <1>1, <1>3, <3>1, <3>3, LogsOrStops
  <2>2. QED
    BY <2>1 DEF Script!TypeOK
<1>9. CASE Script!Loop
  <2> DEFINE next == Script!First(unread, Script!Buffer)
             missing == IF Len(next) <= Script!TrailerLength THEN Script!TrailerLength - Len(next) ELSE 0
             new == Script!Without(chunk, missing)
             goes == IF Len(next) <= Script!TrailerLength THEN "foot" ELSE "loop"
  <2>1. /\ UNCHANGED <<file, opts, key, cipher, clean>>
        /\ unread' = Script!Rest(unread, Script!Buffer)
        /\ Script!Feed(new, TRUE, goes)
        /\ chunk' = (IF missing > 0 THEN Script!Ending(chunk, missing) ELSE << >>) \o next
    BY <1>9 DEF Script!Loop
  <2>2. next \in Seq(Script!Unit) /\ goes \in {"foot", "loop"}
    BY <1>1, <1>2
  <2>3. missing \in Nat
    BY <2>2, LenProperties, ToolConstants
  <2> HIDE DEF next, missing, goes
  <2>4. new \in Seq(Script!Unit) /\ Script!Ending(chunk, missing) \in Seq(Script!Unit)
    BY <1>1, <1>2, <2>3
  <2>5. unread' \in Seq(Script!Unit) /\ chunk' \in Seq(Script!Unit)
    BY <1>1, <1>2, <1>3, <2>1, <2>2, <2>4
  <2> HIDE DEF new
  <2>6. /\ fed' \in Seq(Script!Unit) /\ out' \in Seq(Script!Unit)
        /\ is_zip' \in BOOLEAN /\ step' \in {goes, "failed"} /\ erred' \in BOOLEAN
    BY <2>1, <2>4, FeedEffects
  <2>7. QED
    BY <2>1, <2>2, <2>5, <2>6 DEF Script!TypeOK
<1>10. CASE Script!FootOrData
  <2>1. CASE Script!HasJid(chunk)
    <3>1. /\ UNCHANGED <<file, opts, key, cipher, clean, unread, fed, is_zip, out, erred>>
          /\ step' = "trailer" /\ chunk' \in Seq(Script!Unit)
      BY <1>1, <1>2, <1>10, <2>1 DEF Script!FootOrData
    <3>2. QED
      BY <3>1 DEF Script!TypeOK
  <2>2. CASE ~Script!HasJid(chunk)
    <3> DEFINE new == Script!First(chunk, Foot)
    <3>1. /\ UNCHANGED <<file, opts, key, cipher, clean, unread>>
          /\ Script!Feed(new, FALSE, "trailer") /\ chunk' \in Seq(Script!Unit)
      BY <1>1, <1>2, <1>10, <2>2 DEF Script!FootOrData
    <3>2. new \in Seq(Script!Unit)
      BY <1>1, <1>2
    <3> HIDE DEF new
    <3>3. /\ fed' \in Seq(Script!Unit) /\ out' \in Seq(Script!Unit)
          /\ is_zip' \in BOOLEAN /\ step' \in {"trailer", "failed"} /\ erred' \in BOOLEAN
      BY <3>1, <3>2, FeedEffects
    <3>4. QED
      BY <3>1, <3>3 DEF Script!TypeOK
  <2>3. QED
    BY <2>1, <2>2
<1>11. CASE Script!Trailer
  <2> DEFINE tag == Script!First(chunk, Tag)
             sum == Script!Rest(chunk, Tag)
             single == Script!ChecksumFits(fed, tag, sum)
             ok == IF single THEN Script!Verifies(fed, tag) ELSE Script!Verifies(fed', sum)
  <2>1. /\ UNCHANGED <<file, opts, key, cipher, clean, unread, chunk, is_zip>>
        /\ fed' = IF single THEN fed ELSE fed \o tag
        /\ out' = IF single THEN out ELSE out \o Script!Plain(tag, Len(fed))
        /\ Script!e(ok, "close")
    BY <1>11 DEF Script!Trailer
  <2>2. tag \in Seq(Script!Unit)
    BY <1>1, <1>2
  <2> HIDE DEF tag, single, ok
  <2>3. Script!Plain(tag, Len(fed)) \in Seq(Script!Unit)
    BY <1>1, <2>2, PlainUnits
  <2>4. fed' \in Seq(Script!Unit) /\ out' \in Seq(Script!Unit)
    BY <1>1, <1>3, <2>1, <2>2, <2>3
  <2>5. step' \in {"close", "failed"} /\ erred' \in BOOLEAN
    BY <2>1, LogsOrStops
  <2>6. QED
    BY <2>1, <2>4, <2>5 DEF Script!TypeOK
<1>12. CASE Script!Close
  <2>1. /\ UNCHANGED <<file, opts, key, cipher, clean, unread, chunk, fed, is_zip>>
        /\ step' \in {"done", "failed"} /\ erred' \in BOOLEAN /\ out' \in {out, << >>}
    BY <1>12, LogsOrStops DEF Script!Close
  <2>2. QED
    BY <1>1, <2>1 DEF Script!TypeOK
<1>13. CASE UNCHANGED script
  BY <1>13 DEF script, Script!TypeOK
<1>14. QED
  BY <1>4, <1>5, <1>6, <1>7, <1>8, <1>9, <1>10, <1>11, <1>12, <1>13 DEF Script!Next

LEMMA ScriptTypesInit == Script!Init => Script!TypeOK
BY EmptySeq DEF Script!Init, Script!Start, Script!TypeOK

----------------------------------------------------------------------------
(* The decryption: success means the database.                             *)

\* A sequence that is the database as far as it goes.
Begins(s) == Len(s) <= file.size /\ \A i \in 1..Len(s) : s[i] = <<"body", i>>

LEMMA BodyUnits ==
  ASSUME Script!TypeOK
  PROVE  /\ file.size \in Nat \ {0} /\ Script!Body \in Seq(Script!Unit) /\ Len(Script!Body) = file.size
         /\ \A i \in 1..file.size : Script!Body[i] = <<"body", i>>
         /\ Begins(Script!Body)
         /\ \A s \in Seq(Script!Unit) : Begins(s) /\ Len(s) = file.size => s = Script!Body
<1>1. file.size \in Nat \ {0} /\ file.size \in Nat
  BY ScriptParts, FileOf
<1>2. /\ Script!Body \in Seq(Script!Unit) /\ Len(Script!Body) = file.size
      /\ \A i \in 1..file.size : Script!Body[i] = <<"body", i>>
  BY <1>1, UnitsOf DEF Script!Body
<1>3. ASSUME NEW s \in Seq(Script!Unit), Begins(s), Len(s) = file.size PROVE s = Script!Body
  <2>1. \A i \in 1..Len(s) : s[i] = Script!Body[i]
    BY <1>2, <1>3 DEF Begins
  <2>2. QED
    BY <1>2, <1>3, <2>1, SeqEqual
<1>4. Begins(Script!Body)
  BY <1>1, <1>2 DEF Begins
<1>5. QED
  BY <1>1, <1>2, <1>3, <1>4

\* What begins the database in two parts, begins it in the first.
LEMMA BeginsInParts ==
  ASSUME Script!TypeOK, NEW s \in Seq(Script!Unit), NEW t \in Seq(Script!Unit), Begins(s \o t)
  PROVE  /\ Begins(s) /\ Len(s) + Len(t) <= file.size
         /\ \A i \in 1..Len(t) : t[i] = <<"body", Len(s) + i>>
<1>1. Len(s) \in Nat /\ Len(t) \in Nat /\ file.size \in Nat
  BY LenProperties, BodyUnits
<1>2. /\ Len(s \o t) = Len(s) + Len(t)
      /\ \A i \in 1..(Len(s) + Len(t)) : (s \o t)[i] = IF i <= Len(s) THEN s[i] ELSE t[i - Len(s)]
  BY ConcatProperties
<1>3. Len(s) + Len(t) <= file.size /\ \A i \in 1..(Len(s) + Len(t)) : (s \o t)[i] = <<"body", i>>
  BY <1>2 DEF Begins
<1>4. ASSUME NEW i \in 1..Len(s) PROVE s[i] = <<"body", i>>
  <2>1. i \in 1..(Len(s) + Len(t)) /\ i <= Len(s)
    BY <1>1
  <2>2. QED
    BY <1>2, <1>3, <2>1
<1>5. ASSUME NEW i \in 1..Len(t) PROVE t[i] = <<"body", Len(s) + i>>
  <2>1. Len(s) + i \in 1..(Len(s) + Len(t)) /\ ~(Len(s) + i <= Len(s)) /\ (Len(s) + i) - Len(s) = i
    BY <1>1
  <2>2. QED
    BY <1>2, <1>3, <2>1
<1>6. QED
  BY <1>1, <1>3, <1>4, <1>5 DEF Begins

LEMMA BeginsInflates ==
  ASSUME Script!TypeOK, NEW s \in Seq(Script!Unit), Begins(s), cipher = "right"
  PROVE  Script!Inflates(s) <=> ~file.zip
<1>1. Len(s) \in Nat /\ DOMAIN s = 1..Len(s)
  BY LenProperties
<1>2. \A i \in DOMAIN s : s[i] = Script!Body[i]
  <2>1. file.size \in Nat /\ Len(s) <= file.size
    BY BodyUnits DEF Begins
  <2>2. \A i \in 1..Len(s) : i \in 1..file.size
    BY <1>1, <2>1
  <2>3. QED
    BY <1>1, <2>2, BodyUnits DEF Begins
<1>3. QED
  BY <1>2 DEF Script!Inflates

\* What the loop writes of the database, when it begins it.
LEMMA FeedKeeps ==
  ASSUME Script!TypeOK, NEW new \in Seq(Script!Unit), NEW mayBeZip \in BOOLEAN, NEW next,
         Script!Feed(new, mayBeZip, next),
         cipher = "right", Begins(fed \o new), out = fed, ~file.zip => is_zip
  PROVE  /\ step' = "failed" \/ out' = fed'
         /\ ~file.zip => is_zip' /\ erred' = erred /\ step' = next
         /\ file.zip /\ ~is_zip => ~is_zip' /\ erred' = erred /\ step' = next
         /\ file.zip /\ mayBeZip /\ Len(fed) = 0 /\ new # << >> =>
                ~is_zip' /\ erred' = erred /\ step' = next
<1> DEFINE plain == Script!Plain(new, Len(fed))
           inflates == is_zip /\ Script!Inflates(fed \o new)
           ok == ~is_zip \/ new = << >> \/ inflates \/ (mayBeZip /\ Script!test_decompression(plain))
           data == IF inflates THEN Script!Inflated(new) ELSE plain
<1>1. /\ fed' = fed \o new
      /\ Script!e(ok, next)
      /\ out' = (IF ok \/ opts.force THEN out \o data ELSE out)
      /\ is_zip' = (is_zip /\ (new = << >> \/ inflates \/ ~mayBeZip))
  BY DEF Script!Feed, Script!Writes
<1>2. fed \in Seq(Script!Unit) /\ Len(fed) \in Nat /\ fed \o new \in Seq(Script!Unit)
      /\ is_zip \in BOOLEAN /\ erred \in BOOLEAN
  BY ScriptParts, ConcatProperties DEF Script!TypeOK
<1>3. Len(fed) + Len(new) <= file.size /\ \A i \in 1..Len(new) : new[i] = <<"body", Len(fed) + i>>
  BY <1>2, BeginsInParts
<1>4. Script!Inflates(fed \o new) <=> ~file.zip
  BY <1>2, BeginsInflates
<1>5. Script!Inflated(new) = new
  BY <1>3, InflatedUnits
<1>6. file.zip => plain = new
  BY <1>2, <1>3, PlainUnits
<1>7. file.zip \in BOOLEAN
  BY ScriptParts, FileOf, Zenon
<1> HIDE DEF plain
<1>8. /\ data = new
      /\ ~file.zip => inflates
      /\ file.zip => ~inflates
  BY <1>4, <1>5, <1>6, <1>7
<1> HIDE DEF data, inflates
<1>9. /\ ok => step' = next
      /\ ~ok /\ ~opts.force => step' = "failed"
      /\ ok => erred' = erred
  BY <1>1, <1>2 DEF Script!e
<1>10. file.zip /\ mayBeZip /\ Len(fed) = 0 /\ new # << >> => ok
  <2>1. Len(fed) = 0 /\ new # << >> => Len(new) \in Nat \ {0}
    BY LenProperties, EmptySeq
  <2>2. Len(fed) = 0 /\ new # << >> => new[1] = <<"body", 1>>
    <3>1. SUFFICES ASSUME Len(fed) = 0, new # << >> PROVE new[1] = <<"body", 1>>
      OBVIOUS
    <3>2. 1 \in 1..Len(new) /\ Len(fed) + 1 = 1
      BY <2>1, <3>1
    <3>3. QED
      BY <1>3, <3>2
  <2>3. QED
    BY <1>6, <2>2 DEF Script!test_decompression
<1>11. ~file.zip => ok
  BY <1>8
<1>12. ~is_zip => ok
  OBVIOUS
<1> HIDE DEF ok
<1>13. step' = "failed" \/ out' = fed'
  BY <1>1, <1>8, <1>9
<1>14. QED
  BY <1>1, <1>8, <1>9, <1>10, <1>11, <1>12, <1>13

\* Until the cipher is fed nothing is written; then what is written is what was
\* fed, if that begins the database; and in the end an error would have been seen.
NothingFed == fed = << >> /\ out = << >> /\ is_zip = TRUE
FedKept == cipher = "right" /\ Begins(fed) => out = fed /\ (~file.zip => is_zip)
Clipped ==
    /\ ~file.zip /\ is_zip
    /\ Cardinality({i \in 1..Len(out) : out[i][1] = "body"}) # file.size
SuccessInv ==
    /\ step \in {"header", "guess", "open", "verify"} => NothingFed
    /\ step = "inflate" => out = << >> /\ (~erred => cipher = "right" /\ fed = Script!Body)
    /\ step \in {"loop", "foot", "trailer"} => FedKept
    /\ step = "close" /\ ~erred =>
           cipher = "right" /\ fed = Script!Body /\ (out = Script!Body \/ Clipped)
    /\ step = "done" /\ ~erred => out = Script!Body

LEMMA SuccessInit == Script!Init => SuccessInv
<1>1. Script!Init => step = "header" /\ NothingFed
  BY DEF Script!Init, Script!Start, NothingFed
<1>2. QED
  BY <1>1 DEF SuccessInv

\* A part of the database that is not all of it, and noise.
LEMMA TooShort ==
  ASSUME Script!TypeOK, NEW t \in Seq(Script!Unit), Begins(fed), out = fed,
         Len(fed) < file.size, ~file.zip
  PROVE  Cardinality({i \in 1..Len(out \o Script!Plain(t, Len(fed))) :
                          (out \o Script!Plain(t, Len(fed)))[i][1] = "body"}) # file.size
<1> DEFINE plain == Script!Plain(t, Len(fed))
           both == out \o plain
           bodies == {i \in 1..Len(both) : both[i][1] = "body"}
<1>1. /\ out \in Seq(Script!Unit) /\ Len(out) = Len(fed) /\ Len(fed) \in Nat /\ Len(t) \in Nat
      /\ file.size \in Nat
  BY ScriptParts, BodyUnits, LenProperties
<1>2. plain \in Seq(Script!Unit) /\ Len(plain) = Len(t) /\ \A i \in 1..Len(t) : plain[i] = <<"noise", 0>>
  BY <1>1, PlainUnits
<1> HIDE DEF plain
<1>3. /\ Len(both) = Len(out) + Len(plain)
      /\ \A i \in 1..(Len(out) + Len(plain)) :
             both[i] = IF i <= Len(out) THEN out[i] ELSE plain[i - Len(out)]
  BY <1>1, <1>2, ConcatProperties
<1> HIDE DEF both
<1>4. bodies \subseteq 1..Len(fed)
  <2>1. SUFFICES ASSUME NEW i \in 1..Len(both), both[i][1] = "body" PROVE i \in 1..Len(fed)
    OBVIOUS
  <2>2. CASE i <= Len(out)
    BY <1>1, <1>2, <1>3, <2>2
  <2>3. CASE ~(i <= Len(out))
    <3>1. i \in 1..(Len(out) + Len(plain)) /\ i - Len(out) \in 1..Len(t)
      BY <1>1, <1>2, <1>3, <2>3
    <3>2. both[i] = <<"noise", 0>>
      BY <1>2, <1>3, <2>3, <3>1
    <3>3. QED
      BY <2>1, <3>2
  <2>4. QED
    BY <2>2, <2>3
<1>5. IsFiniteSet(1..Len(fed)) /\ Cardinality(1..Len(fed)) = Len(fed)
  <2>1. 1 \in Int /\ Len(fed) \in Int
    BY <1>1
  <2>2. /\ IsFiniteSet(1..Len(fed))
        /\ Cardinality(1..Len(fed)) = IF 1 > Len(fed) THEN 0 ELSE Len(fed) - 1 + 1
    BY <2>1, FS_Interval
  <2>3. QED
    BY <1>1, <2>2
<1> HIDE DEF bodies
<1>6. Cardinality(bodies) \in Nat /\ Cardinality(bodies) <= Len(fed)
  BY <1>4, <1>5, FS_Subset, FS_CardinalityType
<1>7. Cardinality(bodies) # file.size
  BY <1>1, <1>6
<1>8. QED
  BY <1>7 DEF bodies, both, plain

LEMMA SuccessNext ==
  ASSUME Script!TypeOK, SuccessInv, [Script!Next]_script
  PROVE  SuccessInv'
<1> USE DEF Script!given
<1>1. /\ file \in Script!Files /\ unread \in Seq(Script!Unit) /\ chunk \in Seq(Script!Unit)
      /\ fed \in Seq(Script!Unit) /\ out \in Seq(Script!Unit) /\ erred \in BOOLEAN
      /\ Tag \in Nat /\ Foot \in Nat
  BY ScriptParts, ToolConstants DEF Script!TypeOK
<1>2. CASE Script!parse_protobuf
  <2>1. step = "header" /\ step' \in {"guess", "open", "failed"} /\ UNCHANGED <<fed, out, is_zip>>
    BY <1>2, LogsOrStops DEF Script!parse_protobuf
  <2>2. QED
    BY <2>1 DEF SuccessInv, NothingFed
<1>3. CASE Script!guess_offsets
  BY <1>3 DEF Script!guess_offsets, SuccessInv, NothingFed
<1>4. CASE Script!decrypt
  <2>1. step = "open" /\ step' \in {"verify", "loop", "failed"} /\ UNCHANGED <<file, fed, out, is_zip>>
    BY <1>4 DEF Script!decrypt
  <2>2. NothingFed /\ NothingFed'
    BY <2>1 DEF SuccessInv, NothingFed
  <2>3. FedKept'
    BY <2>2 DEF NothingFed, FedKept
  <2>4. QED
    BY <2>1, <2>2, <2>3 DEF SuccessInv
<1>5. CASE Script!Verify
  <2> DEFINE all == IF Script!HasJid(unread) THEN Script!Without(unread, Foot) ELSE unread
             sum == Script!Ending(all, Tag)
             tag == Script!Ending(Script!Without(all, Tag), Tag)
             body == Script!Without(all, 2 * Tag)
             single == Script!ChecksumFits(body, tag, sum)
             ok == IF single THEN Script!Verifies(body, tag) ELSE Script!Verifies(fed', sum)
  <2>1. /\ step = "verify" /\ UNCHANGED <<file, opts, key, cipher, clean, unread, chunk, is_zip, out>>
        /\ fed' = IF single THEN body ELSE body \o tag
        /\ Script!e(ok, "inflate")
    BY <1>5 DEF Script!Verify
  <2>2. ok => cipher = "right" /\ fed' = Script!Body
    <3>1. CASE single
      BY <2>1, <3>1 DEF Script!Verifies
    <3>2. CASE ~single
      BY <2>1, <3>2 DEF Script!Verifies
    <3>3. QED
      BY <3>1, <3>2
  <2>3. step' \in {"inflate", "failed"} /\ (erred' <=> erred \/ ~ok)
    <3> HIDE DEF ok
    <3>1. QED
      BY <2>1, LogsOrStops
  <2>4. out = << >> /\ Script!Body' = Script!Body
    BY <2>1 DEF SuccessInv, NothingFed, Script!Body
  <2> HIDE DEF ok
  <2>5. QED
    BY <2>1, <2>2, <2>3, <2>4 DEF SuccessInv
<1>6. CASE Script!Inflate
  <2> DEFINE plain == Script!Plain(fed, 0)
             ok == IF Script!Inflates(fed) THEN Len(fed) >= file.size
                   ELSE Script!test_decompression(plain)
             data == IF Script!Inflates(fed) THEN Script!First(fed, file.size) ELSE plain
  <2>1. /\ step = "inflate" /\ UNCHANGED <<file, opts, key, cipher, clean, unread, chunk, fed, is_zip>>
        /\ Script!e(ok, "done")
        /\ out' = IF ok \/ opts.force THEN out \o data ELSE out
    BY <1>6 DEF Script!Inflate, Script!Writes
  <2>2. ~erred => data = Script!Body
    <3> SUFFICES ASSUME ~erred PROVE data = Script!Body
      OBVIOUS
    <3>1. cipher = "right" /\ fed = Script!Body
      BY <2>1 DEF SuccessInv
    <3>2. Script!Inflates(fed) <=> ~file.zip
      BY <3>1, BodyUnits, BeginsInflates
    <3>3. file.size \in Nat /\ Len(fed) = file.size /\ Begins(fed)
      BY <3>1, BodyUnits
    <3>4. Script!First(fed, file.size) = fed
      <4>1. /\ Script!First(fed, file.size) \in Seq(Script!Unit)
            /\ Len(Script!First(fed, file.size)) = Len(fed)
            /\ \A i \in 1..Len(Script!First(fed, file.size)) : Script!First(fed, file.size)[i] = fed[i]
        BY <1>1, <3>3, Pieces
      <4>2. QED
        BY <1>1, <4>1, SeqEqual
    <3>5. file.zip => plain = fed
      <4>1. \A i \in 1..Len(fed) : fed[i] = <<"body", 0 + i>>
        BY <3>3 DEF Begins
      <4>2. QED
        BY <1>1, <3>1, <4>1, PlainUnits
    <3>6. QED
      BY <3>1, <3>2, <3>4, <3>5
  <2> HIDE DEF data, ok
  <2>3. step' \in {"done", "failed"} /\ (erred' <=> erred \/ ~ok)
    BY <2>1, LogsOrStops
  <2>4. out = << >> /\ Script!Body' = Script!Body /\ Script!Body \in Seq(Script!Unit)
    BY <2>1, BodyUnits DEF SuccessInv, Script!Body
  <2>5. ~erred' => out' = Script!Body
    <3>1. << >> \o Script!Body = Script!Body
      BY <2>4, ConcatEmptySeq
    <3>2. QED
      BY <2>1, <2>2, <2>3, <2>4, <3>1
  <2>6. QED
    BY <2>3, <2>4, <2>5 DEF SuccessInv
<1>7. ASSUME NEW new \in Seq(Script!Unit), NEW mayBeZip \in BOOLEAN, NEW next \in {"loop", "foot", "trailer"},
             Script!Feed(new, mayBeZip, next), UNCHANGED <<file, cipher>>, FedKept
      PROVE  SuccessInv'
  <2>1. step' \in {next, "failed"} /\ fed' = fed \o new
    BY <1>7, FeedEffects
  <2>2. step' = "failed" \/ FedKept'
    <3> SUFFICES ASSUME step' # "failed", cipher' = "right", Begins(fed)' PROVE out' = fed' /\ (~file.zip => is_zip')
      BY <1>7 DEF FedKept
    <3>1. cipher = "right" /\ Begins(fed \o new)
      BY <1>7, <2>1 DEF Begins
    <3>2. out = fed /\ (~file.zip => is_zip)
      BY <1>1, <1>7, <3>1, BeginsInParts DEF FedKept
    <3>3. QED
      BY <1>7, <3>1, <3>2, FeedKeeps
  <2>3. QED
    BY <2>1, <2>2 DEF SuccessInv
<1>8. CASE Script!Loop
  <2> DEFINE next == Script!First(unread, Script!Buffer)
             missing == IF Len(next) <= Script!TrailerLength THEN Script!TrailerLength - Len(next) ELSE 0
             new == Script!Without(chunk, missing)
             goes == IF Len(next) <= Script!TrailerLength THEN "foot" ELSE "loop"
  <2>1. step = "loop" /\ Script!Feed(new, TRUE, goes) /\ UNCHANGED <<file, cipher>>
    BY <1>8 DEF Script!Loop
  <2>2. next \in Seq(Script!Unit) /\ goes \in {"foot", "loop"}
    BY <1>1, BufferIsNat, Pieces
  <2>3. missing \in Nat
    BY <2>2, LenProperties, ToolConstants
  <2> HIDE DEF missing, next, goes
  <2>4. new \in Seq(Script!Unit)
    BY <1>1, <2>3, Pieces
  <2> HIDE DEF new
  <2>5. FedKept
    BY <2>1 DEF SuccessInv
  <2>6. QED
    BY <1>7, <2>1, <2>2, <2>4, <2>5
<1>9. CASE Script!FootOrData
  <2>1. FedKept /\ UNCHANGED <<file, cipher>>
    BY <1>9 DEF Script!FootOrData, SuccessInv
  <2>2. CASE Script!HasJid(chunk)
    <3>1. step' = "trailer" /\ UNCHANGED <<file, cipher, fed, is_zip, out>>
      BY <1>9, <2>2 DEF Script!FootOrData
    <3>2. FedKept'
      BY <2>1, <3>1 DEF FedKept, Begins
    <3>3. QED
      BY <3>1, <3>2 DEF SuccessInv
  <2>3. CASE ~Script!HasJid(chunk)
    <3> DEFINE new == Script!First(chunk, Foot)
    <3>1. Script!Feed(new, FALSE, "trailer")
      BY <1>9, <2>3 DEF Script!FootOrData
    <3>2. new \in Seq(Script!Unit)
      BY <1>1, Pieces
    <3> HIDE DEF new
    <3>3. QED
      BY <1>7, <2>1, <3>1, <3>2
  <2>4. QED
    BY <2>2, <2>3
<1>10. CASE Script!Trailer
  <2> DEFINE tag == Script!First(chunk, Tag)
             sum == Script!Rest(chunk, Tag)
             single == Script!ChecksumFits(fed, tag, sum)
             ok == IF single THEN Script!Verifies(fed, tag) ELSE Script!Verifies(fed', sum)
  <2>1. /\ step = "trailer" /\ UNCHANGED <<file, opts, key, cipher, clean, unread, chunk, is_zip>>
        /\ fed' = IF single THEN fed ELSE fed \o tag
        /\ out' = IF single THEN out ELSE out \o Script!Plain(tag, Len(fed))
        /\ Script!e(ok, "close")
    BY <1>10 DEF Script!Trailer
  <2>2. tag \in Seq(Script!Unit) /\ FedKept /\ Script!Body' = Script!Body
    BY <1>1, <2>1, Pieces DEF SuccessInv, Script!Body
  <2> HIDE DEF tag
  <2>3. step' \in {"close", "failed"} /\ (erred' <=> erred \/ ~ok)
    <3> HIDE DEF ok
    <3>1. QED
      BY <2>1, LogsOrStops
  <2>4. ok => cipher = "right" /\ fed' = Script!Body
    <3>1. CASE single
      BY <2>1, <3>1 DEF Script!Verifies, Script!ChecksumFits
    <3>2. CASE ~single
      BY <2>1, <3>2 DEF Script!Verifies
    <3>3. QED
      BY <3>1, <3>2
  <2>5. ok => (out = Script!Body \/ Clipped)'
    <3> SUFFICES ASSUME ok PROVE (out = Script!Body \/ Clipped)'
      OBVIOUS
    <3>1. cipher = "right" /\ fed' = Script!Body
      BY <2>4
    <3>2. CASE single
      <4>1. fed = Script!Body /\ out' = out
        BY <2>1, <3>2 DEF Script!ChecksumFits
      <4>2. out = fed
        BY <2>2, <3>1, <4>1, BodyUnits DEF FedKept
      <4>3. QED
        BY <2>2, <4>1, <4>2
    <3>3. CASE ~single
      <4>1. fed' = fed \o tag /\ out' = out \o Script!Plain(tag, Len(fed)) /\ Begins(fed \o tag)
        BY <2>1, <3>1, <3>3, BodyUnits
      <4> HIDE DEF single, ok
      <4>2. /\ Begins(fed) /\ Len(fed) + Len(tag) <= file.size
            /\ \A i \in 1..Len(tag) : tag[i] = <<"body", Len(fed) + i>>
        BY <1>1, <2>2, <4>1, BeginsInParts
      <4>3. out = fed /\ (~file.zip => is_zip)
        BY <2>2, <3>1, <4>2 DEF FedKept
      <4>4. Len(fed) \in Nat /\ Len(tag) \in Nat /\ file.size \in Nat
        BY <1>1, <2>2, LenProperties, BodyUnits
      <4>5. CASE file.zip \/ Len(tag) = 0
        <5>1. file.zip => Script!Plain(tag, Len(fed)) = tag
          BY <2>2, <3>1, <4>2, <4>4, PlainUnits
        <5>2. Len(tag) = 0 => Script!Plain(tag, Len(fed)) = tag
          <6>1. Script!Plain(tag, Len(fed)) \in Seq(Script!Unit)
                /\ Len(Script!Plain(tag, Len(fed))) = Len(tag)
            BY <2>2, <4>4, PlainUnits
          <6>2. QED
            BY <2>2, <6>1, EmptySeq
        <5>3. out' = fed'
          BY <4>1, <4>3, <4>5, <5>1, <5>2
        <5>4. QED
          BY <2>2, <3>1, <5>3
      <4>6. CASE ~file.zip /\ Len(tag) # 0
        <5>1. Len(fed) < file.size
          BY <4>2, <4>4, <4>6
        <5>2. Cardinality({i \in 1..Len(out') : out'[i][1] = "body"}) # file.size
          BY <2>2, <4>1, <4>2, <4>3, <4>6, <5>1, TooShort
        <5>3. QED
          BY <2>1, <4>3, <4>6, <5>2 DEF Clipped
      <4>7. QED
        BY <4>5, <4>6
    <3>4. QED
      BY <3>2, <3>3
  <2> HIDE DEF ok
  <2>6. QED
    BY <2>1, <2>2, <2>3, <2>4, <2>5 DEF SuccessInv
<1>11. CASE Script!Close
  <2> DEFINE inflated == {i \in DOMAIN out : out[i][1] = "body"}
             ended == ~is_zip \/ (Script!Inflates(fed) /\ Script!Cardinality(inflated) = file.size)
  <2>1. /\ step = "close" /\ UNCHANGED <<file, opts, key, cipher, clean, unread, chunk, fed, is_zip>>
        /\ Script!e(ended, "done") /\ out' = IF ended \/ opts.force THEN out ELSE << >>
    BY <1>11 DEF Script!Close
  <2>2. Script!Cardinality(inflated) = Cardinality(inflated)
    BY DEF Script!Cardinality, Cardinality
  <2>3. inflated = {i \in 1..Len(out) : out[i][1] = "body"}
    BY <1>1, LenProperties
  <2>4. Clipped => ~ended
    BY <2>2, <2>3 DEF Clipped
  <2> HIDE DEF ended
  <2>5. step' \in {"done", "failed"} /\ (erred' <=> erred \/ ~ended)
    BY <2>1, LogsOrStops
  <2>6. ~erred' => out = Script!Body /\ out' = out
    BY <2>1, <2>4, <2>5 DEF SuccessInv
  <2>7. Script!Body' = Script!Body
    BY <2>1 DEF Script!Body
  <2>8. QED
    BY <2>5, <2>6, <2>7 DEF SuccessInv
<1>12. CASE UNCHANGED script
  <2>1. /\ UNCHANGED <<file, step, cipher, fed, is_zip, out, erred>>
        /\ Script!Body' = Script!Body
    BY <1>12 DEF script, Script!Body
  <2>2. QED
    BY <2>1 DEF SuccessInv, NothingFed, FedKept, Begins, Clipped
<1>13. QED
  BY <1>2, <1>3, <1>4, <1>5, <1>6, <1>8, <1>9, <1>10, <1>11, <1>12 DEF Script!Next

\* Unforced, an error ends the script; and what is read at once is written once.
WholeInv ==
    ~opts.force =>
        /\ step # "failed" => ~erred
        /\ opts.buffer = 0 =>
               step \notin {"loop", "foot", "trailer", "close"} /\ (step # "done" => out = << >>)

LEMMA Unforced ==
  ASSUME NEW ok, NEW next, Script!e(ok, next), ~opts.force, step' # "failed"
  PROVE  ok /\ step' = next /\ (erred' <=> erred)
BY DEF Script!e

LEMMA WholeInit == Script!Init => WholeInv
BY DEF Script!Init, Script!Start, WholeInv

LEMMA WholeNext ==
  ASSUME Script!TypeOK, WholeInv, [Script!Next]_script
  PROVE  WholeInv'
<1> USE DEF Script!given
<1>1. SUFFICES ASSUME ~opts.force'
               PROVE  /\ step' # "failed" => ~erred'
                      /\ opts.buffer' = 0 =>
                             /\ step' \notin {"loop", "foot", "trailer", "close"}
                             /\ step' # "done" => out' = << >>
  BY DEF WholeInv
<1>2. UNCHANGED <<file, opts, key>>
  BY DEF Script!Next, Script!parse_protobuf, Script!guess_offsets, Script!decrypt, Script!Verify,
         Script!Inflate, Script!Loop, Script!FootOrData, Script!Trailer, Script!Close, script
<1>3. /\ ~opts.force /\ (step # "failed" => ~erred)
      /\ opts.buffer = 0 =>
             step \notin {"loop", "foot", "trailer", "close"} /\ (step # "done" => out = << >>)
  BY <1>1, <1>2 DEF WholeInv
<1>4. CASE Script!parse_protobuf
  <2>1. step = "header" /\ step' \in {"guess", "open", "failed"} /\ out' = out
    BY <1>4, LogsOrStops DEF Script!parse_protobuf
  <2>2. step' # "failed" => (erred' <=> erred)
    BY <1>3, <1>4, Unforced DEF Script!parse_protobuf
  <2>3. QED
    BY <1>2, <1>3, <2>1, <2>2
<1>5. CASE Script!guess_offsets
  BY <1>2, <1>3, <1>5 DEF Script!guess_offsets
<1>6. CASE Script!decrypt
  BY <1>2, <1>3, <1>6 DEF Script!decrypt
<1>7. CASE Script!Verify
  <2>1. \E ok : Script!e(ok, "inflate")
    BY <1>7 DEF Script!Verify
  <2>2. step' \in {"inflate", "failed"} /\ (step' # "failed" => (erred' <=> erred))
    BY <1>3, <2>1, LogsOrStops, Unforced
  <2>3. step = "verify" /\ out' = out
    BY <1>7 DEF Script!Verify
  <2>4. QED
    BY <1>2, <1>3, <2>2, <2>3
<1>8. CASE Script!Inflate
  <2>1. step = "inflate" /\ \E ok, data : Script!e(ok, "done") /\ Script!Writes(ok, data)
    BY <1>8 DEF Script!Inflate
  <2>2. PICK ok, data : Script!e(ok, "done") /\ Script!Writes(ok, data)
    BY <2>1
  <2>3. step' \in {"done", "failed"} /\ (step' # "failed" => (erred' <=> erred))
        /\ (~ok => step' = "failed")
    BY <1>3, <2>2, LogsOrStops, Unforced
  <2>4. step' = "failed" => ~ok
    BY <1>3, <2>2 DEF Script!e
  <2>5. ~ok => out' = out
    BY <1>3, <2>2 DEF Script!Writes
  <2>6. QED
    BY <1>2, <1>3, <2>1, <2>3, <2>4, <2>5
<1>9. CASE Script!Loop
  <2>1. step = "loop" /\ \E new, next : next # "failed" /\ Script!Feed(new, TRUE, next)
    BY <1>9 DEF Script!Loop
  <2>2. step' # "failed" => (erred' <=> erred)
    BY <1>3, <2>1, Unforced DEF Script!Feed
  <2>3. QED
    BY <1>2, <1>3, <2>1, <2>2
<1>10. CASE Script!FootOrData
  <2>1. step = "foot" /\ (erred' = erred \/ \E new : Script!Feed(new, FALSE, "trailer"))
    BY <1>10 DEF Script!FootOrData
  <2>2. step' # "failed" => (erred' <=> erred)
    BY <1>3, <2>1, Unforced DEF Script!Feed
  <2>3. QED
    BY <1>2, <1>3, <2>1, <2>2
<1>11. CASE Script!Trailer
  <2>1. step = "trailer" /\ \E ok : Script!e(ok, "close")
    BY <1>11 DEF Script!Trailer
  <2>2. QED
    BY <1>2, <1>3, <2>1, Unforced
<1>12. CASE Script!Close
  <2>1. step = "close" /\ \E ok : Script!e(ok, "done")
    BY <1>12 DEF Script!Close
  <2>2. QED
    BY <1>2, <1>3, <2>1, Unforced
<1>13. CASE UNCHANGED script
  BY <1>3, <1>13 DEF script
<1>14. QED
  BY <1>4, <1>5, <1>6, <1>7, <1>8, <1>9, <1>10, <1>11, <1>12, <1>13 DEF Script!Next

LEMMA WholeIsWhole ==
  SuccessInv /\ WholeInv => Script!SuccessIsRight /\ Script!WholeOrNothing
BY DEF SuccessInv, WholeInv, Script!SuccessIsRight, Script!WholeOrNothing

----------------------------------------------------------------------------
(* The decryption: what is tried when offsets are guessed.                 *)

\* From strictly between the bounds, every offset is tried.
LEMMA AllAreTried ==
  ASSUME NEW n \in Nat, NEW n_min \in Nat, NEW n_max \in Nat, n_min < n, n < n_max,
         NEW x \in n_min..n_max
  PROVE  x \in Script!oscillate(n, n_min, n_max)
<1> DEFINE i == [k \in Nat |-> IF k % 2 = 0 THEN n + k \div 2 ELSE n - (k + 1) \div 2]
           bound(k) == IF k % 2 = 0 THEN i[k] = n_max ELSE i[k] \in {0, n_min}
           first(k) == bound(k) /\ \A j \in 0..(k - 1) : ~bound(j)
           stop == CHOOSE k \in 0..(2 * (n + n_max)) : first(k)
           side(b) == i[stop] = b /\ 2 * n # b
           down == n - n_min
           up == n_max - n
           end == IF down <= up THEN 2 * down - 1 ELSE 2 * up
<1>1. Script!oscillate(n, n_min, n_max) =
          {i[k] : k \in 0..(stop - 1)}
          \cup (IF side(n_min) THEN {n_min} \cup i[stop + 1]..n_max ELSE {})
          \cup (IF side(n_max) THEN {n_max} \cup n_min..i[stop + 1] ELSE {})
  BY DEF Script!oscillate
<1>2. \A j \in Nat : i[2 * j] = n + j /\ (2 * j) % 2 = 0
  BY Z3
<1>3. \A j \in Nat \ {0} : 2 * j - 1 \in Nat /\ i[2 * j - 1] = n - j /\ (2 * j - 1) % 2 = 1
  BY Z3
<1>4. \A k \in Nat : (\E j \in Nat : k = 2 * j) \/ (\E j \in Nat \ {0} : k = 2 * j - 1)
  <2>1. SUFFICES ASSUME NEW k \in Nat
                 PROVE  (\E j \in Nat : k = 2 * j) \/ (\E j \in Nat \ {0} : k = 2 * j - 1)
    OBVIOUS
  <2>2. /\ k \div 2 \in Nat /\ (k + 1) \div 2 \in Nat
        /\ k = 2 * (k \div 2) \/ k = 2 * ((k + 1) \div 2) - 1
    BY Z3
  <2>3. QED
    BY <2>2
<1> HIDE DEF i
<1>5. \A j \in Nat : bound(2 * j) <=> j = up
  BY <1>2
<1>6. \A j \in Nat \ {0} : bound(2 * j - 1) <=> j = down \/ j = n
  BY <1>3
<1>7. end \in 0..(2 * (n + n_max)) /\ end \in Nat
  OBVIOUS
<1> HIDE DEF bound
<1>8. first(end)
  <2>1. bound(end)
    <3>1. CASE down <= up
      <4>1. end = 2 * down - 1 /\ down \in Nat \ {0}
        BY <3>1
      <4>2. QED
        BY <1>6, <4>1
    <3>2. CASE ~(down <= up)
      <4>1. end = 2 * up /\ up \in Nat
        BY <3>2
      <4>2. QED
        BY <1>5, <4>1
    <3>3. QED
      BY <3>1, <3>2
  <2>2. ASSUME NEW j \in 0..(end - 1), bound(j) PROVE FALSE
    <3>1. CASE \E h \in Nat : j = 2 * h
      BY <1>5, <2>2, <3>1
    <3>2. CASE \E h \in Nat \ {0} : j = 2 * h - 1
      BY <1>6, <2>2, <3>2
    <3>3. j \in Nat
      BY <1>7
    <3>4. QED
      BY <1>4, <3>1, <3>2, <3>3
  <2>3. QED
    BY <2>1, <2>2
<1>9. stop \in 0..(2 * (n + n_max)) /\ first(stop)
  BY <1>7, <1>8
<1>10. stop = end
  <2>1. stop \in Nat
    BY <1>9
  <2>2. ~(end < stop)
    BY <1>7, <1>8, <1>9, <2>1
  <2>3. ~(stop < end)
    BY <1>7, <1>8, <1>9, <2>1
  <2>4. QED
    BY <1>7, <2>1, <2>2, <2>3
<1> HIDE DEF stop, first
<1>11. CASE down <= up
  <2>1. end = 2 * down - 1 /\ down \in Nat \ {0} /\ end + 1 = 2 * down
    BY <1>11
  <2>2. i[end] = n_min /\ i[end + 1] = n + down
    BY <1>2, <1>3, <2>1
  <2>3. side(n_min)
    BY <1>10, <2>2
  <2>4. CASE x = n_min \/ x \in (n + down)..n_max
    BY <1>1, <1>10, <2>2, <2>3, <2>4
  <2>5. CASE x \in (n_min + 1)..n
    <3>1. PICK j \in Nat : j = n - x
      BY <2>5
    <3>2. CASE j = 0
      <4>1. (2 * 0 \in 0..(end - 1) /\ i[2 * 0] = x) \/ end = 0
        BY <1>2, <2>1, <3>1, <3>2
      <4>2. CASE end = 1
        BY <1>1, <1>2, <1>10, <2>1, <3>1, <3>2, <4>2
      <4>3. QED
        BY <1>1, <1>10, <2>1, <4>1, <4>2
    <3>3. CASE j # 0
      <4>1. 2 * j - 1 \in 0..(end - 1) /\ i[2 * j - 1] = x
        BY <1>3, <2>1, <2>5, <3>1, <3>3
      <4>2. QED
        BY <1>1, <1>10, <4>1
    <3>4. QED
      BY <3>2, <3>3
  <2>6. CASE x \in (n + 1)..(n + down - 1)
    <3>1. PICK j \in Nat : j = x - n
      BY <2>6
    <3>2. 2 * j \in 0..(end - 1) /\ i[2 * j] = x
      BY <1>2, <2>1, <2>6, <3>1
    <3>3. QED
      BY <1>1, <1>10, <3>2
  <2>7. QED
    BY <2>1, <2>4, <2>5, <2>6
<1>12. CASE ~(down <= up)
  <2>1. end = 2 * up /\ up \in Nat \ {0} /\ end + 1 = 2 * (up + 1) - 1 /\ up + 1 \in Nat \ {0}
    BY <1>12
  <2>2. i[end] = n_max /\ i[end + 1] = n - (up + 1)
    <3>1. i[2 * up] = n + up
      BY <1>2, <2>1
    <3>2. i[2 * (up + 1) - 1] = n - (up + 1)
      BY <1>3, <2>1
    <3>3. QED
      BY <2>1, <3>1, <3>2
  <2>3. side(n_max)
    BY <1>10, <1>12, <2>2
  <2>4. CASE x = n_max \/ x \in n_min..(n - (up + 1))
    BY <1>1, <1>10, <2>2, <2>3, <2>4
  <2>5. CASE x \in (n - up)..(n - 1)
    <3>1. PICK j \in Nat \ {0} : j = n - x
      BY <2>5
    <3>2. 2 * j - 1 \in 0..(end - 1) /\ i[2 * j - 1] = x
      BY <1>3, <2>1, <2>5, <3>1
    <3>3. QED
      BY <1>1, <1>10, <3>2
  <2>6. CASE x \in n..(n_max - 1)
    <3>1. PICK j \in Nat : j = x - n
      BY <2>6
    <3>2. 2 * j \in 0..(end - 1)
      BY <2>1, <2>6, <3>1
    <3>3. i[2 * j] = x
      <4>1. i[2 * j] = n + j
        BY <1>2
      <4>2. x \in Nat /\ n + j = x
        BY <2>6, <3>1
      <4>3. QED
        BY <4>1, <4>2
    <3>4. QED
      BY <1>1, <1>10, <3>2, <3>3
  <2>7. QED
    BY <2>1, <2>4, <2>5, <2>6
<1>13. QED
  BY <1>11, <1>12

----------------------------------------------------------------------------
(* The decryption: a file as the phone wrote it is read.                   *)

\* A sequence that is in the file behind its first units.
Part(s, from) == \A i \in 1..Len(s) : s[i] = Script!Written(file)[from + i]

LEMMA PartPieces ==
  ASSUME NEW s \in Seq(Script!Unit), NEW from \in Nat, NEW n \in Nat, Part(s, from)
  PROVE  /\ Part(Script!First(s, n), from)
         /\ Part(Script!Without(s, n), from)
         /\ Part(Script!Rest(s, n), from + n)
         /\ n <= Len(s) => Part(Script!Ending(s, n), from + (Len(s) - n))
<1>1. Len(s) \in Nat
  BY LenProperties
<1>2. Part(Script!First(s, n), from)
  <2>1. /\ Len(Script!First(s, n)) = IF n < Len(s) THEN n ELSE Len(s)
        /\ \A i \in 1..Len(Script!First(s, n)) : Script!First(s, n)[i] = s[i]
    BY Pieces
  <2>2. \A i \in 1..Len(Script!First(s, n)) : i \in 1..Len(s)
    BY <1>1, <2>1
  <2>3. QED
    BY <2>1, <2>2 DEF Part
<1>3. Part(Script!Without(s, n), from)
  <2>1. /\ Len(Script!Without(s, n)) = IF n < Len(s) THEN Len(s) - n ELSE 0
        /\ \A i \in 1..Len(Script!Without(s, n)) : Script!Without(s, n)[i] = s[i]
    BY Pieces
  <2>2. \A i \in 1..Len(Script!Without(s, n)) : i \in 1..Len(s)
    BY <1>1, <2>1
  <2>3. QED
    BY <2>1, <2>2 DEF Part
<1>4. Part(Script!Rest(s, n), from + n)
  <2>1. /\ Len(Script!Rest(s, n)) = IF n < Len(s) THEN Len(s) - n ELSE 0
        /\ \A i \in 1..Len(Script!Rest(s, n)) : Script!Rest(s, n)[i] = s[n + i]
    BY Pieces
  <2>2. \A i \in 1..Len(Script!Rest(s, n)) : n + i \in 1..Len(s) /\ from + (n + i) = (from + n) + i
    BY <1>1, <2>1
  <2>3. ASSUME NEW i \in 1..Len(Script!Rest(s, n))
        PROVE  Script!Rest(s, n)[i] = Script!Written(file)[(from + n) + i]
    <3>1. s[n + i] = Script!Written(file)[from + (n + i)]
      BY <2>2 DEF Part
    <3>2. QED
      BY <2>1, <2>2, <3>1
  <2>4. QED
    BY <2>3 DEF Part
<1>5. ASSUME n <= Len(s) PROVE Part(Script!Ending(s, n), from + (Len(s) - n))
  <2>1. /\ Len(Script!Ending(s, n)) = IF n < Len(s) THEN n ELSE Len(s)
        /\ \A i \in 1..Len(Script!Ending(s, n)) :
               Script!Ending(s, n)[i] = s[IF n < Len(s) THEN Len(s) - n + i ELSE i]
    BY Pieces
  <2>2. Len(Script!Ending(s, n)) = n
    BY <1>1, <1>5, <2>1
  <2>3. ASSUME NEW i \in 1..n
        PROVE  Script!Ending(s, n)[i] = Script!Written(file)[(from + (Len(s) - n)) + i]
    <3>1. /\ (IF n < Len(s) THEN Len(s) - n + i ELSE i) = (Len(s) - n) + i
          /\ (Len(s) - n) + i \in 1..Len(s)
          /\ from + ((Len(s) - n) + i) = (from + (Len(s) - n)) + i
      BY <1>1, <1>5
    <3>2. s[(Len(s) - n) + i] = Script!Written(file)[from + ((Len(s) - n) + i)]
      BY <3>1 DEF Part
    <3>3. QED
      BY <2>1, <2>2, <3>1, <3>2
  <2>4. QED
    BY <2>2, <2>3 DEF Part
<1>6. QED
  BY <1>2, <1>3, <1>4, <1>5

LEMMA PartConcat ==
  ASSUME NEW s \in Seq(Script!Unit), NEW t \in Seq(Script!Unit), NEW from \in Nat,
         Part(s, from), Part(t, from + Len(s))
  PROVE  Part(s \o t, from)
<1>1. Len(s) \in Nat /\ Len(t) \in Nat
  BY LenProperties
<1>2. /\ Len(s \o t) = Len(s) + Len(t)
      /\ \A i \in 1..(Len(s) + Len(t)) : (s \o t)[i] = IF i <= Len(s) THEN s[i] ELSE t[i - Len(s)]
  BY ConcatProperties
<1>3. ASSUME NEW i \in 1..(Len(s) + Len(t)) PROVE (s \o t)[i] = Script!Written(file)[from + i]
  <2>1. CASE i <= Len(s)
    <3>1. i \in 1..Len(s)
      BY <1>1, <2>1
    <3>2. QED
      BY <1>2, <2>1, <3>1 DEF Part
  <2>2. CASE ~(i <= Len(s))
    <3>1. i - Len(s) \in 1..Len(t) /\ (from + Len(s)) + (i - Len(s)) = from + i
      BY <1>1, <2>2
    <3>2. t[i - Len(s)] = Script!Written(file)[(from + Len(s)) + (i - Len(s))]
      BY <3>1 DEF Part
    <3>3. QED
      BY <1>2, <2>2, <3>1, <3>2
  <2>3. QED
    BY <2>1, <2>2
<1>4. QED
  BY <1>2, <1>3 DEF Part

\* The parts of a file by their places.
LEMMA PartNames ==
  ASSUME Script!TypeOK, NEW s \in Seq(Script!Unit)
  PROVE  /\ Part(s, 0) /\ Len(s) <= file.size => Begins(s)
         /\ Part(s, file.size) /\ Len(s) = Tag => s = Script!Units("tag", Tag)
         /\ Part(s, file.size + Tag) /\ Len(s) = Tag /\ ~file.multi => s = Script!Units("sum", Tag)
<1>1. Len(s) \in Nat /\ file \in Script!Files /\ file.size \in Nat /\ Tag \in Nat
  BY ScriptParts, LenProperties, FileOf, ToolConstants
<1>2. /\ \A i \in 1..file.size : Script!Written(file)[i] = <<"body", i>>
      /\ \A i \in 1..Tag : Script!Written(file)[file.size + i] = <<"tag", i>>
      /\ ~file.multi => \A i \in 1..Tag : Script!Written(file)[file.size + Tag + i] = <<"sum", i>>
  BY <1>1, WrittenUnits
<1>3. ASSUME Part(s, 0), Len(s) <= file.size PROVE Begins(s)
  <2>1. \A i \in 1..Len(s) : i \in 1..file.size /\ 0 + i = i
    BY <1>1, <1>3
  <2>2. \A i \in 1..Len(s) : s[i] = Script!Written(file)[0 + i]
    BY <1>3 DEF Part
  <2>3. \A i \in 1..Len(s) : s[i] = <<"body", i>>
    BY <1>2, <2>1, <2>2
  <2>4. QED
    BY <1>3, <2>3 DEF Begins
<1>4. ASSUME Part(s, file.size), Len(s) = Tag PROVE s = Script!Units("tag", Tag)
  <2>1. /\ Script!Units("tag", Tag) \in Seq(Script!Unit) /\ Len(Script!Units("tag", Tag)) = Tag
        /\ \A i \in 1..Tag : Script!Units("tag", Tag)[i] = <<"tag", i>>
    BY <1>1, UnitsOf
  <2>2. \A i \in 1..Len(s) : s[i] = <<"tag", i>>
    BY <1>2, <1>4 DEF Part
  <2>3. QED
    BY <1>4, <2>1, <2>2, SeqEqual
<1>5. ASSUME Part(s, file.size + Tag), Len(s) = Tag, ~file.multi PROVE s = Script!Units("sum", Tag)
  <2>1. /\ Script!Units("sum", Tag) \in Seq(Script!Unit) /\ Len(Script!Units("sum", Tag)) = Tag
        /\ \A i \in 1..Tag : Script!Units("sum", Tag)[i] = <<"sum", i>>
    BY <1>1, UnitsOf
  <2>2. \A i \in 1..Len(s) : s[i] = <<"sum", i>>
    BY <1>2, <1>5 DEF Part
  <2>3. QED
    BY <1>5, <2>1, <2>2, SeqEqual
<1>6. QED
  BY <1>3, <1>4, <1>5

LEMMA TagIsNoSum == Script!Units("tag", Tag) # Script!Units("sum", Tag)
<1>1. Tag \in Nat \ {0} /\ Tag \in Nat /\ 1 \in 1..Tag
  BY ToolConstants
<1>2. Script!Units("tag", Tag)[1] = <<"tag", 1>>
  BY <1>1, UnitsOf
<1>3. Script!Units("sum", Tag)[1] = <<"sum", 1>>
  BY <1>1, UnitsOf
<1>4. QED
  BY <1>2, <1>3

LEMMA WrittenLength ==
  ASSUME Script!TypeOK
  PROVE  /\ Script!Written(file) \in Seq(Script!Unit) /\ Len(Script!Written(file)) \in Nat
         /\ file.multi \in BOOLEAN /\ file.foot \in BOOLEAN /\ (file.foot => ~file.multi)
         /\ file.foot => Len(Script!Written(file)) = file.size + 2 * Tag + Foot
         /\ ~file.foot /\ ~file.multi => Len(Script!Written(file)) = file.size + 2 * Tag
         /\ file.multi => Len(Script!Written(file)) = file.size + Tag
         /\ Part(Script!Written(file), 0)
<1>1. file \in Script!Files /\ file.size \in Nat /\ Tag \in Nat /\ Foot \in Nat
  BY ScriptParts, FileOf, ToolConstants
<1>2. file.multi \in BOOLEAN /\ file.foot \in BOOLEAN /\ (file.foot => ~file.multi)
  BY <1>1, FileOf
<1>3. /\ Script!Written(file) \in Seq(Script!Unit)
      /\ Len(Script!Written(file)) =
             file.size + Tag + (IF file.multi THEN 0 ELSE Tag) + (IF file.foot THEN Foot ELSE 0)
  BY <1>1, WrittenUnits
<1>4. Part(Script!Written(file), 0)
  <2>1. Len(Script!Written(file)) \in Nat
    BY <1>3, LenProperties
  <2>2. \A i \in 1..Len(Script!Written(file)) : 0 + i = i
    BY <2>1
  <2>3. QED
    BY <2>2 DEF Part
<1>5. /\ file.foot => Len(Script!Written(file)) = file.size + 2 * Tag + Foot
      /\ ~file.foot /\ ~file.multi => Len(Script!Written(file)) = file.size + 2 * Tag
      /\ file.multi => Len(Script!Written(file)) = file.size + Tag
  BY <1>1, <1>2, <1>3
<1>6. QED
  BY <1>2, <1>3, <1>4, <1>5, LenProperties

\* An end looks like a phone number if it is one.
LEMMA JidOrNot ==
  ASSUME Script!TypeOK, Script!Regular, NEW s \in Seq(Script!Unit), NEW from \in Nat, Part(s, from),
         Len(s) # 0, from + Len(s) = Len(Script!Written(file))
  PROVE  Script!HasJid(s) <=> file.foot
<1>1. Len(s) \in Nat \ {0} /\ Len(s) \in 1..Len(s)
  BY LenProperties
<1>2. s[Len(s)] = Script!Written(file)[Len(Script!Written(file))]
  BY <1>1 DEF Part
<1>3. s # << >>
  BY EmptySeq
<1>4. file.looks = file.foot
  BY DEF Script!Regular
<1>5. QED
  BY <1>2, <1>3, <1>4 DEF Script!HasJid

\* What has been fed, what is held back and what is unread lie side by side in the
\* file, and the trailer is held back.
Streams ==
    /\ opts.buffer # 0 /\ Part(fed, 0) /\ Part(chunk, Len(fed))
    /\ file.zip /\ Len(fed) > 0 => ~is_zip
LoopInv ==
    /\ Streams /\ Part(unread, Len(fed) + Len(chunk))
    /\ Len(chunk) > Script!TrailerLength
    /\ Len(fed) + Len(chunk) + Len(unread) = Len(Script!Written(file))
FootInv ==
    /\ Streams /\ Len(fed) > 0 /\ Len(chunk) = Script!TrailerLength
    /\ Len(fed) + Len(chunk) = Len(Script!Written(file))
TrailerInv ==
    /\ Streams /\ Len(fed) > 0 /\ Len(chunk) = 2 * Tag
    /\ Len(fed) + (IF file.multi THEN Tag ELSE 0) = file.size
IntactInv ==
    Script!Regular =>
        /\ step # "failed" /\ ~erred /\ clean
        /\ step \notin {"header", "guess"} => cipher = "right"
        /\ step = "guess" => opts.no_protobuf
        /\ step = "verify" => unread = Script!Written(file)
        /\ step = "loop" => LoopInv
        /\ step = "foot" => FootInv
        /\ step = "trailer" => TrailerInv
        /\ step = "close" => IF file.zip THEN ~is_zip ELSE out = Script!Body

LEMMA IntactInit == Script!Init => IntactInv
<1>1. Script!Init => step = "header" /\ ~erred /\ clean
  BY DEF Script!Init, Script!Start
<1>2. QED
  BY <1>1 DEF IntactInv

\* Nothing that a run is given changes.
LEMMA GivenStays ==
  ASSUME [Script!Next]_script
  PROVE  /\ UNCHANGED <<file, opts, key>> /\ (Script!Regular' <=> Script!Regular)
         /\ Script!Written(file)' = Script!Written(file) /\ Script!Body' = Script!Body
<1>1. UNCHANGED <<file, opts, key>>
  BY DEF Script!Next, Script!parse_protobuf, Script!guess_offsets, Script!decrypt, Script!Verify,
         Script!Inflate, Script!Loop, Script!FootOrData, Script!Trailer, Script!Close, script,
         Script!given
<1>2. QED
  BY <1>1 DEF Script!Regular, Script!Buffer, Script!Body

LEMMA Lengths ==
  ASSUME Script!TypeOK, Script!Regular
  PROVE  /\ Tag \in Nat \ {0} /\ Foot \in Nat \ {0} /\ Script!TrailerLength = 2 * Tag + Foot
         /\ Len(Script!Written(file)) \in Nat /\ file.size \in Nat \ {0} /\ Script!Buffer \in Nat
         /\ Len(Script!Written(file)) - Script!TrailerLength <= file.size
         /\ opts.buffer # 0 => /\ Script!Buffer > Script!TrailerLength
                               /\ Script!Buffer <= Len(Script!Written(file))
                               /\ file.multi => file.zip
         /\ Len(unread) \in Nat /\ Len(chunk) \in Nat /\ Len(fed) \in Nat
<1>1. /\ Tag \in Nat \ {0} /\ Foot \in Nat \ {0} /\ Script!TrailerLength = 2 * Tag + Foot
      /\ Len(Script!Written(file)) \in Nat /\ file.size \in Nat \ {0} /\ Script!Buffer \in Nat
      /\ Len(unread) \in Nat /\ Len(chunk) \in Nat /\ Len(fed) \in Nat
  BY ToolConstants, WrittenLength, BodyUnits, BufferIsNat, ScriptParts
<1>2. Len(Script!Written(file)) - Script!TrailerLength <= file.size
  <2>1. CASE file.foot
    BY <1>1, <2>1, WrittenLength
  <2>2. CASE ~file.foot /\ ~file.multi
    BY <1>1, <2>2, WrittenLength
  <2>3. CASE file.multi
    BY <1>1, <2>3, WrittenLength
  <2>4. QED
    BY <2>1, <2>2, <2>3
<1>3. QED
  BY <1>1, <1>2 DEF Script!Regular

\* The header can be read, or the offsets guessed.
LEMMA KeyIsFound ==
  ASSUME Script!TypeOK, SuccessInv, IntactInv, [Script!Next]_script, Script!Regular,
         Script!parse_protobuf \/ Script!guess_offsets
  PROVE  IntactInv'
<1>1. /\ step # "failed" /\ ~erred /\ clean /\ (step = "guess" => opts.no_protobuf)
      /\ key.fits /\ erred \in BOOLEAN /\ UNCHANGED opts
      /\ IF opts.no_protobuf THEN ~file.short /\ file.iv + IvLength < DEFAULT_DATA_OFFSET
         ELSE file.proto # "none"
  BY GivenStays DEF IntactInv, Script!Regular, Script!TypeOK
<1>2. /\ key.fits => file.proto # (IF key.kind = "crypt14" THEN "c15" ELSE "c14")
      /\ key.kind \in {"crypt14", "crypt15"}
  BY DEF Script!TypeOK, Script!Keys
<1>3. CASE Script!parse_protobuf
  <2>1. \/ opts.no_protobuf /\ step' = "guess" /\ UNCHANGED <<clean, erred>>
        \/ step' = "open" /\ cipher' = "right" /\ UNCHANGED <<clean, erred>>
    BY <1>1, <1>2, <1>3 DEF Script!parse_protobuf, Script!e
  <2>2. QED
    BY <1>1, <2>1 DEF IntactInv
<1>4. CASE Script!guess_offsets
  <2>1. step = "guess" /\ UNCHANGED <<clean, erred>>
    BY <1>4 DEF Script!guess_offsets
  <2>2. /\ file.iv \in 0..LastOffset /\ file.data \in 0..LastOffset /\ file.data >= file.iv + IvLength
        /\ DEFAULT_IV_OFFSET \in 1..(LastOffset - 1) /\ DEFAULT_DATA_OFFSET \in 1..(LastOffset - 1)
        /\ IvLength \in Nat /\ LastOffset \in Nat
    BY ScriptParts, FileOf, ToolConstants
  <2>3. ~file.short /\ file.iv + IvLength < DEFAULT_DATA_OFFSET
    BY <1>1, <2>1
  <2>4. file.iv \in Script!oscillate(DEFAULT_IV_OFFSET, 0, LastOffset)
    BY <2>2, AllAreTried
  <2>5. file.data \in Script!oscillate(DEFAULT_DATA_OFFSET, file.iv + IvLength, LastOffset)
    <3>1. /\ DEFAULT_DATA_OFFSET \in Nat /\ file.iv + IvLength \in Nat
          /\ DEFAULT_DATA_OFFSET < LastOffset /\ file.data \in (file.iv + IvLength)..LastOffset
      BY <2>2
    <3>2. QED
      BY <2>2, <2>3, <3>1, AllAreTried
  <2>6. Script!find_data_offset(file.iv)
    BY <2>5 DEF Script!find_data_offset
  <2>7. step' = "open" /\ cipher' = "right"
    BY <1>1, <1>4, <2>3, <2>4, <2>6 DEF Script!guess_offsets
  <2>8. QED
    BY <1>1, <2>1, <2>7 DEF IntactInv
<1>5. QED
  BY <1>3, <1>4

\* The first read, or all of it.
LEMMA FileIsOpened ==
  ASSUME Script!TypeOK, SuccessInv, IntactInv, [Script!Next]_script, Script!Regular, Script!decrypt
  PROVE  IntactInv'
<1> DEFINE all == Script!Written(file)
<1>1. /\ step = "open" /\ ~erred /\ clean /\ cipher = "right" /\ NothingFed
      /\ UNCHANGED <<file, opts, cipher, clean, fed, is_zip, out, erred>>
  BY DEF IntactInv, SuccessInv, Script!decrypt, Script!given
<1>2. /\ all \in Seq(Script!Unit) /\ Part(all, 0) /\ Script!Stored(file) = all
      /\ Script!Written(file)' = all
  BY GivenStays, WrittenLength, StoredUnits, ScriptParts DEF Script!Regular
<1>3. IF opts.buffer = 0
      THEN unread' = all /\ step' = "verify"
      ELSE /\ chunk' = Script!First(all, Script!Buffer) /\ unread' = Script!Rest(all, Script!Buffer)
           /\ step' = IF Len(all) < Script!Buffer THEN "failed" ELSE "loop"
  BY <1>2 DEF Script!decrypt
<1> HIDE DEF all
<1>4. CASE opts.buffer = 0
  BY <1>1, <1>2, <1>3, <1>4 DEF IntactInv
<1>5. CASE opts.buffer # 0
  <2>1. /\ Script!Buffer \in Nat /\ Len(all) \in Nat /\ Script!Buffer > Script!TrailerLength
        /\ Script!Buffer <= Len(all) /\ Script!TrailerLength \in Nat
    BY <1>5, Lengths DEF all
  <2>2. /\ Len(chunk') = IF Script!Buffer < Len(all) THEN Script!Buffer ELSE Len(all)
        /\ Len(unread') = IF Script!Buffer < Len(all) THEN Len(all) - Script!Buffer ELSE 0
    BY <1>2, <1>3, <1>5, <2>1, Pieces
  <2>3. Len(chunk') = Script!Buffer /\ Len(unread') = Len(all) - Script!Buffer
    BY <2>1, <2>2
  <2>4. /\ Part(Script!First(all, Script!Buffer), 0)
        /\ Part(Script!Rest(all, Script!Buffer), 0 + Script!Buffer)
    BY <1>2, <2>1, PartPieces
  <2>5. fed' = << >> /\ Len(<< >>) = 0
    BY <1>1, EmptySeq DEF NothingFed
  <2>6. 0 + Script!Buffer = Script!Buffer /\ Len(fed') + Len(chunk') = Script!Buffer
        /\ Len(fed') + Len(chunk') + Len(unread') = Len(all) /\ ~(Len(fed') > 0)
    BY <2>1, <2>3, <2>5
  <2>7. Part(fed, 0)'
    BY <2>5 DEF Part
  <2>8. Part(chunk, Len(fed))'
    BY <1>1, <1>3, <1>5, <2>1, <2>4, <2>5 DEF Part
  <2>9. Part(unread, Len(fed) + Len(chunk))'
    BY <1>1, <1>3, <1>5, <2>4, <2>6 DEF Part
  <2>10. LoopInv'
    BY <1>1, <1>2, <1>5, <2>1, <2>3, <2>6, <2>7, <2>8, <2>9 DEF LoopInv, Streams, Script!TrailerLength
  <2>11. step' = "loop"
    BY <1>3, <1>5, <2>1
  <2>12. QED
    BY <1>1, <2>10, <2>11 DEF IntactInv
<1>6. QED
  BY <1>4, <1>5

\* The whole file is taken apart.
LEMMA FileIsVerified ==
  ASSUME Script!TypeOK, SuccessInv, IntactInv, [Script!Next]_script, Script!Regular, Script!Verify
  PROVE  IntactInv'
<1> DEFINE all == IF Script!HasJid(unread) THEN Script!Without(unread, Foot) ELSE unread
           sum == Script!Ending(all, Tag)
           most == Script!Without(all, Tag)
           tag == Script!Ending(most, Tag)
           body == Script!Without(all, 2 * Tag)
           single == Script!ChecksumFits(body, tag, sum)
           ok == IF single THEN Script!Verifies(body, tag) ELSE Script!Verifies(fed', sum)
           m == Len(Script!Written(file))
<1>1. /\ step = "verify" /\ unread = Script!Written(file) /\ ~erred /\ clean = TRUE /\ cipher = "right"
      /\ UNCHANGED <<file, opts, key, cipher, clean, unread, chunk, is_zip, out>>
      /\ fed' = IF single THEN body ELSE body \o tag
      /\ Script!e(ok, "inflate")
  BY DEF IntactInv, Script!Verify, Script!given, Script!TypeOK
<1>2. /\ Tag \in Nat \ {0} /\ Foot \in Nat \ {0} /\ file.size \in Nat \ {0} /\ m \in Nat /\ 2 * Tag \in Nat
      /\ Len(unread) = m /\ m # 0 /\ Part(unread, 0) /\ unread \in Seq(Script!Unit) /\ 0 \in Nat
      /\ file.multi \in BOOLEAN /\ file.foot \in BOOLEAN /\ (file.foot => ~file.multi)
      /\ file.foot => m = file.size + 2 * Tag + Foot
      /\ ~file.foot /\ ~file.multi => m = file.size + 2 * Tag
      /\ file.multi => m = file.size + Tag
  <2> HIDE DEF ok, single
  <2>1. /\ Tag \in Nat \ {0} /\ Foot \in Nat \ {0} /\ file.size \in Nat \ {0} /\ m \in Nat
    BY Lengths
  <2>2. /\ Script!Written(file) \in Seq(Script!Unit) /\ Part(Script!Written(file), 0)
        /\ file.multi \in BOOLEAN /\ file.foot \in BOOLEAN /\ (file.foot => ~file.multi)
        /\ file.foot => m = file.size + 2 * Tag + Foot
        /\ ~file.foot /\ ~file.multi => m = file.size + 2 * Tag
        /\ file.multi => m = file.size + Tag
    BY WrittenLength
  <2>3. Len(unread) = m /\ Part(unread, 0) /\ unread \in Seq(Script!Unit)
    BY <1>1, <2>2
  <2> HIDE DEF m
  <2>4. m # 0 /\ 2 * Tag \in Nat /\ 0 \in Nat
    BY <2>1, <2>2
  <2>5. QED
    BY <2>1, <2>2, <2>3, <2>4
<1>3. Script!HasJid(unread) <=> file.foot
  BY <1>2, JidOrNot
<1>4. /\ all \in Seq(Script!Unit) /\ Part(all, 0)
      /\ Len(all) = IF file.multi THEN file.size + Tag ELSE file.size + 2 * Tag
  <2>1. CASE file.foot
    <3>1. /\ Script!Without(unread, Foot) \in Seq(Script!Unit)
          /\ Len(Script!Without(unread, Foot)) = IF Foot < m THEN m - Foot ELSE 0
          /\ Part(Script!Without(unread, Foot), 0)
      <4>1. Part(Script!Without(unread, Foot), 0)
        BY <1>2, PartPieces
      <4>2. QED
        BY <1>2, <4>1, Pieces
    <3>2. Foot < m /\ m - Foot = file.size + 2 * Tag
      BY <1>2, <2>1
    <3>3. QED
      BY <1>2, <1>3, <2>1, <3>1, <3>2
  <2>2. CASE ~file.foot
    BY <1>2, <1>3, <2>2
  <2>3. QED
    BY <1>2, <2>1, <2>2
<1> HIDE DEF all
<1>5. /\ sum \in Seq(Script!Unit) /\ Len(sum) = Tag /\ Part(sum, Len(all) - Tag)
      /\ most \in Seq(Script!Unit) /\ Len(most) = Len(all) - Tag /\ Part(most, 0)
  <2>1. Len(all) \in Nat /\ Tag < Len(all) /\ Tag <= Len(all) /\ 0 + (Len(all) - Tag) = Len(all) - Tag
    BY <1>2, <1>4
  <2>2. sum \in Seq(Script!Unit) /\ Len(sum) = Tag
    BY <1>2, <1>4, <2>1, Pieces
  <2>3. Part(sum, 0 + (Len(all) - Tag))
    BY <1>2, <1>4, <2>1, PartPieces
  <2>4. most \in Seq(Script!Unit) /\ Len(most) = Len(all) - Tag
    BY <1>2, <1>4, <2>1, Pieces
  <2>5. Part(most, 0)
    BY <1>2, <1>4, PartPieces
  <2>6. QED
    BY <2>1, <2>2, <2>3, <2>4, <2>5
<1>6. /\ body \in Seq(Script!Unit) /\ Part(body, 0)
      /\ Len(body) = IF 2 * Tag < Len(all) THEN Len(all) - 2 * Tag ELSE 0
  <2>1. Part(body, 0)
    BY <1>2, <1>4, PartPieces
  <2>2. QED
    BY <1>2, <1>4, <2>1, Pieces
<1> HIDE DEF most, sum, body
<1>7. /\ tag \in Seq(Script!Unit) /\ Len(tag) = IF Tag < Len(most) THEN Tag ELSE Len(most)
      /\ Tag <= Len(most) => Part(tag, 0 + (Len(most) - Tag))
      /\ ~(Tag < Len(most)) => Part(tag, 0)
  <2>1. /\ tag \in Seq(Script!Unit) /\ Len(tag) = IF Tag < Len(most) THEN Tag ELSE Len(most)
        /\ \A i \in 1..Len(tag) : tag[i] = most[IF Tag < Len(most) THEN Len(most) - Tag + i ELSE i]
    <3>1. Tag \in Nat /\ most \in Seq(Script!Unit)
      BY <1>2, <1>5
    <3>2. QED
      BY <3>1, Pieces
  <2>2. Tag <= Len(most) => Part(tag, 0 + (Len(most) - Tag))
    <3>1. Tag \in Nat /\ 0 \in Nat
      BY <1>2
    <3>2. QED
      BY <1>5, <3>1, PartPieces
  <2>3. ~(Tag < Len(most)) => Part(tag, 0)
    BY <1>5, <2>1 DEF Part
  <2>4. QED
    BY <2>1, <2>2, <2>3
<1> HIDE DEF tag
<1>8. ok
  <2>1. CASE ~file.multi
    <3>1. /\ Len(all) - Tag = file.size + Tag /\ 0 + (Len(most) - Tag) = file.size
          /\ Tag <= Len(most) /\ Len(tag) = Tag /\ Len(body) = file.size
      BY <1>2, <1>4, <1>5, <1>6, <1>7, <2>1
    <3>2. sum = Script!Units("sum", Tag)
      BY <1>5, <2>1, <3>1, PartNames
    <3>3. tag = Script!Units("tag", Tag)
      BY <1>7, <3>1, PartNames
    <3>4. body = Script!Body
      <4>1. Len(body) <= file.size
        BY <1>2, <3>1
      <4>2. Begins(body)
        BY <1>6, <4>1, PartNames
      <4>3. QED
        BY <1>6, <3>1, <4>2, BodyUnits
    <3>5. QED
      BY <1>1, <3>2, <3>3, <3>4 DEF Script!ChecksumFits, Script!Verifies
  <2>2. CASE file.multi
    <3>1. Len(all) - Tag = file.size /\ Len(most) = file.size
      BY <1>2, <1>4, <1>5, <2>2
    <3>2. sum = Script!Units("tag", Tag)
      BY <1>5, <3>1, PartNames
    <3>3. ~single
      BY <3>2, TagIsNoSum DEF Script!ChecksumFits
    <3>4. Part(tag, 0 + Len(body)) /\ Len(body) + Len(tag) = file.size
      <4>1. CASE Tag < file.size
        <5>1. Len(all) = file.size + Tag /\ Len(most) = file.size
          BY <1>4, <2>2, <3>1
        <5>2. 2 * Tag < Len(all) /\ Len(all) - 2 * Tag = file.size - Tag
          BY <1>2, <4>1, <5>1
        <5>3. Len(body) = file.size - Tag /\ Len(tag) = Tag
          BY <1>6, <1>7, <4>1, <5>1, <5>2
        <5>4. Tag <= Len(most)
          BY <1>2, <4>1, <5>1
        <5>5. 0 + (Len(most) - Tag) = 0 + Len(body) /\ Len(body) + Len(tag) = file.size
          BY <1>2, <5>1, <5>3
        <5>6. QED
          BY <1>7, <5>4, <5>5
      <4>2. CASE ~(Tag < file.size)
        BY <1>2, <1>4, <1>6, <1>7, <2>2, <3>1, <4>2
      <4>3. QED
        BY <4>1, <4>2
    <3>5. body \o tag = Script!Body
      <4>1. body \o tag \in Seq(Script!Unit) /\ Len(body \o tag) = file.size
        BY <1>6, <1>7, <3>4, ConcatProperties
      <4>2. Part(body \o tag, 0)
        BY <1>2, <1>6, <1>7, <3>4, PartConcat
      <4>3. Len(body \o tag) <= file.size
        BY <1>2, <4>1
      <4>4. QED
        BY <4>1, <4>2, <4>3, PartNames, BodyUnits
    <3>6. QED
      BY <1>1, <3>2, <3>3, <3>5 DEF Script!Verifies
  <2>3. QED
    BY <2>1, <2>2
<1> HIDE DEF ok
<1>9. step' = "inflate" /\ (erred' <=> erred)
  BY <1>1, <1>8, LogsOrStops
<1>10. QED
  BY <1>1, <1>9 DEF IntactInv

\* The output can be read.
LEMMA FileIsInflated ==
  ASSUME Script!TypeOK, SuccessInv, IntactInv, [Script!Next]_script, Script!Regular, Script!Inflate
  PROVE  IntactInv'
<1> DEFINE plain == Script!Plain(fed, 0)
           ok == IF Script!Inflates(fed) THEN Len(fed) >= file.size
                 ELSE Script!test_decompression(plain)
<1>1. /\ step = "inflate" /\ ~erred /\ clean /\ cipher = "right" /\ fed = Script!Body
      /\ Script!e(ok, "done") /\ UNCHANGED <<clean, cipher>>
  BY DEF IntactInv, SuccessInv, Script!Inflate
<1>2. /\ file.size \in Nat \ {0} /\ fed \in Seq(Script!Unit) /\ Len(fed) = file.size /\ Begins(fed)
      /\ \A i \in 1..file.size : fed[i] = <<"body", i>>
  BY <1>1, BodyUnits
<1>3. Script!Inflates(fed) <=> ~file.zip
  BY <1>1, <1>2, BeginsInflates
<1>4. file.zip => Script!test_decompression(plain)
  <2>1. SUFFICES ASSUME file.zip PROVE Script!test_decompression(plain)
    OBVIOUS
  <2>2. \A i \in 1..Len(fed) : fed[i] = <<"body", 0 + i>>
    BY <1>2
  <2>3. plain = fed
    BY <1>1, <1>2, <2>1, <2>2, PlainUnits
  <2>4. fed # << >> /\ fed[1] = <<"body", 1>>
    <3>1. 1 \in 1..file.size /\ file.size # 0
      BY <1>2
    <3>2. QED
      BY <1>2, <3>1, EmptySeq
  <2>5. QED
    BY <2>3, <2>4 DEF Script!test_decompression
<1>5. ok
  BY <1>2, <1>3, <1>4
<1> HIDE DEF ok
<1>6. step' = "done" /\ (erred' <=> erred)
  BY <1>1, <1>5, LogsOrStops
<1>7. QED
  BY <1>1, <1>6 DEF IntactInv

\* What is fed of an intact file shows no error.
LEMMA FeedGoesOn ==
  ASSUME Script!TypeOK, Script!Regular, SuccessInv, step \in {"loop", "foot"}, cipher = "right", Streams,
         NEW new \in Seq(Script!Unit), NEW mayBeZip \in BOOLEAN, NEW next,
         Script!Feed(new, mayBeZip, next),
         Part(new, Len(fed)), Len(new) > 0, Len(fed) + Len(new) <= file.size,
         mayBeZip \/ Len(fed) > 0
  PROVE  /\ fed' = fed \o new /\ Len(fed') = Len(fed) + Len(new)
         /\ Part(fed \o new, 0)
         /\ step' = next /\ (erred' <=> erred) /\ (file.zip => ~is_zip')
<1>1. /\ fed \in Seq(Script!Unit) /\ Len(fed) \in Nat /\ Len(new) \in Nat /\ file.size \in Nat /\ 0 \in Nat
      /\ fed' = fed \o new /\ fed \o new \in Seq(Script!Unit) /\ Len(fed \o new) = Len(fed) + Len(new)
  BY ScriptParts, BodyUnits, LenProperties, FeedEffects, ConcatProperties
<1>2. Part(fed \o new, 0)
  <2>1. 0 + Len(fed) = Len(fed) /\ Part(fed, 0)
    BY <1>1 DEF Streams
  <2>2. QED
    BY <1>1, <2>1, PartConcat
<1>3. Begins(fed \o new)
  <2>1. Len(fed \o new) <= file.size
    BY <1>1
  <2>2. QED
    BY <1>1, <1>2, <2>1, PartNames
<1>4. Begins(fed)
  BY <1>1, <1>3, BeginsInParts
<1>5. out = fed /\ (~file.zip => is_zip)
  BY <1>4 DEF SuccessInv, FedKept
<1>6. /\ ~file.zip => is_zip' /\ erred' = erred /\ step' = next
      /\ file.zip /\ ~is_zip => ~is_zip' /\ erred' = erred /\ step' = next
      /\ file.zip /\ mayBeZip /\ Len(fed) = 0 /\ new # << >> =>
             ~is_zip' /\ erred' = erred /\ step' = next
  BY <1>3, <1>5, FeedKeeps
<1>7. new # << >>
  BY <1>1, EmptySeq
<1>8. CASE ~file.zip
  BY <1>1, <1>2, <1>6, <1>8
<1>9. CASE file.zip /\ Len(fed) > 0
  <2>1. ~is_zip
    BY <1>9 DEF Streams
  <2>2. QED
    BY <1>1, <1>2, <1>6, <1>9, <2>1
<1>10. CASE file.zip /\ ~(Len(fed) > 0)
  <2>1. Len(fed) = 0
    BY <1>1, <1>10
  <2>2. QED
    BY <1>1, <1>2, <1>6, <1>7, <1>10, <2>1
<1>11. QED
  BY <1>8, <1>9, <1>10

\* The trailer stays in hand, however the reads fall on it.
LEMMA TrailerIsHeld ==
  ASSUME Script!TypeOK, SuccessInv, IntactInv, [Script!Next]_script, Script!Regular, Script!Loop
  PROVE  IntactInv'
<1> DEFINE T == Script!TrailerLength
           next == Script!First(unread, Script!Buffer)
           missing == IF Len(next) <= T THEN T - Len(next) ELSE 0
           new == Script!Without(chunk, missing)
           held == IF missing > 0 THEN Script!Ending(chunk, missing) ELSE << >>
           goes == IF Len(next) <= T THEN "foot" ELSE "loop"
           rest == Script!Rest(unread, Script!Buffer)
           m == Len(Script!Written(file))
<1>1. /\ step = "loop" /\ ~erred /\ clean /\ cipher = "right" /\ LoopInv
      /\ UNCHANGED <<file, opts, key, cipher, clean>>
      /\ unread' = rest /\ chunk' = held \o next
      /\ Script!Feed(new, TRUE, goes)
  BY DEF IntactInv, Script!Loop, Script!given
<1>2. /\ Streams /\ Part(chunk, Len(fed)) /\ Part(unread, Len(fed) + Len(chunk))
      /\ Len(chunk) > T /\ Len(fed) + Len(chunk) + Len(unread) = m
      /\ opts.buffer # 0
  BY <1>1 DEF LoopInv, Streams
<1>3. /\ T \in Nat /\ m \in Nat /\ file.size \in Nat /\ Script!Buffer \in Nat /\ Script!Buffer > T
      /\ m - T <= file.size /\ 0 \in Nat
  BY <1>2, Lengths
<1>4. /\ unread \in Seq(Script!Unit) /\ chunk \in Seq(Script!Unit) /\ fed \in Seq(Script!Unit)
      /\ Len(unread) \in Nat /\ Len(chunk) \in Nat /\ Len(fed) \in Nat /\ Len(fed) + Len(chunk) \in Nat
  BY ScriptParts
<1> HIDE DEF T, m
<1>5. /\ next \in Seq(Script!Unit) /\ rest \in Seq(Script!Unit)
      /\ Len(next) = IF Script!Buffer < Len(unread) THEN Script!Buffer ELSE Len(unread)
      /\ Len(rest) = IF Script!Buffer < Len(unread) THEN Len(unread) - Script!Buffer ELSE 0
  BY <1>3, <1>4, Pieces
<1>6. /\ Part(next, Len(fed) + Len(chunk))
      /\ Part(rest, Len(fed) + Len(chunk) + Script!Buffer)
  BY <1>2, <1>3, <1>4, PartPieces
<1> HIDE DEF next, rest
<1>7. /\ missing \in Nat /\ missing < Len(chunk) /\ missing <= Len(chunk) /\ Len(next) \in Nat
      /\ missing + Len(next) >= T
      /\ goes = "loop" => missing + Len(next) > T
      /\ goes = "foot" => missing + Len(next) = T /\ Len(rest) = 0
  <2>1. Len(next) \in Nat
    BY <1>3, <1>4, <1>5
  <2>2. CASE Len(next) <= T
    <3>1. missing = T - Len(next) /\ goes = "foot"
      BY <2>2
    <3>2. ~(Script!Buffer < Len(unread))
      BY <1>3, <1>4, <1>5, <2>2
    <3> HIDE DEF missing, goes
    <3>3. QED
      BY <1>2, <1>3, <1>4, <1>5, <2>1, <2>2, <3>1, <3>2
  <2>3. CASE ~(Len(next) <= T)
    <3>1. missing = 0 /\ goes = "loop"
      BY <2>3
    <3> HIDE DEF missing, goes
    <3>2. QED
      BY <1>2, <1>3, <1>4, <2>1, <2>3, <3>1
  <2>4. QED
    BY <2>2, <2>3
<1>10. goes \in {"loop", "foot"}
  OBVIOUS
<1> HIDE DEF missing, goes
<1>11. new \in Seq(Script!Unit) /\ Len(new) = Len(chunk) - missing
  BY <1>4, <1>7, Pieces
<1>12. Part(new, Len(fed))
  BY <1>2, <1>4, <1>7, PartPieces
<1>13. held \in Seq(Script!Unit) /\ Len(held) = missing
  <2>1. CASE missing > 0
    <3>1. /\ Script!Ending(chunk, missing) \in Seq(Script!Unit)
          /\ Len(Script!Ending(chunk, missing)) = missing
      BY <1>4, <1>7, Pieces
    <3>2. QED
      BY <2>1, <3>1
  <2>2. CASE ~(missing > 0)
    BY <1>7, <2>2, EmptySeq
  <2>3. QED
    BY <2>1, <2>2
<1>14. Part(held, Len(fed) + Len(new))
  <2>1. CASE missing > 0
    <3>1. Part(Script!Ending(chunk, missing), Len(fed) + (Len(chunk) - missing))
      BY <1>2, <1>4, <1>7, PartPieces
    <3>2. QED
      BY <1>11, <2>1, <3>1
  <2>2. CASE ~(missing > 0)
    <3>1. Len(held) = 0
      BY <1>7, <1>13, <2>2
    <3>2. QED
      BY <3>1 DEF Part
  <2>3. QED
    BY <2>1, <2>2
<1> HIDE DEF new, held
<1>15. /\ chunk' \in Seq(Script!Unit) /\ Len(chunk') = missing + Len(next)
       /\ Part(held \o next, Len(fed) + Len(new))
  <2>1. /\ Len(fed) + Len(new) + Len(held) = Len(fed) + Len(chunk)
        /\ Len(fed) + Len(new) \in Nat
    BY <1>4, <1>7, <1>11, <1>13
  <2>2. Part(next, Len(fed) + Len(new) + Len(held))
    BY <1>6, <2>1
  <2>3. Part(held \o next, Len(fed) + Len(new))
    BY <1>5, <1>13, <1>14, <2>1, <2>2, PartConcat
  <2>4. QED
    BY <1>1, <1>5, <1>13, <2>3, ConcatProperties
<1>16. /\ Len(new) > 0 /\ Len(fed) + Len(new) <= file.size
       /\ Len(fed) + Len(new) + Len(chunk') + Len(rest) = m
  <2>1. Len(next) + Len(rest) = Len(unread) /\ Len(rest) \in Nat
    BY <1>3, <1>4, <1>5
  <2>2. Len(fed) + Len(new) + Len(chunk') + Len(rest) = m
    <3>1. Len(new) + Len(chunk') = Len(chunk) + Len(next)
      BY <1>4, <1>7, <1>11, <1>15
    <3>2. Len(new) \in Nat /\ Len(chunk') \in Nat
      BY <1>4, <1>7, <1>11, <1>15
    <3>3. /\ Len(fed) + Len(chunk) + Len(unread) = m
          /\ Len(fed) \in Nat /\ Len(chunk) \in Nat /\ Len(unread) \in Nat /\ Len(next) \in Nat
      BY <1>2, <1>4, <1>7
    <3>4. QED
      BY <2>1, <3>1, <3>2, <3>3
  <2>3. QED
    BY <1>3, <1>4, <1>7, <1>11, <1>15, <2>1, <2>2
<1>17. /\ fed' = fed \o new /\ Len(fed') = Len(fed) + Len(new)
       /\ Part(fed \o new, 0)
       /\ step' = goes /\ (erred' <=> erred) /\ (file.zip => ~is_zip')
  BY <1>1, <1>2, <1>11, <1>12, <1>16, FeedGoesOn
<1>18. Part(rest, Len(fed') + Len(chunk'))
  <2>1. CASE Script!Buffer < Len(unread)
    <3>1. Len(fed') + Len(chunk') = Len(fed) + Len(chunk) + Script!Buffer
      BY <1>3, <1>4, <1>5, <1>7, <1>11, <1>15, <1>17, <2>1
    <3>2. QED
      BY <1>6, <3>1
  <2>2. CASE ~(Script!Buffer < Len(unread))
    <3>1. Len(rest) = 0
      BY <1>5, <2>2
    <3>2. QED
      BY <3>1 DEF Part
  <2>3. QED
    BY <2>1, <2>2
<1>19. Streams'
  <2>1. Part(fed, 0)'
    BY <1>1, <1>17 DEF Part
  <2>2. Part(chunk, Len(fed))'
    BY <1>1, <1>15, <1>17 DEF Part
  <2>3. QED
    BY <1>1, <1>2, <1>17, <2>1, <2>2 DEF Streams
<1>20. CASE goes = "loop"
  <2>1. Part(unread, Len(fed) + Len(chunk))'
    BY <1>1, <1>18 DEF Part
  <2>2. /\ Len(chunk') > T /\ Len(fed') + Len(chunk') + Len(unread') = m
    BY <1>1, <1>7, <1>15, <1>16, <1>17, <1>20
  <2>3. LoopInv'
    BY <1>1, <1>19, <2>1, <2>2 DEF LoopInv, T, m, Script!TrailerLength
  <2>4. QED
    BY <1>1, <1>17, <1>20, <2>3 DEF IntactInv
<1>21. CASE goes = "foot"
  <2>1. /\ Len(fed') > 0 /\ Len(chunk') = T /\ Len(fed') + Len(chunk') = m
    BY <1>3, <1>4, <1>7, <1>11, <1>15, <1>16, <1>17, <1>21
  <2>2. FootInv'
    BY <1>1, <1>19, <2>1 DEF FootInv, T, m, Script!TrailerLength
  <2>3. QED
    BY <1>1, <1>17, <1>21, <2>2 DEF IntactInv
<1>22. QED
  BY <1>10, <1>20, <1>21

\* What is left is tag and checksum, or the end of the database and the tag.
LEMMA FootIsCut ==
  ASSUME Script!TypeOK, SuccessInv, IntactInv, [Script!Next]_script, Script!Regular, Script!FootOrData
  PROVE  IntactInv'
<1> DEFINE m == Len(Script!Written(file))
           p == IF file.multi THEN Tag ELSE 0
<1>1. /\ step = "foot" /\ ~erred /\ clean /\ cipher = "right" /\ FootInv
      /\ UNCHANGED <<file, opts, key, cipher, clean, unread>>
  BY DEF IntactInv, Script!FootOrData, Script!given
<1>2. /\ Streams /\ Part(fed, 0) /\ Part(chunk, Len(fed)) /\ Len(fed) > 0 /\ opts.buffer # 0
      /\ Len(chunk) = Script!TrailerLength /\ Len(fed) + Len(chunk) = m
  BY <1>1 DEF FootInv, Streams
<1>3. /\ Tag \in Nat \ {0} /\ Foot \in Nat \ {0} /\ m \in Nat /\ file.size \in Nat
      /\ Script!TrailerLength = 2 * Tag + Foot
      /\ file.multi \in BOOLEAN /\ file.foot \in BOOLEAN /\ (file.foot => ~file.multi)
      /\ file.foot => m = file.size + 2 * Tag + Foot
      /\ ~file.foot => m + p = file.size + 2 * Tag
      /\ p \in Nat
  <2>1. /\ Tag \in Nat \ {0} /\ Foot \in Nat \ {0} /\ m \in Nat /\ file.size \in Nat
        /\ Script!TrailerLength = 2 * Tag + Foot
    BY Lengths
  <2>2. /\ file.multi \in BOOLEAN /\ file.foot \in BOOLEAN /\ (file.foot => ~file.multi)
        /\ file.foot => m = file.size + 2 * Tag + Foot
        /\ ~file.foot /\ ~file.multi => m = file.size + 2 * Tag
        /\ file.multi => m = file.size + Tag
    BY WrittenLength
  <2> HIDE DEF m
  <2>3. ~file.foot => m + p = file.size + 2 * Tag
    BY <2>1, <2>2
  <2>4. p \in Nat
    BY <2>1
  <2>5. QED
    BY <2>1, <2>2, <2>3, <2>4
<1>4. /\ chunk \in Seq(Script!Unit) /\ fed \in Seq(Script!Unit) /\ Len(chunk) \in Nat /\ Len(fed) \in Nat
  BY ScriptParts
<1> HIDE DEF m
<1>5. Script!HasJid(chunk) <=> file.foot
  <2>1. Len(chunk) # 0
    BY <1>2, <1>3
  <2>2. QED
    BY <1>2, <1>4, <2>1, JidOrNot DEF m
<1>6. CASE file.foot
  <2>1. /\ chunk' = Script!Without(chunk, Foot) /\ step' = "trailer"
        /\ UNCHANGED <<fed, is_zip, out, erred>>
    BY <1>5, <1>6 DEF Script!FootOrData
  <2>2. Part(Script!Without(chunk, Foot), Len(fed))
    BY <1>2, <1>3, <1>4, PartPieces
  <2>3. Len(chunk') = IF Foot < Len(chunk) THEN Len(chunk) - Foot ELSE 0
    BY <1>3, <1>4, <2>1, Pieces
  <2>4. /\ Len(chunk') = 2 * Tag
        /\ Len(fed) + p = file.size
    BY <1>2, <1>3, <1>4, <1>6, <2>3
  <2>5. Streams'
    <3>1. Part(fed, 0)'
      BY <1>1, <1>2, <2>1 DEF Part
    <3>2. Part(chunk, Len(fed))'
      BY <1>1, <2>1, <2>2 DEF Part
    <3>3. QED
      BY <1>1, <1>2, <2>1, <3>1, <3>2 DEF Streams
  <2>6. TrailerInv'
    BY <1>1, <1>2, <2>1, <2>4, <2>5 DEF TrailerInv
  <2>7. QED
    BY <1>1, <2>1, <2>6 DEF IntactInv
<1>7. CASE ~file.foot
  <2> DEFINE new == Script!First(chunk, Foot)
             left == Script!Rest(chunk, Foot)
  <2>1. Script!Feed(new, FALSE, "trailer") /\ chunk' = left
    BY <1>5, <1>7 DEF Script!FootOrData
  <2>2. /\ new \in Seq(Script!Unit) /\ Len(new) = IF Foot < Len(chunk) THEN Foot ELSE Len(chunk)
        /\ Len(left) = IF Foot < Len(chunk) THEN Len(chunk) - Foot ELSE 0
    BY <1>3, <1>4, Pieces
  <2>3. Part(new, Len(fed)) /\ Part(left, Len(fed) + Foot)
    <3>1. Foot \in Nat
      BY <1>3
    <3>2. QED
      BY <1>2, <1>4, <3>1, PartPieces
  <2> HIDE DEF new, left
  <2>4. Len(new) = Foot /\ Len(left) = 2 * Tag /\ Len(fed) + Foot + p = file.size
    <3>1. Foot < Len(chunk) /\ Len(chunk) - Foot = 2 * Tag
      BY <1>2, <1>3, <1>4
    <3>2. Len(new) = Foot /\ Len(left) = 2 * Tag
      BY <2>2, <3>1
    <3> HIDE DEF p
    <3>3. QED
      BY <1>2, <1>3, <1>4, <1>7, <3>1, <3>2
  <2>5. Len(new) > 0 /\ Len(fed) + Len(new) <= file.size
    BY <1>3, <1>4, <2>4
  <2>6. /\ fed' = fed \o new /\ Len(fed') = Len(fed) + Len(new)
        /\ Part(fed \o new, 0)
        /\ step' = "trailer" /\ (erred' <=> erred) /\ (file.zip => ~is_zip')
    BY <1>1, <1>2, <2>1, <2>2, <2>3, <2>5, FeedGoesOn
  <2>7. Streams'
    <3>1. Part(fed, 0)'
      BY <1>1, <2>6 DEF Part
    <3>2. Part(chunk, Len(fed))'
      BY <1>1, <2>1, <2>3, <2>4, <2>6 DEF Part
    <3>3. QED
      BY <1>1, <1>2, <2>6, <3>1, <3>2 DEF Streams
  <2>8. Len(fed') > 0 /\ Len(chunk') = 2 * Tag /\ Len(fed') + p = file.size
    BY <1>2, <1>3, <1>4, <2>1, <2>4, <2>6
  <2>9. TrailerInv'
    BY <1>1, <2>7, <2>8 DEF TrailerInv
  <2>10. QED
    BY <1>1, <2>6, <2>9 DEF IntactInv
<1>8. QED
  BY <1>6, <1>7

\* Checksum and tag fit.
LEMMA TrailerFits ==
  ASSUME Script!TypeOK, SuccessInv, IntactInv, [Script!Next]_script, Script!Regular, Script!Trailer
  PROVE  IntactInv'
<1> DEFINE tag == Script!First(chunk, Tag)
           sum == Script!Rest(chunk, Tag)
           single == Script!ChecksumFits(fed, tag, sum)
           ok == IF single THEN Script!Verifies(fed, tag) ELSE Script!Verifies(fed', sum)
<1>1. /\ step = "trailer" /\ ~erred /\ clean /\ cipher = "right" /\ TrailerInv
      /\ UNCHANGED <<file, opts, key, cipher, clean, unread, chunk, is_zip>>
      /\ fed' = IF single THEN fed ELSE fed \o tag
      /\ out' = IF single THEN out ELSE out \o Script!Plain(tag, Len(fed))
      /\ Script!e(ok, "close")
  BY DEF IntactInv, Script!Trailer, Script!given
<1>2. /\ Part(fed, 0) /\ Part(chunk, Len(fed)) /\ Len(fed) > 0 /\ (file.zip => ~is_zip)
      /\ Len(chunk) = 2 * Tag /\ Len(fed) + (IF file.multi THEN Tag ELSE 0) = file.size
      /\ opts.buffer # 0 /\ clean = TRUE
  BY <1>1 DEF TrailerInv, Streams, Script!TypeOK
<1>3. /\ Tag \in Nat \ {0} /\ file.size \in Nat /\ chunk \in Seq(Script!Unit) /\ fed \in Seq(Script!Unit)
      /\ Len(chunk) \in Nat /\ Len(fed) \in Nat /\ (file.multi => file.zip)
  BY <1>2, Lengths, ScriptParts
<1>4. /\ tag \in Seq(Script!Unit) /\ Len(tag) = IF Tag < Len(chunk) THEN Tag ELSE Len(chunk)
      /\ sum \in Seq(Script!Unit) /\ Len(sum) = IF Tag < Len(chunk) THEN Len(chunk) - Tag ELSE 0
  BY <1>3, Pieces
<1>5. Part(tag, Len(fed)) /\ Part(sum, Len(fed) + Tag)
  <2>1. Tag \in Nat
    BY <1>3
  <2>2. QED
    BY <1>2, <1>3, <2>1, PartPieces
<1> HIDE DEF tag, sum
<1>6. Len(tag) = Tag /\ Len(sum) = Tag
  BY <1>2, <1>3, <1>4
<1>7. CASE ~file.multi
  <2>1. Len(fed) = file.size /\ Len(fed) <= file.size
    BY <1>2, <1>3, <1>7
  <2>2. fed = Script!Body
    BY <1>2, <1>3, <2>1, PartNames, BodyUnits
  <2>3. tag = Script!Units("tag", Tag)
    BY <1>4, <1>5, <1>6, <2>1, PartNames
  <2>4. sum = Script!Units("sum", Tag)
    BY <1>4, <1>5, <1>6, <1>7, <2>1, PartNames
  <2>5. single /\ ok
    BY <1>1, <1>2, <2>2, <2>3, <2>4 DEF Script!ChecksumFits, Script!Verifies
  <2>6. out = Script!Body
    BY <1>1, <2>2, BodyUnits DEF SuccessInv, FedKept
  <2>7. out' = Script!Body'
    BY <1>1, <2>5, <2>6, GivenStays
  <2> HIDE DEF ok
  <2>8. step' = "close" /\ (erred' <=> erred)
    BY <1>1, <2>5, LogsOrStops
  <2>9. QED
    BY <1>1, <1>2, <2>7, <2>8 DEF IntactInv
<1>8. CASE file.multi
  <2>1. Len(fed) + Tag = file.size
    BY <1>2, <1>8
  <2>2. sum = Script!Units("tag", Tag)
    BY <1>4, <1>5, <1>6, <2>1, PartNames
  <2>3. ~single
    BY <2>2, TagIsNoSum DEF Script!ChecksumFits
  <2>4. fed' = Script!Body
    <3>1. /\ fed \o tag \in Seq(Script!Unit) /\ Len(fed \o tag) = Len(fed) + Len(tag)
      BY <1>3, <1>4, ConcatProperties
    <3>2. Len(fed \o tag) = file.size /\ Len(fed \o tag) <= file.size /\ 0 \in Nat /\ 0 + Len(fed) = Len(fed)
      BY <1>3, <1>6, <2>1, <3>1
    <3>3. Part(fed \o tag, 0)
      BY <1>2, <1>3, <1>4, <1>5, <3>2, PartConcat
    <3>4. fed \o tag = Script!Body
      BY <3>1, <3>2, <3>3, PartNames, BodyUnits
    <3>5. QED
      BY <1>1, <2>3, <3>4
  <2>5. ok
    BY <1>1, <2>2, <2>3, <2>4 DEF Script!Verifies
  <2> HIDE DEF ok
  <2>6. step' = "close" /\ (erred' <=> erred)
    BY <1>1, <2>5, LogsOrStops
  <2>7. QED
    BY <1>1, <1>2, <1>3, <1>8, <2>6 DEF IntactInv
<1>9. QED
  BY <1>7, <1>8

\* The database came to its end.
LEMMA EndIsSeen ==
  ASSUME Script!TypeOK, SuccessInv, IntactInv, [Script!Next]_script, Script!Regular, Script!Close
  PROVE  IntactInv'
<1> DEFINE inflated == {i \in DOMAIN out : out[i][1] = "body"}
           ended == ~is_zip \/ (Script!Inflates(fed) /\ Script!Cardinality(inflated) = file.size)
<1>1. /\ step = "close" /\ ~erred /\ clean /\ cipher = "right" /\ fed = Script!Body
      /\ IF file.zip THEN ~is_zip ELSE out = Script!Body
      /\ Script!e(ended, "done") /\ UNCHANGED <<clean, cipher>>
  <2>1. step = "close" /\ Script!e(ended, "done") /\ UNCHANGED <<clean, cipher>>
    BY DEF Script!Close
  <2> HIDE DEF ended
  <2>2. ~erred /\ clean /\ cipher = "right" /\ IF file.zip THEN ~is_zip ELSE out = Script!Body
    BY <2>1 DEF IntactInv
  <2>3. fed = Script!Body
    BY <2>1, <2>2 DEF SuccessInv
  <2>4. QED
    BY <2>1, <2>2, <2>3
<1>2. file.zip => ended
  <2>1. file.zip => ~is_zip
    BY <1>1
  <2>2. QED
    BY <2>1, Zenon
<1>3. ASSUME ~file.zip PROVE ended
  <2>1. /\ out = Script!Body /\ file.size \in Nat \ {0} /\ out \in Seq(Script!Unit) /\ Len(out) = file.size
        /\ \A i \in 1..file.size : out[i] = <<"body", i>>
    BY <1>1, <1>3, BodyUnits
  <2>2. inflated = 1..file.size
    BY <2>1, LenProperties
  <2>3. Cardinality(1..file.size) = file.size
    <3>1. 1 \in Int /\ file.size \in Int /\ ~(1 > file.size) /\ file.size - 1 + 1 = file.size
      BY <2>1
    <3>2. QED
      BY <3>1, FS_Interval
  <2>4. Script!Cardinality(inflated) = file.size
    <3>1. Script!Cardinality(inflated) = Cardinality(inflated)
      BY DEF Script!Cardinality, Cardinality
    <3>2. QED
      BY <2>2, <2>3, <3>1
  <2>5. Script!Inflates(fed)
    BY <1>1, <1>3, BodyUnits, BeginsInflates
  <2>6. QED
    BY <2>4, <2>5, Zenon
<1>4. ended
  BY <1>2, <1>3, Zenon
<1> HIDE DEF ended
<1>5. step' = "done" /\ (erred' <=> erred)
  BY <1>1, <1>4, LogsOrStops
<1>6. QED
  BY <1>1, <1>5 DEF IntactInv

LEMMA IntactNext ==
  ASSUME Script!TypeOK, SuccessInv, IntactInv, [Script!Next]_script
  PROVE  IntactInv'
<1>1. CASE Script!Regular
  <2>1. CASE UNCHANGED script
    <3>1. /\ UNCHANGED <<opts, step, cipher, clean, unread, chunk, fed, is_zip, out, erred>>
          /\ UNCHANGED file /\ (Script!Regular' <=> Script!Regular)
          /\ Script!Written(file)' = Script!Written(file) /\ Script!Body' = Script!Body
      BY <2>1, GivenStays DEF script
    <3>2. QED
      BY <3>1 DEF IntactInv, LoopInv, FootInv, TrailerInv, Streams, Part, Script!TrailerLength
  <2>2. QED
    BY <1>1, <2>1, KeyIsFound, FileIsOpened, FileIsVerified, FileIsInflated, TrailerIsHeld,
       FootIsCut, TrailerFits, EndIsSeen DEF Script!Next
<1>2. CASE ~Script!Regular
  BY <1>2, GivenStays DEF IntactInv
<1>3. QED
  BY <1>1, <1>2

LEMMA ScriptHolds == Script!Spec => [](Script!TypeOK /\ SuccessInv /\ WholeInv /\ IntactInv)
<1>1. Script!Init => Script!TypeOK /\ SuccessInv /\ WholeInv /\ IntactInv
  BY ScriptTypesInit, SuccessInit, WholeInit, IntactInit
<1>2. Script!vars = script
  BY DEF Script!vars, script
<1>3. Script!TypeOK /\ SuccessInv /\ WholeInv /\ IntactInv /\ [Script!Next]_(Script!vars) =>
          (Script!TypeOK /\ SuccessInv /\ WholeInv /\ IntactInv)'
  <2>1. SUFFICES ASSUME Script!TypeOK, SuccessInv, WholeInv, IntactInv, [Script!Next]_(Script!vars)
                 PROVE  (Script!TypeOK /\ SuccessInv /\ WholeInv /\ IntactInv)'
    OBVIOUS
  <2>2. [Script!Next]_script
    BY <1>2, <2>1 DEF Script!vars, script
  <2>3. Script!TypeOK'
    BY <2>1, <2>2, ScriptTypesNext
  <2>4. SuccessInv'
    BY <2>1, <2>2, SuccessNext
  <2>5. WholeInv'
    BY <2>1, <2>2, WholeNext
  <2>6. IntactInv'
    BY <2>1, <2>2, IntactNext
  <2>7. QED
    BY <2>3, <2>4, <2>5, <2>6
<1>4. QED
  BY <1>1, <1>3, PTL DEF Script!Spec

(* Success means the database, the phone's own files succeed, and read at once nothing
   is written by half, for files, buffers and offsets of any size (decrypt-wa.py:190-371). *)
THEOREM BackupsDecrypt == Script!Spec => []DecryptsRight
<1>1. SuccessInv /\ WholeInv => Script!SuccessIsRight /\ Script!WholeOrNothing
  BY WholeIsWhole
<1>2. IntactInv => Script!IntactIsRead
  BY DEF IntactInv, Script!IntactIsRead
<1>3. SuccessInv /\ WholeInv /\ IntactInv => DecryptsRight
  BY <1>1, <1>2 DEF DecryptsRight, Script!DecryptsRight
<1>4. QED
  BY <1>3, ScriptHolds, PTL

(* Every tool keeps its state well typed, beside the others (whatsapp_backup_setup.py:15,
   decrypt-wa.py:520, merge_dbs_sqlite.py:61). *)
THEOREM ToolsAreTyped ==
  ASSUME MaxTries \in Nat, ~Merges!Database(None)
  PROVE  Spec /\ Script!Spec /\ Merges!Spec => []ToolsTyped
<1>1. Merges!TypeOK => Merge!TypeOK
  <2>1. Merges!Tables = Merge!Tables
    BY DEF Merges!Tables, Merge!Tables
  <2>2. \A t : Merges!Row(t) = Merge!Row(t)
    BY DEF Merges!Row, Merge!Row, Merges!Jid, Merge!Jid, Merges!Message, Merge!Message
  <2>3. \A S : Merges!IsFiniteSet(S) <=> Merge!IsFiniteSet(S)
    BY DEF Merges!IsFiniteSet, Merge!IsFiniteSet
  <2>4. \A d : Merges!Database(d) <=> Merge!Database(d)
    BY <2>1, <2>2, <2>3 DEF Merges!Database, Merge!Database
  <2>5. \A d : Merges!Refers(d) <=> Merge!Refers(d)
    BY DEF Merges!Refers, Merge!Refers
  <2>6. QED
    BY <2>1, <2>4, <2>5 DEF Merges!TypeOK, Merge!TypeOK
<1>2. TypeOK /\ Script!TypeOK /\ Merges!TypeOK => ToolsTyped
  BY <1>1 DEF ToolsTyped
<1>3. QED
  BY <1>2, TypeCorrect, ScriptHolds, Merges!TypeCorrect, PTL
=============================================================================
