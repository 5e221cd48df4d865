------------------------- MODULE WhatsAppExtraction -------------------------
(***************************************************************************)
(* The tool that drives WhatsApp on a phone over ADB                       *)
(* (extractors/whatsapp_extractor/whatsapp_backup_setup.py,                *)
(* extract_keys_wa.py, paths.py): for each account it makes the backup     *)
(* encrypted with a key it has read from the screen, starts a backup,      *)
(* pulls the newest backup file and decrypts it.                           *)
(*                                                                         *)
(* Every look at the screen may miss what is there, and every call of ADB  *)
(* may fail.  The files of the host outlive a run and its crash.  Some     *)
(* things may go wrong without the tool noticing: missed is their history, *)
(* and each property names those that it excludes.                         *)
(*                                                                         *)
(* Bounds: MaxKey keys, MaxRuns runs of the tool.                          *)
(***************************************************************************)
EXTENDS Naturals

CONSTANTS
    MaxKey,  \* encryption keys are 1..MaxKey, in the order the phone makes them
    MaxRuns,
    None

Slots == {"_account1", "_account2", "_business"}
Kinds == {"msgstore", "wa"}
package_name(slot) == IF slot = "_business" THEN "com.whatsapp.w4b" ELSE "com.whatsapp"

Off == 0               \* end-to-end encryption is off; or there is no key file
Partial == MaxKey + 1  \* a key file that does not hold 64 or 131 characters

Screens == {"main", "menu", "settings", "chats", "chat_backup", "encryption", "other"}
Backup == [of : Slots, key : 0..Partial] \* Partial: a part of the file
Database == [of : Slots, good : BOOLEAN]
Saved == [key : 0..MaxKey, newer : SUBSET Slots]

ASSUME ExtractionAssumption ==
    /\ MaxKey \in Nat \ {0} /\ MaxRuns \in Nat
    /\ None \notin Backup \cup Database \cup Saved

VARIABLES
    installed, \* the apps on the phone
    second,    \* TRUE if com.whatsapp has a second account
    active,    \* the account com.whatsapp shows
    phone_key, \* per account the key of its encrypted backup
    made,      \* the number of keys made so far
    screen,    \* the screen of the app under control
    remote,    \* the backup file of each account on the phone, and which are newer
    saving,    \* the accounts whose backup is under way
    keys,      \* the key file of each account
    pulled,    \* the ciphertexts on the host
    db,        \* the decrypted databases on the host
    run,       \* the tool: pc and account_suffix, or idle
    runs,      \* how often it was started
    missed     \* history: what went wrong so far and was not noticed

host == <<keys, pulled, db>>
handset == <<active, phone_key, made, remote, saving>>
fixed == <<installed, second>>
vars == <<handset, screen, host, run, runs, missed, fixed>>

\* What the code does not look at: that the app shows the account whose turn it is, that
\* the backup under way has ended and no other has, that ls answers, that a failed pull
\* leaves the earlier file alone, and that nobody else uses the phone.
Lapses == {"account", "backup", "list", "pull", "user"}

Idle == [pc |-> "idle", slot |-> "_account1"]
PCs == {"idle", "open", "settings", "chats", "click_chats", "entry", "encryption", "status",
        "validate", "disable", "enable", "extract", "confirm", "press", "backup", "progress", "pull",
        "decrypt", "decrypt_wa", "decrypt_last", "cleanup", "leave", "switch", "switch_back"}

\* The accounts with a backup on the phone, and the one whose file is the newest.
Present == {a \in Slots : remote[a] # None}
IsNewest(a, files) == remote[a].newer \cap files = {}

TypeOK ==
    /\ installed \subseteq {"com.whatsapp", "com.whatsapp.w4b"} /\ second \in BOOLEAN
    /\ active \in {"_account1", "_account2"}
    /\ phone_key \in [Slots -> 0..MaxKey] /\ made \in 0..MaxKey
    /\ screen \in Screens
    /\ remote \in [Slots -> Saved \cup {None}]
    /\ \A files \in (SUBSET Present) \ {{}} : \E a \in files : \A b \in files : IsNewest(b, files) <=> b = a
    /\ keys \in [Slots -> 0..Partial]
    /\ pulled \in [Slots -> [Kinds -> Backup \cup {None}]]
    /\ db \in [Slots -> [Kinds -> Database \cup {None}]]
    /\ run \in [pc : PCs, slot : Slots]
    /\ runs \in 0..MaxRuns /\ saving \subseteq Slots /\ missed \subseteq Lapses

\* The accounts on the phone.
Accounts == {a \in Slots : package_name(a) \in installed /\ (a = "_account2" => second)}

\* The account whose backup settings the screen shows.
Shown == IF run.slot = "_business" THEN "_business" ELSE active

At(pc) == run.pc = pc
Noted(lapse, occurs) == missed' = IF occurs THEN missed \cup {lapse} ELSE missed
Goes(pc) == run' = [run EXCEPT !.pc = pc]

----------------------------------------------------------------------------
\* What may be on the screen after each of the navigation helpers.
settings_whatsapp(s) == IF s = "main" THEN {"main", "menu", "settings"} ELSE {s}
open_whatsapp_menu(s) == IF s = "main" THEN {"main", "menu"} ELSE {s}
menu_chats(s) == IF s = "settings" THEN {"settings", "chats"} ELSE {s} \* main has a tab "Chats"
_click_chat_backup_entry(s) == IF s = "chats" THEN {"chats", "chat_backup"} ELSE {s}
_navigate_back_to_chat_backup(s) == IF s = "chat_backup" THEN {s} ELSE {"chat_backup", "other"}
back_to_main_whatsapp(s) == {"main", "other"}

\* Fault: only the files of the first account are told apart.
FilterFirstOnly(slot, found) ==
    LET own == {a \in found : slot = "_account1" => a # "_account2"}
    IN IF own = {} THEN found ELSE own

\* _filter_db_files_for_account: the files of the second account lie below
\* accounts/; without a file of its own an account is given all that were found.
_filter_db_files_for_account(slot, found) ==
    LET own == {a \in found : CASE slot = "_account1" -> a # "_account2"
                                [] slot = "_account2" -> a = "_account2"
                                [] slot = "_business" -> a = "_business"}
    IN IF own = {} THEN found ELSE own

\* pull_whatsapp_database: a path of com.whatsapp.w4b contains com.whatsapp, too.
Found(slot) ==
    _filter_db_files_for_account(slot,
        {a \in Present : package_name(slot) = "com.whatsapp" \/ a = "_business"})

----------------------------------------------------------------------------
Init ==
    /\ installed \in SUBSET {"com.whatsapp", "com.whatsapp.w4b"}
    /\ second \in BOOLEAN
    /\ active \in {"_account1", "_account2"} /\ (active = "_account2" => second)
    /\ phone_key \in [Slots -> {Off, 1}] /\ made = 1
    /\ \A a \in Slots \ Accounts : phone_key[a] = Off
    /\ screen = "other" /\ remote = [a \in Slots |-> None] /\ saving = {}
    /\ keys = [a \in Slots |-> Off]
    /\ pulled = [a \in Slots |-> [k \in Kinds |-> None]]
    /\ db = [a \in Slots |-> [k \in Kinds |-> None]]
    /\ run = Idle /\ runs = 0 /\ missed = {}

\* run_multi_account_automation: first com.whatsapp, then com.whatsapp.w4b.  Nothing
\* looks at which account com.whatsapp shows.
Begin(slot) ==
    /\ run' = IF package_name(slot) \in installed THEN [pc |-> "open", slot |-> slot]
              ELSE IF slot = "_account1" /\ "com.whatsapp.w4b" \in installed
                   THEN [pc |-> "open", slot |-> "_business"]
                   ELSE Idle
    /\ Noted("account", run' # Idle /\ run'.slot \notin {"_business", active'})

\* The apps are closed, and "Akun 1" is begun on whatever account the app was left with.
Start ==
    /\ At("idle") /\ runs < MaxRuns
    /\ runs' = runs + 1 /\ screen' = "other"
    /\ UNCHANGED <<handset, host, fixed>>
    /\ Begin("_account1")

\* backup_chat: the app is brought to the front, ...
backup_chat ==
    /\ At("open") /\ screen' \in {"main", "other"} /\ Goes("settings")
    /\ UNCHANGED <<handset, host, runs, missed, fixed>>

\* ... its settings, or the menu, are opened ...
OpenSettings ==
    /\ At("settings")
    /\ screen' \in UNION {open_whatsapp_menu(s) : s \in settings_whatsapp(screen)}
    /\ Goes("chats")
    /\ UNCHANGED <<handset, host, runs, missed, fixed>>

\* ... and there the entry "Chats" is looked for; what fails is logged and passed over.
OpenChats ==
    /\ At("chats")
    /\ \/ screen \in {"main", "settings"} /\ Goes("click_chats")
       \/ Goes("entry")
    /\ UNCHANGED <<handset, screen, host, runs, missed, fixed>>

\* Once found it is waited for until it can be clicked (while True).
ClickChats ==
    /\ At("click_chats") /\ screen \in {"main", "settings"}
    /\ screen' \in menu_chats(screen) /\ Goes("entry")
    /\ UNCHANGED <<handset, host, runs, missed, fixed>>

\* chat_backup_preference
chat_backup_preference ==
    /\ At("entry")
    /\ screen' \in _click_chat_backup_entry(screen)
    /\ Goes(IF screen' = "chat_backup" THEN "encryption" ELSE "leave")
    /\ UNCHANGED <<handset, host, runs, missed, fixed>>

\* check_and_enable_encryption: the button, ...
FindEncryption ==
    /\ At("encryption") /\ screen = "chat_backup"
    /\ screen' = "encryption" /\ Goes("status")
    /\ UNCHANGED <<handset, host, runs, missed, fixed>>

\* ... the status on its page, ...
_get_encryption_status ==
    /\ At("status")
    /\ Goes(IF phone_key[Shown] = Off THEN "enable" ELSE "validate")
    /\ UNCHANGED <<handset, screen, host, runs, missed, fixed>>

\* ... and if it is on, _validate_encryption_key_file: the length is all that
\* is checked of the key.
_validate_encryption_key_file ==
    /\ At("validate")
    /\ Goes(IF keys[run.slot] \in {Off, Partial} THEN "disable" ELSE "press")
    /\ UNCHANGED <<handset, screen, host, runs, missed, fixed>>

\* _disable_encryption: as for a forgotten key; it may be off and yet not
\* be seen to be off in time.
_disable_encryption ==
    /\ At("disable")
    /\ phone_key' = [phone_key EXCEPT ![Shown] = Off]
    /\ \E seen \in BOOLEAN : Goes(IF seen THEN "enable" ELSE "leave")
    /\ UNCHANGED <<active, made, remote, saving, screen, host, runs, missed, fixed>>

\* _enable_encryption_and_backup: the phone makes a key and shows it.
enable_encryption ==
    /\ At("enable") /\ made < MaxKey
    /\ made' = made + 1 /\ Goes("extract")
    /\ UNCHANGED <<active, phone_key, remote, saving, screen, host, runs, missed, fixed>>

\* Fault: the key is confirmed first and read and saved afterwards.
ConfirmFirst ==
    /\ At("extract")
    /\ phone_key' = [phone_key EXCEPT ![Shown] = made] /\ Goes("confirm")
    /\ UNCHANGED <<active, made, remote, saving, screen, host, runs, missed, fixed>>

\* Fault: one key file for all accounts.
SharedKeyFile ==
    /\ At("extract")
    /\ keys' = [a \in Slots |-> made] /\ Goes("confirm")
    /\ UNCHANGED <<handset, screen, pulled, db, runs, missed, fixed>>

\* extract_whatsapp_keys: what the fields show is written to the key file,
\* whatever its length.
extract_whatsapp_keys ==
    /\ At("extract")
    /\ \E key \in {made, Partial} : keys' = [keys EXCEPT ![run.slot] = key]
    /\ Goes("confirm")
    /\ UNCHANGED <<handset, screen, pulled, db, runs, missed, fixed>>

\* The key is confirmed; the last tap may be missed.
ConfirmKey ==
    /\ At("confirm")
    /\ phone_key' = [phone_key EXCEPT ![Shown] = made]
    /\ \E done \in BOOLEAN : Goes(IF done THEN "press" ELSE "leave")
    /\ UNCHANGED <<active, made, remote, saving, screen, host, runs, missed, fixed>>

\* Fault: the button is waited for on whatever page is shown, and for ever.
PressWhenSeen ==
    /\ At("press") /\ screen = "chat_backup" /\ Shown \notin saving
    /\ saving' = saving \cup {Shown} /\ Goes("backup")
    /\ UNCHANGED <<active, phone_key, made, remote, screen, host, runs, missed, fixed>>

\* _press_backup_now: back to the page of the backup, at most 90 seconds for
\* the button.
_press_backup_now ==
    /\ At("press")
    /\ screen' \in _navigate_back_to_chat_backup(screen)
    /\ \/ screen' = "chat_backup" /\ Shown \notin saving
          /\ saving' = saving \cup {Shown} /\ Goes("backup")
       \/ Goes("leave") /\ UNCHANGED saving
    /\ UNCHANGED <<active, phone_key, made, remote, host, runs, missed, fixed>>

\* wait_for_cancel_download: a backup seen to be under way within ten seconds is waited for;
\* otherwise five seconds later it is taken to have ended.  Both wait, without a
\* deadline, for the page with the button.
wait_for_cancel_download ==
    /\ screen = "chat_backup"
    /\ \/ At("backup") /\ Shown \in saving /\ Goes("progress") /\ UNCHANGED missed
       \/ At("backup") /\ Goes("pull") /\ Noted("backup", Shown \in saving)
       \/ At("progress") /\ Shown \notin saving /\ Goes("pull") /\ UNCHANGED missed
    /\ UNCHANGED <<handset, screen, host, runs, fixed>>

\* Fault: the new file has the time of none.
SaveUndated(account) ==
    remote' = [remote EXCEPT ![account] = [key |-> phone_key[account], newer |-> {}]]

\* The files on the phone once an account has a new one in place of its last.
SaveBackup(account) ==
    remote' = [a \in Slots |->
        IF a = account THEN [key |-> phone_key[a], newer |-> {}]
        ELSE IF remote[a] = None THEN None ELSE [remote[a] EXCEPT !.newer = @ \cup {account}]]

\* The phone ends a backup: a new file, or none.  It goes unnoticed if it fails, or if the
\* tool is at work and not waiting for it.
BackupEnds(a, ok) ==
    /\ a \in saving /\ saving' = saving \ {a}
    /\ IF ok THEN SaveBackup(a) ELSE UNCHANGED remote
    /\ Noted("backup", ~At("idle") /\ ~(ok /\ a = Shown /\ run.pc \in {"backup", "progress"}))
    /\ UNCHANGED <<active, phone_key, made, screen, host, run, runs, fixed>>

\* The phone makes a backup of its own accord.
NightlyBackup(a) ==
    /\ a \in Accounts \ saving /\ SaveBackup(a)
    /\ Noted("backup", ~At("idle"))
    /\ UNCHANGED <<active, phone_key, made, saving, screen, host, run, runs, fixed>>

\* _pick_newest_remote_file: what ls lists first; when it does not answer, what find
\* named first.
Unlisted(a, files) == IF IsNewest(a, files) THEN {} ELSE {"list"}

\* adb pull of the file picked: when it fails, what was pulled before stays or a part of
\* the file is written over it, and the run goes on.
Pulls(kept, files) ==
    {[file |-> kept, lapses |-> {}]}
    \cup {[file |-> [of |-> a, key |-> remote[a].key], lapses |-> Unlisted(a, files)] : a \in files}
    \cup {[file |-> [of |-> a, key |-> Partial], lapses |-> Unlisted(a, files) \cup {"pull"}] : a \in files}

\* pull_whatsapp_database: one of the files found, for each kind.
pull_whatsapp_database ==
    /\ At("pull")
    /\ \E m \in Pulls(pulled[run.slot]["msgstore"], Found(run.slot)),
          w \in Pulls(pulled[run.slot]["wa"], Found(run.slot)) :
           /\ pulled' = [pulled EXCEPT ![run.slot] = [msgstore |-> m.file, wa |-> w.file]]
           /\ missed' = missed \cup m.lapses \cup w.lapses
    /\ Goes("decrypt")
    /\ UNCHANGED <<handset, screen, keys, db, runs, fixed>>

\* decrypt-wa.py --force: with a wrong key it writes what comes out, and exits 0.
Decrypted(file) == [of |-> file.of, good |-> file.key = keys[run.slot]]

\* The script succeeds and the ciphertext is removed, or it fails: by then it
\* may have opened its output, which empties a database that is there.
RunScript(kind, next, stop) ==
    /\ run.slot \in Slots
    /\ IF pulled[run.slot][kind] = None \/ keys[run.slot] \in {Off, Partial}
       THEN UNCHANGED <<pulled, db>> /\ Goes(stop)
       ELSE \/ /\ pulled' = [pulled EXCEPT ![run.slot][kind] = None]
               /\ db' = [db EXCEPT ![run.slot][kind] = Decrypted(pulled[run.slot][kind])]
               /\ Goes(next)
            \/ /\ db' \in {db, [db EXCEPT ![run.slot][kind] =
                              IF @ = None THEN None ELSE [of |-> @.of, good |-> FALSE]]}
               /\ UNCHANGED pulled /\ Goes(stop)
    /\ UNCHANGED <<handset, screen, keys, runs, missed, fixed>>

\* decrypt_whatsapp_db: nothing without a key of the right length; msgstore,
\* then wa.db; ...
decrypt_whatsapp_db ==
    \/ At("decrypt") /\ RunScript("msgstore", "decrypt_wa", "decrypt_last")
    \/ At("decrypt_wa") /\ RunScript("wa", "cleanup", "cleanup")
    \/ At("decrypt_last") /\ RunScript("wa", "leave", "leave")

\* ... once msgstore is decrypted, the folder of both ciphertexts is removed.
cleanup_pull_account_dir ==
    /\ At("cleanup")
    /\ pulled' = [pulled EXCEPT ![run.slot] = [k \in Kinds |-> None]]
    /\ Goes("leave")
    /\ UNCHANGED <<handset, screen, keys, db, runs, missed, fixed>>

\* An element is not found or a call fails: logged, and the account is left.
Fails ==
    /\ \E pc \in {"encryption", "status", "disable", "enable", "extract", "confirm"} : At(pc)
    /\ Goes("leave")
    /\ UNCHANGED <<handset, screen, host, runs, missed, fixed>>

\* A call fails in a wait that has no deadline: logged, too.
Raises ==
    /\ \/ At("click_chats") /\ Goes("entry")
       \/ (At("backup") \/ At("progress")) /\ Goes("leave")
    /\ UNCHANGED <<handset, screen, host, runs, missed, fixed>>

\* back_to_main_whatsapp, at most ten times back.
Leave ==
    /\ At("leave")
    /\ screen' \in back_to_main_whatsapp(screen)
    /\ CASE run.slot = "_account1" -> Goes("switch")
         [] run.slot = "_account2" -> Goes("switch_back")
         [] run.slot = "_business" -> run' = Idle
    /\ UNCHANGED <<handset, host, runs, missed, fixed>>

Other(account) == IF account = "_account1" THEN "_account2" ELSE "_account1"

\* click_switch_account_if_available: a tap, and ten seconds for the app; whether it
\* shows the other account then is not looked at.
click_switch_account_if_available ==
    /\ screen = "main" /\ second
    /\ active' \in {active, Other(active)}

\* The second account, if there is one; else the business app.
Switch ==
    /\ At("switch")
    /\ \/ click_switch_account_if_available /\ Begin("_account2")
       \/ active' = active /\ Begin("_business")
    /\ UNCHANGED <<phone_key, made, remote, saving, screen, host, runs, fixed>>

\* Back to the first account, if the button is found.
SwitchBack ==
    /\ At("switch_back")
    /\ click_switch_account_if_available \/ active' = active
    /\ Begin("_business")
    /\ UNCHANGED <<phone_key, made, remote, saving, screen, host, runs, fixed>>

\* The tool is stopped, or cannot reach the phone (sys.exit).
Crash ==
    /\ ~At("idle") /\ run' = Idle
    /\ UNCHANGED <<handset, screen, host, runs, missed, fixed>>

\* Somebody uses the phone: another key, another page, or another account.
PhoneUsed ==
    /\ \/ \E a \in Accounts :
             /\ made < MaxKey /\ made' = made + 1
             /\ phone_key' = [phone_key EXCEPT ![a] = made']
             /\ UNCHANGED <<active, screen>>
       \/ screen' = "other" /\ UNCHANGED <<active, phone_key, made>>
       \/ second /\ active' = Other(active) /\ UNCHANGED <<phone_key, made, screen>>
    /\ Noted("user", TRUE)
    /\ UNCHANGED <<remote, saving, host, run, runs, fixed>>

Step ==
    \/ backup_chat \/ OpenSettings \/ OpenChats \/ ClickChats \/ chat_backup_preference
    \/ FindEncryption \/ _get_encryption_status \/ _validate_encryption_key_file
    \/ _disable_encryption \/ enable_encryption \/ extract_whatsapp_keys \/ ConfirmKey
    \/ _press_backup_now \/ wait_for_cancel_download \/ pull_whatsapp_database
    \/ decrypt_whatsapp_db \/ cleanup_pull_account_dir \/ Fails \/ Leave \/ Switch \/ SwitchBack

BackupStops == \E a \in Slots, ok \in BOOLEAN : BackupEnds(a, ok)

Next ==
    \/ Start \/ Step \/ Raises \/ Crash
    \/ BackupStops \/ (\E a \in Slots : NightlyBackup(a)) \/ PhoneUsed

\* The tool goes on as long as it can, and backups end.
Spec == Init /\ [][Next]_vars /\ WF_vars(Step) /\ WF_vars(BackupStops)

----------------------------------------------------------------------------
\* The lapses that concern an account: the business app has one account and its filter lets
\* no other file through, nor does that of the second account once there is a file of its own.
Concern(a) == CASE a = "_account1" -> Lapses
                [] a = "_account2" -> Lapses \ {"list"}
                [] a = "_business" -> {"pull", "user"}
Spared(a, lapses) == missed \cap lapses \cap Concern(a) = {}

(* Wherever the tool was stopped, a key file that passes the check holds the key of the
   phone whenever the backup is encrypted, and no key that the tool made takes effect
   without a file: it is saved before it is confirmed (extract_keys_wa.py:73,
   whatsapp_backup_setup.py:739-748).  That is, unless somebody else used the phone or
   com.whatsapp showed the other account when a turn began: a run started on the
   account that a stop or a missed tap has left writes that one's key to the file of
   "_account1" (whatsapp_backup_setup.py:889-893, 911), and the code does not look. *)
KeyFileTrue ==
    \A a \in Slots : Spared(a, {"account", "user"}) =>
        /\ keys[a] \in 1..MaxKey /\ phone_key[a] # Off => keys[a] = phone_key[a]
        /\ phone_key[a] > 1 => keys[a] # Off

(* Messages once in hand are not lost again: what could be read, or was pulled with the
   key on file, stays one or the other through stops and failures of the tool, of
   adb and of the script, which empties its output first and writes whatever a wrong
   key gives, and through the next runs (extract_keys_wa.py:219-236, decrypt-wa.py:163).
   For the accounts of com.whatsapp it takes that none of the lapses occurred, which can lose
   them; for the business app, that no pull broke and nobody else used the phone. *)
InHand(a) ==
    LET file == pulled[a]["msgstore"]
        read == db[a]["msgstore"]
    IN \/ read # None /\ read.good
       \/ file # None /\ file.key # Off /\ file.key = keys[a]
MessagesKept == [][\A a \in Slots : Spared(a, Lapses)' /\ InHand(a) => InHand(a)']_vars

(* The database of an account comes from its own backup: the account on the screen, the
   newest file and the filters fit together through both apps, the switches of accounts,
   stops and backups between the runs (extract_keys_wa.py:96-141).  Not if a turn
   began on the other account, nor if the progress was not seen and the backup
   had not ended, or another ended meanwhile (whatsapp_backup_setup.py:317-321, 827-833);
   and for the first account not if ls did not answer.  That of the business app does
   in any case. *)
OwnAccount ==
    \A a \in Slots, k \in Kinds :
        db[a][k] # None /\ (a = "_business" \/ Spared(a, {"account", "backup", "list", "user"}))
            => db[a][k].of = a

(* Each run comes to an end, provided the phone ends its backups and nobody else uses
   it: most waits for elements have a number of tries or a deadline
   (whatsapp_backup_setup.py:524, 607, 861), and what the two without one wait for, the
   entry "Chats" (401-411) and the page of the backup (824-833), nobody else takes away.
   When somebody does, the run may hang there for ever. *)
RunEnds == run # Idle ~> (run = Idle \/ "user" \in missed)
=============================================================================
