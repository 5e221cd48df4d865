---------------------------- MODULE MCExtraction ----------------------------
(* Instances for TLC of the tools on the host: the phone is driven, a file is
   decrypted, or databases are merged.  The phone has two accounts whose backups
   are encrypted, or two apps whose backups are not. *)
EXTENDS HostTools, Sequences, FiniteSets

VARIABLE tool \* the tool of the behaviour

all == <<vars, tool, script, merge>>

----------------------------------------------------------------------------
\* The header is read in files of every size and damage; or it is guessed, at
\* any offsets, with any key.
Shape == [size : 1..MaxSize, zip : BOOLEAN, multi : BOOLEAN, foot : BOOLEAN, looks : BOOLEAN, short : {FALSE},
          proto : {"c15"}, iv : {1}, data : {DEFAULT_DATA_OFFSET},
          damage : {"none", "cut", "flip"}, at : 1..(MaxSize + 2 * Tag + Foot)]
Header == [size : {3}, zip : BOOLEAN, multi : {FALSE}, foot : {FALSE}, looks : {FALSE}, short : BOOLEAN,
           proto : {"c15", "c14", "none"}, iv : 0..LastOffset, data : 0..LastOffset,
           damage : {"none"}, at : {1}]
Intact(f) == f.damage = "none" => f.at = 1
Cases ==
    ([f : {f \in Shape : Script!Possible(f) /\ Intact(f)}, k : {[kind |-> "crypt15", fits |-> TRUE]},
      o : [force : BOOLEAN, buffer : {0} \cup 2..Default, no_protobuf : {FALSE}]])
    \cup
    ([f : {f \in Header : Script!Possible(f) /\ (f.short => f.iv = DEFAULT_IV_OFFSET)}, k : [kind : {"crypt14", "crypt15"}, fits : BOOLEAN],
      o : [force : BOOLEAN, buffer : {0, Default - 1}, no_protobuf : BOOLEAN]])
OneCase == CHOOSE c \in Cases : TRUE

----------------------------------------------------------------------------
\* One or two jids and up to two messages, one of them in db1.
Databases(n) ==
    {d \in [jid : UNION {[1..k -> Merge!Jid] : k \in 1..2},
            message : UNION {[1..k -> [jid : 1..2, text : Texts]] : k \in 0..n}] :
        \A m \in DOMAIN d.message : d.message[m].jid \in DOMAIN d.jid}
Named(d) == \A p, q \in DOMAIN d.jid : d.jid[p].name = d.jid[q].name => p = q
Existing == {d \in Databases(1) : d.jid[1] = [name |-> "a", info |-> 1]
                                  /\ \A m \in DOMAIN d.message : d.message[m].text = "x"}

----------------------------------------------------------------------------
MCInit ==
    /\ tool \in {"phone", "script", "merge"}
    /\ IF tool = "phone"
       THEN /\ Init
            /\ IF second THEN installed = {"com.whatsapp"} /\ {phone_key[a] : a \in Accounts} = {1}
               ELSE installed = {"com.whatsapp", "com.whatsapp.w4b"} /\ {phone_key[a] : a \in Accounts} = {Off}
       ELSE /\ Init /\ installed = {} /\ ~second
    /\ \E c \in IF tool = "script" THEN Cases ELSE {OneCase} :
           c.k \in Script!Keys(c.f) /\ file = c.f /\ key = c.k /\ opts = c.o
    /\ Script!Start
    /\ IF tool = "merge"
       THEN /\ db1 \in Existing \cup {None} /\ db2 \in Databases(2)
            /\ unique \in BOOLEAN /\ (unique => (db1 # None => Named(db1)) /\ Named(db2))
            /\ skipped \in {{}, {"jid"}} /\ (skipped # {} => ~unique)
            /\ db2.jid[1].info = 1
       ELSE db1 = None /\ db2 = None /\ unique = FALSE /\ skipped = {}
    /\ Merge!Ready

Others(t) ==
    /\ tool = t /\ tool' = tool
    /\ t # "phone" => UNCHANGED vars
    /\ t # "script" => UNCHANGED script
    /\ t # "merge" => UNCHANGED merge

\* At most one lapse, in either run, and no run after it.  The tool is stopped in its first
\* run, to which the second is the sequel; a backup of the phone's own comes before a pull;
\* others use the phone between runs, during a backup or where a click is due.  wa.db is
\* pulled like msgstore.db.
PhoneNext ==
    /\ \/ missed = {} /\ Start
       \/ Step \/ Raises \/ BackupStops
       \/ runs < MaxRuns /\ Crash
       \/ At("pull") /\ saving = {} /\ missed = {} /\ \E a \in Slots : NightlyBackup(a)
       \/ runs < MaxRuns /\ (At("idle") \/ At("backup") \/ At("click_chats")) /\ PhoneUsed
    /\ Cardinality(missed') <= 1
    /\ At("pull") /\ run'.pc = "decrypt" =>
           LET kept == pulled'[run.slot]["msgstore"] = pulled[run.slot]["msgstore"]
           IN pulled'[run.slot]["wa"] = IF kept THEN pulled[run.slot]["wa"] ELSE pulled'[run.slot]["msgstore"]
MCNext ==
    \/ Others("phone") /\ PhoneNext
    \/ Others("script") /\ Script!Next
    \/ Others("merge") /\ Merge!Next
MCSpec ==
    /\ MCInit /\ [][MCNext]_all
    /\ WF_all(Others("phone") /\ Step)
    /\ WF_all(Others("phone") /\ BackupStops)
=============================================================================
