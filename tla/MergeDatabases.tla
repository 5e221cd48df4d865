--------------------------- MODULE MergeDatabases ---------------------------
(***************************************************************************)
(* The merge of a pulled message database into the one of the first        *)
(* account (extractors/whatsapp_extractor/merge_dbs_sqlite.py).  First     *)
(* every new row of every table is given a key, then the rows are inserted *)
(* one by one, each with a commit, and if all went well the pulled         *)
(* database is removed.  A merge that fails is tried again.                *)
(*                                                                         *)
(* Two tables stand for all: jid, and message with a reference to it.  A   *)
(* table is a function from keys to the other columns.  The rows of the    *)
(* pulled database are read by position, in the order of the columns of    *)
(* the other (92-106, 139-171): db2 is what is read so, which is the       *)
(* pulled database if its columns come in the same order.                  *)
(* Bounds: MaxTries merges.                                                *)
(***************************************************************************)
EXTENDS Naturals, FiniteSets, FiniteSetsExt

CONSTANTS
    Names, Infos, \* columns of a jid
    Texts,        \* the column of a message
    MaxTries, None

Tables == {"jid", "message"}
Jid == [name : Names, info : Infos]
Message == [jid : Nat \ {0}, text : Texts]
Row(t) == IF t = "jid" THEN Jid ELSE Message

VARIABLES
    db1, db2,   \* the two databases, None where there is no file
    before,     \* what db1 was at first
    unique,     \* TRUE if there is a unique index on the name of a jid
    skipped,    \* the tables without a primary key, or whose columns differ
    phase,      \* of the merge under way
    pk_mapping, \* table by table the new keys of rows of db2
    todo,       \* the tables still to be processed
    table,      \* the one being processed, ...
    rows,       \* ... the keys of its rows still to come
    db1_data_map, \* ... and the contents known to be in db1
    tries       \* how often a merge was started

vars == <<db1, db2, before, unique, skipped, phase, pk_mapping, todo, table, rows, db1_data_map, tries>>
given == <<before, unique, skipped>>
pass == <<pk_mapping, todo, table, rows, db1_data_map>>

Contents(rs) == {rs[pk] : pk \in DOMAIN rs}
Empty == [pk \in {} |-> None]

Ready ==
    /\ phase = "idle" /\ tries = 0 /\ before = db1
    /\ pk_mapping = [t \in Tables |-> Empty] /\ todo = {} /\ table = "jid"
    /\ rows = {} /\ db1_data_map = {}

Database(d) ==
    /\ d \in [Tables -> {d[t] : t \in Tables}]
    /\ \A t \in Tables :
           /\ IsFiniteSet(DOMAIN d[t]) /\ DOMAIN d[t] \subseteq Nat \ {0}
           /\ d[t] \in [DOMAIN d[t] -> Row(t)]

\* The references of a database name rows of it.
Refers(d) == \A m \in DOMAIN d["message"] : d["message"][m].jid \in DOMAIN d["jid"]

Init ==
    /\ db1 # None => Database(db1)
    /\ db2 # None => Database(db2) /\ Refers(db2)
    /\ unique \in BOOLEAN /\ skipped \subseteq Tables
    /\ Ready

TypeOK ==
    /\ db1 # None => Database(db1)
    /\ db2 # None => Database(db2) /\ Refers(db2)
    /\ phase \in {"idle", "analyze", "merge", "remove"}
    /\ \A t \in Tables : pk_mapping[t] \in [DOMAIN pk_mapping[t] -> Nat \ {0}]
    /\ unique \in BOOLEAN /\ skipped \subseteq Tables
    /\ todo \subseteq Tables \ skipped /\ table \in Tables
    /\ rows # {} => table \notin skipped \cup todo /\ rows \subseteq DOMAIN db2[table]
    /\ tries \in 0..MaxTries
    /\ phase # "idle" => db1 # None /\ db2 # None

----------------------------------------------------------------------------
\* merge_db_whatsapp: without a database of the account the pulled one becomes it.
merge_db_whatsapp ==
    /\ phase = "idle" /\ tries < MaxTries /\ db2 # None
    /\ tries' = tries + 1
    /\ IF db1 = None
       THEN db1' = db2 /\ db2' = None /\ UNCHANGED phase
       ELSE phase' = "analyze" /\ UNCHANGED <<db1, db2>>
    /\ UNCHANGED <<given, pass>>

\* Rows whose other columns, references included, are not those of a row of db1
\* are given the keys after the greatest one.  That a table has the same columns is
\* checked by their names, whatever their order.
NewKeys(t) ==
    LET new == {pk \in DOMAIN db2[t] : db2[t][pk] \notin Contents(db1[t])} IN
    [pk \in new |-> Max({0} \cup DOMAIN db1[t]) + Cardinality({q \in new : q <= pk})]

Analyze ==
    /\ phase = "analyze" /\ phase' = "merge"
    /\ pk_mapping' = [t \in Tables |-> IF t \in skipped THEN Empty ELSE NewKeys(t)]
    /\ todo' = Tables \ skipped
    /\ UNCHANGED <<db1, db2, given, table, rows, db1_data_map, tries>>

\* The tables in the order of a set of names; the rows in that of their keys.
ProcessTable ==
    /\ phase = "merge" /\ rows = {}
    /\ \E t \in todo :
        /\ table' = t /\ todo' = todo \ {t}
        /\ rows' = DOMAIN db2[t]
        /\ db1_data_map' = Contents(db1[t])
    /\ UNCHANGED <<db1, db2, given, phase, pk_mapping, tries>>

Mapped(t, pk) == IF pk \in DOMAIN pk_mapping[t] THEN pk_mapping[t][pk] ELSE pk

\* Fault: a reference is written as it is.
ReferencesAsTheyAre(t, row) == row

\* References are mapped if the row they name was given a new key.
Remapped(t, row) == IF t = "message" THEN [row EXCEPT !.jid = Mapped("jid", @)] ELSE row

\* A key that is taken, or a name, if they are unique.
Conflicts(t, pk, row) ==
    \/ pk \in DOMAIN db1[t]
    \/ t = "jid" /\ unique /\ \E r \in Contents(db1[t]) : r.name = row.name

Insert(t, pk, row) == db1' = [db1 EXCEPT ![t] = [q \in DOMAIN @ \cup {pk} |-> IF q = pk THEN row ELSE @[q]]]

\* One row: known, inserted and committed, or refused for a UNIQUE constraint
\* and counted with those skipped.
InsertRow ==
    /\ phase = "merge" /\ rows # {}
    /\ LET pk == Min(rows)
           row == db2[table][pk]
       IN /\ rows' = rows \ {pk}
          /\ IF row \in db1_data_map \/ Conflicts(table, Mapped(table, pk), Remapped(table, row))
             THEN UNCHANGED <<db1, db1_data_map>>
             ELSE /\ Insert(table, Mapped(table, pk), Remapped(table, row))
                  /\ db1_data_map' = db1_data_map \cup {row}
    /\ UNCHANGED <<db2, given, phase, pk_mapping, todo, table, tries>>

Completed ==
    /\ phase = "merge" /\ rows = {} /\ todo = {} /\ phase' = "remove"
    /\ UNCHANGED <<db1, db2, given, pass, tries>>

\* The pulled database is removed; if that fails, it is merged again next time.
RemoveDb2 ==
    /\ phase = "remove" /\ phase' = "idle" /\ db2' \in {None, db2}
    /\ UNCHANGED <<db1, given, pass, tries>>

\* Fault: the pulled database is removed whatever the merge returned.
FailsAndRemoves ==
    /\ phase \in {"analyze", "merge", "remove"} /\ phase' = "idle" /\ db2' = None
    /\ todo' = {} /\ rows' = {}
    /\ UNCHANGED <<db1, given, pk_mapping, table, db1_data_map, tries>>

\* An exception of the database, or of a key of several columns, whose values
\* cannot be compared with single ones; or the tool is stopped.
Fails ==
    /\ phase \in {"analyze", "merge", "remove"} /\ phase' = "idle"
    /\ todo' = {} /\ rows' = {}
    /\ UNCHANGED <<db1, db2, given, pk_mapping, table, db1_data_map, tries>>

Next ==
    \/ merge_db_whatsapp \/ Analyze \/ ProcessTable \/ InsertRow \/ Completed
    \/ RemoveDb2 \/ Fails

Spec == Init /\ [][Next]_vars

----------------------------------------------------------------------------
(* No merge, whether it fails, is stopped or repeated, changes a row that the
   database of the account had (merge_dbs_sqlite.py:115-122, 173-181). *)
RowsKept ==
    [][db1 # None => \A t \in Tables : \A pk \in DOMAIN db1[t] :
           pk \in DOMAIN db1'[t] /\ db1'[t][pk] = db1[t][pk]]_vars

(* The pulled database is not removed before each row of it is in that of the account,
   in all its columns, as it was or with its reference mapped, except for tables that were
   skipped (merge_dbs_sqlite.py:175, 229-237).  The code does not keep a jid that is
   refused because its name is taken: its other columns go with the pulled
   database (178-181), and all that is said of it is that the name is there. *)
NameTaken(t, row) == t = "jid" /\ unique /\ \E r \in Contents(db1[t]) : r.name = row.name
Present(t, row) == {row, Remapped(t, row)} \cap Contents(db1[t]) # {} \/ NameTaken(t, row)
RemovedWhenMerged ==
    [][db2 # None /\ db2' = None =>
           \A t \in Tables \ skipped : \A row \in Contents(db2[t]) : Present(t, row)']_vars

(* However often a merge fails, is stopped and is tried again, the rows of the account
   stay, and those pulled for it but for refused jids are there when their source is
   removed (merge_dbs_sqlite.py:115-122, 173-181, 229-237). *)
MergeLosesNothing == RowsKept /\ RemovedWhenMerged

(* A row without references is in the database once, however often merges are
   tried and however often it was pulled (merge_dbs_sqlite.py:102, 157, 177). *)
JidsOnce ==
    db1 # None /\ before # None =>
        \A p, q \in DOMAIN db1["jid"] :
            db1["jid"][p] = db1["jid"][q] /\ p # q => {p, q} \subseteq DOMAIN before["jid"]

(* If the first merge succeeds, a new message that refers to a new jid refers to
   it afterwards, provided the jid was pulled once and its name is not taken.
   It is not so of a jid that was there (merge_dbs_sqlite.py:166-171). *)
NewReferencesFollow ==
    phase = "remove" /\ tries = 1 /\ skipped = {} =>
        \A row \in Contents(db2["message"]) \ Contents(before["message"]) :
            LET jid == db2["jid"][row.jid] IN
            /\ \A r \in Contents(before["jid"]) : r # jid /\ (unique => r.name # jid.name)
            /\ \A pk \in DOMAIN db2["jid"] : db2["jid"][pk] = jid => pk = row.jid
            /\ unique => \A pk \in DOMAIN db2["jid"] : db2["jid"][pk].name = jid.name => pk = row.jid
            => \E m \in Contents(db1["message"]) :
                   m.text = row.text /\ m.jid \in DOMAIN db1["jid"] /\ db1["jid"][m.jid] = jid

(* Two things of what merges add: jids are added once, however often merges are tried;
   and after a first merge that succeeds a new message refers to its jid, if that jid is
   new (merge_dbs_sqlite.py:95-196).  The code does not keep more: messages are inserted
   again by a second try, a reference to a jid that was there, or that was refused, keeps
   or is given a number that may be that of another jid or of none (166-181). *)
MergeAddsRight == JidsOnce /\ NewReferencesFollow
=============================================================================
