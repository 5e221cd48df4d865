----------------------------- MODULE HostTools ------------------------------
(* The tools on the host (extractors/whatsapp_extractor): the phone is       *)
(* driven, a file is decrypted, databases are merged.  Each tool leaves the  *)
(* state of the others alone; what one promises the next is in the           *)
(* properties.                                                               *)
EXTENDS WhatsAppExtraction

CONSTANTS
    Tag, Foot, Default, MaxSize, IvLength, DEFAULT_IV_OFFSET, DEFAULT_DATA_OFFSET, LastOffset,
    Names, Infos, Texts, MaxTries

\* Lengths and offsets, as main has them checked (decrypt-wa.py:19-21, 528-536).
ASSUME ToolsAssumption ==
    /\ {Tag, Foot, IvLength, LastOffset} \subseteq Nat \ {0}
    /\ {Default, MaxSize} \subseteq Nat
    /\ {DEFAULT_IV_OFFSET, DEFAULT_DATA_OFFSET} \subseteq 1..(LastOffset - 1)

VARIABLES
    file, opts, key, step, cipher, clean, unread, chunk, fed, is_zip, out, erred,
    db1, db2, before, unique, skipped, phase, pk_mapping, todo, table, rows, db1_data_map, tries

Script == INSTANCE BackupDecryptor
Merge == INSTANCE MergeDatabases

script == <<file, opts, key, step, cipher, clean, unread, chunk, fed, is_zip, out, erred>>
merge == <<db1, db2, before, unique, skipped, phase, pk_mapping, todo, table, rows, db1_data_map, tries>>

(* As BackupDecryptor states it (decrypt-wa.py:231-266). *)
DecryptsRight == Script!DecryptsRight

(* As MergeDatabases states them (merge_dbs_sqlite.py:95-196, 208-237). *)
MergeLosesNothing == Merge!MergeLosesNothing
MergeAddsRight == Merge!MergeAddsRight

(* Every tool keeps its state well typed (whatsapp_backup_setup.py:15,
   decrypt-wa.py:286, merge_dbs_sqlite.py:61). *)
ToolsTyped == TypeOK /\ Script!TypeOK /\ Merge!TypeOK
=============================================================================
