--------------------------- MODULE BackupDecryptor ---------------------------
(***************************************************************************)
(* The script that decrypts one backup file of WhatsApp                    *)
(* (extractors/whatsapp_extractor/decrypt-wa.py).  After a header comes    *)
(* the compressed database, or a ZIP, under AES-GCM, then 16 bytes of tag, *)
(* 16 of checksum and in old files 4 of a phone number; in a backup of     *)
(* several files the checksum is missing.  The whole file is read at once, *)
(* or chunk by chunk with what may be the trailer held back.               *)
(*                                                                         *)
(* Bounds: lengths are counted in units; Tag, Foot, Default and the        *)
(* offsets stand for 16, 4, 8192, 8, 122 and 256 bytes.                    *)
(***************************************************************************)
EXTENDS Naturals, Sequences, FiniteSets

CONSTANTS
    Tag,     \* the length of the tag, and of the checksum
    Foot,    \* the length of the phone number
    Default, \* io.DEFAULT_BUFFER_SIZE
    MaxSize, \* the longest database
    IvLength, DEFAULT_IV_OFFSET, DEFAULT_DATA_OFFSET,
    LastOffset \* HEADER_SIZE - 128

TrailerLength == 2 * Tag + Foot

VARIABLES
    file,   \* the backup: what it holds, whose key it needs, what happened to it
    opts,   \* --force, --buffer-size and --no-mem, --no-protobuf
    key,    \* the kind of key given, and whether it is the one of the file
    step,   \* where the script is; "done" and "failed" are its exits 0 and 1
    cipher, \* "none", or whether key and IV are the right ones
    clean,  \* TRUE if file_hash has seen the header, and only once
    unread, \* what has not been read of the file
    chunk,  \* what is held back
    fed,    \* what went through the cipher
    is_zip, \* TRUE while the output is being decompressed (the name is the code's)
    out,    \* what is in the output file
    erred   \* TRUE after an error that --force passed over

vars == <<file, opts, key, step, cipher, clean, unread, chunk, fed, is_zip, out, erred>>
given == <<file, opts, key>>

----------------------------------------------------------------------------
Units(part, n) == [i \in 1..n |-> <<part, i>>]
Body == Units("body", file.size)

\* The file as the phone wrote it, and as it is on the host: perhaps pulled in
\* part, perhaps with an error in it.
Written(f) ==
    Units("body", f.size) \o Units("tag", Tag)
        \o (IF f.multi THEN << >> ELSE Units("sum", Tag))
        \o (IF f.foot THEN Units("foot", Foot) ELSE << >>)
Stored(f) ==
    LET all == Written(f) IN
    CASE f.damage = "none" -> all
      [] f.damage = "cut" -> SubSeq(all, 1, f.at - 1)
      [] f.damage = "flip" -> [all EXCEPT ![f.at] = <<"bad", f.at>>]

\* What a backup can be.  The phone number is from the time before several files;
\* what is damaged may look as if it ended in one.  A short one has, with its header, less
\* than HEADER_SIZE bytes.
Possible(f) ==
    /\ f.foot => f.looks /\ ~f.multi
    /\ f.at <= Len(Written(f))
    /\ f.data >= f.iv + IvLength
Files ==
    {f \in [size : 1..MaxSize, zip : BOOLEAN, multi : BOOLEAN, foot : BOOLEAN, looks : BOOLEAN,
            short : BOOLEAN, proto : {"c15", "c14", "none"}, iv : 0..LastOffset, data : 0..LastOffset,
            damage : {"none", "cut", "flip"}, at : 1..(MaxSize + TrailerLength)] : Possible(f)}

\* The key of a file is of its kind.
Keys(f) ==
    {k \in [kind : {"crypt14", "crypt15"}, fits : BOOLEAN] :
        k.fits => f.proto # (IF k.kind = "crypt14" THEN "c15" ELSE "c14")}
Options == [force : BOOLEAN, buffer : {0} \cup 2..Default, no_protobuf : BOOLEAN]

Unit == {"body", "tag", "sum", "foot", "bad", "noise"} \X Nat

TypeOK ==
    /\ file \in Files /\ opts \in Options /\ key \in Keys(file)
    /\ step \in {"header", "guess", "open", "verify", "inflate", "loop", "foot", "trailer",
                "close", "done", "failed"}
    /\ cipher \in {"none", "right", "wrong"}
    /\ {clean, is_zip, erred} \subseteq BOOLEAN
    /\ {unread, chunk, fed, out} \subseteq Seq(Unit)

\* s[-n:] and s[:-n]
Ending(s, n) == SubSeq(s, IF n < Len(s) THEN Len(s) - n + 1 ELSE 1, Len(s))
Without(s, n) == SubSeq(s, 1, IF n < Len(s) THEN Len(s) - n ELSE 0)
First(s, n) == SubSeq(s, 1, IF n < Len(s) THEN n ELSE Len(s))
Rest(s, n) == SubSeq(s, n + 1, Len(s))

\* jid: four characters that look like the end of a phone number; other bytes
\* of the end of a file may look so, too.
HasJid(s) == file.looks /\ s # << >> /\ s[Len(s)] = Written(file)[Len(Written(file))]

\* zlib reads on while every unit is the next one of the database, and past
\* its end.
Inflates(all) ==
    /\ cipher = "right" /\ ~file.zip
    /\ \A i \in DOMAIN all : i <= file.size => all[i] = Body[i]
Inflated(new) == First(new, IF file.size > Len(fed) THEN file.size - Len(fed) ELSE 0)

\* What the cipher makes of new units after what was fed before.
Plain(new, before) ==
    [i \in DOMAIN new |->
        IF cipher = "right" /\ file.zip /\ new[i] = <<"body", before + i>> THEN new[i] ELSE <<"noise", 0>>]
test_decompression(data) == data # << >> /\ data[1] = <<"body", 1>>

\* The checksum is that of header, database and tag; the tag is that of the
\* database under this key.
ChecksumFits(all, tag, sum) == clean /\ all = Body /\ tag = Units("tag", Tag) /\ sum = Units("sum", Tag)
Verifies(all, tag) == cipher = "right" /\ all = Body /\ tag = Units("tag", Tag)

\* Log.e: the script ends, unless forced.
e(ok, next) == step' = (IF ok \/ opts.force THEN next ELSE "failed") /\ erred' = (erred \/ ~ok)
Writes(ok, data) == out' = IF ok \/ opts.force THEN out \o data ELSE out

----------------------------------------------------------------------------
\* oscillate: n, n - 1, n + 1, n - 2, ... until one of the bounds, then on along
\* the other side; the set of what is tried.
oscillate(n, n_min, n_max) ==
    LET i[k \in Nat] == IF k % 2 = 0 THEN n + k \div 2 ELSE n - (k + 1) \div 2
        bound(k) == IF k % 2 = 0 THEN i[k] = n_max ELSE i[k] \in {0, n_min}
        stop == CHOOSE k \in 0..(2 * (n + n_max)) : bound(k) /\ \A j \in 0..(k - 1) : ~bound(j)
        side(b) == i[stop] = b /\ 2 * n # b
    IN {i[k] : k \in 0..(stop - 1)}
       \cup (IF side(n_min) THEN {n_min} \cup i[stop + 1]..n_max ELSE {})
       \cup (IF side(n_max) THEN {n_max} \cup n_min..i[stop + 1] ELSE {})

\* find_data_offset: with the right IV, the offset where something can be read.
find_data_offset(iv) ==
    iv = file.iv /\ file.data \in oscillate(DEFAULT_DATA_OFFSET, iv + IvLength, LastOffset)

Start ==
    /\ cipher = "none" /\ clean = TRUE /\ unread = << >> /\ chunk = << >> /\ fed = << >>
    /\ is_zip = TRUE /\ out = << >> /\ erred = FALSE /\ step = "header"

\* parse_protobuf: a header that cannot be read has been hashed all the same.
parse_protobuf ==
    /\ step = "header"
    /\ \/ opts.no_protobuf /\ step' = "guess" /\ UNCHANGED <<cipher, clean, erred>>
       \/ /\ ~opts.no_protobuf /\ file.proto = "none"
          /\ e(FALSE, "guess") /\ clean' = FALSE /\ UNCHANGED cipher
       \/ /\ ~opts.no_protobuf /\ file.proto = "c15"
          /\ e(key.kind = "crypt15", "open") /\ cipher' = (IF key.fits THEN "right" ELSE "wrong")
          /\ UNCHANGED clean
       \/ /\ ~opts.no_protobuf /\ file.proto = "c14"
          /\ IF key.kind = "crypt15" THEN step' = "failed" /\ UNCHANGED erred ELSE e(key.fits, "open")
          /\ cipher' = (IF key.fits THEN "right" ELSE "wrong")
          /\ UNCHANGED clean
    /\ UNCHANGED <<given, unread, chunk, fed, is_zip, out>>

\* guess_offsets: a pair of offsets at which the key gives something readable, in a file
\* that is not too short for it.
guess_offsets ==
    /\ step = "guess"
    /\ IF ~file.short /\ key.fits /\ \E iv \in oscillate(DEFAULT_IV_OFFSET, 0, LastOffset) : find_data_offset(iv)
       THEN cipher' = "right" /\ step' = "open"
       ELSE step' = "failed" /\ UNCHANGED cipher
    /\ UNCHANGED <<given, clean, unread, chunk, fed, is_zip, out, erred>>

\* decrypt, at once or with a buffer; one that is too small is replaced.
Buffer == IF opts.buffer < Tag + 1 THEN Default ELSE opts.buffer

decrypt ==
    /\ step = "open"
    /\ LET all == Stored(file) IN
       IF opts.buffer = 0
       THEN unread' = all /\ step' = "verify" /\ UNCHANGED chunk
       ELSE /\ chunk' = First(all, Buffer) /\ unread' = Rest(all, Buffer)
            /\ step' = IF Len(all) < Buffer THEN "failed" ELSE "loop"
    /\ UNCHANGED <<given, cipher, clean, fed, is_zip, out, erred>>

\* The whole file: without the phone number, is the checksum that of the rest?
\* Else what looked like the tag is the end of the database.
Verify ==
    /\ step = "verify"
    /\ LET all == IF HasJid(unread) THEN Without(unread, Foot) ELSE unread
           sum == Ending(all, Tag)
           tag == Ending(Without(all, Tag), Tag)
           body == Without(all, 2 * Tag)
           single == ChecksumFits(body, tag, sum)
       IN /\ fed' = IF single THEN body ELSE body \o tag
          /\ e(IF single THEN Verifies(body, tag) ELSE Verifies(fed', sum), "inflate")
    /\ UNCHANGED <<given, cipher, clean, unread, chunk, is_zip, out>>

\* What came out is decompressed as a whole, or written as it is.
Inflate ==
    /\ step = "inflate"
    /\ LET plain == Plain(fed, 0)
           ok == IF Inflates(fed) THEN Len(fed) >= file.size ELSE test_decompression(plain)
       IN /\ e(ok, "done")
          /\ Writes(ok, IF Inflates(fed) THEN First(fed, file.size) ELSE plain)
    /\ UNCHANGED <<given, cipher, clean, unread, chunk, fed, is_zip>>

\* Decrypt and write new units; mayBeZip: the first of them may begin a ZIP.
Feed(new, mayBeZip, next) ==
    LET plain == Plain(new, Len(fed))
        inflates == is_zip /\ Inflates(fed \o new)
        ok == ~is_zip \/ new = << >> \/ inflates \/ (mayBeZip /\ test_decompression(plain))
    IN /\ fed' = fed \o new
       /\ e(ok, next)
       /\ Writes(ok, IF inflates THEN Inflated(new) ELSE plain)
       /\ is_zip' = (is_zip /\ (new = << >> \/ inflates \/ ~mayBeZip))

\* Fault: the trailer is what the last read returned.
LoopLastRead ==
    /\ step = "loop"
    /\ LET next == First(unread, Buffer) IN
       /\ unread' = Rest(unread, Buffer)
       /\ Feed(chunk, TRUE, IF Len(next) <= TrailerLength THEN "foot" ELSE "loop")
       /\ chunk' = next
    /\ UNCHANGED <<given, cipher, clean>>

\* One turn of the loop: a short read is the end, and with the end of the
\* chunk before it makes up the trailer.
Loop ==
    /\ step = "loop"
    /\ LET next == First(unread, Buffer)
           missing == IF Len(next) <= TrailerLength THEN TrailerLength - Len(next) ELSE 0
       IN /\ unread' = Rest(unread, Buffer)
          /\ Feed(Without(chunk, missing), TRUE, IF Len(next) <= TrailerLength THEN "foot" ELSE "loop")
          /\ chunk' = (IF missing > 0 THEN Ending(chunk, missing) ELSE << >>) \o next
    /\ UNCHANGED <<given, cipher, clean>>

\* The phone number is cut off the trailer; without one, the trailer begins
\* with the end of the database.
FootOrData ==
    /\ step = "foot"
    /\ IF HasJid(chunk)
       THEN /\ chunk' = Without(chunk, Foot) /\ step' = "trailer"
            /\ UNCHANGED <<fed, is_zip, out, erred>>
       ELSE Feed(First(chunk, Foot), FALSE, "trailer") /\ chunk' = Rest(chunk, Foot)
    /\ UNCHANGED <<given, cipher, clean, unread>>

\* Tag and checksum; or the end of the database, written as it is, and the tag.
Trailer ==
    /\ step = "trailer"
    /\ LET tag == First(chunk, Tag)
           sum == Rest(chunk, Tag)
           single == ChecksumFits(fed, tag, sum)
       IN /\ fed' = IF single THEN fed ELSE fed \o tag
          /\ out' = IF single THEN out ELSE out \o Plain(tag, Len(fed))
          /\ e(IF single THEN Verifies(fed, tag) ELSE Verifies(fed', sum), "close")
    /\ UNCHANGED <<given, cipher, clean, unread, chunk, is_zip>>

\* A database that did not come to its end is removed, unless forced.
Close ==
    /\ step = "close"
    /\ LET inflated == {i \in DOMAIN out : out[i][1] = "body"}
           ended == ~is_zip \/ (Inflates(fed) /\ Cardinality(inflated) = file.size)
       IN e(ended, "done") /\ out' = IF ended \/ opts.force THEN out ELSE << >>
    /\ UNCHANGED <<given, cipher, clean, unread, chunk, fed, is_zip>>

Next ==
    \/ parse_protobuf \/ guess_offsets \/ decrypt
    \/ Verify \/ Inflate
    \/ Loop \/ FootOrData \/ Trailer \/ Close

Init == file \in Files /\ opts \in Options /\ key \in Keys(file) /\ Start
Spec == Init /\ [][Next]_vars

----------------------------------------------------------------------------
(* If the script exits without having reported an error, the output is the
   database, however the reads fell on the file and whatever was cut off or
   changed in it: the trailer is found in each of its shapes (decrypt-wa.py:306-314, 332-371). *)
SuccessIsRight == step = "done" /\ ~erred => out = Body

(* A file as the phone wrote it is decrypted with its key, by the header or by
   guessing, at once or in chunks longer than a trailer, unless it is shorter
   than a chunk, or to be guessed and shorter than HEADER_SIZE, its checksum looks like a
   phone number or, in chunks, several files are compressed (decrypt-wa.py:298, 335,
   349, 487; oscillate, 197-222). *)
Regular ==
    /\ file.damage = "none" /\ key.fits /\ file.looks = file.foot
    /\ IF opts.no_protobuf THEN ~file.short /\ file.iv + IvLength < DEFAULT_DATA_OFFSET ELSE file.proto # "none"
    /\ opts.buffer # 0 => Buffer > TrailerLength /\ Buffer <= Len(Written(file)) /\ (file.multi => file.zip)
IntactIsRead == Regular => step # "failed" /\ ~erred

(* Read at once and not forced, nothing is written that was not verified, and
   nothing by half (decrypt-wa.py:259-279). *)
WholeOrNothing == opts.buffer = 0 /\ ~opts.force => out \in {<< >>, Body}

(* What the script promises: success means the database, the phone's own files
   succeed, and read at once nothing else is ever written. *)
DecryptsRight == SuccessIsRight /\ IntactIsRead /\ WholeOrNothing
=============================================================================
