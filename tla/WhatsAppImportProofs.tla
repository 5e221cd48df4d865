------------------------- MODULE WhatsAppImportProofs -------------------------
(* Theorems about WhatsAppImport, for every value of its constants. *)
EXTENDS WhatsAppImport, FiniteSetTheorems, TLAPS

----------------------------------------------------------------------------
(* The numbers an import reports.                                          *)

LEMMA ConversationsFinite ==
  ASSUME NEW content \in Contents
  PROVE  Cardinality(Conversations(content)) \in Nat
<1>1. IsFiniteSet(Conversations(content))
  BY ImportAssumption, FS_Subset DEF ImportAssumption, Conversations
<1>2. QED
  BY <1>1, FS_CardinalityType

\* The messages of all chats are at least those of one.
LEMMA MessagesCover ==
  ASSUME NEW content \in Contents
  PROVE  /\ Messages(content) \in Nat
         /\ \A j \in Jids : content[j] \in Nat /\ content[j] <= Messages(content)
<1> DEFINE Of(j) == {j} \X (1..content[j])
           Parts == {Of(j) : j \in Jids}
<1>1. \A j \in Jids : content[j] \in Nat
  BY ImportAssumption DEF ImportAssumption
<1>2. ASSUME NEW j \in Jids
      PROVE  IsFiniteSet(Of(j)) /\ Cardinality(Of(j)) = content[j]
  <2>1. IsFiniteSet(1..content[j]) /\ Cardinality(1..content[j]) = content[j]
    BY <1>1, FS_Interval
  <2>2. IsFiniteSet({j}) /\ Cardinality({j}) = 1
    BY FS_Singleton
  <2>3. QED
    BY <1>1, <2>1, <2>2, FS_Product
<1>3. IsFiniteSet(Parts)
  <2> DEFINE f == [j \in Jids |-> Of(j)]
  <2>1. f \in Surjection(Jids, Parts)
    BY DEF Surjection
  <2>2. QED
    BY <2>1, ImportAssumption, FS_Surjection DEF ImportAssumption
<1>4. IsFiniteSet(UNION Parts)
  BY <1>2, <1>3, FS_UNION
<1>5. Messages(content) = Cardinality(UNION Parts)
  BY DEF Messages
<1>6. ASSUME NEW j \in Jids PROVE content[j] <= Messages(content)
  <2>1. Of(j) \subseteq UNION Parts
    OBVIOUS
  <2>2. Cardinality(Of(j)) <= Cardinality(UNION Parts)
    BY <1>4, <2>1, FS_Subset
  <2>3. QED
    BY <1>2, <1>5, <2>2
<1>7. QED
  BY <1>1, <1>4, <1>5, <1>6, FS_CardinalityType

----------------------------------------------------------------------------
(* Type correctness, whatever races and whatever fails.                    *)

\* What a request relies on: its row is there, its file is parsed, the chat it reads
\* the messages of has been found and stays.
Fits(s) ==
    s.pc # "idle" =>
        /\ s.pc # "queued" => s.import \in DOMAIN imports
        /\ s.pc \in {"record", "messages"} => s.content \in Contents
        /\ s.pc = "messages" =>
               s.at \in Jids /\ s.read[s.at] \in ChatRow
        /\ \A j \in Jids : s.read[j] # None => Key(s, j) \in DOMAIN chats
TypeInv == TypeOK /\ \A w \in Workers : Fits(session[w])

LEMMA SessionOf ==
  ASSUME TypeOK, NEW w \in Workers, session[w].pc # "idle"
  PROVE  session[w] \in Session /\ Busy(w)
  BY DEF TypeOK, Idle, Busy

\* Moves of a request.
LEMMA SessionMoves ==
  ASSUME NEW s \in Session
  PROVE  /\ \A pc \in {"queued", "processing", "parse", "record", "messages", "failing"} :
                [s EXCEPT !.pc = pc] \in Session
         /\ \A content \in Contents, todo \in SUBSET Jids :
                [s EXCEPT !.pc = "record", !.content = content, !.todo = todo] \in Session
         /\ \A j \in Jids :
                /\ [s EXCEPT !.todo = @ \ {j}] \in Session
                /\ \A row \in ChatRow :
                       [s EXCEPT !.todo = @ \ {j}, !.pc = "messages", !.at = j, !.read[j] = row]
                           \in Session
         /\ \A batches \in SUBSET Batch :
                s.at \in Jids /\ s.read[s.at] \in ChatRow =>
                    [s EXCEPT !.pc = "record", !.at = None, !.read[s.at].messages = batches]
                        \in Session
<1>1. ASSUME NEW j \in Jids, NEW row \in ChatRow
      PROVE  [s EXCEPT !.todo = @ \ {j}, !.pc = "messages", !.at = j, !.read[j] = row] \in Session
  BY DEF Session
<1>2. ASSUME NEW batches \in SUBSET Batch, s.at \in Jids, s.read[s.at] \in ChatRow
      PROVE  [s EXCEPT !.pc = "record", !.at = None, !.read[s.at].messages = batches] \in Session
  <2>1. [s.read[s.at] EXCEPT !.messages = batches] \in ChatRow
    BY <1>2 DEF ChatRow
  <2>2. [s.read EXCEPT ![s.at].messages = batches] \in [Jids -> ChatRow \cup {None}]
    BY <1>2, <2>1 DEF Session
  <2>3. QED
    BY <2>2 DEF Session
<1>3. \A pc \in {"queued", "processing", "parse", "record", "messages", "failing"} :
          [s EXCEPT !.pc = pc] \in Session
  BY DEF Session
<1>4. \A content \in Contents, todo \in SUBSET Jids :
          [s EXCEPT !.pc = "record", !.content = content, !.todo = todo] \in Session
  BY DEF Session
<1>5. \A j \in Jids : [s EXCEPT !.todo = @ \ {j}] \in Session
  BY DEF Session
<1>6. QED
  BY <1>1, <1>2, <1>3, <1>4, <1>5

LEMMA MovePc ==
  ASSUME NEW s \in Session,
         NEW pc \in {"queued", "processing", "parse", "record", "messages", "failing"}
  PROVE  LET t == [s EXCEPT !.pc = pc] IN
         /\ t \in Session
         /\ t.pc = pc /\ t.import = s.import /\ t.case_id = s.case_id
         /\ t.content = s.content /\ t.read = s.read /\ t.at = s.at /\ t.todo = s.todo
<1>1. [s EXCEPT !.pc = pc] \in Session
  BY SessionMoves
<1>2. QED
  BY <1>1 DEF Session

\* A step that keeps the rows and chats others rely on.
LEMMA StepFits ==
  ASSUME TypeInv, TypeOK', NEW w \in Workers,
         DOMAIN imports \subseteq DOMAIN imports', DOMAIN chats \subseteq DOMAIN chats',
         \A v \in Workers : v # w => session'[v] = session[v],
         Fits(session[w])'
  PROVE  TypeInv'
  BY DEF TypeInv, Fits, Key

LEMMA MoveFits ==
  ASSUME TypeInv, NEW w \in Workers, NEW s \in Session,
         session' = [session EXCEPT ![w] = s],
         UNCHANGED <<cases, files, imports, chats>>, faults' \in 0..MaxFaults, Fits(s)
  PROVE  TypeInv'
<1>1. TypeOK' /\ session'[w] = s /\ \A v \in Workers : v # w => session'[v] = session[v]
  BY DEF TypeInv, TypeOK
<1>2. Fits(session[w])'
  BY <1>1 DEF Fits, Key
<1>3. QED
  BY <1>1, <1>2, StepFits

LEMMA EndFits ==
  ASSUME TypeInv, NEW w \in Workers, Ends(w), UNCHANGED <<cases, files>>,
         faults' \in 0..MaxFaults,
         DOMAIN imports \subseteq DOMAIN imports', DOMAIN chats \subseteq DOMAIN chats',
         DOMAIN imports' \subseteq Imports, imports' \in [DOMAIN imports' -> ImportRow],
         DOMAIN chats' \subseteq Cases \X Jids, chats' \in [DOMAIN chats' -> ChatRow]
  PROVE  TypeInv'
<1>1. TypeOK' /\ session'[w] = Idle /\ \A v \in Workers : v # w => session'[v] = session[v]
  BY DEF TypeInv, TypeOK, Ends
<1>2. Fits(session[w])'
  BY <1>1 DEF Fits, Idle
<1>3. QED
  BY <1>1, <1>2, StepFits

\* What the third commit makes of the tables.
LEMMA CompletedTypes ==
  ASSUME TypeInv, NEW s \in Session, s.import \in DOMAIN imports, s.content \in Contents
  PROVE  /\ DOMAIN Completed(s) = DOMAIN imports /\ Completed(s) \in [DOMAIN imports -> ImportRow]
         /\ \A i \in DOMAIN imports : i # s.import => Completed(s)[i] = imports[i]
         /\ Completed(s)[s.import] =
                [imports[s.import] EXCEPT
                    !.status = "completed",
                    !.conversations_imported = Cardinality(Conversations(s.content)),
                    !.messages_imported = Messages(s.content)]
<1>1. Cardinality(Conversations(s.content)) \in Nat /\ Messages(s.content) \in Nat
  BY ConversationsFinite, MessagesCover
<1>2. imports \in [DOMAIN imports -> ImportRow]
  BY DEF TypeInv, TypeOK
<1>3. QED
  BY <1>1, <1>2 DEF Completed, ImportRow, Terminal

LEMMA PersistedTypes ==
  ASSUME TypeInv, NEW s \in Session, s.content \in Contents, Fits(s), s.pc # "idle"
  PROVE  LET new == Persisted(s, Conversations(s.content)) IN
         /\ DOMAIN chats \subseteq DOMAIN new /\ DOMAIN new \subseteq Cases \X Jids
         /\ new \in [DOMAIN new -> ChatRow]
         /\ \A k \in DOMAIN new : \A b \in new[k].messages :
                \/ k \in DOMAIN chats /\ b \in chats[k].messages
                \/ /\ k[1] = s.case_id /\ k[2] \in Jids
                   /\ b = [import |-> s.import, size |-> s.content[k[2]]]
<1> DEFINE done == Conversations(s.content)
           new == Persisted(s, done)
<1>1. \A j \in done : j \in Jids /\ s.content[j] \in Nat \ {0}
  BY MessagesCover DEF Conversations
<1>2. /\ s.case_id \in Cases /\ s.import \in Imports
      /\ \A j \in Jids : s.read[j] \in ChatRow \cup {None}
  BY DEF Session
<1>3. DOMAIN new = DOMAIN chats \cup {Key(s, j) : j \in done}
  BY DEF Persisted
<1>4. DOMAIN new \subseteq Cases \X Jids
  BY <1>1, <1>2, <1>3 DEF Key, TypeInv, TypeOK
<1>5. ASSUME NEW k \in DOMAIN new
      PROVE  /\ new[k] \in ChatRow
             /\ \A b \in new[k].messages :
                    \/ k \in DOMAIN chats /\ b \in chats[k].messages
                    \/ /\ k[1] = s.case_id /\ k[2] \in Jids
                       /\ b = [import |-> s.import, size |-> s.content[k[2]]]
  <2>1. CASE ~(k[2] \in done /\ k = Key(s, k[2]))
    <3>1. k \in DOMAIN chats
      BY <1>3, <2>1 DEF Key
    <3>2. new[k] = chats[k]
      BY <1>3, <2>1 DEF Persisted
    <3>3. QED
      BY <3>1, <3>2 DEF TypeInv, TypeOK
  <2>2. CASE k[2] \in done /\ k = Key(s, k[2])
    <3> DEFINE read == s.read[k[2]]
               size == s.content[k[2]]
               batch == [import |-> s.import, size |-> size]
    <3>1. new[k] = Replaced(Stored(k), read, s.import, size)
      BY <2>2 DEF Persisted
    <3>2. size \in Nat \ {0} /\ read \in ChatRow \cup {None} /\ batch \in Batch /\ k[2] \in Jids
      BY <1>1, <1>2, <2>2 DEF Batch
    <3>3. k[1] = s.case_id
      BY <2>2 DEF Key
    <3>4. CASE k \in DOMAIN chats
      <4>1. Stored(k) = chats[k] /\ chats[k] \in ChatRow
        BY <3>4 DEF Stored, TypeInv, TypeOK
      <4> HIDE DEF batch
      <4>2. /\ new[k].message_count \in {chats[k].message_count, size}
            /\ new[k].messages = (IF read = None THEN {} ELSE chats[k].messages \ read.messages)
                                 \cup {batch}
            /\ new[k] = [message_count |-> new[k].message_count, messages |-> new[k].messages]
        BY <3>1, <4>1 DEF Replaced, batch
      <4>3. new[k] \in ChatRow
        BY <3>2, <4>1, <4>2 DEF ChatRow
      <4>4. QED
        BY <3>2, <3>3, <3>4, <4>2, <4>3 DEF batch
    <3>5. CASE k \notin DOMAIN chats
      <4>1. Stored(k) = None /\ read = None
        BY <2>2, <3>2, <3>5 DEF Stored, Fits
      <4> HIDE DEF batch
      <4>2. new[k] = [message_count |-> size, messages |-> {batch}]
        BY <3>1, <4>1 DEF Replaced, batch
      <4>3. new[k] \in ChatRow
        BY <3>2, <4>2 DEF ChatRow
      <4>4. QED
        BY <3>2, <3>3, <4>2, <4>3 DEF batch
    <3>6. QED
      BY <3>4, <3>5
  <2>3. QED
    BY <2>1, <2>2
<1>6. new \in [DOMAIN new -> ChatRow]
  BY <1>5 DEF Persisted
<1>7. QED
  BY <1>3, <1>4, <1>5, <1>6

LEMMA InitTypeInv == Init => TypeInv
<1> SUFFICES ASSUME Init PROVE TypeInv
  OBVIOUS
<1>1. imports \in [{} -> ImportRow] /\ chats \in [{} -> ChatRow]
      /\ DOMAIN imports = {} /\ DOMAIN chats = {}
  BY DEF Init
<1>2. cases \in [Cases -> Status] /\ faults \in 0..MaxFaults
  BY ImportAssumption DEF Init, Status, ImportAssumption
<1>3. QED
  BY <1>1, <1>2 DEF Init, TypeInv, TypeOK, Fits, Idle

LEMMA NextTypeInv == TypeInv /\ [Next]_vars => TypeInv'
<1> SUFFICES ASSUME TypeInv, [Next]_vars PROVE TypeInv'
  OBVIOUS
<1> TypeOK /\ \A w \in Workers : Fits(session[w])
  BY DEF TypeInv
<1>1. CASE UNCHANGED vars
  BY <1>1 DEF vars, TypeInv, TypeOK, Fits, Key
<1>2. ASSUME NEW w \in Workers, NEW pc \in {"queued", "processing", "parse", "record", "messages", "failing"},
             Goes(w, pc), session[w].pc \notin {"idle", "queued"}, pc \in {"parse", "failing"},
             UNCHANGED <<cases, files, imports, chats>>, faults' \in 0..MaxFaults
      PROVE  TypeInv'
  <2> DEFINE s == [session[w] EXCEPT !.pc = pc]
  <2>1. session[w] \in Session
    BY <1>2, SessionOf
  <2>2. s \in Session /\ Fits(s)
    <3>1. s \in Session /\ s.pc = pc /\ s.import = session[w].import
          /\ s.case_id = session[w].case_id /\ s.content = session[w].content
          /\ s.read = session[w].read
      BY <2>1, MovePc
    <3> HIDE DEF s
    <3>2. QED
      BY <1>2, <3>1 DEF Fits, Key
  <2> HIDE DEF s
  <2>3. session' = [session EXCEPT ![w] = s]
    BY <1>2 DEF Goes, s
  <2>4. QED
    BY <1>2, <2>2, <2>3, MoveFits
<1>3. ASSUME NEW w \in Workers, Ends(w), UNCHANGED <<cases, files, imports, chats>>,
             faults' \in 0..MaxFaults
      PROVE  TypeInv'
  BY <1>3, EndFits DEF TypeOK
<1>4. ASSUME NEW w \in Workers, NEW i \in Imports, NEW c \in Cases, NEW src \in Sources,
             Submit(w, i, c, src)
      PROVE  TypeInv'
  <2> DEFINE s == [pc |-> "queued", import |-> i, case_id |-> c, source |-> src, content |-> None,
                   todo |-> {}, at |-> None, read |-> [j \in Jids |-> None]]
  <2>1. s \in Session
    BY DEF Session
  <2>2. Fits(s)
    BY DEF Fits
  <2> HIDE DEF s
  <2>3. session' = [session EXCEPT ![w] = s] /\ UNCHANGED <<cases, files, imports, chats, faults>>
    BY <1>4 DEF Submit, s
  <2>4. QED
    BY <2>1, <2>2, <2>3, MoveFits DEF TypeOK
<1>5. ASSUME NEW w \in Workers, QueuedCommit(w) PROVE TypeInv'
  <2> DEFINE i == session[w].import
             row == [case_id |-> session[w].case_id, source |-> session[w].source,
                     status |-> "queued", conversations_imported |-> None,
                     messages_imported |-> None]
             s == [session[w] EXCEPT !.pc = "processing"]
  <2>1. session[w].pc = "queued" /\ UNCHANGED <<cases, files, chats, faults>>
        /\ imports' = [k \in DOMAIN imports \cup {i} |-> IF k # i THEN imports[k] ELSE row]
        /\ session' = [session EXCEPT ![w] = s]
    BY <1>5 DEF QueuedCommit, Goes
  <2>2. session[w] \in Session
    BY <2>1, SessionOf
  <2>3. s \in Session /\ s.pc = "processing" /\ s.import = i /\ s.case_id = session[w].case_id
        /\ s.read = session[w].read
    BY <2>2, MovePc
  <2>4. row \in ImportRow /\ i \in Imports
    BY <2>2 DEF ImportRow, Session
  <2> HIDE DEF s, row
  <2>5. DOMAIN imports' = DOMAIN imports \cup {i} /\ imports' \in [DOMAIN imports' -> ImportRow]
    BY <2>1, <2>4 DEF TypeOK
  <2>6. TypeOK'
    BY <2>1, <2>3, <2>4, <2>5 DEF TypeOK
  <2>7. session'[w] = s /\ \A v \in Workers : v # w => session'[v] = session[v]
    BY <2>1 DEF TypeOK
  <2>8. Fits(session[w])'
    BY <2>1, <2>3, <2>5, <2>7 DEF Fits, Key
  <2>9. QED
    BY <2>1, <2>5, <2>6, <2>7, <2>8, StepFits
<1>6. ASSUME NEW w \in Workers, ProcessingCommit(w) PROVE TypeInv'
  <2> DEFINE s == [session[w] EXCEPT !.pc = "parse"]
  <2>1. session[w].pc = "processing" /\ UNCHANGED <<cases, files, chats, faults>>
        /\ imports' = [imports EXCEPT ![session[w].import].status = "processing"]
        /\ session' = [session EXCEPT ![w] = s]
    BY <1>6 DEF ProcessingCommit, Goes
  <2>2. session[w] \in Session
    BY <2>1, SessionOf
  <2>3. s \in Session /\ s.pc = "parse" /\ s.import = session[w].import
        /\ s.case_id = session[w].case_id /\ s.read = session[w].read
    BY <2>2, MovePc
  <2> HIDE DEF s
  <2>4. DOMAIN imports' = DOMAIN imports /\ imports' \in [DOMAIN imports' -> ImportRow]
    BY <2>1 DEF TypeOK, ImportRow
  <2>5. TypeOK'
    BY <2>1, <2>3, <2>4 DEF TypeOK
  <2>6. session'[w] = s /\ \A v \in Workers : v # w => session'[v] = session[v]
    BY <2>1 DEF TypeOK
  <2>7. Fits(session[w])'
    BY <2>1, <2>3, <2>4, <2>6 DEF Fits, Key
  <2>8. QED
    BY <2>1, <2>4, <2>5, <2>6, <2>7, StepFits
<1>7. ASSUME NEW w \in Workers, Parse(w) PROVE TypeInv'
  <2>1. session[w].pc = "parse" /\ UNCHANGED <<cases, files, imports, chats, faults>>
    BY <1>7 DEF Parse
  <2>2. CASE files[session[w].source] = Corrupt \/ ~resolve_msgstore_paths(session[w].source)
    BY <1>2, <1>7, <2>1, <2>2 DEF Parse, TypeOK
  <2>3. CASE ~(files[session[w].source] = Corrupt \/ ~resolve_msgstore_paths(session[w].source))
    <3> DEFINE content == files[session[w].source]
               s == [session[w] EXCEPT !.pc = "record", !.content = content,
                                       !.todo = Conversations(content)]
    <3>1. session[w] \in Session
      BY <2>1, SessionOf
    <3>2. content \in Contents
      BY <2>3, <3>1 DEF resolve_msgstore_paths, TypeOK, Session
    <3>3. s \in Session
      BY <3>1, <3>2, SessionMoves DEF Conversations
    <3>4. Fits(s)
      BY <2>1, <3>1, <3>2 DEF Fits, Key, Session
    <3>5. session' = [session EXCEPT ![w] = s]
      BY <1>7, <2>3 DEF Parse
    <3> HIDE DEF s
    <3>6. QED
      BY <2>1, <3>3, <3>4, <3>5, MoveFits DEF TypeOK
  <2>4. QED
    BY <2>2, <2>3
<1>8. ASSUME NEW w \in Workers, NEW j \in Jids, ReadRecord(w, j) PROVE TypeInv'
  <2> DEFINE row == Stored(Key(session[w], j))
             read == [row EXCEPT !.messages = {}]
             s == IF row = None THEN [session[w] EXCEPT !.todo = @ \ {j}]
                  ELSE [session[w] EXCEPT !.todo = @ \ {j}, !.pc = "messages", !.at = j,
                                          !.read[j] = read]
  <2>1. session[w].pc = "record" /\ UNCHANGED <<cases, files, imports, chats, faults>>
        /\ session' = [session EXCEPT ![w] = s]
    BY <1>8 DEF ReadRecord
  <2>2. session[w] \in Session
    BY <2>1, SessionOf
  <2>3. CASE row = None
    <3>1. s = [session[w] EXCEPT !.todo = @ \ {j}]
      BY <2>3
    <3>2. s \in Session
      BY <2>2, <3>1, SessionMoves
    <3>3. /\ s.pc = "record" /\ s.import = session[w].import
          /\ s.case_id = session[w].case_id /\ s.content = session[w].content
          /\ s.read = session[w].read
      BY <2>1, <2>2, <3>1 DEF Session
    <3> HIDE DEF s
    <3>4. Fits(s)
      BY <2>1, <3>3 DEF Fits, Key
    <3>5. QED
      BY <2>1, <3>2, <3>4, MoveFits DEF TypeOK
  <2>4. CASE row # None
    <3>1. Key(session[w], j) \in DOMAIN chats /\ row \in ChatRow
      BY <2>4 DEF Stored, TypeOK
    <3> HIDE DEF row
    <3>2. read \in ChatRow
      BY <3>1 DEF ChatRow
    <3> HIDE DEF read
    <3>3. s = [session[w] EXCEPT !.todo = @ \ {j}, !.pc = "messages", !.at = j, !.read[j] = read]
      BY <2>4 DEF read
    <3>4. s \in Session
      BY <2>2, <3>2, <3>3, SessionMoves
    <3>5. /\ s.pc = "messages" /\ s.at = j /\ s.import = session[w].import
          /\ s.case_id = session[w].case_id /\ s.content = session[w].content
          /\ s.read[j] = read
          /\ \A k \in Jids : k # j => s.read[k] = session[w].read[k]
      BY <2>2, <3>3 DEF Session
    <3> HIDE DEF s
    <3>6. Fits(s)
      BY <2>1, <3>1, <3>2, <3>5 DEF Fits, Key
    <3>7. QED
      BY <2>1, <3>4, <3>6, MoveFits DEF TypeOK
  <2>5. QED
    BY <2>3, <2>4
<1>9. ASSUME NEW w \in Workers, ReadMessages(w) PROVE TypeInv'
  <2> DEFINE batches == chats[Key(session[w], session[w].at)].messages
             s == [session[w] EXCEPT !.pc = "record", !.at = None,
                       !.read[session[w].at].messages = batches]
  <2>1. session[w].pc = "messages" /\ UNCHANGED <<cases, files, imports, chats, faults>>
        /\ session' = [session EXCEPT ![w] = s]
    BY <1>9 DEF ReadMessages
  <2>2. session[w] \in Session
    BY <2>1, SessionOf
  <2>3. /\ session[w].at \in Jids /\ session[w].read[session[w].at] \in ChatRow
        /\ Key(session[w], session[w].at) \in DOMAIN chats
    BY <2>1, ImportAssumption DEF Fits, ImportAssumption
  <2>4. batches \in SUBSET Batch
    BY <2>3 DEF TypeOK, ChatRow
  <2> HIDE DEF batches
  <2>5. s \in Session
    BY <2>2, <2>3, <2>4, SessionMoves
  <2>6. /\ s.pc = "record" /\ s.import = session[w].import
        /\ s.case_id = session[w].case_id /\ s.content = session[w].content
        /\ \A k \in Jids : k # session[w].at => s.read[k] = session[w].read[k]
    BY <2>2, <2>3 DEF Session
  <2> HIDE DEF s
  <2>7. Fits(s)
    BY <2>1, <2>3, <2>6 DEF Fits, Key
  <2>8. QED
    BY <2>1, <2>5, <2>7, MoveFits DEF TypeOK
<1>10. ASSUME NEW w \in Workers, NEW s \in Session, s = session[w], s.pc = "record",
              imports' = Completed(s), chats' = Persisted(s, Conversations(s.content))
       PROVE  /\ DOMAIN imports' = DOMAIN imports /\ imports' \in [DOMAIN imports' -> ImportRow]
              /\ DOMAIN imports' \subseteq Imports
              /\ DOMAIN chats \subseteq DOMAIN chats' /\ DOMAIN chats' \subseteq Cases \X Jids
              /\ chats' \in [DOMAIN chats' -> ChatRow]
  <2>1. s.import \in DOMAIN imports /\ s.content \in Contents /\ Fits(s)
    BY <1>10 DEF Fits
  <2>2. QED
    BY <1>10, <2>1, CompletedTypes, PersistedTypes DEF TypeOK
<1>11. ASSUME NEW w \in Workers, CompletedCommit(w) PROVE TypeInv'
  <2>1. session[w].pc = "record" /\ session[w] \in Session /\ UNCHANGED <<cases, files, faults>>
    BY <1>11, SessionOf DEF CompletedCommit
  <2>2. CASE Clash(session[w])
    BY <1>2, <1>11, <2>1, <2>2 DEF CompletedCommit, TypeOK
  <2>3. CASE ~Clash(session[w])
    <3>1. /\ imports' = Completed(session[w]) /\ Ends(w)
          /\ chats' = Persisted(session[w], Conversations(session[w].content))
      BY <1>11, <2>3 DEF CompletedCommit
    <3>2. QED
      BY <1>10, <2>1, <3>1, EndFits DEF TypeOK
  <2>4. QED
    BY <2>2, <2>3
<1>12. ASSUME NEW w \in Workers, Raise(w) PROVE TypeInv'
  BY <1>2, <1>12 DEF Raise, TypeOK
<1>13. ASSUME NEW w \in Workers, FailedCommit(w) PROVE TypeInv'
  <2>1. session[w].pc = "failing" /\ Ends(w) /\ UNCHANGED <<cases, files, chats, faults>>
        /\ imports' = [imports EXCEPT ![session[w].import].status = "failed"]
    BY <1>13 DEF FailedCommit
  <2>2. DOMAIN imports' = DOMAIN imports /\ imports' \in [DOMAIN imports' -> ImportRow]
    BY <2>1 DEF TypeOK, ImportRow, Terminal
  <2>3. QED
    BY <2>1, <2>2, EndFits DEF TypeOK
<1>14. Faulty => faults' \in 0..MaxFaults
  BY ImportAssumption DEF Faulty, TypeOK, ImportAssumption
<1>15. ASSUME NEW w \in Workers, Abort(w) PROVE TypeInv'
  BY <1>3, <1>14, <1>15 DEF Abort
<1>16. ASSUME Restart PROVE TypeInv'
  <2>1. UNCHANGED <<cases, files, imports, chats>> /\ \A w \in Workers : session'[w] = Idle
        /\ session' \in [Workers -> {Idle}]
    BY <1>16 DEF Restart
  <2>2. QED
    BY <1>14, <1>16, <2>1 DEF Restart, TypeInv, TypeOK, Fits, Idle
<1>17. ASSUME NEW w \in Workers, LostAnswer(w) PROVE TypeInv'
  <2> DEFINE s == [session[w] EXCEPT !.pc = "failing"]
  <2>1. /\ session[w].pc = "record" /\ session[w] \in Session /\ UNCHANGED <<cases, files>>
        /\ imports' = Completed(session[w]) /\ faults' \in 0..MaxFaults
        /\ chats' = Persisted(session[w], Conversations(session[w].content))
        /\ session' = [session EXCEPT ![w] = s]
    BY <1>14, <1>17, SessionOf DEF LostAnswer, Goes
  <2>2. s \in Session /\ s.pc = "failing" /\ s.import = session[w].import
        /\ s.case_id = session[w].case_id /\ s.read = session[w].read
    BY <2>1, MovePc
  <2> HIDE DEF s
  <2>3. session'[w] = s /\ \A v \in Workers : v # w => session'[v] = session[v]
    BY <2>1 DEF TypeOK
  <2>4. TypeOK' /\ DOMAIN imports' = DOMAIN imports /\ DOMAIN chats \subseteq DOMAIN chats'
    BY <1>10, <2>1, <2>2 DEF TypeOK
  <2>5. Fits(session[w])'
    BY <2>1, <2>2, <2>3, <2>4 DEF Fits, Key
  <2>6. QED
    BY <2>3, <2>4, <2>5, StepFits
<1>18. ASSUME NEW c \in Cases, NEW status \in Status, SetStatus(c, status) PROVE TypeInv'
  BY <1>18 DEF SetStatus, TypeInv, TypeOK, Fits, Key
<1>19. ASSUME NEW src \in Sources, NEW content \in Contents \cup {Missing, Corrupt},
              WriteFile(src, content)
       PROVE  TypeInv'
  BY <1>19 DEF WriteFile, TypeInv, TypeOK, Fits, Key
<1>20. QED
  BY <1>1, <1>4, <1>5, <1>6, <1>7, <1>8, <1>9, <1>11, <1>12, <1>13, <1>15, <1>16, <1>17, <1>18,
     <1>19 DEF Next, Step

\* Every reachable state is well typed, whatever races and fails (whatsapp_service.py).
THEOREM TypeCorrect == Spec => []TypeOK
<1>1. TypeInv => TypeOK
  BY DEF TypeInv
<1>2. QED
  BY <1>1, InitTypeInv, NextTypeInv, PTL DEF Spec

----------------------------------------------------------------------------
(* The life of an import, whatever races and whatever fails.               *)

\* How far the row of a request is.
Job(s) ==
    /\ s.pc = "queued" => s.import \notin DOMAIN imports
    /\ s.pc \notin {"idle", "queued"} => imports[s.import].case_id = s.case_id
    /\ s.pc = "processing" => imports[s.import].status = "queued"
    /\ s.pc \in {"parse", "record", "messages"} => imports[s.import].status = "processing"
Distinct ==
    \A v, w \in Workers :
        v # w /\ session[v].pc # "idle" /\ session[w].pc # "idle" =>
            session[v].import # session[w].import
JobInv == Distinct /\ \A w \in Workers : Job(session[w])

\* A step of a request touches no import but its own.
LEMMA OwnImport ==
  ASSUME TypeInv, JobInv, NEW w \in Workers, session[w].pc # "idle",
         \A v \in Workers : v # w => session'[v] = session[v],
         DOMAIN imports \subseteq DOMAIN imports',
         DOMAIN imports' \subseteq DOMAIN imports \cup {session[w].import},
         \A i \in DOMAIN imports : i # session[w].import => imports'[i] = imports[i],
         session'[w].pc # "idle" => session'[w].import = session[w].import,
         Job(session[w])'
  PROVE  JobInv'
<1>1. Distinct'
  BY DEF JobInv, Distinct
<1>2. ASSUME NEW v \in Workers, v # w PROVE Job(session[v])'
  <2>1. CASE session[v].pc = "idle"
    BY <1>2, <2>1 DEF Job
  <2>2. CASE session[v].pc # "idle"
    <3>1. session[v].import # session[w].import
      BY <1>2, <2>2 DEF JobInv, Distinct
    <3>2. session[v].pc # "queued" => session[v].import \in DOMAIN imports
      BY <2>2 DEF TypeInv, Fits
    <3>3. QED
      BY <1>2, <2>2, <3>1, <3>2 DEF JobInv, Job
  <2>3. QED
    BY <2>1, <2>2
<1>3. QED
  BY <1>1, <1>2 DEF JobInv

\* What a step does to an import that has ended.
Ending ==
    \A i \in DOMAIN imports :
        imports[i].status \in Terminal =>
            /\ i \in DOMAIN imports'
            /\ \/ imports'[i] = imports[i]
               \/ /\ \E w \in Workers : session[w].pc = "failing" /\ session[w].import = i
                  /\ imports'[i] = [imports[i] EXCEPT !.status = "failed"]

LEMMA NextJob == TypeInv /\ JobInv /\ [Next]_vars => JobInv' /\ Ending
<1> SUFFICES ASSUME TypeInv, JobInv, [Next]_vars PROVE JobInv' /\ Ending
  OBVIOUS
<1> TypeOK /\ (\A w \in Workers : Fits(session[w])) /\ Distinct /\ (\A w \in Workers : Job(session[w]))
  BY DEF TypeInv, JobInv
<1>0. imports' = imports => Ending
  BY DEF Ending
<1>1. ASSUME imports' = imports, session' = session PROVE JobInv' /\ Ending
  BY <1>0, <1>1 DEF JobInv, Distinct, Job
<1>2. ASSUME NEW w \in Workers, NEW pc \in {"queued", "processing", "parse", "record", "messages", "failing"},
             session[w].pc \in {"parse", "record", "messages"}, pc # "processing", pc # "queued",
             Goes(w, pc), imports' = imports
      PROVE  JobInv' /\ Ending
  <2> DEFINE s == [session[w] EXCEPT !.pc = pc]
  <2>1. s.pc = pc /\ s.import = session[w].import /\ s.case_id = session[w].case_id
    BY <1>2, SessionOf, MovePc
  <2> HIDE DEF s
  <2>2. session'[w] = s /\ \A v \in Workers : v # w => session'[v] = session[v]
    BY <1>2 DEF Goes, TypeOK, s
  <2>3. Job(session[w])'
    BY <1>2, <2>1, <2>2 DEF Job
  <2>4. QED
    BY <1>0, <1>2, <2>1, <2>2, <2>3, OwnImport
<1>3. ASSUME NEW w \in Workers, Ends(w), session[w].pc # "idle", imports' = imports
      PROVE  JobInv' /\ Ending
  <2>1. session'[w] = Idle /\ \A v \in Workers : v # w => session'[v] = session[v]
    BY <1>3 DEF Ends, TypeOK
  <2>2. Job(session[w])'
    BY <2>1 DEF Job, Idle
  <2>3. QED
    BY <1>0, <1>3, <2>1, <2>2, OwnImport DEF Idle
<1>4. ASSUME NEW w \in Workers, NEW i \in Imports, NEW c \in Cases, NEW src \in Sources,
             Submit(w, i, c, src)
      PROVE  JobInv' /\ Ending
  <2> DEFINE s == [pc |-> "queued", import |-> i, case_id |-> c, source |-> src, content |-> None,
                   todo |-> {}, at |-> None, read |-> [j \in Jids |-> None]]
  <2>1. s.pc = "queued" /\ s.import = i
    OBVIOUS
  <2> HIDE DEF s
  <2>2. /\ session'[w] = s /\ \A v \in Workers : v # w => session'[v] = session[v]
        /\ imports' = imports /\ i \notin DOMAIN imports
        /\ \A v \in Workers : Busy(v) => session[v].import # i
    BY <1>4 DEF Submit, TypeOK, s
  <2>3. \A v \in Workers : session[v].pc # "idle" => session[v].import # i
    BY <2>2 DEF Busy, Idle
  <2>4. Distinct'
    BY <2>1, <2>2, <2>3 DEF Distinct
  <2>5. \A v \in Workers : Job(session[v])'
    BY <2>1, <2>2 DEF Job
  <2>6. QED
    BY <1>0, <2>2, <2>4, <2>5 DEF JobInv
<1>5. ASSUME NEW w \in Workers, QueuedCommit(w) PROVE JobInv' /\ Ending
  <2> DEFINE i == session[w].import
             row == [case_id |-> session[w].case_id, source |-> session[w].source,
                     status |-> "queued", conversations_imported |-> None,
                     messages_imported |-> None]
             s == [session[w] EXCEPT !.pc = "processing"]
  <2>1. session[w].pc = "queued" /\ session' = [session EXCEPT ![w] = s]
        /\ imports' = [k \in DOMAIN imports \cup {i} |-> IF k # i THEN imports[k] ELSE row]
    BY <1>5 DEF QueuedCommit, Goes
  <2>2. s.pc = "processing" /\ s.import = i /\ s.case_id = session[w].case_id
    BY <2>1, SessionOf, MovePc
  <2>3. row.status = "queued" /\ row.case_id = session[w].case_id
    OBVIOUS
  <2> HIDE DEF s, row
  <2>4. session'[w] = s /\ \A v \in Workers : v # w => session'[v] = session[v]
    BY <2>1 DEF TypeOK
  <2>5. i \notin DOMAIN imports
    BY <2>1 DEF Job
  <2>6. /\ DOMAIN imports' = DOMAIN imports \cup {i} /\ imports'[i] = row
        /\ \A k \in DOMAIN imports : imports'[k] = imports[k]
    BY <2>1, <2>5
  <2>7. Job(session[w])'
    BY <2>2, <2>3, <2>4, <2>6 DEF Job
  <2>8. Ending
    BY <2>6 DEF Ending
  <2>9. QED
    BY <2>1, <2>2, <2>4, <2>6, <2>7, <2>8, OwnImport
<1>6. ASSUME NEW w \in Workers, NEW status \in {"processing", "failed"}, session[w].pc # "queued",
             session[w].pc # "idle",
             imports' = [imports EXCEPT ![session[w].import].status = status]
      PROVE  /\ DOMAIN imports' = DOMAIN imports
             /\ imports'[session[w].import] = [imports[session[w].import] EXCEPT !.status = status]
             /\ imports'[session[w].import].status = status
             /\ imports'[session[w].import].case_id = imports[session[w].import].case_id
             /\ \A i \in DOMAIN imports : i # session[w].import => imports'[i] = imports[i]
  <2>1. session[w].import \in DOMAIN imports /\ imports[session[w].import] \in ImportRow
    BY <1>6 DEF Fits, TypeOK
  <2>2. QED
    BY <1>6, <2>1 DEF ImportRow
<1>7. ASSUME NEW w \in Workers, ProcessingCommit(w) PROVE JobInv' /\ Ending
  <2> DEFINE s == [session[w] EXCEPT !.pc = "parse"]
  <2>1. session[w].pc = "processing" /\ session' = [session EXCEPT ![w] = s]
        /\ imports' = [imports EXCEPT ![session[w].import].status = "processing"]
    BY <1>7 DEF ProcessingCommit, Goes
  <2>2. s.pc = "parse" /\ s.import = session[w].import /\ s.case_id = session[w].case_id
    BY <2>1, SessionOf, MovePc
  <2> HIDE DEF s
  <2>3. session'[w] = s /\ \A v \in Workers : v # w => session'[v] = session[v]
    BY <2>1 DEF TypeOK
  <2>4. /\ DOMAIN imports' = DOMAIN imports /\ imports'[session[w].import].status = "processing"
        /\ imports'[session[w].import].case_id = imports[session[w].import].case_id
        /\ \A i \in DOMAIN imports : i # session[w].import => imports'[i] = imports[i]
    BY <1>6, <2>1
  <2>5. imports[session[w].import].status = "queued"
        /\ imports[session[w].import].case_id = session[w].case_id
    BY <2>1 DEF Job
  <2>6. Ending
    BY <2>4, <2>5 DEF Ending, Terminal
  <2>7. Job(session[w])'
    BY <2>2, <2>3, <2>4, <2>5 DEF Job
  <2>8. QED
    BY <2>1, <2>2, <2>3, <2>4, <2>6, <2>7, OwnImport
<1>8. ASSUME NEW w \in Workers, Parse(w) PROVE JobInv' /\ Ending
  <2>1. session[w].pc = "parse" /\ imports' = imports
    BY <1>8 DEF Parse
  <2>2. CASE Goes(w, "failing")
    BY <1>2, <2>1, <2>2
  <2>3. CASE ~Goes(w, "failing")
    <3> DEFINE content == files[session[w].source]
               s == [session[w] EXCEPT !.pc = "record", !.content = content,
                                       !.todo = Conversations(content)]
    <3>1. session' = [session EXCEPT ![w] = s]
      BY <1>8, <2>3 DEF Parse
    <3>2. s.pc = "record" /\ s.import = session[w].import /\ s.case_id = session[w].case_id
      BY <2>1, SessionOf DEF Session
    <3> HIDE DEF s
    <3>3. session'[w] = s /\ \A v \in Workers : v # w => session'[v] = session[v]
      BY <3>1 DEF TypeOK
    <3>4. Job(session[w])'
      BY <2>1, <3>2, <3>3 DEF Job
    <3>5. QED
      BY <1>0, <2>1, <3>2, <3>3, <3>4, OwnImport
  <2>4. QED
    BY <2>2, <2>3
<1>9. ASSUME NEW w \in Workers, session[w].pc \in {"record", "messages"}, imports' = imports,
             session'[w].pc \in {"record", "messages"},
             session'[w].import = session[w].import,
             session'[w].case_id = session[w].case_id,
             \A v \in Workers : v # w => session'[v] = session[v]
      PROVE  JobInv' /\ Ending
  <2>1. Job(session[w])'
    BY <1>9 DEF Job
  <2>2. QED
    BY <1>0, <1>9, <2>1, OwnImport
<1>10. ASSUME NEW w \in Workers, NEW j \in Jids, ReadRecord(w, j) PROVE JobInv' /\ Ending
  <2> DEFINE row == Stored(Key(session[w], j))
             read == [row EXCEPT !.messages = {}]
             s == IF row = None THEN [session[w] EXCEPT !.todo = @ \ {j}]
                  ELSE [session[w] EXCEPT !.todo = @ \ {j}, !.pc = "messages", !.at = j,
                                          !.read[j] = read]
  <2>1. session[w].pc = "record" /\ imports' = imports /\ session' = [session EXCEPT ![w] = s]
    BY <1>10 DEF ReadRecord
  <2> HIDE DEF row, read
  <2>2. s.pc \in {"record", "messages"} /\ s.import = session[w].import
        /\ s.case_id = session[w].case_id
    BY <2>1, SessionOf DEF Session
  <2> HIDE DEF s
  <2>3. session'[w] = s /\ \A v \in Workers : v # w => session'[v] = session[v]
    BY <2>1 DEF TypeOK
  <2>4. QED
    BY <1>9, <2>1, <2>2, <2>3
<1>11. ASSUME NEW w \in Workers, ReadMessages(w) PROVE JobInv' /\ Ending
  <2> DEFINE batches == chats[Key(session[w], session[w].at)].messages
             s == [session[w] EXCEPT !.pc = "record", !.at = None,
                       !.read[session[w].at].messages = batches]
  <2>1. session[w].pc = "messages" /\ imports' = imports /\ session' = [session EXCEPT ![w] = s]
    BY <1>11 DEF ReadMessages
  <2> HIDE DEF batches
  <2>2. s.pc = "record" /\ s.import = session[w].import /\ s.case_id = session[w].case_id
    BY <2>1, SessionOf DEF Session
  <2> HIDE DEF s
  <2>3. session'[w] = s /\ \A v \in Workers : v # w => session'[v] = session[v]
    BY <2>1 DEF TypeOK
  <2>4. QED
    BY <1>9, <2>1, <2>2, <2>3
<1>12. ASSUME NEW w \in Workers, session[w].pc = "record", imports' = Completed(session[w])
       PROVE  /\ Ending /\ DOMAIN imports' = DOMAIN imports
              /\ imports'[session[w].import].case_id = session[w].case_id
              /\ \A i \in DOMAIN imports : i # session[w].import => imports'[i] = imports[i]
  <2>1. /\ session[w] \in Session /\ session[w].import \in DOMAIN imports
        /\ session[w].content \in Contents /\ imports[session[w].import] \in ImportRow
        /\ imports[session[w].import].status = "processing"
        /\ imports[session[w].import].case_id = session[w].case_id
    BY <1>12, SessionOf DEF Fits, Job, TypeOK
  <2>2. /\ DOMAIN imports' = DOMAIN imports
        /\ \A i \in DOMAIN imports : i # session[w].import => imports'[i] = imports[i]
    BY <1>12, <2>1, CompletedTypes
  <2>3. imports'[session[w].import].case_id = session[w].case_id
    BY <1>12, <2>1, CompletedTypes DEF ImportRow
  <2>4. QED
    BY <2>1, <2>2, <2>3 DEF Ending, Terminal
<1>13. ASSUME NEW w \in Workers, CompletedCommit(w) PROVE JobInv' /\ Ending
  <2>1. session[w].pc = "record"
    BY <1>13 DEF CompletedCommit
  <2>2. CASE Clash(session[w])
    BY <1>2, <1>13, <2>1, <2>2 DEF CompletedCommit
  <2>3. CASE ~Clash(session[w])
    <3>1. imports' = Completed(session[w]) /\ Ends(w)
      BY <1>13, <2>3 DEF CompletedCommit
    <3>2. session'[w] = Idle /\ \A v \in Workers : v # w => session'[v] = session[v]
      BY <3>1 DEF Ends, TypeOK
    <3>3. Job(session[w])'
      BY <3>2 DEF Job, Idle
    <3>4. QED
      BY <1>12, <2>1, <3>1, <3>2, <3>3, OwnImport DEF Idle
  <2>4. QED
    BY <2>2, <2>3
<1>14. ASSUME NEW w \in Workers, LostAnswer(w) PROVE JobInv' /\ Ending
  <2> DEFINE s == [session[w] EXCEPT !.pc = "failing"]
  <2>1. session[w].pc = "record" /\ imports' = Completed(session[w])
        /\ session' = [session EXCEPT ![w] = s]
    BY <1>14 DEF LostAnswer, Goes
  <2>2. s.pc = "failing" /\ s.import = session[w].import /\ s.case_id = session[w].case_id
    BY <2>1, SessionOf, MovePc
  <2> HIDE DEF s
  <2>3. session'[w] = s /\ \A v \in Workers : v # w => session'[v] = session[v]
    BY <2>1 DEF TypeOK
  <2>4. Job(session[w])'
    BY <1>12, <2>1, <2>2, <2>3 DEF Job
  <2>5. QED
    BY <1>12, <2>1, <2>2, <2>3, <2>4, OwnImport
<1>15. ASSUME NEW w \in Workers, FailedCommit(w) PROVE JobInv' /\ Ending
  <2>1. session[w].pc = "failing" /\ Ends(w)
        /\ imports' = [imports EXCEPT ![session[w].import].status = "failed"]
    BY <1>15 DEF FailedCommit
  <2>2. /\ DOMAIN imports' = DOMAIN imports
        /\ imports'[session[w].import] = [imports[session[w].import] EXCEPT !.status = "failed"]
        /\ \A i \in DOMAIN imports : i # session[w].import => imports'[i] = imports[i]
    BY <1>6, <2>1
  <2>3. session'[w] = Idle /\ \A v \in Workers : v # w => session'[v] = session[v]
    BY <2>1 DEF Ends, TypeOK
  <2>4. Job(session[w])'
    BY <2>3 DEF Job, Idle
  <2>5. Ending
    BY <2>1, <2>2 DEF Ending
  <2>6. QED
    BY <2>1, <2>2, <2>3, <2>4, <2>5, OwnImport DEF Idle
<1>16. ASSUME Restart PROVE JobInv' /\ Ending
  <2>1. imports' = imports /\ \A w \in Workers : session'[w] = Idle
    BY <1>16 DEF Restart
  <2>2. QED
    BY <1>0, <2>1 DEF JobInv, Distinct, Job, Idle
<1>17. CASE \E w \in Workers : Raise(w) \/ Abort(w)
  BY <1>2, <1>3, <1>17 DEF Raise, Abort
<1>18. CASE \/ UNCHANGED vars
            \/ \E c \in Cases, status \in Status : SetStatus(c, status)
            \/ \E src \in Sources, content \in Contents \cup {Missing, Corrupt} :
                   WriteFile(src, content)
  BY <1>1, <1>18 DEF vars, SetStatus, WriteFile
<1>19. QED
  BY <1>4, <1>5, <1>7, <1>8, <1>10, <1>11, <1>13, <1>14, <1>15, <1>16, <1>17, <1>18 DEF Next, Step

LEMMA JobInvariant == Spec => [](TypeInv /\ JobInv)
<1>1. Init => JobInv
  BY DEF Init, JobInv, Distinct, Job, Idle
<1>2. QED
  BY <1>1, InitTypeInv, NextTypeInv, NextJob, PTL DEF Spec

\* An import that has ended stays as it ended, but for one whose third commit took
\* effect and raised, whatever races and fails (whatsapp_service.py:352-368).
THEOREM EndsAreFinal == Spec => EndIsFinal
<1>1. TypeInv /\ JobInv /\ [Next]_vars => Ending
  BY NextJob
<1>2. QED
  BY <1>1, JobInvariant, PTL DEF Spec, EndIsFinal, Ending

----------------------------------------------------------------------------
(* What is stored has been reported.                                       *)

Reported(b, c) ==
    /\ b.import \in DOMAIN imports
    /\ imports[b.import].status \in Terminal
    /\ imports[b.import].case_id = c
    /\ imports[b.import].messages_imported # None
    /\ b.size <= imports[b.import].messages_imported

\* A batch that was reported still is.
LEMMA StaysReported ==
  ASSUME TypeInv, Ending, NEW b, NEW c, Reported(b, c)
  PROVE  Reported(b, c)'
<1>1. b.import \in DOMAIN imports /\ imports[b.import] \in ImportRow
  BY DEF Reported, TypeInv, TypeOK
<1>2. /\ b.import \in DOMAIN imports'
      /\ \/ imports'[b.import] = imports[b.import]
         \/ imports'[b.import] = [imports[b.import] EXCEPT !.status = "failed"]
  BY <1>1 DEF Ending, Reported
<1>3. /\ imports'[b.import].status \in {imports[b.import].status, "failed"}
      /\ imports'[b.import].case_id = imports[b.import].case_id
      /\ imports'[b.import].messages_imported = imports[b.import].messages_imported
  <2>1. CASE imports'[b.import] = imports[b.import]
    BY <2>1
  <2>2. CASE imports'[b.import] = [imports[b.import] EXCEPT !.status = "failed"]
    BY <1>1, <2>2 DEF ImportRow
  <2>3. QED
    BY <1>2, <2>1, <2>2
<1>4. imports'[b.import].status \in Terminal
  BY <1>3 DEF Reported, Terminal
<1>5. QED
  BY <1>2, <1>3, <1>4 DEF Reported

LEMMA NextReported ==
  TypeInv /\ JobInv /\ OnlyReportedImports /\ [Next]_vars => OnlyReportedImports'
<1> SUFFICES ASSUME TypeInv, JobInv, OnlyReportedImports, [Next]_vars
             PROVE  OnlyReportedImports'
  OBVIOUS
<1>1. Ending
  BY NextJob
<1>2. \A k \in DOMAIN chats : \A b \in chats[k].messages : Reported(b, k[1])
  BY DEF OnlyReportedImports, Reported
<1>3. CASE chats' = chats
  BY <1>1, <1>2, <1>3, StaysReported DEF OnlyReportedImports, Reported
<1>4. ASSUME NEW w \in Workers, session[w].pc = "record", imports' = Completed(session[w]),
             chats' = Persisted(session[w], Conversations(session[w].content))
      PROVE  OnlyReportedImports'
  <2> DEFINE s == session[w]
  <2>1. /\ s \in Session /\ s.import \in DOMAIN imports /\ s.content \in Contents /\ Fits(s)
        /\ imports[s.import] \in ImportRow /\ imports[s.import].case_id = s.case_id
    BY <1>4, SessionOf DEF TypeInv, TypeOK, Fits, JobInv, Job
  <2>2. /\ s.import \in DOMAIN imports'
        /\ imports'[s.import].status = "completed"
        /\ imports'[s.import].case_id = s.case_id
        /\ imports'[s.import].messages_imported = Messages(s.content)
    BY <1>4, <2>1, CompletedTypes DEF ImportRow
  <2>3. ASSUME NEW j \in Jids
        PROVE  s.content[j] <= Messages(s.content) /\ Messages(s.content) # None
    <3>1. s.content[j] <= Messages(s.content) /\ Messages(s.content) \in Nat
      BY <2>1, MessagesCover
    <3>2. QED
      BY <3>1, ImportAssumption DEF ImportAssumption
  <2>4. ASSUME NEW k \in DOMAIN chats', NEW b \in chats'[k].messages
        PROVE  Reported(b, k[1])'
    <3>1. CASE k \in DOMAIN chats /\ b \in chats[k].messages
      BY <1>1, <1>2, <3>1, StaysReported
    <3>2. CASE /\ k[1] = s.case_id /\ k[2] \in Jids
               /\ b = [import |-> s.import, size |-> s.content[k[2]]]
      <4>1. b.import = s.import /\ b.size = s.content[k[2]]
        BY <3>2
      <4> HIDE DEF s
      <4>2. QED
        BY <2>2, <2>3, <3>2, <4>1 DEF Reported, Terminal
    <3>3. QED
      BY <1>4, <2>1, <3>1, <3>2, PersistedTypes
  <2>5. QED
    BY <2>4 DEF OnlyReportedImports, Reported
<1>5. chats' = chats \/ \E w \in Workers : CompletedCommit(w) \/ LostAnswer(w)
  BY DEF Next, vars, Step, Submit, QueuedCommit, ProcessingCommit, Parse, ReadRecord, ReadMessages,
     FailedCommit, Raise, Abort, Restart, SetStatus, WriteFile
<1>6. QED
  BY <1>3, <1>4, <1>5 DEF CompletedCommit, LostAnswer

\* What is stored is of imports that ended, that are of the case it is stored for
\* and that report at least so much, whatever races and fails
\* (whatsapp_service.py:330-351).
THEOREM StoredIsReported == Spec => []OnlyReportedImports
<1>1. Init => OnlyReportedImports
  BY DEF Init, OnlyReportedImports
<1>2. QED
  BY <1>1, JobInvariant, NextReported, PTL DEF Spec

----------------------------------------------------------------------------
(* One import per case at a time: imports are all or nothing.              *)

\* What a request found of the chats it has looked up is what is stored: no row, or a
\* row with the messages read, unless they are yet to be read.
ReadRight(s) ==
    s.pc \in {"record", "messages"} =>
        \A j \in Conversations(s.content) \ s.todo :
            /\ s.read[j] = None => Key(s, j) \notin DOMAIN chats
            /\ s.read[j] # None /\ ~(s.pc = "messages" /\ s.at = j) =>
                   s.read[j].messages = chats[Key(s, j)].messages
\* An import that failed has not ended before its third commit.
Unended(s) == s.pc = "failing" => imports[s.import].status = "processing"
AloneInv == Isolated /\ \A w \in Workers : ReadRight(session[w]) /\ Unended(session[w])

\* What a chat and a row show of the abstract state.
LEMMA JobOf ==
  ASSUME NEW i \in Imports
  PROVE  /\ i \notin DOMAIN imports => job[i] = <<"none">>
         /\ i \in DOMAIN imports /\ imports[i].status \in Terminal =>
                job[i] = <<imports[i].status, imports[i].case_id>>
         /\ i \in DOMAIN imports /\ imports[i].status \notin Terminal =>
                job[i] = <<"accepted", imports[i].case_id>>
  BY DEF job

LEMMA JobNext ==
  ASSUME NEW i \in Imports
  PROVE  /\ i \in DOMAIN imports' /\ imports'[i].status \in Terminal =>
                job'[i] = <<imports'[i].status, imports'[i].case_id>>
         /\ i \in DOMAIN imports' /\ imports'[i].status \notin Terminal =>
                job'[i] = <<"accepted", imports'[i].case_id>>
         /\ (i \in DOMAIN imports <=> i \in DOMAIN imports') /\ imports'[i] = imports[i] =>
                job'[i] = job[i]
  BY DEF job

\* An import that moves alone changes the abstract state at its own place.
LEMMA JobMoves ==
  ASSUME NEW i \in Imports, i \in DOMAIN imports',
         DOMAIN imports' = DOMAIN imports \cup {i},
         \A k \in DOMAIN imports : k # i => imports'[k] = imports[k]
  PROVE  /\ imports'[i].status \in Terminal =>
                job' = [job EXCEPT ![i] = <<imports'[i].status, imports'[i].case_id>>]
         /\ imports'[i].status \notin Terminal =>
                job' = [job EXCEPT ![i] = <<"accepted", imports'[i].case_id>>]
<1>1. job = [k \in Imports |-> job[k]] /\ job' = [k \in Imports |-> job'[k]]
  BY DEF job
<1>2. \A k \in Imports : k # i => job'[k] = job[k]
  BY DEF job
<1>3. /\ imports'[i].status \in Terminal => job'[i] = <<imports'[i].status, imports'[i].case_id>>
      /\ imports'[i].status \notin Terminal => job'[i] = <<"accepted", imports'[i].case_id>>
  BY JobNext
<1> HIDE DEF job
<1>4. QED
  BY <1>1, <1>2, <1>3

\* What the third commit of an import that was alone stores.
LEMMA StoresAll ==
  ASSUME TypeInv, NEW s \in Session, s.pc = "record", s.todo = {}, Fits(s), ReadRight(s),
         ~Clash(s), chats' = Persisted(s, Conversations(s.content))
  PROVE  store' = [k \in Cases \X Jids |->
                      IF k[1] = s.case_id /\ s.content[k[2]] > 0
                      THEN {[import |-> s.import, size |-> s.content[k[2]]]}
                      ELSE store[k]]
<1> DEFINE done == Conversations(s.content)
           new == Persisted(s, done)
<1>0. s.content \in Contents /\ DOMAIN new = DOMAIN chats \cup {Key(s, j) : j \in done}
  BY DEF Fits, Persisted
<1>1. ASSUME NEW k \in Cases \X Jids
      PROVE  (IF k \in DOMAIN new THEN new[k].messages ELSE {}) =
                 IF k[1] = s.case_id /\ s.content[k[2]] > 0
                 THEN {[import |-> s.import, size |-> s.content[k[2]]]}
                 ELSE store[k]
  <2> DEFINE j == k[2]
             batch == [import |-> s.import, size |-> s.content[j]]
  <2>1. k = <<k[1], j>> /\ j \in Jids
    OBVIOUS
  <2>2. CASE k[1] = s.case_id /\ s.content[j] > 0
    <3>1. j \in done /\ k = Key(s, j) /\ k \in DOMAIN new
      BY <1>0, <2>1, <2>2 DEF Conversations, Key
    <3>2. new[k] = Replaced(Stored(k), s.read[j], s.import, s.content[j])
      BY <3>1 DEF Persisted
    <3> HIDE DEF batch
    <3>3. new[k].messages = (IF s.read[j] = None THEN {} ELSE Stored(k).messages \ s.read[j].messages)
                            \cup {batch}
      BY <3>2 DEF Replaced, batch
    <3>4. s.read[j] # None => Stored(k).messages \ s.read[j].messages = {}
      <4>1. s.read[j] # None =>
                k \in DOMAIN chats /\ s.read[j].messages = chats[k].messages
        BY <2>1, <3>1 DEF ReadRight, Fits
      <4>2. QED
        BY <4>1 DEF Stored
    <3>5. new[k].messages = {batch}
      BY <3>3, <3>4
    <3>6. QED
      BY <2>2, <3>1, <3>5 DEF batch
  <2>3. CASE ~(k[1] = s.case_id /\ s.content[j] > 0)
    <3>1. ~(j \in done /\ k = Key(s, j))
      BY <2>3 DEF Conversations, Key
    <3>2. k \in DOMAIN new <=> k \in DOMAIN chats
      BY <1>0, <3>1 DEF Key
    <3>3. k \in DOMAIN chats => new[k] = chats[k]
      BY <1>0, <3>1 DEF Persisted
    <3>4. QED
      BY <2>3, <3>2, <3>3 DEF store
  <2>4. QED
    BY <2>2, <2>3
<1> HIDE DEF new
<1>2. chats' = new
  BY DEF new
<1>3. store' = [k \in Cases \X Jids |-> IF k \in DOMAIN new THEN new[k].messages ELSE {}]
  BY <1>2 DEF store
<1>4. QED
  BY <1>1, <1>3

\* A step that leaves the chats and the rows of the other requests alone.
LEMMA OthersAlone ==
  ASSUME TypeInv, JobInv, AloneInv, NEW w \in Workers, session[w].pc # "idle", Isolated',
         \A v \in Workers : v # w => session'[v] = session[v],
         \A i \in DOMAIN imports : i # session[w].import => imports'[i] = imports[i],
         \A c \in Cases, j \in Jids :
             c # session[w].case_id =>
                 /\ <<c, j>> \in DOMAIN chats' <=> <<c, j>> \in DOMAIN chats
                 /\ <<c, j>> \in DOMAIN chats => chats'[<<c, j>>] = chats[<<c, j>>],
         ReadRight(session[w])', Unended(session[w])'
  PROVE  AloneInv'
<1>1. ASSUME NEW v \in Workers, v # w, session[v].pc # "idle"
      PROVE  ReadRight(session[v])' /\ Unended(session[v])'
  <2>1. session[v] \in Session /\ Busy(v) /\ Busy(w)
    BY <1>1, SessionOf DEF TypeInv
  <2>2. session[v].case_id # session[w].case_id /\ session[v].import # session[w].import
    BY <1>1, <2>1 DEF AloneInv, Isolated, JobInv, Distinct
  <2>3. session'[v] = session[v] /\ ReadRight(session[v]) /\ Unended(session[v]) /\ Fits(session[v])
    BY <1>1 DEF AloneInv, TypeInv
  <2>4. Unended(session[v])'
    BY <1>1, <2>2, <2>3 DEF Unended, Fits
  <2>5. ReadRight(session[v])'
    <3>1. session[v].case_id \in Cases
      BY <2>1 DEF Session
    <3>2. ASSUME NEW j \in Jids
          PROVE  /\ Key(session[v], j) \in DOMAIN chats' <=> Key(session[v], j) \in DOMAIN chats
                 /\ Key(session[v], j) \in DOMAIN chats =>
                        chats'[Key(session[v], j)] = chats[Key(session[v], j)]
      BY <2>2, <3>1 DEF Key
    <3>3. \A j \in Conversations(session[v].content) : j \in Jids
      BY DEF Conversations
    <3>4. \A j \in Jids : session[v].read[j] # None => Key(session[v], j) \in DOMAIN chats
      BY <1>1, <2>3 DEF Fits
    <3>5. QED
      BY <2>3, <3>2, <3>3, <3>4 DEF ReadRight, Key
  <2>6. QED
    BY <2>4, <2>5
<1>2. ASSUME NEW v \in Workers, v # w, session[v].pc = "idle"
      PROVE  ReadRight(session[v])' /\ Unended(session[v])'
  BY <1>2 DEF ReadRight, Unended
<1>3. QED
  BY <1>1, <1>2 DEF AloneInv

LEMMA StoreStill ==
  (imports' = imports => job' = job) /\ (chats' = chats => store' = store)
  BY DEF job, store

\* A request moves on, the tables as they are.
LEMMA MoveAlone ==
  ASSUME TypeInv, JobInv, AloneInv, Isolated', NEW w \in Workers, session[w].pc # "idle",
         NEW s, session' = [session EXCEPT ![w] = s], imports' = imports, chats' = chats,
         ReadRight(s), Unended(s)
  PROVE  AloneInv'
<1>1. session'[w] = s /\ \A v \in Workers : v # w => session'[v] = session[v]
  BY DEF TypeInv, TypeOK
<1>2. ReadRight(session[w])' /\ Unended(session[w])'
  BY <1>1 DEF ReadRight, Unended, Key
<1>3. QED
  BY <1>1, <1>2, OthersAlone

LEMMA GoAlone ==
  ASSUME TypeInv, JobInv, AloneInv, Isolated', NEW w \in Workers,
         NEW pc \in {"parse", "failing"}, session[w].pc \in {"parse", "record", "messages"},
         Goes(w, pc), imports' = imports, chats' = chats
  PROVE  AloneInv'
<1> DEFINE s == [session[w] EXCEPT !.pc = pc]
<1>1. s.pc = pc /\ s.import = session[w].import
  BY SessionOf, MovePc DEF TypeInv
<1>2. imports[session[w].import].status = "processing"
  BY DEF JobInv, Job
<1> HIDE DEF s
<1>3. ReadRight(s) /\ Unended(s)
  BY <1>1, <1>2 DEF ReadRight, Unended
<1>4. session' = [session EXCEPT ![w] = s]
  BY DEF Goes, s
<1>5. QED
  BY <1>3, <1>4, MoveAlone

LEMMA EndAlone ==
  ASSUME TypeInv, JobInv, AloneInv, Isolated', NEW w \in Workers, session[w].pc # "idle", Ends(w),
         \A i \in DOMAIN imports : i # session[w].import => imports'[i] = imports[i],
         \A c \in Cases, j \in Jids :
             c # session[w].case_id =>
                 /\ <<c, j>> \in DOMAIN chats' <=> <<c, j>> \in DOMAIN chats
                 /\ <<c, j>> \in DOMAIN chats => chats'[<<c, j>>] = chats[<<c, j>>]
  PROVE  AloneInv'
<1>1. session'[w] = Idle /\ \A v \in Workers : v # w => session'[v] = session[v]
  BY DEF Ends, TypeInv, TypeOK
<1>2. ReadRight(session[w])' /\ Unended(session[w])'
  BY <1>1 DEF ReadRight, Unended, Idle
<1>3. QED
  BY <1>1, <1>2, OthersAlone

\* The import of a request beyond its first commit is accepted until its third.
LEMMA Accepted ==
  ASSUME TypeInv, JobInv, AloneInv, NEW w \in Workers, session[w].pc \notin {"idle", "queued"}
  PROVE  /\ session[w].import \in Imports /\ session[w].case_id \in Cases
         /\ session[w].import \in DOMAIN imports
         /\ imports[session[w].import] \in ImportRow
         /\ imports[session[w].import].case_id = session[w].case_id
         /\ imports[session[w].import].status \in {"queued", "processing"}
         /\ job[session[w].import] = <<"accepted", session[w].case_id>>
<1>1. session[w] \in Session /\ Fits(session[w]) /\ Job(session[w]) /\ Unended(session[w])
  BY SessionOf DEF TypeInv, JobInv, AloneInv
<1>2. session[w].import \in Imports /\ session[w].case_id \in Cases /\ session[w].import \in DOMAIN imports
      /\ imports[session[w].import] \in ImportRow
      /\ imports[session[w].import].case_id = session[w].case_id
  BY <1>1 DEF Session, Fits, Job, TypeInv, TypeOK
<1>3. imports[session[w].import].status \in {"queued", "processing"}
  BY <1>1 DEF Session, Job, Unended
<1>4. QED
  BY <1>2, <1>3, JobOf DEF Terminal

\* Every step of imports that are alone is one of ImportStore or none.
LEMMA NextAlone ==
  ASSUME ~LosesAcks, TypeInv, JobInv, AloneInv, [Next /\ Isolated' /\ Serial]_vars
  PROVE  AloneInv' /\ [Store!Next]_(Store!vars)
<1> (\A w \in Workers : Fits(session[w]) /\ Job(session[w]) /\ ReadRight(session[w])) /\ TypeOK
  BY DEF TypeInv, JobInv, AloneInv
<1>1. imports' = imports /\ chats' = chats => [Store!Next]_(Store!vars)
  BY StoreStill DEF Store!vars
<1>2. CASE UNCHANGED vars
  <2>1. Isolated'
    BY <1>2 DEF vars, AloneInv, Isolated, Busy
  <2>2. QED
    BY <1>1, <1>2, <2>1 DEF vars, AloneInv, ReadRight, Unended, Key
<1>3. ASSUME Isolated', session' = session, imports' = imports, chats' = chats PROVE AloneInv'
  BY <1>3 DEF AloneInv, ReadRight, Unended, Key
<1>4. ASSUME Isolated', NEW w \in Workers, NEW i \in Imports, NEW c \in Cases, NEW src \in Sources,
             Submit(w, i, c, src)
      PROVE  AloneInv'
  <2> DEFINE s == [pc |-> "queued", import |-> i, case_id |-> c, source |-> src, content |-> None,
                   todo |-> {}, at |-> None, read |-> [j \in Jids |-> None]]
  <2>1. s.pc = "queued"
    OBVIOUS
  <2> HIDE DEF s
  <2>2. /\ session'[w] = s /\ \A v \in Workers : v # w => session'[v] = session[v]
        /\ imports' = imports /\ chats' = chats
    BY <1>4 DEF Submit, TypeOK, s
  <2>3. ASSUME NEW v \in Workers PROVE ReadRight(session[v])' /\ Unended(session[v])'
    BY <2>1, <2>2 DEF AloneInv, ReadRight, Unended, Key
  <2>4. QED
    BY <1>4, <2>3 DEF AloneInv
<1>5. ASSUME Isolated', NEW w \in Workers, QueuedCommit(w) PROVE AloneInv' /\ Store!Next
  <2> DEFINE i == session[w].import
             c == session[w].case_id
             row == [case_id |-> session[w].case_id, source |-> session[w].source,
                     status |-> "queued", conversations_imported |-> None,
                     messages_imported |-> None]
             s == [session[w] EXCEPT !.pc = "processing"]
  <2>1. session[w].pc = "queued" /\ session' = [session EXCEPT ![w] = s] /\ chats' = chats
        /\ imports' = [k \in DOMAIN imports \cup {i} |-> IF k # i THEN imports[k] ELSE row]
    BY <1>5 DEF QueuedCommit, Goes
  <2>2. session[w] \in Session /\ i \in Imports /\ c \in Cases
    BY <2>1, SessionOf DEF Session
  <2>3. s.pc = "processing" /\ row.status = "queued" /\ row.case_id = c
    BY <2>2, MovePc
  <2> HIDE DEF s, row
  <2>4. session'[w] = s /\ \A v \in Workers : v # w => session'[v] = session[v]
    BY <2>1 DEF TypeOK
  <2>5. i \notin DOMAIN imports
    BY <2>1 DEF Job
  <2>6. /\ DOMAIN imports' = DOMAIN imports \cup {i} /\ imports'[i] = row
        /\ \A k \in DOMAIN imports : k # i => imports'[k] = imports[k]
    BY <2>1, <2>5
  <2>7. AloneInv'
    <3>1. ReadRight(session[w])' /\ Unended(session[w])'
      BY <2>3, <2>4 DEF ReadRight, Unended
    <3>2. QED
      BY <1>5, <2>1, <2>4, <2>6, <3>1, OthersAlone
  <2>8. job[i] = <<"none">> /\ job' = [job EXCEPT ![i] = <<"accepted", c>>] /\ store' = store
    <3>1. job[i] = <<"none">> /\ store' = store
      BY <2>1, <2>2, <2>5, JobOf, StoreStill
    <3>2. imports'[i].status \notin Terminal /\ imports'[i].case_id = c
      BY <2>3, <2>6 DEF Terminal
    <3>3. QED
      BY <2>2, <2>6, <3>1, <3>2, JobMoves
  <2> HIDE DEF i, c
  <2>9. QED
    BY <2>2, <2>7, <2>8 DEF Store!Next, Store!Accept
<1>6. ASSUME NEW w \in Workers, session[w].pc \notin {"idle", "queued"},
             NEW status \in {"processing", "failed"},
             imports' = [imports EXCEPT ![session[w].import].status = status]
      PROVE  /\ DOMAIN imports' = DOMAIN imports
             /\ imports'[session[w].import].status = status
             /\ imports'[session[w].import].case_id = session[w].case_id
             /\ \A i \in DOMAIN imports : i # session[w].import => imports'[i] = imports[i]
  BY <1>6, Accepted DEF ImportRow
<1>7. ASSUME Isolated', NEW w \in Workers, ProcessingCommit(w)
      PROVE  AloneInv' /\ [Store!Next]_(Store!vars)
  <2> DEFINE s == [session[w] EXCEPT !.pc = "parse"]
             i == session[w].import
  <2>1. session[w].pc = "processing" /\ session' = [session EXCEPT ![w] = s] /\ chats' = chats
        /\ imports' = [imports EXCEPT ![i].status = "processing"]
    BY <1>7 DEF ProcessingCommit, Goes
  <2>2. s.pc = "parse"
    BY <2>1, SessionOf, MovePc
  <2> HIDE DEF s
  <2>3. session'[w] = s /\ \A v \in Workers : v # w => session'[v] = session[v]
    BY <2>1 DEF TypeOK
  <2>4. ReadRight(session[w])' /\ Unended(session[w])'
    BY <2>2, <2>3 DEF ReadRight, Unended
  <2>5. /\ DOMAIN imports' = DOMAIN imports /\ imports'[i].status = "processing"
        /\ imports'[i].case_id = session[w].case_id
        /\ \A k \in DOMAIN imports : k # i => imports'[k] = imports[k]
    BY <1>6, <2>1
  <2>6. AloneInv'
    BY <1>7, <2>1, <2>3, <2>4, <2>5, OthersAlone
  <2>7. i \in Imports /\ i \in DOMAIN imports /\ job[i] = <<"accepted", session[w].case_id>>
    BY <2>1, Accepted
  <2>8. job' = [job EXCEPT ![i] = job[i]] /\ store' = store
    BY <2>1, <2>5, <2>7, JobMoves, StoreStill DEF Terminal
  <2>9. job' = job
    <3>1. job = [k \in Imports |-> job[k]]
      BY DEF job
    <3> HIDE DEF job
    <3>2. QED
      BY <2>8, <3>1
  <2>10. QED
    BY <2>6, <2>8, <2>9 DEF Store!vars
<1>8. ASSUME Isolated', NEW w \in Workers, Parse(w) PROVE AloneInv' /\ [Store!Next]_(Store!vars)
  <2>1. session[w].pc = "parse" /\ imports' = imports /\ chats' = chats
    BY <1>8 DEF Parse
  <2>2. CASE Goes(w, "failing")
    BY <1>1, <1>8, <2>1, <2>2, GoAlone
  <2>3. CASE ~Goes(w, "failing")
    <3> DEFINE content == files[session[w].source]
               s == [session[w] EXCEPT !.pc = "record", !.content = content,
                                       !.todo = Conversations(content)]
    <3>1. session' = [session EXCEPT ![w] = s]
      BY <1>8, <2>3 DEF Parse
    <3>2. s.pc = "record" /\ s.content = content /\ s.todo = Conversations(content)
      BY <2>1, SessionOf DEF Session
    <3> HIDE DEF s, content
    <3>3. ReadRight(s) /\ Unended(s)
      BY <3>2 DEF ReadRight, Unended
    <3>4. QED
      BY <1>1, <1>8, <2>1, <3>1, <3>3, MoveAlone
  <2>4. QED
    BY <2>2, <2>3
<1>9. ASSUME Isolated', NEW w \in Workers, NEW j \in Jids, ReadRecord(w, j)
      PROVE  AloneInv' /\ [Store!Next]_(Store!vars)
  <2> DEFINE key == Key(session[w], j)
             row == Stored(key)
             read == [row EXCEPT !.messages = {}]
  <2>1. /\ session[w].pc = "record" /\ j \in session[w].todo /\ imports' = imports /\ chats' = chats
        /\ session' = [session EXCEPT ![w] =
               IF row = None THEN [session[w] EXCEPT !.todo = @ \ {j}]
               ELSE [session[w] EXCEPT !.todo = @ \ {j}, !.pc = "messages", !.at = j,
                                       !.read[j] = read]]
    BY <1>9 DEF ReadRecord
  <2>2. session[w] \in Session
    BY <2>1, SessionOf
  <2>3. key \in DOMAIN chats => row \in ChatRow /\ row # None /\ read \in ChatRow /\ read # None
    <3>1. None \notin ChatRow
      BY ImportAssumption DEF ImportAssumption
    <3>2. ASSUME key \in DOMAIN chats PROVE row \in ChatRow
      BY <3>2 DEF TypeOK, Stored
    <3>3. ASSUME row \in ChatRow PROVE read \in ChatRow
      BY <3>3 DEF ChatRow
    <3>4. QED
      BY <3>1, <3>2, <3>3
  <2>4. CASE row = None
    <3> DEFINE s == [session[w] EXCEPT !.todo = @ \ {j}]
    <3>1. /\ s.pc = "record" /\ s.todo = session[w].todo \ {j} /\ s.content = session[w].content
          /\ s.read = session[w].read /\ s.case_id = session[w].case_id
      BY <2>1, <2>2 DEF Session
    <3>2. session' = [session EXCEPT ![w] = s]
      BY <2>1, <2>4
    <3> HIDE DEF s
    <3>3. key \notin DOMAIN chats
      BY <2>3, <2>4
    <3>4. session[w].read[j] = None
      BY <2>1, <3>3 DEF Fits
    <3>5. ReadRight(s)
      BY <2>1, <3>1, <3>3, <3>4 DEF ReadRight, Key
    <3>6. QED
      BY <1>1, <1>9, <2>1, <3>1, <3>2, <3>5, MoveAlone DEF Unended
  <2>5. CASE row # None
    <3> HIDE DEF read
    <3> DEFINE s == [session[w] EXCEPT !.todo = @ \ {j}, !.pc = "messages", !.at = j, !.read[j] = read]
    <3>1. /\ s.pc = "messages" /\ s.todo = session[w].todo \ {j} /\ s.at = j
          /\ s.content = session[w].content /\ s.case_id = session[w].case_id
          /\ s.read = [session[w].read EXCEPT ![j] = read]
      BY <2>1, <2>2 DEF Session
    <3>2. session' = [session EXCEPT ![w] = s]
      BY <2>1, <2>5
    <3>3. session[w].read \in [Jids -> ChatRow \cup {None}]
      BY <2>2 DEF Session
    <3> HIDE DEF s
    <3>4. s.read[j] # None
      BY <2>3, <2>5, <3>1, <3>3 DEF Stored
    <3>5. \A k \in Jids : k # j => s.read[k] = session[w].read[k]
      BY <3>1, <3>3
    <3>6. ASSUME NEW k \in Conversations(s.content) \ s.todo
          PROVE  /\ s.read[k] = None => Key(s, k) \notin DOMAIN chats
                 /\ s.read[k] # None /\ ~(s.pc = "messages" /\ s.at = k) =>
                        s.read[k].messages = chats[Key(s, k)].messages
      <4>1. CASE k = j
        BY <3>1, <3>4, <4>1
      <4>2. CASE k # j
        <5>1. k \in Conversations(session[w].content) \ session[w].todo /\ s.read[k] = session[w].read[k]
              /\ Key(s, k) = Key(session[w], k)
          BY <3>1, <3>5, <3>6, <4>2 DEF Conversations, Key
        <5>2. QED
          BY <2>1, <5>1 DEF ReadRight
      <4>3. QED
        BY <4>1, <4>2
    <3>7. ReadRight(s)
      BY <3>6 DEF ReadRight
    <3>8. QED
      BY <1>1, <1>9, <2>1, <3>1, <3>2, <3>7, MoveAlone DEF Unended
  <2>6. QED
    BY <2>4, <2>5
<1>10. ASSUME Isolated', NEW w \in Workers, ReadMessages(w)
       PROVE  AloneInv' /\ [Store!Next]_(Store!vars)
  <2> DEFINE j == session[w].at
             batches == chats[Key(session[w], j)].messages
             s == [session[w] EXCEPT !.pc = "record", !.at = None, !.read[j].messages = batches]
  <2>1. session[w].pc = "messages" /\ imports' = imports /\ chats' = chats
        /\ session' = [session EXCEPT ![w] = s]
    BY <1>10 DEF ReadMessages
  <2>2. session[w] \in Session /\ j \in Jids /\ session[w].read[j] \in ChatRow
    BY <2>1, SessionOf DEF Fits
  <2> HIDE DEF batches
  <2>3. /\ s.pc = "record" /\ s.todo = session[w].todo /\ s.content = session[w].content
        /\ s.case_id = session[w].case_id
        /\ s.read = [session[w].read EXCEPT ![j].messages = batches]
    BY <2>1, <2>2 DEF Session
  <2>4. session[w].read \in [Jids -> ChatRow \cup {None}]
    BY <2>2 DEF Session
  <2> HIDE DEF s
  <2>5. s.read[j].messages = batches
    BY <2>2, <2>3, <2>4 DEF ChatRow
  <2>6. \A k \in Jids : k # j => s.read[k] = session[w].read[k]
    BY <2>3, <2>4
  <2>7. s.read[j] \in ChatRow /\ s.read[j] # None
    <3>1. s.read[j] = [session[w].read[j] EXCEPT !.messages = batches]
      BY <2>2, <2>3, <2>4
    <3>2. batches \in SUBSET Batch
      <4>1. session[w].read[j] # None
        BY <2>2, ImportAssumption DEF ImportAssumption
      <4>2. chats[Key(session[w], j)] \in ChatRow
        BY <2>1, <2>2, <4>1 DEF Fits, TypeOK
      <4>3. QED
        BY <4>2 DEF batches, ChatRow
    <3>3. s.read[j] \in ChatRow
      BY <2>2, <3>1, <3>2 DEF ChatRow
    <3>4. QED
      BY <3>3, ImportAssumption DEF ImportAssumption
  <2>8. ASSUME NEW k \in Conversations(s.content) \ s.todo
        PROVE  /\ s.read[k] = None => Key(s, k) \notin DOMAIN chats
               /\ s.read[k] # None => s.read[k].messages = chats[Key(s, k)].messages
    <3>1. CASE k = j
      BY <2>3, <2>5, <2>7, <3>1 DEF batches, Key
    <3>2. CASE k # j
      <4>1. k \in Conversations(session[w].content) \ session[w].todo /\ s.read[k] = session[w].read[k]
            /\ Key(s, k) = Key(session[w], k)
        BY <2>3, <2>6, <2>8, <3>2 DEF Conversations, Key
      <4>2. QED
        BY <2>1, <3>2, <4>1 DEF ReadRight
    <3>3. QED
      BY <3>1, <3>2
  <2>9. ReadRight(s)
    BY <2>8 DEF ReadRight
  <2>10. QED
    BY <1>1, <1>10, <2>1, <2>3, <2>9, MoveAlone DEF Unended
<1>11. ASSUME Isolated', NEW w \in Workers, CompletedCommit(w)
       PROVE  AloneInv' /\ [Store!Next]_(Store!vars)
  <2> DEFINE s == session[w]
             i == s.import
             c == s.case_id
  <2>1. s.pc = "record" /\ s.todo = {}
    BY <1>11 DEF CompletedCommit
  <2>2. CASE Clash(s)
    BY <1>1, <1>11, <2>1, <2>2, GoAlone DEF CompletedCommit
  <2>3. CASE ~Clash(s)
    <3>1. imports' = Completed(s) /\ chats' = Persisted(s, Conversations(s.content)) /\ Ends(w)
      BY <1>11, <2>3 DEF CompletedCommit
    <3>2. /\ s \in Session /\ s.content \in Contents /\ i \in Imports /\ c \in Cases
          /\ i \in DOMAIN imports /\ imports[i] \in ImportRow /\ imports[i].case_id = c
          /\ job[i] = <<"accepted", c>>
      BY <2>1, SessionOf, Accepted DEF Fits
    <3>3. /\ DOMAIN imports' = DOMAIN imports
          /\ imports'[i].status = "completed" /\ imports'[i].case_id = c
          /\ \A k \in DOMAIN imports : k # i => imports'[k] = imports[k]
      BY <3>1, <3>2, CompletedTypes DEF ImportRow
    <3>4. job' = [job EXCEPT ![i] = <<"completed", c>>]
      BY <3>2, <3>3, JobMoves DEF Terminal
    <3>5. store' = [k \in Cases \X Jids |->
                       IF k[1] = c /\ s.content[k[2]] > 0
                       THEN {[import |-> i, size |-> s.content[k[2]]]} ELSE store[k]]
      BY <2>1, <2>3, <3>1, <3>2, StoresAll
    <3>6. ASSUME NEW d \in Cases, NEW j \in Jids, d # c
          PROVE  /\ <<d, j>> \in DOMAIN chats' <=> <<d, j>> \in DOMAIN chats
                 /\ <<d, j>> \in DOMAIN chats => chats'[<<d, j>>] = chats[<<d, j>>]
      BY <3>1, <3>6 DEF Persisted, Key
    <3>7. AloneInv'
      BY <1>11, <2>1, <3>1, <3>3, <3>6, EndAlone
    <3>8. Store!Complete(i, c, s.content)
      BY <3>2, <3>4, <3>5 DEF Store!Complete
    <3>9. QED
      BY <3>2, <3>7, <3>8 DEF Store!Next
  <2>4. QED
    BY <2>2, <2>3
<1>12. ASSUME Isolated', NEW w \in Workers, FailedCommit(w) PROVE AloneInv' /\ Store!Next
  <2> DEFINE i == session[w].import
             c == session[w].case_id
  <2>1. session[w].pc = "failing" /\ chats' = chats /\ Ends(w)
        /\ imports' = [imports EXCEPT ![i].status = "failed"]
    BY <1>12 DEF FailedCommit
  <2>2. /\ DOMAIN imports' = DOMAIN imports /\ imports'[i].status = "failed"
        /\ imports'[i].case_id = c
        /\ \A k \in DOMAIN imports : k # i => imports'[k] = imports[k]
    BY <1>6, <2>1
  <2>3. AloneInv'
    BY <1>12, <2>1, <2>2, EndAlone
  <2>4. i \in Imports /\ c \in Cases /\ i \in DOMAIN imports /\ job[i] = <<"accepted", c>>
    BY <2>1, Accepted
  <2>5. job' = [job EXCEPT ![i] = <<"failed", c>>] /\ store' = store
    BY <2>1, <2>2, <2>4, JobMoves, StoreStill DEF Terminal
  <2>6. QED
    BY <2>3, <2>4, <2>5 DEF Store!Next, Store!Fail
<1>13. ASSUME Isolated', NEW w \in Workers, Raise(w) \/ Abort(w)
       PROVE  AloneInv' /\ [Store!Next]_(Store!vars)
  <2>1. imports' = imports /\ chats' = chats /\ session[w].pc # "idle"
    BY <1>13 DEF Raise, Abort
  <2>2. CASE Raise(w)
    BY <1>1, <1>13, <2>1, <2>2, GoAlone DEF Raise
  <2>3. CASE Abort(w)
    BY <1>1, <1>13, <2>1, <2>3, EndAlone DEF Abort
  <2>4. QED
    BY <1>13, <2>2, <2>3
<1>14. ASSUME Isolated', Restart PROVE AloneInv' /\ [Store!Next]_(Store!vars)
  <2>1. imports' = imports /\ chats' = chats /\ \A w \in Workers : session'[w] = Idle
    BY <1>14 DEF Restart
  <2>2. QED
    BY <1>1, <1>14, <2>1 DEF AloneInv, ReadRight, Unended, Idle
<1>15. ASSUME Isolated', NEW w \in Workers, Step(w) PROVE AloneInv' /\ [Store!Next]_(Store!vars)
  BY <1>5, <1>7, <1>8, <1>9, <1>10, <1>11, <1>12, <1>15 DEF Step
<1>16. \A w \in Workers : ~LostAnswer(w)
  BY DEF LostAnswer
<1>17. CASE Next /\ Isolated' /\ Serial
  <2>1. CASE \E w \in Workers, i \in Imports, c \in Cases, src \in Sources : Submit(w, i, c, src)
    BY <1>1, <1>4, <1>17, <2>1 DEF Submit
  <2>2. CASE \/ \E c \in Cases, status \in Status : SetStatus(c, status)
             \/ \E src \in Sources, content \in Contents \cup {Missing, Corrupt} :
                    WriteFile(src, content)
    BY <1>1, <1>3, <1>17, <2>2 DEF SetStatus, WriteFile
  <2>3. CASE \E w \in Workers : Step(w) \/ Raise(w) \/ Abort(w)
    BY <1>13, <1>15, <1>17, <2>3
  <2>4. CASE Restart
    BY <1>14, <1>17, <2>4
  <2>5. QED
    BY <1>16, <1>17, <2>1, <2>2, <2>3, <2>4 DEF Next
<1>18. QED
  BY <1>2, <1>17

\* Imports of which there is one at a time in a case, and whose commits take no effect
\* when they raise, implement ImportStore: each replaces every chat it has messages
\* for at once, or fails and changes nothing (whatsapp_service.py:327-368).
THEOREM Refinement == ~LosesAcks => (IsolatedSpec => ImplementsStore)
<1> SUFFICES ASSUME ~LosesAcks PROVE IsolatedSpec => ImplementsStore
  OBVIOUS
<1>1. Init => AloneInv /\ JobInv
  BY DEF Init, AloneInv, Isolated, ReadRight, Unended, Busy, Idle, JobInv, Distinct, Job
<1>2. Init => Store!Init
  BY DEF Init, Store!Init, job, store
<1>3. TypeInv /\ JobInv /\ AloneInv /\ [Next /\ Isolated' /\ Serial]_vars =>
          TypeInv' /\ JobInv' /\ AloneInv' /\ [Store!Next]_(Store!vars)
  <2>1. [Next /\ Isolated' /\ Serial]_vars => [Next]_vars
    OBVIOUS
  <2>2. QED
    BY <2>1, NextTypeInv, NextJob, NextAlone
<1>4. QED
  BY <1>1, <1>2, <1>3, InitTypeInv, PTL DEF IsolatedSpec, ImplementsStore, Store!Spec
=============================================================================
