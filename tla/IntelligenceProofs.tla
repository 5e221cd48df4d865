-------------------------- MODULE IntelligenceProofs --------------------------
(***************************************************************************)
(* Theorems about Intelligence and about the dashboard beside it.          *)
(***************************************************************************)
EXTENDS IntelligenceServices, FiniteSetTheorems, TLAPS

----------------------------------------------------------------------------
(* Type correctness, and what a request holds at each place.               *)

Place(s) ==
    /\ s.pc \in {"run", "store", "document", "document_logged"} => s.key \in Keys /\ s.of \in Cases
    /\ s.pc \in {"store", "document", "document_logged"} => s.result \in Results
    /\ s.pc \in {"graph_logged", "document_logged", "analyzed"} => s.op = "analyze"
    /\ s.graph # None \/ s.document # None => s.op = "analyze"
    /\ s.op = "analyze" => s.of \in Cases
    /\ s.op \in Tasks => s.pc \in {"run", "store", "document"}
    /\ s.pc = "graph_logged" => s.graph # None
    /\ s.pc = "document_logged" => s.document # None
    /\ s.pc \in {"weigh", "graph"} => s.graph = None
    /\ s.pc \notin {"document_logged", "analyzed"} => s.document = None
    /\ s.pc = "analyzed" => s.graph # None \/ s.document # None
PlaceInv == \A w \in Workers : Busy(w) => Place(session[w])

LEMMA Constants ==
    /\ MaxVersion \in Nat /\ MaxWeight \in Nat /\ MaxLife \in Nat \ {0}
    /\ None \notin Documents /\ None \notin Graphs
BY IntelligenceAssumption DEF IntelligenceAssumption

\* A thread is busy with a request.
LEMMA BusyRequest ==
  ASSUME TypeOK, NEW w \in Workers
  PROVE  /\ Busy(w) <=> session[w] \in Requests
         /\ session[w].op # "idle" <=> Busy(w)
<1>1. session[w] \in Requests \cup {Idle}
  BY DEF TypeOK
<1>2. session[w] \in Requests => session[w].op # "idle"
  BY DEF Requests, Tasks
<1>3. Idle.op = "idle"
  BY DEF Idle
<1>4. QED
  BY <1>1, <1>2, <1>3 DEF Busy

\* The thread of a step goes on to another place, or ends its request.
Moves(w) ==
    \E t \in Requests \cup {Idle} :
        /\ t # Idle => Place(t)
        /\ session' = [session EXCEPT ![w] = t]

LEMMA MovesTypes ==
  ASSUME TypeOK, PlaceInv, NEW w \in Workers, Moves(w)
  PROVE  session' \in [Workers -> Requests \cup {Idle}] /\ PlaceInv'
<1>1. PICK t \in Requests \cup {Idle} :
          (t # Idle => Place(t)) /\ session' = [session EXCEPT ![w] = t]
  BY DEF Moves
<1>2. session \in [Workers -> Requests \cup {Idle}]
  BY DEF TypeOK
<1>3. \A v \in Workers : session'[v] = IF v = w THEN t ELSE session[v]
  BY <1>1, <1>2
<1>4. PlaceInv'
  BY <1>1, <1>3 DEF PlaceInv, Busy
<1>5. QED
  BY <1>1, <1>2, <1>4

LEMMA EndsMoves ==
  ASSUME NEW w, Ends(w)
  PROVE  Moves(w)
BY DEF Ends, Moves

\* A new request.
LEMMA RequestMoves ==
  ASSUME NEW w, NEW op \in Tasks \cup {"graph", "analyze"}, NEW pc \in {"run", "weigh"},
         NEW of \in Sources, NEW key \in Keys \cup {None},
         op \in Tasks => pc = "run", pc = "run" => key \in Keys /\ of \in Cases,
         op = "analyze" => of \in Cases, Goes(w, Request(op, pc, of, key))
  PROVE  Moves(w)
<1> DEFINE t == Request(op, pc, of, key)
<1>1. t \in Requests
  BY DEF Request, Requests
<1>2. Place(t)
  BY DEF Place, Request, Tasks
<1>3. QED
  BY <1>1, <1>2 DEF Goes, Moves

\* Extend keeps a table of its type.
LEMMA ExtendTypes ==
  ASSUME NEW f, NEW K, NEW S, NEW x \in K, NEW value \in S, DOMAIN f \subseteq K, f \in [DOMAIN f -> S]
  PROVE  /\ DOMAIN Extend(f, x, value) \subseteq K
         /\ Extend(f, x, value) \in [DOMAIN Extend(f, x, value) -> S]
BY DEF Extend

LEMMA FreshIsNew ==
  ASSUME NEW ids, NEW table, DOMAIN table \subseteq ids, ids # DOMAIN table
  PROVE  Fresh(ids, table) \in ids /\ Fresh(ids, table) \notin DOMAIN table
BY DEF Fresh

LEMMA LogGrows ==
  ASSUME TypeOK, NEW e \in Entry, log_activity(e)
  PROVE  /\ log' \in Seq(Entry) /\ Len(log') = Len(log) + 1
         /\ log'[Len(log) + 1] = e
         /\ \A i \in 1..Len(log) : log'[i] = log[i]
BY DEF TypeOK, log_activity
\* Steps that only move their request.
LEMMA MovesOnly ==
  ASSUME TypeOK, PlaceInv, NEW w \in Workers, Moves(w),
         UNCHANGED <<files, messages, cache, documents, graphs, log, life, alone>>
  PROVE  TypeOK' /\ PlaceInv'
BY MovesTypes DEF TypeOK

LEMMA StartMoves ==
  ASSUME TypeOK, NEW w \in Workers,
         \/ \E c \in Cases, p \in Paths : NerStart(w, c, p) \/ ApkStart(w, c, p)
         \/ \E source \in Cases \cup DOMAIN documents : GraphStart(w, source)
         \/ \E c \in Cases, run_graph \in BOOLEAN, key \in ({"ner"} \X Paths) \cup {None} :
                AnalyzeStart(w, c, run_graph, key)
  PROVE  Moves(w) /\ UNCHANGED <<files, messages, cache, documents, graphs, log, life, alone>>
<1>1. Cases \cup DOMAIN documents \subseteq Sources
  BY DEF TypeOK, Sources
<1>2. ASSUME NEW c \in Cases, NEW p \in Paths, NerStart(w, c, p) \/ ApkStart(w, c, p)
      PROVE  Moves(w) /\ UNCHANGED <<files, messages, cache, documents, graphs, log, life, alone>>
  <2>1. \E task \in Tasks : Goes(w, Request(task, "run", c, <<task, p>>))
    BY <1>2 DEF NerStart, ApkStart, Tasks
  <2>2. PICK task \in Tasks : Goes(w, Request(task, "run", c, <<task, p>>))
    BY <2>1
  <2>3. <<task, p>> \in Keys /\ c \in Sources
    BY DEF Keys, Sources
  <2>4. Moves(w)
    BY <2>2, <2>3, RequestMoves
  <2>5. QED
    BY <1>2, <2>4 DEF NerStart, ApkStart
<1>3. ASSUME NEW source \in Cases \cup DOMAIN documents, GraphStart(w, source)
      PROVE  Moves(w) /\ UNCHANGED <<files, messages, cache, documents, graphs, log, life, alone>>
  <2>1. Goes(w, Request("graph", "weigh", source, None))
    BY <1>3 DEF GraphStart
  <2>2. source \in Sources
    BY <1>1
  <2>3. Moves(w)
    BY <2>1, <2>2, RequestMoves DEF Tasks
  <2>4. QED
    BY <1>3, <2>3 DEF GraphStart
<1>4. ASSUME NEW c \in Cases, NEW run_graph \in BOOLEAN, NEW key \in ({"ner"} \X Paths) \cup {None},
             AnalyzeStart(w, c, run_graph, key)
      PROVE  Moves(w) /\ UNCHANGED <<files, messages, cache, documents, graphs, log, life, alone>>
  <2>1. c \in Sources /\ key \in Keys \cup {None}
    BY DEF Sources, Keys, Tasks
  <2>2. CASE run_graph
    <3>1. Goes(w, Request("analyze", "weigh", c, key))
      BY <1>4, <2>2 DEF AnalyzeStart
    <3>2. Moves(w)
      BY <2>1, <3>1, RequestMoves DEF Tasks
    <3>3. QED
      BY <1>4, <3>2 DEF AnalyzeStart
  <2>3. CASE ~run_graph
    <3>1. Goes(w, Request("analyze", "run", c, key)) /\ key # None
      BY <1>4, <2>3 DEF AnalyzeStart
    <3>2. Moves(w)
      BY <2>1, <3>1, RequestMoves DEF Tasks
    <3>3. QED
      BY <1>4, <3>2 DEF AnalyzeStart
  <2>4. QED
    BY <2>2, <2>3
<1>5. QED
  BY <1>2, <1>3, <1>4

LEMMA StepTypes ==
  ASSUME TypeOK, PlaceInv, NEW w \in Workers, Step(w)
  PROVE  TypeOK' /\ PlaceInv'
<1> DEFINE s == session[w]
<1>1. s.op # "idle" => s \in Requests /\ Place(s)
  BY BusyRequest DEF PlaceInv
<1>2. CASE \/ \E c \in Cases, p \in Paths : NerStart(w, c, p) \/ ApkStart(w, c, p)
           \/ \E source \in Cases \cup DOMAIN documents : GraphStart(w, source)
           \/ \E c \in Cases, run_graph \in BOOLEAN, key \in ({"ner"} \X Paths) \cup {None} :
                  AnalyzeStart(w, c, run_graph, key)
  BY <1>2, StartMoves, MovesOnly
<1>3. CASE RunHit(w)
  <2>1. s \in Requests /\ Place(s) /\ s.pc = "run" /\ s.key \in DOMAIN cache
    BY <1>1, <1>3 DEF RunHit, _cache_key
  <2>2. cache[s.key] \in Results /\ s.key \in Keys /\ s.of \in Cases
    BY <2>1 DEF TypeOK, Place
  <2> DEFINE t == [s EXCEPT !.pc = "document", !.result = cache[s.key]]
  <2>3. t \in Requests /\ Place(t)
    BY <2>1, <2>2 DEF Requests, Place, Tasks
  <2>4. session' = [session EXCEPT ![w] = t]
    BY <1>3 DEF RunHit, Goes, _cache_key
  <2>5. Moves(w)
    BY <2>3, <2>4 DEF Moves
  <2>6. QED
    BY <1>3, <2>5, MovesOnly DEF RunHit
<1>4. CASE RunHandler(w)
  <2>1. s \in Requests /\ Place(s) /\ s.pc = "run" /\ s.key \in Keys /\ s.of \in Cases
    BY <1>1, <1>4 DEF RunHandler, Place
  <2>2. [key |-> s.key, version |-> files[s.key[2]]] \in Results
    <3>1. s.key[2] \in Paths
      BY <2>1 DEF Keys
    <3>2. files[s.key[2]] \in 1..MaxVersion
      BY <1>4, <3>1, Constants DEF RunHandler, _resolve_path, TypeOK
    <3>3. QED
      BY <2>1, <3>2 DEF Results
  <2> DEFINE t == [s EXCEPT !.pc = "store", !.result = [key |-> s.key, version |-> files[s.key[2]]]]
  <2>3. t \in Requests /\ Place(t)
    BY <2>1, <2>2 DEF Requests, Place, Tasks
  <2>4. session' = [session EXCEPT ![w] = t]
    BY <1>4 DEF RunHandler, Goes
  <2>5. Moves(w)
    BY <2>3, <2>4 DEF Moves
  <2>6. QED
    BY <1>4, <2>5, MovesOnly DEF RunHandler
<1>5. CASE RunStore(w)
  <2>1. s \in Requests /\ Place(s) /\ s.pc = "store" /\ s.key \in Keys /\ s.of \in Cases /\ s.result \in Results
    BY <1>1, <1>5 DEF RunStore, Place
  <2> DEFINE t == [s EXCEPT !.pc = "document"]
  <2>2. t \in Requests /\ Place(t)
    BY <2>1 DEF Requests, Place, Tasks
  <2>3. Moves(w)
    BY <1>5, <2>2 DEF Moves, RunStore, Goes
  <2>4. cache' = Extend(cache, s.key, s.result)
    BY <1>5 DEF RunStore, _cache_key
  <2>5. DOMAIN cache' \subseteq Keys /\ cache' \in [DOMAIN cache' -> Results]
    <3>1. DOMAIN cache \subseteq Keys /\ cache \in [DOMAIN cache -> Results]
      BY DEF TypeOK
    <3>2. /\ DOMAIN Extend(cache, s.key, s.result) \subseteq Keys
          /\ Extend(cache, s.key, s.result) \in [DOMAIN Extend(cache, s.key, s.result) -> Results]
      BY <3>1, <2>1, <2>4, ExtendTypes
    <3>3. QED
      BY <2>4, <3>2
  <2>6. QED
    BY <1>5, <2>3, <2>5, MovesTypes DEF RunStore, TypeOK
<1>6. CASE Documents # DOMAIN documents /\ DocumentCommit(w, Fresh(Documents, documents))
  <2> DEFINE d == Fresh(Documents, documents)
             doc == [case_id |-> s.of, key |-> s.key, result |-> s.result, life |-> life]
             e == [action |-> s.key[1], of |-> s.of, id |-> d]
  <2>1. /\ s \in Requests /\ Place(s) /\ s.pc = "document" /\ s.key \in Keys /\ s.of \in Cases
        /\ s.result \in Results
    BY <1>1, <1>6 DEF DocumentCommit, Place
  <2>2. d \in Documents
    BY <1>6, FreshIsNew DEF TypeOK
  <2>3. documents' = Extend(documents, d, doc) /\ log_activity(e)
    BY <1>6 DEF DocumentCommit
  <2>4. doc \in Document
    BY <2>1 DEF Document, TypeOK
  <2>5. e \in Entry
    BY <2>1, <2>2 DEF Entry, Keys, Tasks, Sources
  <2>6. Moves(w)
    <3>1. CASE s.op = "analyze"
      <4> DEFINE t == [s EXCEPT !.pc = "document_logged", !.document = d]
      <4> HIDE DEF d
      <4>1. t \in Requests /\ Place(t)
        BY <2>1, <2>2, <3>1, Constants DEF Requests, Place, Tasks
      <4>2. session' = [session EXCEPT ![w] = t]
        BY <1>6, <3>1 DEF DocumentCommit, Goes, d
      <4>3. QED
        BY <4>1, <4>2 DEF Moves
    <3>2. CASE s.op # "analyze"
      BY <1>6, <3>2, EndsMoves DEF DocumentCommit
    <3>3. QED
      BY <3>1, <3>2
  <2> HIDE DEF d, doc, e
  <2>7. DOMAIN documents' \subseteq Documents /\ documents' \in [DOMAIN documents' -> Document]
    <3>1. DOMAIN documents \subseteq Documents /\ documents \in [DOMAIN documents -> Document]
      BY DEF TypeOK
    <3>2. /\ DOMAIN Extend(documents, d, doc) \subseteq Documents
          /\ Extend(documents, d, doc) \in [DOMAIN Extend(documents, d, doc) -> Document]
      BY <3>1, <2>2, <2>3, <2>4, ExtendTypes
    <3>3. QED
      BY <2>3, <3>2
  <2>8. log' \in Seq(Entry)
    BY <2>3, <2>5, LogGrows
  <2>9. UNCHANGED <<files, messages, cache, graphs, life, alone>>
    BY <1>6 DEF DocumentCommit
  <2>10. QED
    BY <2>6, <2>7, <2>8, <2>9, MovesTypes DEF TypeOK
<1>7. CASE GraphBuild(w)
  <2>1. s \in Requests /\ Place(s) /\ s.pc = "weigh"
    BY <1>1, <1>7 DEF GraphBuild
  <2>2. PICK weight \in Nat : session' = [session EXCEPT ![w] = [s EXCEPT !.pc = "graph", !.weight = weight]]
    BY <1>7 DEF GraphBuild, Goes, TypeOK
  <2> DEFINE t == [s EXCEPT !.pc = "graph", !.weight = weight]
  <2>3. t \in Requests /\ Place(t)
    BY <2>1 DEF Requests, Place, Tasks
  <2>4. Moves(w)
    BY <2>2, <2>3 DEF Moves
  <2>5. QED
    BY <1>7, <2>4, MovesOnly DEF GraphBuild
<1>8. CASE Graphs # DOMAIN graphs /\ GraphCommit(w, Fresh(Graphs, graphs))
  <2> DEFINE g == Fresh(Graphs, graphs)
             graph == [source |-> s.of, weight |-> s.weight]
             e == [action |-> "graph", of |-> s.of, id |-> g]
  <2>1. s \in Requests /\ Place(s) /\ s.pc = "graph" /\ s.of \in Sources /\ s.weight \in 0..MaxWeight
    BY <1>1, <1>8, Constants DEF GraphCommit, Requests
  <2>2. g \in Graphs
    BY <1>8, FreshIsNew DEF TypeOK
  <2>3. graphs' = Extend(graphs, g, graph) /\ log_activity(e)
    BY <1>8 DEF GraphCommit
  <2>4. graph \in Graph /\ e \in Entry
    BY <2>1, <2>2 DEF Graph, Entry
  <2>5. Moves(w)
    <3>1. CASE s.op = "analyze"
      <4> DEFINE t == [s EXCEPT !.pc = "graph_logged", !.graph = g]
      <4> HIDE DEF g
      <4>1. t \in Requests /\ Place(t)
        BY <2>1, <2>2, <3>1, Constants DEF Requests, Place, Tasks
      <4>2. session' = [session EXCEPT ![w] = t]
        BY <1>8, <3>1 DEF GraphCommit, Goes, g
      <4>3. QED
        BY <4>1, <4>2 DEF Moves
    <3>2. CASE s.op # "analyze"
      BY <1>8, <3>2, EndsMoves DEF GraphCommit
    <3>3. QED
      BY <3>1, <3>2
  <2> HIDE DEF g, graph, e
  <2>6. DOMAIN graphs' \subseteq Graphs /\ graphs' \in [DOMAIN graphs' -> Graph]
    <3>1. DOMAIN graphs \subseteq Graphs /\ graphs \in [DOMAIN graphs -> Graph]
      BY DEF TypeOK
    <3>2. /\ DOMAIN Extend(graphs, g, graph) \subseteq Graphs
          /\ Extend(graphs, g, graph) \in [DOMAIN Extend(graphs, g, graph) -> Graph]
      BY <3>1, <2>2, <2>3, <2>4, ExtendTypes
    <3>3. QED
      BY <2>3, <3>2
  <2>7. log' \in Seq(Entry)
    BY <2>3, <2>4, LogGrows
  <2>8. UNCHANGED <<files, messages, cache, documents, life, alone>>
    BY <1>8 DEF GraphCommit
  <2>9. QED
    BY <2>5, <2>6, <2>7, <2>8, MovesTypes DEF TypeOK
<1>9. CASE LogCaseGraph(w)
  <2>1. s \in Requests /\ Place(s) /\ s.pc = "graph_logged" /\ s.op = "analyze" /\ s.graph # None
    BY <1>1, <1>9 DEF LogCaseGraph, Place
  <2>2. [action |-> "case.graph", of |-> s.of, id |-> s.graph] \in Entry
    BY <2>1 DEF Entry, Requests
  <2>3. log' \in Seq(Entry)
    BY <1>9, <2>2, LogGrows DEF LogCaseGraph
  <2> DEFINE t == [s EXCEPT !.pc = IF s.key = None THEN "analyzed" ELSE "run"]
  <2>4. t \in Requests /\ Place(t)
    BY <2>1 DEF Requests, Place, Tasks
  <2>5. Moves(w)
    BY <1>9, <2>4 DEF Moves, LogCaseGraph, Goes
  <2>6. QED
    BY <1>9, <2>3, <2>5, MovesTypes DEF LogCaseGraph, TypeOK
<1>10. CASE LogCaseDocument(w)
  <2>1. s \in Requests /\ Place(s) /\ s.pc = "document_logged" /\ s.op = "analyze" /\ s.document # None
    BY <1>1, <1>10 DEF LogCaseDocument, Place
  <2>2. [action |-> "case.ner", of |-> s.of, id |-> s.document] \in Entry
    BY <2>1 DEF Entry, Requests
  <2>3. log' \in Seq(Entry)
    BY <1>10, <2>2, LogGrows DEF LogCaseDocument
  <2> DEFINE t == [s EXCEPT !.pc = "analyzed"]
  <2>4. t \in Requests /\ Place(t)
    BY <2>1 DEF Requests, Place, Tasks
  <2>5. Moves(w)
    BY <1>10, <2>4 DEF Moves, LogCaseDocument, Goes
  <2>6. QED
    BY <1>10, <2>3, <2>5, MovesTypes DEF LogCaseDocument, TypeOK
<1>11. CASE LogAnalyzed(w)
  <2>1. s \in Requests /\ s.of \in Cases
    BY <1>1, <1>11 DEF LogAnalyzed, Place
  <2>2. [action |-> "case.analyze", of |-> s.of, graph |-> s.graph, document |-> s.document] \in Entry
    BY <2>1 DEF Entry, Requests
  <2>3. log' \in Seq(Entry)
    BY <1>11, <2>2, LogGrows DEF LogAnalyzed
  <2>4. Moves(w)
    BY <1>11, EndsMoves DEF LogAnalyzed
  <2>5. QED
    BY <1>11, <2>3, <2>4, MovesTypes DEF LogAnalyzed, TypeOK
<1>12. CASE Abort(w)
  BY <1>12, EndsMoves, MovesOnly DEF Abort
<1>13. QED
  BY <1>2, <1>3, <1>4, <1>5, <1>6, <1>7, <1>8, <1>9, <1>10, <1>11, <1>12 DEF Step

LEMMA NextTypes ==
  ASSUME TypeOK, PlaceInv, [Next]_vars
  PROVE  TypeOK' /\ PlaceInv'
<1>1. CASE \E p \in Paths : ReplaceFile(p)
  BY <1>1, Constants DEF ReplaceFile, TypeOK, PlaceInv, Busy
<1>2. CASE \E c \in Cases : ImportMessage(c)
  <2>1. PICK c \in Cases : ImportMessage(c)
    BY <1>2
  <2>2. messages' \in [Cases -> Nat \cup {None}]
    BY <2>1 DEF ImportMessage, TypeOK
  <2>3. QED
    BY <2>1, <2>2 DEF ImportMessage, TypeOK, PlaceInv, Busy
<1>3. CASE \E w \in Workers : Step(w)
  BY <1>3, StepTypes
<1>4. CASE Restart
  BY <1>4, Constants DEF Restart, TypeOK, PlaceInv, Busy
<1>5. CASE UNCHANGED vars
  BY <1>5 DEF vars, TypeOK, PlaceInv, Busy
<1>6. QED
  BY <1>1, <1>2, <1>3, <1>4, <1>5 DEF Next

LEMMA InitTypes ==
  ASSUME Init
  PROVE  TypeOK /\ PlaceInv
<1>1. << >> \in Seq(Entry) /\ 1 \in 1..MaxLife
  BY Constants
<1>2. DOMAIN << >> = {}
  OBVIOUS
<1>3. files \in [Paths -> 0..MaxVersion] /\ messages \in [Cases -> Nat \cup {None}]
  BY Constants DEF Init
<1>4. QED
  BY <1>1, <1>2, <1>3 DEF Init, TypeOK, PlaceInv, Busy

(* Files, cache, rows, audit log and requests keep their types; a weight that is
   stored fits its column (models/intelligence.py:41-68, intelligence_service.py:161-199). *)
THEOREM TypeCorrect == Spec => []TypeOK
<1>1. TypeOK /\ PlaceInv /\ [Next]_vars => (TypeOK /\ PlaceInv)'
  BY NextTypes
<1>2. QED
  BY <1>1, InitTypes, PTL DEF Spec
----------------------------------------------------------------------------
(* What the cache of results may do to the documents.                      *)

\* A result in the cache, or on its way to a document, was found by the task in the file.
OwnRequest(s) ==
    s.pc \in {"store", "document"} =>
        s.result.key = s.key /\ s.result.version <= files[s.key[2]]
OwnInv ==
    /\ \A k \in DOMAIN cache : cache[k].key = k /\ cache[k].version <= files[k[2]]
    /\ \A w \in Workers : Busy(w) => OwnRequest(session[w])
    /\ OwnResult

\* Requests one at a time: what this life of the process has read is in the cache.
ReadRequest(s) ==
    /\ s.pc = "store" => s.key \notin DOMAIN cache
    /\ s.pc = "document" => s.key \in DOMAIN cache /\ cache[s.key] = s.result
ReadInv ==
    /\ \A v, w \in Workers : Busy(v) /\ Busy(w) => v = w
    /\ \A w \in Workers : Busy(w) => ReadRequest(session[w])
    /\ \A d \in DOMAIN documents :
           /\ documents[d].life <= life
           /\ documents[d].life = life =>
                  /\ documents[d].key \in DOMAIN cache
                  /\ cache[documents[d].key] = documents[d].result
    /\ \A d, e \in DOMAIN documents :
           documents[d].key = documents[e].key /\ documents[d].life = documents[e].life
           => documents[d].result = documents[e].result

CacheInv == OwnInv /\ (alone => ReadInv)

LEMMA SessionAfter ==
  ASSUME TypeOK, NEW w \in Workers, NEW t, session' = [session EXCEPT ![w] = t]
  PROVE  \A v \in Workers : session'[v] = IF v = w THEN t ELSE session[v]
BY DEF TypeOK

\* A request after a step of its thread: ended, or at another place.
After(w, pcs) ==
    /\ \A v \in Workers : v # w => session'[v] = session[v]
    /\ session'[w] = Idle \/ session'[w].pc \in pcs

\* Steps that neither read nor store results.
LEMMA OtherSteps ==
  ASSUME TypeOK, NEW w \in Workers, Step(w),
         ~RunHit(w), ~RunHandler(w), ~RunStore(w),
         ~(Documents # DOMAIN documents /\ DocumentCommit(w, Fresh(Documents, documents)))
  PROVE  /\ UNCHANGED <<files, cache, documents, life, alone>>
         /\ After(w, {"run", "weigh", "graph", "graph_logged", "analyzed"})
<1> DEFINE s == session[w]
           pcs == {"run", "weigh", "graph", "graph_logged", "analyzed"}
<1>1. s.op # "idle" => s \in Requests
  BY BusyRequest
<1>2. ASSUME NEW t, t = Idle \/ t.pc \in pcs, session' = [session EXCEPT ![w] = t]
      PROVE  After(w, pcs)
  <2>1. \A v \in Workers : session'[v] = IF v = w THEN t ELSE session[v]
    BY <1>2, SessionAfter
  <2>2. session'[w] = t /\ \A v \in Workers : v # w => session'[v] = session[v]
    BY <2>1
  <2>3. QED
    BY <1>2, <2>2 DEF After
<1>3. ASSUME Ends(w)
      PROVE  After(w, pcs)
  BY <1>2, <1>3 DEF Ends
<1>4. CASE \/ \E c \in Cases, p \in Paths : NerStart(w, c, p) \/ ApkStart(w, c, p)
           \/ \E source \in Cases \cup DOMAIN documents : GraphStart(w, source)
           \/ \E c \in Cases, run_graph \in BOOLEAN, key \in ({"ner"} \X Paths) \cup {None} :
                  AnalyzeStart(w, c, run_graph, key)
  <2>1. \E op, of, key : \E pc \in {"run", "weigh"} : Goes(w, Request(op, pc, of, key))
    BY <1>4 DEF NerStart, ApkStart, GraphStart, AnalyzeStart
  <2>2. PICK op, of, key : \E pc \in {"run", "weigh"} : Goes(w, Request(op, pc, of, key))
    BY <2>1
  <2>3. PICK pc \in {"run", "weigh"} : Goes(w, Request(op, pc, of, key))
    BY <2>2
  <2>4. Request(op, pc, of, key).pc \in pcs
    BY DEF Request
  <2>5. After(w, pcs)
    BY <1>2, <2>3, <2>4 DEF Goes
  <2>6. QED
    BY <1>4, <2>5, StartMoves
<1>5. CASE GraphBuild(w)
  <2> DEFINE weight == IF s.of \in Cases THEN IF messages[s.of] = None THEN 0 ELSE messages[s.of] ELSE 1
             t == [s EXCEPT !.pc = "graph", !.weight = weight]
  <2>1. session' = [session EXCEPT ![w] = t]
    BY <1>5 DEF GraphBuild, Goes
  <2>2. t.pc \in pcs
    BY <1>1, <1>5 DEF GraphBuild, Requests
  <2> HIDE DEF t
  <2>3. QED
    BY <1>2, <1>5, <2>1, <2>2 DEF GraphBuild
<1>6. CASE GraphCommit(w, Fresh(Graphs, graphs))
  <2> DEFINE t == [s EXCEPT !.pc = "graph_logged", !.graph = Fresh(Graphs, graphs)]
  <2>1. session' = [session EXCEPT ![w] = t] \/ Ends(w)
    BY <1>6 DEF GraphCommit, Goes
  <2>2. t.pc \in pcs
    BY <1>1, <1>6 DEF GraphCommit, Requests
  <2> HIDE DEF t
  <2>3. QED
    BY <1>2, <1>3, <1>6, <2>1, <2>2 DEF GraphCommit
<1>7. CASE LogCaseGraph(w)
  <2> DEFINE t == [s EXCEPT !.pc = IF s.key = None THEN "analyzed" ELSE "run"]
  <2>1. session' = [session EXCEPT ![w] = t]
    BY <1>7 DEF LogCaseGraph, Goes
  <2>2. t.pc \in pcs
    BY <1>1, <1>7 DEF LogCaseGraph, Requests
  <2> HIDE DEF t
  <2>3. QED
    BY <1>2, <1>7, <2>1, <2>2 DEF LogCaseGraph
<1>8. CASE LogCaseDocument(w)
  <2> DEFINE t == [s EXCEPT !.pc = "analyzed"]
  <2>1. session' = [session EXCEPT ![w] = t]
    BY <1>8 DEF LogCaseDocument, Goes
  <2>2. t.pc \in pcs
    BY <1>1, <1>8 DEF LogCaseDocument, Requests
  <2> HIDE DEF t
  <2>3. QED
    BY <1>2, <1>8, <2>1, <2>2 DEF LogCaseDocument
<1>9. CASE LogAnalyzed(w) \/ Abort(w)
  BY <1>3, <1>9 DEF LogAnalyzed, Abort
<1>10. QED
  BY <1>4, <1>5, <1>6, <1>7, <1>8, <1>9 DEF Step
\* Steps that read or store results.
LEMMA ReadingSteps ==
  ASSUME TypeOK, PlaceInv, NEW w \in Workers, Step(w)
  PROVE  LET s == session[w]
             t == session'[w]
         IN  /\ UNCHANGED <<files, life, alone>>
             /\ \A v \in Workers : v # w => session'[v] = session[v]
             /\ \/ UNCHANGED <<cache, documents>> /\ (t = Idle \/ t.pc \notin {"store", "document"})
                \/ /\ Busy(w) /\ s.pc = "run" /\ s.key \in Keys /\ s.key \in DOMAIN cache
                   /\ UNCHANGED <<cache, documents>>
                   /\ t.pc = "document" /\ t.key = s.key /\ t.result = cache[s.key]
                \/ /\ Busy(w) /\ s.pc = "run" /\ s.key \in Keys /\ s.key \notin DOMAIN cache
                   /\ UNCHANGED <<cache, documents>>
                   /\ t.pc = "store" /\ t.key = s.key
                   /\ t.result.key = s.key /\ t.result.version = files[s.key[2]]
                \/ /\ Busy(w) /\ s.pc = "store" /\ s.key \in Keys
                   /\ cache' = Extend(cache, s.key, s.result) /\ UNCHANGED documents
                   /\ t.pc = "document" /\ t.key = s.key /\ t.result = s.result
                \/ /\ Busy(w) /\ s.pc = "document" /\ s.key \in Keys /\ UNCHANGED cache
                   /\ \E d \in Documents \ DOMAIN documents :
                          documents' = Extend(documents, d,
                              [case_id |-> s.of, key |-> s.key, result |-> s.result, life |-> life])
                   /\ t = Idle \/ t.pc = "document_logged"
<1> DEFINE s == session[w]
<1>1. s.op # "idle" => s \in Requests /\ Place(s) /\ Busy(w)
  BY BusyRequest DEF PlaceInv
<1>2. CASE RunHit(w)
  <2>1. s \in Requests /\ s.pc = "run" /\ s.key \in DOMAIN cache /\ Busy(w) /\ s.key \in Keys
    BY <1>1, <1>2 DEF RunHit, _cache_key, Place
  <2> DEFINE t == [s EXCEPT !.pc = "document", !.result = cache[s.key]]
  <2>2. session' = [session EXCEPT ![w] = t]
    BY <1>2 DEF RunHit, Goes, _cache_key
  <2>3. t.pc = "document" /\ t.key = s.key /\ t.result = cache[s.key]
    BY <2>1 DEF Requests
  <2> HIDE DEF t
  <2>4. \A v \in Workers : session'[v] = IF v = w THEN t ELSE session[v]
    BY <2>2, SessionAfter
  <2>5. UNCHANGED <<files, life, alone, cache, documents>>
    BY <1>2 DEF RunHit
  <2>6. QED
    BY <2>1, <2>3, <2>4, <2>5
<1>3. CASE RunHandler(w)
  <2>1. s \in Requests /\ s.pc = "run" /\ s.key \notin DOMAIN cache /\ Busy(w) /\ s.key \in Keys
    BY <1>1, <1>3 DEF RunHandler, _cache_key, Place
  <2> DEFINE result == [key |-> s.key, version |-> files[s.key[2]]]
             t == [s EXCEPT !.pc = "store", !.result = result]
  <2>2. session' = [session EXCEPT ![w] = t]
    BY <1>3 DEF RunHandler, Goes
  <2>3. result.key = s.key /\ result.version = files[s.key[2]]
    OBVIOUS
  <2> HIDE DEF result
  <2>4. t.pc = "store" /\ t.key = s.key /\ t.result = result
    BY <2>1 DEF Requests
  <2> HIDE DEF t
  <2>5. \A v \in Workers : session'[v] = IF v = w THEN t ELSE session[v]
    BY <2>2, SessionAfter
  <2>6. UNCHANGED <<files, life, alone, cache, documents>>
    BY <1>3 DEF RunHandler
  <2>7. QED
    BY <2>1, <2>3, <2>4, <2>5, <2>6
<1>4. CASE RunStore(w)
  <2>1. s \in Requests /\ s.pc = "store" /\ Busy(w) /\ s.key \in Keys
    BY <1>1, <1>4 DEF RunStore, Place
  <2> DEFINE t == [s EXCEPT !.pc = "document"]
  <2>2. session' = [session EXCEPT ![w] = t]
    BY <1>4 DEF RunStore, Goes
  <2>3. t.pc = "document" /\ t.key = s.key /\ t.result = s.result
    BY <2>1 DEF Requests
  <2> HIDE DEF t
  <2>4. \A v \in Workers : session'[v] = IF v = w THEN t ELSE session[v]
    BY <2>2, SessionAfter
  <2>5. UNCHANGED <<files, life, alone, documents>> /\ cache' = Extend(cache, s.key, s.result)
    BY <1>4 DEF RunStore, _cache_key
  <2>6. QED
    BY <2>1, <2>3, <2>4, <2>5
<1>5. CASE Documents # DOMAIN documents /\ DocumentCommit(w, Fresh(Documents, documents))
  <2> DEFINE d == Fresh(Documents, documents)
             doc == [case_id |-> s.of, key |-> s.key, result |-> s.result, life |-> life]
             t == [s EXCEPT !.pc = "document_logged", !.document = d]
  <2>1. s \in Requests /\ s.pc = "document" /\ Busy(w) /\ s.key \in Keys
    BY <1>1, <1>5 DEF DocumentCommit, Place
  <2>2. d \in Documents /\ d \notin DOMAIN documents
    BY <1>5, FreshIsNew DEF TypeOK
  <2>3. documents' = Extend(documents, d, doc) /\ UNCHANGED <<files, life, alone, cache>>
    BY <1>5 DEF DocumentCommit
  <2>4. session' = [session EXCEPT ![w] = t] \/ session' = [session EXCEPT ![w] = Idle]
    BY <1>5 DEF DocumentCommit, Goes, Ends
  <2> HIDE DEF d
  <2>5. t.pc = "document_logged"
    BY <2>1 DEF Requests
  <2> HIDE DEF t
  <2>6. \/ \A v \in Workers : session'[v] = IF v = w THEN t ELSE session[v]
        \/ \A v \in Workers : session'[v] = IF v = w THEN Idle ELSE session[v]
    BY <2>4, SessionAfter
  <2>7. (session'[w] = Idle \/ session'[w].pc = "document_logged")
        /\ \A v \in Workers : v # w => session'[v] = session[v]
    BY <2>5, <2>6
  <2> HIDE DEF doc
  <2>8. \E x \in Documents \ DOMAIN documents : documents' = Extend(documents, x, doc)
    BY <2>2, <2>3
  <2>9. QED
    BY <2>1, <2>3, <2>7, <2>8 DEF doc
<1>6. CASE ~RunHit(w) /\ ~RunHandler(w) /\ ~RunStore(w)
           /\ ~(Documents # DOMAIN documents /\ DocumentCommit(w, Fresh(Documents, documents)))
  BY <1>6, OtherSteps DEF After
<1>7. QED
  BY <1>2, <1>3, <1>4, <1>5, <1>6
LEMMA OwnStep ==
  ASSUME TypeOK, PlaceInv, OwnInv, NEW w \in Workers, Step(w)
  PROVE  OwnInv'
<1> DEFINE s == session[w]
           t == session'[w]
           Own(k, r) == r.key = k /\ r.version <= files[k[2]]
<1>1. /\ UNCHANGED <<files, life, alone>>
      /\ \A v \in Workers : v # w => session'[v] = session[v]
  BY ReadingSteps
<1>2. \A v \in Workers : Busy(v) /\ session[v].pc \in {"store", "document"} =>
          Own(session[v].key, session[v].result)
  BY DEF OwnInv, OwnRequest
<1>3. ASSUME t = Idle \/ (t.pc \in {"store", "document"} => Own(t.key, t.result))
      PROVE  \A v \in Workers : Busy(v)' => OwnRequest(session[v])'
  BY <1>1, <1>2, <1>3 DEF OwnRequest, Busy
<1>4. CASE UNCHANGED <<cache, documents>> /\ (t = Idle \/ t.pc \notin {"store", "document"})
  BY <1>1, <1>3, <1>4 DEF OwnInv, OwnResult
<1>5. CASE /\ s.key \in DOMAIN cache /\ UNCHANGED <<cache, documents>>
           /\ t.pc = "document" /\ t.key = s.key /\ t.result = cache[s.key]
  <2>1. Own(t.key, t.result)
    BY <1>5 DEF OwnInv
  <2>2. QED
    BY <1>1, <1>3, <1>5, <2>1 DEF OwnInv, OwnResult
<1>6. CASE /\ s.key \in Keys /\ UNCHANGED <<cache, documents>>
           /\ t.pc = "store" /\ t.key = s.key
           /\ t.result.key = s.key /\ t.result.version = files[s.key[2]]
  <2>1. files[s.key[2]] \in Nat
    BY <1>6, Constants DEF TypeOK, Keys
  <2>2. Own(t.key, t.result)
    BY <1>6, <2>1
  <2>3. QED
    BY <1>1, <1>3, <1>6, <2>2 DEF OwnInv, OwnResult
<1>7. CASE /\ Busy(w) /\ s.pc = "store" /\ cache' = Extend(cache, s.key, s.result) /\ UNCHANGED documents
           /\ t.key = s.key /\ t.result = s.result
  <2>1. Own(s.key, s.result) /\ Own(t.key, t.result)
    BY <1>2, <1>7
  <2>2. \A k \in DOMAIN cache' : (k = s.key /\ cache'[k] = s.result) \/ (k \in DOMAIN cache /\ cache'[k] = cache[k])
    BY <1>7 DEF Extend
  <2>3. \A k \in DOMAIN cache' : Own(k, cache'[k])
    BY <2>1, <2>2 DEF OwnInv
  <2>4. QED
    BY <1>1, <1>3, <1>7, <2>1, <2>3 DEF OwnInv, OwnResult
<1>8. CASE /\ Busy(w) /\ s.pc = "document" /\ UNCHANGED cache
           /\ \E d \in Documents \ DOMAIN documents :
                  documents' = Extend(documents, d,
                      [case_id |-> s.of, key |-> s.key, result |-> s.result, life |-> life])
           /\ t = Idle \/ t.pc = "document_logged"
  <2> DEFINE doc == [case_id |-> s.of, key |-> s.key, result |-> s.result, life |-> life]
  <2>1. PICK d \in Documents \ DOMAIN documents : documents' = Extend(documents, d, doc)
    BY <1>8
  <2>2. doc.key = s.key /\ doc.result = s.result
    OBVIOUS
  <2> HIDE DEF doc
  <2>3. \A e \in DOMAIN documents' : documents'[e] = doc \/ (e \in DOMAIN documents /\ documents'[e] = documents[e])
    BY <2>1 DEF Extend
  <2>4. Own(s.key, s.result)
    BY <1>2, <1>8
  <2>5. \A e \in DOMAIN documents' : Own(documents'[e].key, documents'[e].result)
    BY <2>2, <2>3, <2>4 DEF OwnInv, OwnResult
  <2>6. OwnResult'
    BY <1>1, <2>5 DEF OwnResult
  <2>7. \A v \in Workers : Busy(v)' => OwnRequest(session[v])'
    BY <1>3, <1>8
  <2>8. QED
    BY <1>1, <1>8, <2>6, <2>7 DEF OwnInv
<1>9. QED
  BY <1>4, <1>5, <1>6, <1>7, <1>8, ReadingSteps

LEMMA ReadStep ==
  ASSUME TypeOK, PlaceInv, ReadInv, NEW w \in Workers, Step(w),
         \A v, x \in Workers : Busy(v)' /\ Busy(x)' => v = x
  PROVE  ReadInv'
<1> DEFINE s == session[w]
           t == session'[w]
<1>1. /\ UNCHANGED <<files, life, alone>>
      /\ \A v \in Workers : v # w => session'[v] = session[v]
  BY ReadingSteps
<1>2. Busy(w) => \A v \in Workers : v # w => session'[v] = Idle
  BY <1>1 DEF ReadInv, Busy
<1>3. life \in Nat
  BY Constants DEF TypeOK
<1>4. CASE UNCHANGED <<cache, documents>> /\ (t = Idle \/ t.pc \notin {"store", "document"})
  <2>1. \A v \in Workers : Busy(v)' => ReadRequest(session[v])'
    BY <1>1, <1>4 DEF ReadInv, ReadRequest, Busy
  <2>2. QED
    BY <1>1, <1>4, <2>1 DEF ReadInv
<1>5. CASE /\ Busy(w) /\ s.key \in DOMAIN cache /\ UNCHANGED <<cache, documents>>
           /\ t.pc = "document" /\ t.key = s.key /\ t.result = cache[s.key]
  <2>1. \A v \in Workers : Busy(v)' => ReadRequest(session[v])'
    BY <1>2, <1>5 DEF ReadRequest, Busy
  <2>2. QED
    BY <1>1, <1>5, <2>1 DEF ReadInv
<1>6. CASE /\ Busy(w) /\ s.key \notin DOMAIN cache /\ UNCHANGED <<cache, documents>>
           /\ t.pc = "store" /\ t.key = s.key
  <2>1. \A v \in Workers : Busy(v)' => ReadRequest(session[v])'
    BY <1>2, <1>6 DEF ReadRequest, Busy
  <2>2. QED
    BY <1>1, <1>6, <2>1 DEF ReadInv
<1>7. CASE /\ Busy(w) /\ s.pc = "store" /\ cache' = Extend(cache, s.key, s.result) /\ UNCHANGED documents
           /\ t.pc = "document" /\ t.key = s.key /\ t.result = s.result
  <2>1. s.key \notin DOMAIN cache
    BY <1>7 DEF ReadInv, ReadRequest
  <2>2. /\ DOMAIN cache' = DOMAIN cache \cup {s.key} /\ cache'[s.key] = s.result
        /\ \A k \in DOMAIN cache : cache'[k] = cache[k]
    <3>1. /\ DOMAIN Extend(cache, s.key, s.result) = DOMAIN cache \cup {s.key}
          /\ Extend(cache, s.key, s.result)[s.key] = s.result
          /\ \A k \in DOMAIN cache : k # s.key => Extend(cache, s.key, s.result)[k] = cache[k]
      BY DEF Extend
    <3>2. QED
      BY <1>7, <2>1, <3>1
  <2>3. \A v \in Workers : Busy(v)' => ReadRequest(session[v])'
    BY <1>2, <1>7, <2>2 DEF ReadRequest, Busy
  <2>4. QED
    BY <1>1, <1>7, <2>2, <2>3 DEF ReadInv
<1>8. CASE /\ Busy(w) /\ s.pc = "document" /\ UNCHANGED cache
           /\ \E d \in Documents \ DOMAIN documents :
                  documents' = Extend(documents, d,
                      [case_id |-> s.of, key |-> s.key, result |-> s.result, life |-> life])
           /\ t = Idle \/ t.pc = "document_logged"
  <2> DEFINE doc == [case_id |-> s.of, key |-> s.key, result |-> s.result, life |-> life]
  <2>1. PICK d \in Documents \ DOMAIN documents : documents' = Extend(documents, d, doc)
    BY <1>8
  <2>2. doc.key = s.key /\ doc.result = s.result /\ doc.life = life
    OBVIOUS
  <2> HIDE DEF doc
  <2>3. \A e \in DOMAIN documents' : documents'[e] = doc \/ (e \in DOMAIN documents /\ documents'[e] = documents[e])
    BY <2>1 DEF Extend
  <2>4. s.key \in DOMAIN cache /\ cache[s.key] = s.result
    BY <1>8 DEF ReadInv, ReadRequest
  <2>5. \A v \in Workers : Busy(v)' => ReadRequest(session[v])'
    BY <1>2, <1>8 DEF ReadRequest, Busy
  <2>6. \A e \in DOMAIN documents' :
            /\ documents'[e].life <= life
            /\ documents'[e].life = life =>
                   /\ documents'[e].key \in DOMAIN cache
                   /\ cache[documents'[e].key] = documents'[e].result
    BY <1>3, <2>2, <2>3, <2>4 DEF ReadInv
  <2>7. ASSUME NEW e \in DOMAIN documents', NEW f \in DOMAIN documents',
               documents'[e].key = documents'[f].key, documents'[e].life = documents'[f].life
        PROVE  documents'[e].result = documents'[f].result
    <3>1. CASE documents'[e].life = life
      BY <2>6, <2>7, <3>1
    <3>2. CASE documents'[e].life # life
      BY <2>2, <2>3, <2>7, <3>2 DEF ReadInv
    <3>3. QED
      BY <3>1, <3>2
  <2>8. QED
    BY <1>1, <1>8, <2>5, <2>6, <2>7 DEF ReadInv
<1>9. QED
  BY <1>4, <1>5, <1>6, <1>7, <1>8, ReadingSteps

LEMMA CacheNext ==
  ASSUME TypeOK, PlaceInv, CacheInv, [Next]_vars
  PROVE  CacheInv'
<1>1. CASE \E p \in Paths : ReplaceFile(p)
  <2>1. PICK p \in Paths : ReplaceFile(p)
    BY <1>1
  <2>2. \A q \in Paths : files[q] \in Nat /\ files'[q] \in Nat /\ files[q] <= files'[q]
    BY <2>1, Constants DEF ReplaceFile, TypeOK
  <2>3. \A r \in Results : r.version \in Nat
    BY Constants DEF Results
  <2>4. \A r \in Results, k \in Keys : r.version <= files[k[2]] => r.version <= files'[k[2]]
    BY <2>2, <2>3 DEF Keys
  <2>5. UNCHANGED <<cache, documents, session, life, alone>>
    BY <2>1 DEF ReplaceFile
  <2>6. \A k \in DOMAIN cache : k \in Keys /\ cache[k] \in Results
    BY DEF TypeOK
  <2>7. \A d \in DOMAIN documents : documents[d].key \in Keys /\ documents[d].result \in Results
    BY DEF TypeOK, Document
  <2>8. \A w \in Workers : Busy(w) /\ session[w].pc \in {"store", "document"} =>
            session[w].key \in Keys /\ session[w].result \in Results
    BY DEF PlaceInv, Place
  <2>9. OwnInv'
    <3>1. \A k \in DOMAIN cache : cache[k].key = k /\ cache[k].version <= files'[k[2]]
      BY <2>4, <2>6 DEF CacheInv, OwnInv
    <3>2. \A w \in Workers : Busy(w) => OwnRequest(session[w])'
      BY <2>4, <2>5, <2>8 DEF CacheInv, OwnInv, OwnRequest
    <3>3. OwnResult'
      BY <2>4, <2>5, <2>7 DEF CacheInv, OwnInv, OwnResult
    <3>4. QED
      BY <2>5, <3>1, <3>2, <3>3 DEF OwnInv, Busy
  <2>10. QED
    BY <2>5, <2>9 DEF CacheInv, ReadInv, ReadRequest, Busy
<1>2. CASE \E c \in Cases : ImportMessage(c)
  BY <1>2 DEF ImportMessage, CacheInv, OwnInv, OwnResult, OwnRequest, ReadInv, ReadRequest, Busy
<1>3. CASE \E w \in Workers : Step(w) /\ Next
  <2>1. PICK w \in Workers : Step(w) /\ Next
    BY <1>3
  <2>2. OwnInv' /\ alone' = alone
    BY <2>1, OwnStep, ReadingSteps DEF CacheInv
  <2>3. alone' => \A v, x \in Workers : Busy(v)' /\ Busy(x)' => v = x
    BY <2>1 DEF Next
  <2>4. QED
    BY <2>1, <2>2, <2>3, ReadStep DEF CacheInv
<1>4. CASE Restart
  <2>1. UNCHANGED <<files, documents, alone>> /\ life' = life + 1 /\ DOMAIN cache' = {}
    BY <1>4 DEF Restart
  <2>2. \A w \in Workers : ~Busy(w)'
    BY <1>4 DEF Restart, Busy
  <2>3. \A d \in DOMAIN documents : documents[d].life \in Nat
    BY Constants DEF TypeOK, Document
  <2>4. life \in Nat
    BY Constants DEF TypeOK
  <2>5. alone => \A d \in DOMAIN documents : documents[d].life <= life' /\ documents[d].life # life'
    BY <2>1, <2>3, <2>4 DEF CacheInv, ReadInv
  <2>6. OwnInv'
    BY <2>1, <2>2 DEF CacheInv, OwnInv, OwnResult
  <2>7. alone => ReadInv'
    BY <2>1, <2>2, <2>5 DEF CacheInv, ReadInv
  <2>8. QED
    BY <2>1, <2>6, <2>7 DEF CacheInv
<1>5. CASE UNCHANGED vars
  BY <1>5 DEF vars, CacheInv, OwnInv, OwnResult, OwnRequest, ReadInv, ReadRequest, Busy
<1>6. QED
  BY <1>1, <1>2, <1>3, <1>4, <1>5 DEF Next

LEMMA InitCache ==
  ASSUME Init
  PROVE  CacheInv
<1>1. DOMAIN cache = {} /\ DOMAIN documents = {} /\ \A w \in Workers : ~Busy(w)
  BY DEF Init, Busy
<1>2. QED
  BY <1>1 DEF CacheInv, OwnInv, OwnResult, ReadInv

(* However cached results, replaced files and restarts alternate, a document shows
   what its own task found in its own file, and with requests one at a time the
   documents of one task and path in one life of the process agree
   (inference.py:51, 75; intelligence_service.py:76). *)
THEOREM CacheSafe == Spec => []CachedResults
<1>1. TypeOK /\ PlaceInv /\ CacheInv /\ [Next]_vars => (TypeOK /\ PlaceInv /\ CacheInv)'
  BY NextTypes, CacheNext
<1>2. CacheInv => CachedResults
  BY DEF CacheInv, OwnInv, ReadInv, CachedResults, OneReadingPerLife
<1>3. QED
  BY <1>1, <1>2, InitTypes, InitCache, PTL DEF Spec
----------------------------------------------------------------------------
(* The audit log comes after the work it tells of.                         *)

\* One of the first n entries says it.
Said(n, action, of, id) ==
    \E j \in 1..n : log[j].action = action /\ log[j].of = of /\ log[j].id = id

IsSaid(action, of, id) == Said(Len(log), action, of, id)

\* What an entry says is stored, or said by the n entries before it.
Backed(n, e) ==
    /\ e.action = "case.graph" => e.id \in DOMAIN graphs /\ graphs[e.id].source = e.of
    /\ e.action = "case.analyze" =>
           /\ e.graph # None \/ e.document # None
           /\ e.graph # None => Said(n, "case.graph", e.of, e.graph)
           /\ e.document # None => Said(n, "case.ner", e.of, e.document)

\* The graph an analysis has stored is counted next; graph and document it names
\* at the end have been counted.
LoggedRequest(s) ==
    /\ s.pc = "graph_logged" => s.graph \in DOMAIN graphs /\ graphs[s.graph].source = s.of
    /\ s.graph # None /\ s.pc # "graph_logged" => IsSaid("case.graph", s.of, s.graph)
    /\ s.document # None /\ s.pc = "analyzed" => IsSaid("case.ner", s.of, s.document)
LogInv ==
    /\ \A i \in 1..Len(log) : Backed(i - 1, log[i])
    /\ \A w \in Workers : Busy(w) => LoggedRequest(session[w])

\* What is logged and stored stays.
Kept ==
    /\ Len(log) <= Len(log') /\ \A i \in 1..Len(log) : log'[i] = log[i]
    /\ \A g \in DOMAIN graphs : g \in DOMAIN graphs' /\ graphs'[g] = graphs[g]

LEMMA LogLength ==
  ASSUME TypeOK
  PROVE  Len(log) \in Nat
BY DEF TypeOK

LEMMA SaidKept ==
  ASSUME TypeOK, Len(log') \in Nat, Kept, NEW n \in 0..Len(log), NEW action, NEW of, NEW id,
         Said(n, action, of, id)
  PROVE  Said(n, action, of, id)' /\ IsSaid(action, of, id)'
<1>1. PICK j \in 1..n : log[j].action = action /\ log[j].of = of /\ log[j].id = id
  BY DEF Said
<1>2. j \in 1..Len(log) /\ j \in 1..Len(log') /\ log'[j] = log[j]
  BY LogLength DEF Kept
<1>3. QED
  BY <1>1, <1>2 DEF Said, IsSaid

LEMMA BackedKept ==
  ASSUME TypeOK, Len(log') \in Nat, Kept, NEW n \in 0..Len(log), NEW e, Backed(n, e)
  PROVE  Backed(n, e)'
BY SaidKept DEF Backed, Kept

LEMMA RequestKept ==
  ASSUME TypeOK, Len(log') \in Nat, Kept, NEW s, LoggedRequest(s)
  PROVE  LoggedRequest(s)'
<1>1. Len(log) \in 0..Len(log)
  BY LogLength
<1>2. QED
  BY <1>1, SaidKept DEF LoggedRequest, IsSaid, Kept

\* The thread of a step ends its request, or holds what LoggedRequest says.
Logs(w) ==
    /\ \A v \in Workers : v # w => session'[v] = session[v]
    /\ session'[w] = Idle \/ LoggedRequest(session[w])'

LEMMA LogsKeeps ==
  ASSUME TypeOK, LogInv, Len(log') \in Nat, Kept, NEW w \in Workers, Logs(w),
         \A i \in 1..Len(log') : i \notin 1..Len(log) => Backed(i - 1, log[i])'
  PROVE  LogInv'
<1>1. ASSUME NEW v \in Workers, Busy(v)'
      PROVE  LoggedRequest(session[v])'
  <2>1. CASE v = w
    BY <1>1, <2>1 DEF Logs, Busy
  <2>2. CASE v # w
    <3>1. session'[v] = session[v]
      BY <2>2 DEF Logs
    <3>2. PICK s : s = session[v]
      OBVIOUS
    <3>3. LoggedRequest(s)
      BY <1>1, <3>1, <3>2 DEF LogInv, Busy
    <3>4. LoggedRequest(s)'
      BY <3>3, RequestKept
    <3>5. s = session'[v]
      BY <3>1, <3>2
    <3>6. QED
      BY <3>4, <3>5 DEF LoggedRequest
  <2>3. QED
    BY <2>1, <2>2
<1>2. ASSUME NEW i \in 1..Len(log')
      PROVE  Backed(i - 1, log[i])'
  <2>1. CASE i \in 1..Len(log)
    <3>1. PICK e : e = log[i]
      OBVIOUS
    <3>2. Backed(i - 1, e)
      BY <2>1, <3>1 DEF LogInv
    <3>3. i - 1 \in 0..Len(log)
      BY <2>1, LogLength
    <3>4. Backed(i - 1, e)'
      BY <3>2, <3>3, BackedKept
    <3>5. e = log'[i]
      BY <2>1, <3>1 DEF Kept
    <3>6. QED
      BY <3>4, <3>5 DEF Backed
  <2>2. QED
    BY <2>1
<1>3. QED
  BY <1>1, <1>2 DEF LogInv

\* A step that logs nothing.
LEMMA SilentKeeps ==
  ASSUME TypeOK, LogInv, UNCHANGED <<log, graphs>>, NEW w \in Workers, Logs(w)
  PROVE  LogInv'
<1>1. Kept /\ Len(log') \in Nat /\ Len(log') = Len(log)
  BY LogLength DEF Kept
<1>2. QED
  BY <1>1, LogsKeeps

\* A step that logs e.
LEMMA EntryKeeps ==
  ASSUME TypeOK, LogInv, NEW w \in Workers, NEW e \in Entry, log_activity(e),
         \A g \in DOMAIN graphs : g \in DOMAIN graphs' /\ graphs'[g] = graphs[g],
         Backed(Len(log), e) \/ e.action \notin {"case.graph", "case.analyze"}
  PROVE  /\ Kept /\ Len(log') \in Nat
         /\ Logs(w) => LogInv'
         /\ IsSaid(e.action, e.of, e.id)'
<1>1. /\ Len(log) \in Nat /\ Len(log') = Len(log) + 1 /\ log'[Len(log) + 1] = e
      /\ \A i \in 1..Len(log) : log'[i] = log[i]
  BY LogGrows, LogLength
<1>2. Kept /\ Len(log') \in Nat
  BY <1>1 DEF Kept
<1>3. IsSaid(e.action, e.of, e.id)'
  BY <1>1 DEF Said, IsSaid
<1>4. PICK n : n = Len(log)
  OBVIOUS
<1>5. Backed(n, e)'
  <2>1. CASE Backed(n, e)
    BY <1>1, <1>2, <1>4, <2>1, BackedKept
  <2>2. CASE e.action \notin {"case.graph", "case.analyze"}
    BY <2>2 DEF Backed
  <2>3. QED
    BY <1>4, <2>1, <2>2
<1>6. ASSUME NEW i \in 1..Len(log'), i \notin 1..Len(log)
      PROVE  Backed(i - 1, log[i])'
  <2>1. i - 1 = n /\ log'[i] = e
    BY <1>1, <1>4, <1>6
  <2>2. QED
    BY <1>5, <2>1 DEF Backed
<1>7. QED
  BY <1>2, <1>3, <1>6, LogsKeeps
LEMMA LogsAt ==
  ASSUME TypeOK, NEW w \in Workers, NEW t, session' = [session EXCEPT ![w] = t],
         t = Idle \/ LoggedRequest(t)'
  PROVE  Logs(w)
<1>1. \A v \in Workers : session'[v] = IF v = w THEN t ELSE session[v]
  BY SessionAfter
<1>2. session'[w] = t /\ \A v \in Workers : v # w => session'[v] = session[v]
  BY <1>1
<1>3. session'[w] = Idle \/ LoggedRequest(session[w])'
  BY <1>2 DEF LoggedRequest
<1>4. QED
  BY <1>2, <1>3 DEF Logs

LEMMA EndsLogs ==
  ASSUME TypeOK, NEW w \in Workers, Ends(w)
  PROVE  Logs(w)
BY LogsAt DEF Ends

\* A request that keeps its graph, and is not at its end.
LEMMA GoesOn ==
  ASSUME TypeOK, NEW w \in Workers, Len(log') \in Nat, Kept,
         NEW s, NEW t, LoggedRequest(s), session' = [session EXCEPT ![w] = t],
         s.pc # "graph_logged", t.pc \notin {"graph_logged", "analyzed"},
         t.graph = s.graph, t.of = s.of
  PROVE  Logs(w)
<1>1. LoggedRequest(s)'
  BY RequestKept
<1>2. LoggedRequest(t)'
  BY <1>1 DEF LoggedRequest
<1>3. QED
  BY <1>2, LogsAt

LEMMA LogStep ==
  ASSUME TypeOK, PlaceInv, LogInv, NEW w \in Workers, Step(w)
  PROVE  LogInv'
<1>1. PICK s : s = session[w]
  OBVIOUS
<1>2. s.op # "idle" => s \in Requests /\ Place(s) /\ LoggedRequest(s)
  BY <1>1, BusyRequest DEF PlaceInv, LogInv
<1>3. UNCHANGED <<log, graphs>> => Kept /\ Len(log') \in Nat
  BY LogLength DEF Kept
<1>4. CASE \/ \E c \in Cases, p \in Paths : NerStart(w, c, p) \/ ApkStart(w, c, p)
           \/ \E source \in Cases \cup DOMAIN documents : GraphStart(w, source)
           \/ \E c \in Cases, run_graph \in BOOLEAN, key \in ({"ner"} \X Paths) \cup {None} :
                  AnalyzeStart(w, c, run_graph, key)
  <2>1. \E op, of, key : \E pc \in {"run", "weigh"} : Goes(w, Request(op, pc, of, key))
    BY <1>4 DEF NerStart, ApkStart, GraphStart, AnalyzeStart
  <2>2. PICK op, of, key : \E pc \in {"run", "weigh"} : Goes(w, Request(op, pc, of, key))
    BY <2>1
  <2>3. PICK pc \in {"run", "weigh"} : Goes(w, Request(op, pc, of, key))
    BY <2>2
  <2>4. LoggedRequest(Request(op, pc, of, key))'
    BY DEF LoggedRequest, Request
  <2>5. Logs(w)
    BY <2>3, <2>4, LogsAt DEF Goes
  <2>6. QED
    BY <1>4, <2>5, SilentKeeps, StartMoves
<1>5. CASE RunHit(w)
  <2>1. PICK result : session' = [session EXCEPT ![w] = [s EXCEPT !.pc = "document", !.result = result]]
    BY <1>1, <1>5 DEF RunHit, Goes
  <2>2. PICK t : t = [s EXCEPT !.pc = "document", !.result = result]
    OBVIOUS
  <2>3. s.pc = "run" /\ s.op # "idle" /\ UNCHANGED <<log, graphs>>
    BY <1>1, <1>5 DEF RunHit
  <2>4. t.pc = "document" /\ t.graph = s.graph /\ t.of = s.of
    BY <1>2, <2>2, <2>3 DEF Requests
  <2>5. Logs(w)
    BY <1>2, <1>3, <2>1, <2>2, <2>3, <2>4, GoesOn
  <2>6. QED
    BY <2>3, <2>5, SilentKeeps
<1>6. CASE RunHandler(w)
  <2>1. PICK result : session' = [session EXCEPT ![w] = [s EXCEPT !.pc = "store", !.result = result]]
    BY <1>1, <1>6 DEF RunHandler, Goes
  <2>2. PICK t : t = [s EXCEPT !.pc = "store", !.result = result]
    OBVIOUS
  <2>3. s.pc = "run" /\ s.op # "idle" /\ UNCHANGED <<log, graphs>>
    BY <1>1, <1>6 DEF RunHandler
  <2>4. t.pc = "store" /\ t.graph = s.graph /\ t.of = s.of
    BY <1>2, <2>2, <2>3 DEF Requests
  <2>5. Logs(w)
    BY <1>2, <1>3, <2>1, <2>2, <2>3, <2>4, GoesOn
  <2>6. QED
    BY <2>3, <2>5, SilentKeeps
<1>7. CASE RunStore(w)
  <2>1. PICK t : t = [s EXCEPT !.pc = "document"]
    OBVIOUS
  <2>2. session' = [session EXCEPT ![w] = t]
    BY <1>1, <1>7, <2>1 DEF RunStore, Goes
  <2>3. s.pc = "store" /\ s.op # "idle" /\ UNCHANGED <<log, graphs>>
    BY <1>1, <1>7 DEF RunStore
  <2>4. t.pc = "document" /\ t.graph = s.graph /\ t.of = s.of
    BY <1>2, <2>1, <2>3 DEF Requests
  <2>5. Logs(w)
    BY <1>2, <1>3, <2>2, <2>3, <2>4, GoesOn
  <2>6. QED
    BY <2>3, <2>5, SilentKeeps
<1>8. CASE GraphBuild(w)
  <2>1. PICK weight : session' = [session EXCEPT ![w] = [s EXCEPT !.pc = "graph", !.weight = weight]]
    BY <1>1, <1>8 DEF GraphBuild, Goes
  <2>2. PICK t : t = [s EXCEPT !.pc = "graph", !.weight = weight]
    OBVIOUS
  <2>3. s.pc = "weigh" /\ s.op # "idle" /\ UNCHANGED <<log, graphs>>
    BY <1>1, <1>8 DEF GraphBuild
  <2>4. t.pc = "graph" /\ t.graph = s.graph /\ t.of = s.of
    BY <1>2, <2>2, <2>3 DEF Requests
  <2>5. Logs(w)
    BY <1>2, <1>3, <2>1, <2>2, <2>3, <2>4, GoesOn
  <2>6. QED
    BY <2>3, <2>5, SilentKeeps
<1>9. CASE Documents # DOMAIN documents /\ DocumentCommit(w, Fresh(Documents, documents))
  <2>1. PICK d : d = Fresh(Documents, documents)
    OBVIOUS
  <2>2. d \in Documents
    BY <1>9, <2>1, FreshIsNew DEF TypeOK
  <2>3. s \in Requests /\ Place(s) /\ LoggedRequest(s) /\ s.pc = "document" /\ s.key \in Keys /\ s.of \in Cases
    BY <1>1, <1>2, <1>9 DEF DocumentCommit, Place
  <2>4. PICK e : e = [action |-> s.key[1], of |-> s.of, id |-> d]
    OBVIOUS
  <2>5. e \in Entry /\ e.action \notin {"case.graph", "case.analyze"}
    BY <2>2, <2>3, <2>4 DEF Entry, Keys, Tasks, Sources
  <2>6. log_activity(e) /\ UNCHANGED graphs
    BY <1>1, <1>9, <2>1, <2>4 DEF DocumentCommit
  <2>7. Kept /\ Len(log') \in Nat /\ (Logs(w) => LogInv')
    BY <2>5, <2>6, EntryKeeps
  <2>8. PICK t : t = [s EXCEPT !.pc = "document_logged", !.document = d]
    OBVIOUS
  <2>9. t.pc = "document_logged" /\ t.graph = s.graph /\ t.of = s.of
    BY <2>3, <2>8 DEF Requests
  <2>10. session' = [session EXCEPT ![w] = t] \/ Ends(w)
    BY <1>1, <1>9, <2>1, <2>8 DEF DocumentCommit, Goes
  <2>11. session' = [session EXCEPT ![w] = t] => Logs(w)
    BY <2>3, <2>7, <2>9, GoesOn
  <2>12. QED
    BY <2>7, <2>10, <2>11, EndsLogs
<1>10. CASE Graphs # DOMAIN graphs /\ GraphCommit(w, Fresh(Graphs, graphs))
  <2>1. PICK g : g = Fresh(Graphs, graphs)
    OBVIOUS
  <2>2. g \in Graphs /\ g \notin DOMAIN graphs
    BY <1>10, <2>1, FreshIsNew DEF TypeOK
  <2>3. s \in Requests /\ Place(s) /\ s.pc = "graph" /\ s.of \in Sources
    BY <1>1, <1>2, <1>10 DEF GraphCommit, Requests
  <2>4. PICK e : e = [action |-> "graph", of |-> s.of, id |-> g]
    OBVIOUS
  <2>5. e \in Entry /\ e.action \notin {"case.graph", "case.analyze"}
    BY <2>2, <2>3, <2>4 DEF Entry
  <2>6. PICK graph : graph = [source |-> s.of, weight |-> s.weight]
    OBVIOUS
  <2>7. graph.source = s.of
    BY <2>6
  <2>8. log_activity(e) /\ graphs' = Extend(graphs, g, graph)
    BY <1>1, <1>10, <2>1, <2>4, <2>6 DEF GraphCommit
  <2>9. /\ \A x \in DOMAIN graphs : x \in DOMAIN graphs' /\ graphs'[x] = graphs[x]
        /\ g \in DOMAIN graphs' /\ graphs'[g] = graph
    BY <2>2, <2>8 DEF Extend
  <2>10. Kept /\ Len(log') \in Nat /\ (Logs(w) => LogInv')
    BY <2>5, <2>8, <2>9, EntryKeeps
  <2>11. PICK t : t = [s EXCEPT !.pc = "graph_logged", !.graph = g]
    OBVIOUS
  <2>12. t.pc = "graph_logged" /\ t.graph = g /\ t.of = s.of
    BY <2>3, <2>11 DEF Requests
  <2>13. session' = [session EXCEPT ![w] = t] \/ Ends(w)
    BY <1>1, <1>10, <2>1, <2>11 DEF GraphCommit, Goes
  <2>14. LoggedRequest(t)'
    BY <2>7, <2>9, <2>12 DEF LoggedRequest
  <2>15. session' = [session EXCEPT ![w] = t] => Logs(w)
    BY <2>14, LogsAt
  <2>16. QED
    BY <2>10, <2>13, <2>15, EndsLogs
<1>11. CASE LogCaseGraph(w)
  <2>1. /\ s \in Requests /\ Place(s) /\ LoggedRequest(s)
        /\ s.pc = "graph_logged" /\ s.op = "analyze" /\ s.graph # None
    BY <1>1, <1>2, <1>11 DEF LogCaseGraph, Place
  <2>2. PICK e : e = [action |-> "case.graph", of |-> s.of, id |-> s.graph]
    OBVIOUS
  <2>3. e \in Entry /\ e.action = "case.graph" /\ e.of = s.of /\ e.id = s.graph
    BY <2>1, <2>2 DEF Entry, Requests
  <2>4. log_activity(e) /\ UNCHANGED graphs
    BY <1>1, <1>11, <2>2 DEF LogCaseGraph
  <2>5. Backed(Len(log), e)
    BY <2>1, <2>3 DEF Backed, LoggedRequest
  <2>6. (Logs(w) => LogInv') /\ IsSaid(e.action, e.of, e.id)'
    BY <2>3, <2>4, <2>5, EntryKeeps
  <2>7. PICK pc \in {"analyzed", "run"} : session' = [session EXCEPT ![w] = [s EXCEPT !.pc = pc]]
    BY <1>1, <1>11 DEF LogCaseGraph, Goes
  <2>8. PICK t : t = [s EXCEPT !.pc = pc]
    OBVIOUS
  <2>9. t.pc = pc /\ t.graph = s.graph /\ t.of = s.of /\ t.document = None
    BY <2>1, <2>8 DEF Requests, Place
  <2>10. LoggedRequest(t)'
    BY <2>3, <2>6, <2>9 DEF LoggedRequest
  <2>11. QED
    BY <2>6, <2>7, <2>8, <2>10, LogsAt
<1>12. CASE LogCaseDocument(w)
  <2>1. /\ s \in Requests /\ Place(s) /\ LoggedRequest(s)
        /\ s.pc = "document_logged" /\ s.op = "analyze" /\ s.document # None
    BY <1>1, <1>2, <1>12 DEF LogCaseDocument, Place
  <2>2. PICK e : e = [action |-> "case.ner", of |-> s.of, id |-> s.document]
    OBVIOUS
  <2>3. e \in Entry /\ e.action = "case.ner" /\ e.of = s.of /\ e.id = s.document
    BY <2>1, <2>2 DEF Entry, Requests
  <2>4. log_activity(e) /\ UNCHANGED graphs
    BY <1>1, <1>12, <2>2 DEF LogCaseDocument
  <2>5. Kept /\ Len(log') \in Nat /\ (Logs(w) => LogInv') /\ IsSaid(e.action, e.of, e.id)'
    BY <2>3, <2>4, EntryKeeps
  <2>6. PICK t : t = [s EXCEPT !.pc = "analyzed"]
    OBVIOUS
  <2>7. session' = [session EXCEPT ![w] = t]
    BY <1>1, <1>12, <2>6 DEF LogCaseDocument, Goes
  <2>8. t.pc = "analyzed" /\ t.graph = s.graph /\ t.of = s.of /\ t.document = s.document
    BY <2>1, <2>6 DEF Requests
  <2>9. LoggedRequest(s)'
    BY <2>1, <2>5, RequestKept
  <2>10. LoggedRequest(t)'
    BY <2>1, <2>3, <2>5, <2>8, <2>9 DEF LoggedRequest
  <2>11. QED
    BY <2>5, <2>7, <2>10, LogsAt
<1>13. CASE LogAnalyzed(w)
  <2>1. s \in Requests /\ Place(s) /\ LoggedRequest(s) /\ s.pc = "analyzed" /\ s.of \in Cases
    BY <1>1, <1>2, <1>13 DEF LogAnalyzed, Place
  <2>2. PICK e : e = [action |-> "case.analyze", of |-> s.of, graph |-> s.graph, document |-> s.document]
    OBVIOUS
  <2>3. /\ e \in Entry /\ e.action = "case.analyze" /\ e.of = s.of
        /\ e.graph = s.graph /\ e.document = s.document
    BY <2>1, <2>2 DEF Entry, Requests
  <2>4. log_activity(e) /\ UNCHANGED graphs /\ Ends(w)
    BY <1>1, <1>13, <2>2 DEF LogAnalyzed
  <2>5. Backed(Len(log), e)
    BY <2>1, <2>3 DEF Backed, LoggedRequest, Place, IsSaid
  <2>6. QED
    BY <2>3, <2>4, <2>5, EntryKeeps, EndsLogs
<1>14. CASE Abort(w)
  BY <1>14, EndsLogs, SilentKeeps DEF Abort
<1>15. QED
  BY <1>4, <1>5, <1>6, <1>7, <1>8, <1>9, <1>10, <1>11, <1>12, <1>13, <1>14 DEF Step

LEMMA LogNext ==
  ASSUME TypeOK, PlaceInv, LogInv, [Next]_vars
  PROVE  LogInv'
<1>1. CASE \E w \in Workers : Step(w)
  BY <1>1, LogStep
<1>2. CASE UNCHANGED <<log, graphs>> /\ \A w \in Workers : session'[w] \in {session[w], Idle}
  <2>1. \A w \in Workers : Busy(w)' => session'[w] = session[w]
    BY <1>2 DEF Busy
  <2>2. QED
    BY <1>2, <2>1 DEF LogInv, LoggedRequest, Backed, IsSaid, Said, Busy
<1>3. CASE Restart
  BY <1>2, <1>3 DEF Restart
<1>4. QED
  BY <1>1, <1>2, <1>3 DEF Next, ReplaceFile, ImportMessage, vars

(* Whatever fails between the commits of an analysis: a graph the log counts for a
   case is stored and of that case, and the entry of the whole comes after the
   entries of the parts it names (integration_service.py:163, 185, 203). *)
THEOREM LogTellsOfWork == Spec => []LogBehindWork
<1>1. Init => LogInv
  BY DEF Init, LogInv, Busy
<1>2. TypeOK /\ PlaceInv /\ LogInv /\ [Next]_vars => (TypeOK /\ PlaceInv /\ LogInv)'
  BY NextTypes, LogNext
<1>3. LogInv => LogBehindWork
  BY DEF LogInv, LogBehindWork, Backed, Said
<1>4. QED
  BY <1>1, <1>2, <1>3, InitTypes, PTL DEF Spec

----------------------------------------------------------------------------
(* The list of the latest analyses begins with the latest.                 *)

\* The last of some entries is among the n latest of them, and heads their list.
LEMMA LastIsLatest ==
  ASSUME NEW top \in Nat, NEW places \in SUBSET (1..top), NEW i \in places,
         \A j \in places : j <= i
  PROVE  /\ \A n \in Nat \ {0} : i \in Latest(n, places)
         /\ Listed(places)[1] = log[i]
<1>0. \A j \in places : ~(j > i) /\ (j >= i => j = i) /\ i >= j /\ j >= j
  OBVIOUS
<1>1. IsFiniteSet(places)
  <2>1. IsFiniteSet(1..top)
    BY FS_Interval
  <2>2. QED
    BY <2>1, FS_Subset
<1>2. \A n \in Nat \ {0} : i \in Latest(n, places)
  <2>1. {j \in places : j > i} = {}
    BY <1>0
  <2>2. Cardinality({j \in places : j > i}) = 0
    BY <2>1, FS_EmptySet
  <2>3. QED
    BY <2>2 DEF Latest
<1> DEFINE From(k) == {j \in places : j >= k}
<1>3. Cardinality(From(i)) = 1
  <2>1. From(i) = {i}
    BY <1>0
  <2>2. QED
    BY <2>1, FS_Singleton
<1>4. ASSUME NEW k \in places, Cardinality(From(k)) = 1 PROVE k = i
  <2>1. From(k) \in SUBSET places /\ k \in From(k) /\ i \in From(k)
    BY <1>0
  <2>2. IsFiniteSet(From(k))
    BY <1>1, <2>1, FS_Subset
  <2> HIDE DEF From
  <2>3. PICK x : From(k) = {x}
    BY <1>4, <2>2, FS_Singleton
  <2>4. QED
    BY <2>1, <2>3
<1>5. (CHOOSE k \in places : Cardinality(From(k)) = 1) = i
  <2> HIDE DEF From
  <2>1. QED
    BY <1>3, <1>4
<1>6. 1 \in 1..Cardinality(places)
  <2>1. Cardinality(places) \in Nat /\ Cardinality(places) # 0
    BY <1>1, FS_CardinalityType, FS_EmptySet
  <2>2. QED
    BY <2>1
<1>7. QED
  BY <1>2, <1>5, <1>6 DEF Listed

\* The latest of the analyses shown of a case heads the list, be it a document or a
\* graph, however many there are (integration_service.py:221-262).
THEOREM LatestHeads == Spec => []LatestFirst
<1>1. ASSUME TypeOK PROVE LatestFirst
  <2> SUFFICES ASSUME NEW c \in Cases, NEW i \in DocumentPlaces(c) \cup GraphPlaces(c),
                      \A j \in DocumentPlaces(c) \cup GraphPlaces(c) : j <= i
               PROVE  get_case_integration(c).latest_correlations[1] = log[i]
    BY DEF LatestFirst
  <2> DEFINE items == Latest(DocumentLimit, DocumentPlaces(c)) \cup Latest(GraphLimit, GraphPlaces(c))
  <2>1. Len(log) \in Nat /\ DocumentPlaces(c) \in SUBSET (1..Len(log))
        /\ GraphPlaces(c) \in SUBSET (1..Len(log))
    BY <1>1, LogLength DEF DocumentPlaces, GraphPlaces
  <2>2. DocumentLimit \in Nat \ {0} /\ GraphLimit \in Nat \ {0} /\ ItemLimit \in Nat \ {0}
    BY IntelligenceAssumption DEF IntelligenceAssumption
  <2>3. i \in items
    BY <2>1, <2>2, LastIsLatest
  <2>4. items \subseteq DocumentPlaces(c) \cup GraphPlaces(c)
    BY DEF Latest
  <2> HIDE DEF items
  <2> DEFINE all == Latest(ItemLimit, items)
  <2>5. items \in SUBSET (1..Len(log)) /\ \A j \in items : j <= i
    BY <2>1, <2>4
  <2>6. i \in all /\ all \subseteq items
    BY <2>1, <2>2, <2>3, <2>5, LastIsLatest DEF Latest
  <2> HIDE DEF all
  <2>7. all \in SUBSET (1..Len(log)) /\ \A j \in all : j <= i
    BY <2>5, <2>6
  <2>8. Listed(all)[1] = log[i]
    BY <2>1, <2>6, <2>7, LastIsLatest
  <2>9. QED
    BY <2>8 DEF get_case_integration, _latest_case_correlations, items, all
<1>2. QED
  BY <1>1, TypeCorrect, PTL

----------------------------------------------------------------------------
(* Least and greatest numbers, and where a share of a finite list ends.    *)

LEMMA LeastNatural ==
  ASSUME NEW S \in SUBSET Nat, S # {}
  PROVE  \E x \in S : \A y \in S : x <= y
<1>1. PICK x \in S : \A y \in S : <<y, x>> \notin OpToRel(<, Nat)
  BY NatLessThanWellFounded, WFMin
<1>2. ASSUME NEW y \in S PROVE ~(y < x)
  BY <1>1, Zenon DEF OpToRel
<1>3. QED
  BY <1>2

\* The last run: the one with the fewest after it.
LEMMA LastRun ==
  ASSUME NEW T, T # {}, IsFiniteSet(T), \A r \in T : r[1] \in Nat
  PROVE  \E last \in T : \A r \in T : r[1] <= last[1]
<1> DEFINE Later(r) == {q \in T : r[1] < q[1]}
           Counts == {Cardinality(Later(r)) : r \in T}
<1>1. \A r \in T : IsFiniteSet(Later(r)) /\ Cardinality(Later(r)) \in Nat
  BY FS_Subset, FS_CardinalityType
<1>2. PICK n \in Counts : \A m \in Counts : n <= m
  <2>1. Counts \in SUBSET Nat /\ Counts # {}
    BY <1>1
  <2> HIDE DEF Counts
  <2>2. QED
    BY <2>1, LeastNatural
<1>3. PICK last \in T : n = Cardinality(Later(last))
  OBVIOUS
<1>4. ASSUME NEW r \in T, last[1] < r[1]
      PROVE  FALSE
  <2>1. last[1] \in Nat /\ r[1] \in Nat
    OBVIOUS
  <2>2. \A q \in T : r[1] < q[1] => last[1] < q[1]
    BY <1>4, <2>1
  <2>3. Later(r) \in SUBSET Later(last)
    BY <2>2
  <2>4. r \in Later(last) /\ r \notin Later(r)
    BY <1>4, <2>1
  <2>5. Cardinality(Later(last)) <= Cardinality(Later(r))
    BY <1>2, <1>3
  <2> HIDE DEF Later
  <2>6. Cardinality(Later(r)) <= Cardinality(Later(last)) /\ Cardinality(Later(last)) # Cardinality(Later(r))
    BY <1>1, <2>3, <2>4, FS_Subset
  <2>7. QED
    BY <1>1, <2>5, <2>6
<1>5. QED
  BY <1>4

\* Of a finite set of runs, the least time within which at least wanted of them end
\* is the time of one of them.
LEMMA WantedRun ==
  ASSUME NEW R, IsFiniteSet(R), \A r \in R : r[1] \in Nat,
         NEW wanted \in 1..Cardinality(R)
  PROVE  \E run \in R :
             /\ wanted <= Cardinality({r \in R : r[1] <= run[1]})
             /\ \A x \in Nat : wanted <= Cardinality({r \in R : r[1] <= x}) => run[1] <= x
<1> DEFINE Up(x) == {r \in R : r[1] <= x}
           Enough == {x \in Nat : wanted <= Cardinality(Up(x))}
<1>1. Cardinality(R) \in Nat /\ wanted \in Nat /\ 1 <= wanted /\ wanted <= Cardinality(R)
  BY FS_CardinalityType
<1>2. \A x : IsFiniteSet(Up(x)) /\ Cardinality(Up(x)) \in Nat
  BY FS_Subset, FS_CardinalityType
<1>3. ASSUME NEW T \in SUBSET R, T # {}
      PROVE  \E run \in T : \A r \in T : r[1] <= run[1]
  <2>1. IsFiniteSet(T)
    BY FS_Subset
  <2>2. QED
    BY <1>3, <2>1, LastRun
<1>4. PICK m \in Enough : \A x \in Enough : m <= x
  <2>1. R # {}
    BY <1>1, FS_EmptySet
  <2>2. PICK run \in R : \A r \in R : r[1] <= run[1]
    BY <1>3, <2>1
  <2>3. Up(run[1]) = R
    BY <2>2
  <2>4. run[1] \in Enough
    BY <1>1, <2>3
  <2>5. Enough \in SUBSET Nat /\ Enough # {}
    BY <2>4
  <2> HIDE DEF Enough
  <2>6. QED
    BY <2>5, LeastNatural
<1>5. Up(m) # {}
  BY <1>1, FS_EmptySet
<1>6. PICK run \in Up(m) : \A r \in Up(m) : r[1] <= run[1]
  <2>1. Up(m) \in SUBSET R
    OBVIOUS
  <2> HIDE DEF Up
  <2>2. QED
    BY <1>3, <1>5, <2>1
<1>7. run \in R /\ run[1] \in Nat /\ run[1] <= m /\ m \in Nat
  BY <1>6
<1>8. Up(run[1]) = Up(m)
  BY <1>6, <1>7
<1>9. run[1] = m
  BY <1>4, <1>7, <1>8
<1>10. QED
  BY <1>4, <1>7, <1>8, <1>9
----------------------------------------------------------------------------
(* The dashboard beside the analyses.                                      *)

LEMMA DashNext ==
  ASSUME Dash!TypeOK, [Dash!Next]_(Dash!vars)
  PROVE  Dash!TypeOK'
<1> USE DashboardAssumption DEF DashboardAssumption
<1>1. CASE Dash!CommitRow
  BY <1>1 DEF Dash!CommitRow, Dash!TypeOK, Dash!Counts
<1>2. CASE Dash!Tick
  <2>1. entry \in [shown : Dash!Counts, age : 0..TTL] /\ entry.age < TTL
    BY <1>2 DEF Dash!Tick, Dash!TypeOK
  <2>2. [entry EXCEPT !.age = @ + 1] \in [shown : Dash!Counts, age : 0..TTL]
    BY <2>1
  <2>3. QED
    BY <1>2, <2>2 DEF Dash!Tick, Dash!TypeOK
<1>3. CASE \E ms \in Latencies : Dash!RunInference(ms)
  BY <1>3 DEF Dash!RunInference, Dash!TypeOK
<1>4. ASSUME NEW w \in Workers, Dash!Step(w)
      PROVE  Dash!TypeOK'
  <2>1. /\ visits[w] \in {Dash!Idle} \cup [pc : {"expired", "count"}] \cup [pc : {"store"}, shown : Dash!Counts]
        /\ Dash!Idle.pc = "idle"
    BY DEF Dash!TypeOK, Dash!Idle
  <2>2. CASE Dash!Hit(w)
    BY <2>2 DEF Dash!Hit, Dash!TypeOK
  <2>3. CASE Dash!Miss(w)
    BY <2>3 DEF Dash!Miss, Dash!TypeOK, Dash!Goes
  <2>4. CASE Dash!Drop(w)
    BY <2>4 DEF Dash!Drop, Dash!TypeOK, Dash!Goes
  <2>5. CASE Dash!Count(w)
    BY <2>5 DEF Dash!Count, Dash!TypeOK, Dash!Goes
  <2>6. CASE Dash!Store(w)
    <3>1. visits[w].shown \in Dash!Counts
      BY <2>1, <2>6 DEF Dash!Store
    <3>2. [shown |-> visits[w].shown, age |-> 0] \in [shown : Dash!Counts, age : 0..TTL]
      BY <3>1
    <3>3. QED
      BY <2>6, <3>1, <3>2 DEF Dash!Store, Dash!TypeOK, Dash!Goes
  <2>7. QED
    BY <1>4, <2>2, <2>3, <2>4, <2>5, <2>6 DEF Dash!Step
<1>5. CASE UNCHANGED Dash!vars
  BY <1>5 DEF Dash!vars, Dash!TypeOK
<1>6. QED
  BY <1>1, <1>2, <1>3, <1>4, <1>5 DEF Dash!Next

LEMMA DashInit ==
  ASSUME Dash!Init
  PROVE  Dash!TypeOK
BY DashboardAssumption DEF DashboardAssumption, Dash!Init, Dash!TypeOK, Dash!Counts

\* What the percentile needs to cover, of n runs.
Wanted(n, percent) ==
    IF (n * percent) \div 100 - 1 < 0 THEN 1 ELSE (n * percent) \div 100 - 1 + 1

LEMMA WantedBounds ==
  ASSUME NEW n \in Nat, n > 0
  PROVE  /\ Wanted(n, 95) \in 1..n /\ Wanted(n, 99) \in 1..n
         /\ Wanted(n, 95) <= Wanted(n, 99)
         /\ 100 * (n - Wanted(n, 95)) < 5 * n + 100
BY DEF Wanted

\* The dashboard counts as this module does.
LEMMA SameCardinality ==
  ASSUME NEW S
  PROVE  Dash!Cardinality(S) = Cardinality(S)
BY DEF Dash!Cardinality, Cardinality

LEMMA RunsFinite ==
  /\ IsFiniteSet(Dash!Runs) /\ Dash!Total \in Nat
  /\ \A r \in Dash!Runs : r[1] \in Latencies /\ r[1] \in Nat /\ r[2] \in 1..MaxRuns /\ r[2] <= latencies[r[1]]
<1>1. IsFiniteSet(Latencies \X (1..MaxRuns))
  <2>1. IsFiniteSet(Latencies) /\ IsFiniteSet(1..MaxRuns)
    BY DashboardAssumption, FS_Interval DEF DashboardAssumption
  <2>2. QED
    BY <2>1, FS_Product
<1>2. Dash!Runs \in SUBSET (Latencies \X (1..MaxRuns))
  BY DEF Dash!Runs
<1>3. IsFiniteSet(Dash!Runs)
  BY <1>1, <1>2, FS_Subset
<1>4. Dash!Total \in Nat
  <2>1. PICK R : R = Dash!Runs
    OBVIOUS
  <2>2. Cardinality(R) \in Nat
    BY <1>3, <2>1, FS_CardinalityType
  <2>3. QED
    BY <2>1, <2>2, SameCardinality DEF Dash!Total
<1>5. QED
  BY <1>3, <1>4, DashboardAssumption DEF Dash!Runs, DashboardAssumption

\* The percentile is the time of a run, the least that covers what is wanted.
LEMMA PercentileIsLeast ==
  ASSUME NEW percent \in {95, 99}, Dash!Total > 0
  PROVE  /\ \E run \in Dash!Runs : run[1] = Dash!percentile(percent)
         /\ Wanted(Dash!Total, percent) <= Dash!UpTo(Dash!percentile(percent))
         /\ \A x \in Latencies : Wanted(Dash!Total, percent) <= Dash!UpTo(x) => Dash!percentile(percent) <= x
<1>1. PICK R : R = Dash!Runs
  OBVIOUS
<1>2. PICK wanted : wanted = Wanted(Dash!Total, percent)
  OBVIOUS
<1>3. wanted \in 1..Cardinality(R) /\ wanted \in Nat
  BY <1>1, <1>2, RunsFinite, WantedBounds, SameCardinality DEF Dash!Total
<1> DEFINE Up(x) == Cardinality({r \in R : r[1] <= x})
<1>4. PICK run \in R :
          wanted <= Up(run[1]) /\ \A x \in Nat : wanted <= Up(x) => run[1] <= x
  <2>1. IsFiniteSet(R) /\ \A r \in R : r[1] \in Nat
    BY <1>1, RunsFinite
  <2>2. QED
    BY <1>3, <2>1, WantedRun
<1>5. \A x \in Nat : Dash!UpTo(x) \in Nat /\ Dash!UpTo(x) = Up(x)
  <2>1. ASSUME NEW x \in Nat
        PROVE  Cardinality({r \in R : r[1] <= x}) \in Nat
    <3>1. {r \in R : r[1] <= x} \in SUBSET R
      OBVIOUS
    <3>2. QED
      BY <1>1, <3>1, RunsFinite, FS_Subset, FS_CardinalityType
  <2>2. QED
    BY <1>1, <2>1, SameCardinality DEF Dash!UpTo
<1> HIDE DEF Up
<1> DEFINE Least(ms) == /\ Dash!UpTo(ms) >= wanted
                        /\ \A x \in Latencies : Dash!UpTo(x) >= wanted => ms <= x
<1>6. run[1] \in Latencies /\ run[1] \in Nat /\ Latencies \subseteq Nat
  BY <1>1, <1>4, RunsFinite, DashboardAssumption DEF DashboardAssumption
<1>7. Least(run[1])
  BY <1>3, <1>4, <1>5, <1>6
<1>8. \A ms \in Latencies : Least(ms) => ms = run[1]
  BY <1>6, <1>7
<1>9. Dash!percentile(percent) = CHOOSE ms \in Latencies : Least(ms)
  BY <1>2, RunsFinite DEF Dash!percentile, Wanted
<1> HIDE DEF Least
<1>10. Dash!percentile(percent) = run[1]
  BY <1>6, <1>7, <1>8, <1>9
<1>11. QED
  BY <1>1, <1>2, <1>3, <1>5, <1>6, <1>7, <1>10 DEF Least

LEMMA SlowFew ==
  ASSUME Dash!TypeOK
  PROVE  SlowRunsFew
<1> SUFFICES ASSUME Dash!Total > 0
             PROVE  /\ 100 * Dash!Slower(Dash!percentile(95)) < 5 * Dash!Total + 100
                    /\ latencies[Dash!percentile(95)] > 0
                    /\ Dash!percentile(95) <= Dash!percentile(99)
  BY DEF SlowRunsFew, Dash!SlowRunsFew
<1>1. PICK n \in Nat : n = Dash!Total
  BY RunsFinite
<1>2. PICK run \in Dash!Runs : run[1] = Dash!percentile(95)
  BY PercentileIsLeast
<1>3. run[1] \in Latencies /\ run[1] \in Nat /\ run[2] \in 1..MaxRuns /\ run[2] <= latencies[run[1]]
  BY RunsFinite
<1>4. latencies[run[1]] > 0
  BY <1>3, DashboardAssumption DEF Dash!TypeOK, DashboardAssumption
<1>5. Dash!percentile(99) \in Latencies /\ Dash!percentile(99) \in Nat
  BY PercentileIsLeast, RunsFinite
<1>6. \A x \in Nat : /\ Dash!UpTo(x) \in Nat /\ Dash!Slower(x) = n - Dash!UpTo(x)
  <2>1. PICK R : R = Dash!Runs
    OBVIOUS
  <2>2. ASSUME NEW x \in Nat
        PROVE  /\ Cardinality({r \in R : r[1] <= x}) \in Nat
               /\ Cardinality({r \in R : r[1] > x}) = Cardinality(R) - Cardinality({r \in R : r[1] <= x})
    <3> DEFINE Up == {r \in R : r[1] <= x}
               Down == {r \in R : r[1] > x}
    <3>1. Down = R \ Up /\ R \cap Up = Up
      BY <2>1, RunsFinite
    <3>2. IsFiniteSet(R) /\ IsFiniteSet(Up)
      BY <2>1, RunsFinite, FS_Subset
    <3> HIDE DEF Up, Down
    <3>3. Cardinality(Down) = Cardinality(R) - Cardinality(Up)
      BY <3>1, <3>2, FS_Difference
    <3>4. Cardinality(Up) \in Nat
      BY <3>2, FS_CardinalityType
    <3>5. QED
      BY <3>3, <3>4 DEF Up, Down
  <2>3. QED
    BY <1>1, <2>1, <2>2, SameCardinality DEF Dash!UpTo, Dash!Slower, Dash!Total
<1>7. Wanted(n, 95) <= Dash!UpTo(run[1])
  BY <1>1, <1>2, PercentileIsLeast
<1>8. Wanted(n, 95) \in Nat /\ 100 * (n - Wanted(n, 95)) < 5 * n + 100
  BY <1>1, WantedBounds
<1>9. 100 * Dash!Slower(run[1]) < 5 * n + 100
  BY <1>3, <1>6, <1>7, <1>8
<1>10. run[1] <= Dash!percentile(99)
  <2>1. Wanted(n, 95) <= Wanted(n, 99) /\ Wanted(n, 99) \in Nat
    BY <1>1, WantedBounds
  <2>2. Wanted(n, 99) <= Dash!UpTo(Dash!percentile(99))
    BY <1>1, PercentileIsLeast
  <2>3. Wanted(n, 95) <= Dash!UpTo(Dash!percentile(99))
    BY <1>5, <1>6, <1>8, <2>1, <2>2
  <2>4. QED
    BY <1>1, <1>2, <1>5, <2>3, PercentileIsLeast
<1>11. QED
  BY <1>1, <1>2, <1>4, <1>9, <1>10

(* However many inferences have run and however long each took: fewer than five in
   a hundred, and one, were slower than the 95th percentile on the dashboard, which
   is the latency of a run and not above the 99th (inference.py:29-43). *)
THEOREM SlowRunsAreFew == Dash!Spec => []SlowRunsFew
<1>1. Dash!TypeOK /\ [Dash!Next]_(Dash!vars) => Dash!TypeOK'
  BY DashNext
<1>2. QED
  BY <1>1, DashInit, SlowFew, PTL DEF Dash!Spec


\* The pipeline and the dashboard keep their state well typed, whatever races and
\* restarts (inference.py:33, intelligence_service.py:278-297).
THEOREM ServicesAreTyped == Spec /\ Dash!Spec => []ServicesTyped
<1>1. TypeOK /\ Dash!TypeOK => ServicesTyped
  BY DEF ServicesTyped
<1>2. QED
  BY <1>1, TypeCorrect, DashInit, DashNext, PTL DEF Dash!Spec
=============================================================================
