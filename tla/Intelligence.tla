---------------------------- MODULE Intelligence ----------------------------
(***************************************************************************)
(* Entity extraction, APK analysis, WhatsApp graphs and case analysis      *)
(* (backend/services/intelligence_service.py, integration_service.py, d.8) *)
(* over the inference pipeline of ml/pipeline/inference.py, whose cache is *)
(* keyed by the request and not by what the file holds.                    *)
(*                                                                         *)
(* A request reads its file or rows without locks and commits at the end;  *)
(* a case analysis commits up to five times.                               *)
(*                                                                         *)
(* Bounds: the sets; MaxVersion, MaxMessages, MaxLog, MaxRaceLog, MaxLife. *)
(***************************************************************************)
EXTENDS Naturals, Sequences, FiniteSets

CONSTANTS
    Cases,
    Paths,         \* files that document_url and apk_url may name
    Documents,     \* ids
    Graphs,        \* ids
    Workers,       \* request threads
    MaxWeight,     \* the largest Numeric(5, 2) of a whole number
    DocumentLimit, GraphLimit, ItemLimit,   \* of _latest_case_correlations
    MaxVersion,    \* a file is replaced up to this version
    MaxMessages,
    MaxLog,        \* audit entries in a behaviour with requests one at a time,
    MaxRaceLog,    \* and in one with races
    MaxLife,       \* starts of the process
    None

Tasks == {"ner", "apk"}
Keys == Tasks \X Paths

\* What a task finds in a version of a file: its text, entities or analysis.
Results == [key : Keys, version : 1..MaxVersion]

ASSUME IntelligenceAssumption ==
    /\ MaxVersion \in Nat /\ MaxWeight \in Nat /\ MaxLife \in Nat \ {0}
    /\ {DocumentLimit, GraphLimit, ItemLimit} \subseteq Nat \ {0}
    /\ None \notin Documents \cup Graphs

VARIABLES
    files,     \* the version on disk of each path; 0: no such file
    messages,  \* per case the messages between two people; None: no conversation
    cache,     \* InferencePipeline._cache
    documents, \* table documents, with entities or APK analysis
    graphs,    \* tables graph_nodes and graph_edges
    log,       \* audit entries in the order of their commits
    life,      \* how often the process has been started
    session,   \* what each request thread is doing
    alone      \* TRUE in behaviours whose requests run one at a time

vars == <<files, messages, cache, documents, graphs, log, life, session, alone>>

Document == [case_id : Cases, key : Keys, result : Results, life : 1..MaxLife]
Sources == Cases \cup Documents
Graph == [source : Sources, weight : 0..MaxWeight]
Entry ==
    [action : {"ner", "apk", "graph", "case.ner", "case.graph"},
     of : Sources, id : Documents \cup Graphs]
    \cup [action : {"case.analyze"}, of : Cases,
          graph : Graphs \cup {None}, document : Documents \cup {None}]

Idle == [op |-> "idle"]
Requests ==
    [op : Tasks \cup {"graph", "analyze"},
     pc : {"run", "store", "document", "document_logged",
           "weigh", "graph", "graph_logged", "analyzed"},
     of : Sources, key : Keys \cup {None}, result : Results \cup {None},
     weight : Nat, graph : Graphs \cup {None}, document : Documents \cup {None}]

TypeOK ==
    /\ files \in [Paths -> 0..MaxVersion]
    /\ messages \in [Cases -> Nat \cup {None}]
    /\ DOMAIN cache \subseteq Keys /\ cache \in [DOMAIN cache -> Results]
    /\ DOMAIN documents \subseteq Documents /\ documents \in [DOMAIN documents -> Document]
    /\ DOMAIN graphs \subseteq Graphs /\ graphs \in [DOMAIN graphs -> Graph]
    /\ log \in Seq(Entry)
    /\ life \in 1..MaxLife
    /\ session \in [Workers -> Requests \cup {Idle}]
    /\ alone \in BOOLEAN

Busy(w) == session[w] # Idle
Ends(w) == session' = [session EXCEPT ![w] = Idle]
Goes(w, s) == session' = [session EXCEPT ![w] = s]
Extend(f, x, value) == [y \in DOMAIN f \cup {x} |-> IF y = x THEN value ELSE f[y]]
Request(op, pc, of, key) ==
    [op |-> op, pc |-> pc, of |-> of, key |-> key, result |-> None, weight |-> 0,
     graph |-> None, document |-> None]

\* uuid4: some id that no row has.
Fresh(ids, table) == CHOOSE id \in ids : id \notin DOMAIN table

\* log_activity
log_activity(entry) == log' = Append(log, entry)

\* Fault: the key leaves the task out.
KeyOfPath(key) == CHOOSE k \in Keys : k[2] = key[2]

\* _cache_key: the task and the payload, never the content.
_cache_key(key) == key

----------------------------------------------------------------------------
Init ==
    /\ files = [p \in Paths |-> 0]
    /\ messages = [c \in Cases |-> None]
    /\ cache = << >> /\ documents = << >> /\ graphs = << >> /\ log = << >>
    /\ life = 1
    /\ session = [w \in Workers |-> Idle]
    /\ alone \in BOOLEAN

\* Somebody puts another file in place of the one at a path.
ReplaceFile(p) ==
    /\ files[p] < MaxVersion
    /\ files' = [files EXCEPT ![p] = @ + 1]
    /\ UNCHANGED <<messages, cache, documents, graphs, log, life, session, alone>>

\* An import adds a message to the case.
ImportMessage(c) ==
    /\ messages[c] # None => messages[c] < MaxMessages
    /\ messages' = [messages EXCEPT ![c] = IF @ = None THEN 1 ELSE @ + 1]
    /\ UNCHANGED <<files, cache, documents, graphs, log, life, session, alone>>

\* _resolve_path: the file must be there (422).
_resolve_path(p) == files[p] > 0

\* run_ner
NerStart(w, c, p) ==
    /\ ~Busy(w) /\ _resolve_path(p)
    /\ Goes(w, Request("ner", "run", c, <<"ner", p>>))
    /\ UNCHANGED <<files, messages, cache, documents, graphs, log, life, alone>>

\* run_apk_analysis
ApkStart(w, c, p) ==
    /\ ~Busy(w) /\ _resolve_path(p)
    /\ Goes(w, Request("apk", "run", c, <<"apk", p>>))
    /\ UNCHANGED <<files, messages, cache, documents, graphs, log, life, alone>>

\* InferencePipeline.run: what the cache holds is the answer; ...
RunHit(w) ==
    LET s == session[w] IN
    /\ s.op # "idle" /\ s.pc = "run"
    /\ _cache_key(s.key) \in DOMAIN cache
    /\ Goes(w, [s EXCEPT !.pc = "document", !.result = cache[_cache_key(s.key)]])
    /\ UNCHANGED <<files, messages, cache, documents, graphs, log, life, alone>>

\* ... or the handler reads the file, ...
RunHandler(w) ==
    LET s == session[w] IN
    /\ s.op # "idle" /\ s.pc = "run"
    /\ _cache_key(s.key) \notin DOMAIN cache
    /\ _resolve_path(s.key[2])
    /\ Goes(w, [s EXCEPT !.pc = "store", !.result = [key |-> s.key, version |-> files[s.key[2]]]])
    /\ UNCHANGED <<files, messages, cache, documents, graphs, log, life, alone>>

\* ... and its result is kept for good.
RunStore(w) ==
    LET s == session[w] IN
    /\ s.op # "idle" /\ s.pc = "store"
    /\ cache' = Extend(cache, _cache_key(s.key), s.result)
    /\ Goes(w, [s EXCEPT !.pc = "document"])
    /\ UNCHANGED <<files, messages, documents, graphs, log, life, alone>>

\* The document, what was found in it and the audit entry in one commit.
DocumentCommit(w, d) ==
    LET s == session[w] IN
    /\ s.op # "idle" /\ s.pc = "document"
    /\ documents' = Extend(documents, d,
           [case_id |-> s.of, key |-> s.key, result |-> s.result, life |-> life])
    /\ log_activity([action |-> s.key[1], of |-> s.of, id |-> d])
    /\ IF s.op = "analyze" THEN Goes(w, [s EXCEPT !.pc = "document_logged", !.document = d])
                           ELSE Ends(w)
    /\ UNCHANGED <<files, messages, cache, graphs, life, alone>>

\* run_graph: of the conversations of a case, or of the entities of a document.
GraphStart(w, source) ==
    /\ ~Busy(w)
    /\ Goes(w, Request("graph", "weigh", source, None))
    /\ UNCHANGED <<files, messages, cache, documents, graphs, log, life, alone>>

\* build_whatsapp_graph, build_document_graph: the weight of an edge is the
\* number of messages, or 1 between two entities of a kind.  The pipeline does
\* not cache it.
GraphBuild(w) ==
    LET s == session[w]
        weight == IF s.of \in Cases
                  THEN IF messages[s.of] = None THEN 0 ELSE messages[s.of]
                  ELSE 1
    IN
    /\ s.op # "idle" /\ s.pc = "weigh"
    /\ Goes(w, [s EXCEPT !.pc = "graph", !.weight = weight])
    /\ UNCHANGED <<files, messages, cache, documents, graphs, log, life, alone>>

\* Fault: the column has room for any weight.
GraphCommitAny(w, g) ==
    LET s == session[w] IN
    /\ s.op # "idle" /\ s.pc = "graph"
    /\ graphs' = Extend(graphs, g, [source |-> s.of, weight |-> s.weight])
    /\ log_activity([action |-> "graph", of |-> s.of, id |-> g])
    /\ IF s.op = "analyze" THEN Goes(w, [s EXCEPT !.pc = "graph_logged", !.graph = g])
                           ELSE Ends(w)
    /\ UNCHANGED <<files, messages, cache, documents, life, alone>>

\* Nodes, edges and audit entry in one commit; a weight that does not fit the
\* column fails it (Abort).
GraphCommit(w, g) ==
    LET s == session[w] IN
    /\ s.op # "idle" /\ s.pc = "graph"
    /\ s.weight <= MaxWeight
    /\ graphs' = Extend(graphs, g, [source |-> s.of, weight |-> s.weight])
    /\ log_activity([action |-> "graph", of |-> s.of, id |-> g])
    /\ IF s.op = "analyze" THEN Goes(w, [s EXCEPT !.pc = "graph_logged", !.graph = g])
                           ELSE Ends(w)
    /\ UNCHANGED <<files, messages, cache, documents, life, alone>>

\* run_case_analysis: a graph needs a conversation (422), ...
AnalyzeStart(w, c, run_graph, key) ==
    /\ ~Busy(w)
    /\ run_graph \/ key # None
    /\ run_graph => messages[c] # None
    /\ ~run_graph => _resolve_path(key[2])
    /\ Goes(w, Request("analyze", IF run_graph THEN "weigh" ELSE "run", c, key))
    /\ UNCHANGED <<files, messages, cache, documents, graphs, log, life, alone>>

\* Fault: the analysis is logged with its graph.
LogGraphAsAll(w) ==
    LET s == session[w] IN
    /\ s.op # "idle" /\ s.pc = "graph_logged"
    /\ log_activity([action |-> "case.analyze", of |-> s.of, graph |-> s.graph,
                     document |-> s.document])
    /\ Goes(w, [s EXCEPT !.pc = IF s.key = None THEN "analyzed" ELSE "run"])
    /\ UNCHANGED <<files, messages, cache, documents, graphs, life, alone>>

\* ... the graph is counted for the case in a commit after its own, ...
LogCaseGraph(w) ==
    LET s == session[w] IN
    /\ s.op # "idle" /\ s.pc = "graph_logged"
    /\ log_activity([action |-> "case.graph", of |-> s.of, id |-> s.graph])
    /\ IF s.key = None THEN Goes(w, [s EXCEPT !.pc = "analyzed"])
       ELSE Goes(w, [s EXCEPT !.pc = "run"])
    /\ UNCHANGED <<files, messages, cache, documents, graphs, life, alone>>

\* ... then the document, if one is given, its file looked up only now ...
LogCaseDocument(w) ==
    LET s == session[w] IN
    /\ s.op # "idle" /\ s.pc = "document_logged"
    /\ log_activity([action |-> "case.ner", of |-> s.of, id |-> s.document])
    /\ Goes(w, [s EXCEPT !.pc = "analyzed"])
    /\ UNCHANGED <<files, messages, cache, documents, graphs, life, alone>>

\* ... and last the whole.
LogAnalyzed(w) ==
    LET s == session[w] IN
    /\ s.op # "idle" /\ s.pc = "analyzed"
    /\ log_activity([action |-> "case.analyze", of |-> s.of, graph |-> s.graph,
                     document |-> s.document])
    /\ Ends(w)
    /\ UNCHANGED <<files, messages, cache, documents, graphs, life, alone>>

\* A request fails, of itself or of the database; what it committed stays.
Abort(w) ==
    /\ Busy(w) /\ Ends(w)
    /\ UNCHANGED <<files, messages, cache, documents, graphs, log, life, alone>>

\* The process is started again, with an empty cache.
Restart ==
    /\ life < MaxLife
    /\ life' = life + 1
    /\ cache' = << >>
    /\ session' = [w \in Workers |-> Idle]
    /\ UNCHANGED <<files, messages, documents, graphs, log, alone>>

Step(w) ==
    \/ \E c \in Cases, p \in Paths : NerStart(w, c, p) \/ ApkStart(w, c, p)
    \/ \E source \in Cases \cup DOMAIN documents : GraphStart(w, source)
    \/ \E c \in Cases, run_graph \in BOOLEAN, key \in ({"ner"} \X Paths) \cup {None} :
           AnalyzeStart(w, c, run_graph, key)
    \/ RunHit(w) \/ RunHandler(w) \/ RunStore(w) \/ GraphBuild(w)
    \/ Documents # DOMAIN documents /\ DocumentCommit(w, Fresh(Documents, documents))
    \/ Graphs # DOMAIN graphs /\ GraphCommit(w, Fresh(Graphs, graphs))
    \/ LogCaseGraph(w) \/ LogCaseDocument(w) \/ LogAnalyzed(w)
    \/ Abort(w)

Next ==
    /\ \/ \E p \in Paths : ReplaceFile(p)
       \/ \E c \in Cases : ImportMessage(c) /\ (alone => \A w \in Workers : ~Busy(w))
       \/ \E w \in Workers : Step(w)
       \/ Restart
    /\ Len(log') <= IF alone THEN MaxLog ELSE MaxRaceLog
    /\ alone' => \A w \in Workers : Busy(w)' => w = CHOOSE v \in Workers : TRUE

Spec == Init /\ [][Next]_vars

----------------------------------------------------------------------------
\* Of entries, by their places: the n latest, and a list that begins with the latest.
Latest(n, places) == {i \in places : Cardinality({j \in places : j > i}) < n}
Listed(places) ==
    [k \in 1..Cardinality(places) |->
        log[CHOOSE i \in places : Cardinality({j \in places : j >= i}) = k]]

IsDocument(c, e) == e.action \in Tasks /\ e.of = c
IsCaseGraph(c, e) == e.action = "case.graph" /\ e.of = c
DocumentPlaces(c) == {i \in 1..Len(log) : IsDocument(c, log[i])}
GraphPlaces(c) == {i \in 1..Len(log) : IsCaseGraph(c, log[i])}

\* Fault: documents come before graphs, whenever they were made.
DocumentsFirst(c) ==
    LET all == Listed(Latest(DocumentLimit, DocumentPlaces(c)))
               \o Listed(Latest(GraphLimit, GraphPlaces(c)))
    IN SubSeq(all, 1, IF Len(all) < ItemLimit THEN Len(all) ELSE ItemLimit)

\* _latest_case_correlations: the latest documents and counted graphs, sorted.
_latest_case_correlations(c) ==
    LET items == Latest(DocumentLimit, DocumentPlaces(c)) \cup Latest(GraphLimit, GraphPlaces(c))
    IN Listed(Latest(ItemLimit, items))

\* get_case_integration: documents by their rows, graphs by the audit log.
get_case_integration(c) ==
    [documents_analyzed |-> Cardinality({d \in DOMAIN documents : documents[d].case_id = c}),
     graph_analyses |-> Cardinality(GraphPlaces(c)),
     intelligence_ready |-> messages[c] # None
                            \/ \E d \in DOMAIN documents : documents[d].case_id = c,
     latest_correlations |-> _latest_case_correlations(c)]

----------------------------------------------------------------------------
(* What a document shows was found by its own task in some version of its
   own file, however cached results and replaced files alternate: a result is
   never another request's (inference.py:51, intelligence_service.py:76). *)
OwnResult ==
    \A d \in DOMAIN documents :
        LET doc == documents[d] IN
        doc.result.key = doc.key /\ doc.result.version <= files[doc.key[2]]

(* Requests one at a time: while the process lives, all documents made of one
   path by one task show one version of the file, the first that was read,
   also after it was replaced (inference.py:75). *)
OneReadingPerLife ==
    alone =>
        \A d, e \in DOMAIN documents :
            documents[d].key = documents[e].key /\ documents[d].life = documents[e].life
            => documents[d].result = documents[e].result

(* What the cache of results may and may not do to the documents. *)
CachedResults == OwnResult /\ OneReadingPerLife

(* What the audit log says of a case was done: a graph it counts is stored and
   of that case, and an entry of a whole analysis comes after the entries
   of the parts it names, whatever fails between the commits
   (integration_service.py:163, 185, 203). *)
LogBehindWork ==
    \A i \in 1..Len(log) :
        LET e == log[i]
            before(action, id) ==
                \E j \in 1..(i - 1) :
                    log[j].action = action /\ log[j].of = e.of /\ log[j].id = id
        IN
        /\ e.action = "case.graph" => e.id \in DOMAIN graphs /\ graphs[e.id].source = e.of
        /\ e.action = "case.analyze" =>
               /\ e.graph # None \/ e.document # None
               /\ e.graph # None => before("case.graph", e.graph)
               /\ e.document # None => before("case.ner", e.document)

(* Requests one at a time: the latest analysis of a case heads the list, be it
   a document or a graph (integration_service.py:221-262). *)
LatestFirst ==
    alone => \A c \in Cases : \A i \in DocumentPlaces(c) \cup GraphPlaces(c) :
        (\A j \in DocumentPlaces(c) \cup GraphPlaces(c) : j <= i)
        => get_case_integration(c).latest_correlations[1] = log[i]
=============================================================================
