------------------------------ MODULE Dashboard ------------------------------
(***************************************************************************)
(* The dashboard of IntelligenceService: counts of rows kept in TTLCache    *)
(* (backend/core/cache.py) for a lifetime, and the percentiles of           *)
(* PipelineStats (ml/pipeline/inference.py).                                *)
(*                                                                         *)
(* The cache is shared by the request threads and has no lock.  One count  *)
(* stands for those of the dashboard; time is the age of the entry.        *)
(*                                                                         *)
(* Bounds: Workers; MaxRows; MaxRuns inferences of each latency.           *)
(***************************************************************************)
EXTENDS Naturals, FiniteSets

CONSTANTS
    Workers,   \* request threads
    TTL,       \* ticks an entry lives
    MaxRows,
    Latencies, \* milliseconds an inference may take
    MaxRuns,
    KeyError,  \* an answer that is an error
    None

VARIABLES
    rows,      \* rows committed so far, by requests of other modules
    entry,     \* TTLCache._store: the count and its age, or None
    answer,    \* what the last request was answered: a count, or KeyError
    latencies, \* PipelineStats.latencies_ms, as a bag
    session,   \* what each request thread is doing
    alone      \* TRUE in behaviours whose requests run one at a time

vars == <<rows, entry, answer, latencies, session, alone>>

Idle == [pc |-> "idle"]
Counts == 0..MaxRows

TypeOK ==
    /\ rows \in Counts
    /\ entry \in [shown : Counts, age : 0..TTL] \cup {None}
    /\ answer \in Counts \cup {KeyError, None}
    /\ latencies \in [Latencies -> 0..MaxRuns]
    /\ session \in [Workers -> {Idle} \cup [pc : {"expired", "count"}]
                                      \cup [pc : {"store"}, shown : Counts]]
    /\ alone \in BOOLEAN

Busy(w) == session[w] # Idle
Goes(w, s) == session' = [session EXCEPT ![w] = s]

Init ==
    /\ rows = 0 /\ entry = None /\ answer = None
    /\ latencies = [ms \in Latencies |-> 0]
    /\ session = [w \in Workers |-> Idle]
    /\ alone \in BOOLEAN

\* Some other request commits a row.
CommitRow ==
    /\ rows < MaxRows
    /\ alone => \A w \in Workers : ~Busy(w)
    /\ rows' = rows + 1
    /\ UNCHANGED <<entry, answer, latencies, session, alone>>

Tick ==
    /\ entry # None /\ entry.age < TTL
    /\ entry' = [entry EXCEPT !.age = @ + 1]
    /\ UNCHANGED <<rows, answer, latencies, session, alone>>

\* InferencePipeline.run appends its latency.
RunInference(ms) ==
    /\ latencies[ms] < MaxRuns
    /\ latencies' = [latencies EXCEPT ![ms] = @ + 1]
    /\ UNCHANGED <<rows, entry, answer, session, alone>>

\* Fault: an entry that is used lives on.
HitAndRenew(w) ==
    /\ ~Busy(w)
    /\ entry # None /\ entry.age < TTL
    /\ answer' = entry.shown
    /\ entry' = [entry EXCEPT !.age = 0]
    /\ UNCHANGED <<rows, latencies, session, alone>>

\* get_dashboard: TTLCache.get finds an entry that lives; ...
Hit(w) ==
    /\ ~Busy(w)
    /\ entry # None /\ entry.age < TTL
    /\ answer' = entry.shown
    /\ UNCHANGED <<rows, entry, latencies, session, alone>>

\* ... or none, or one that does not; ...
Miss(w) ==
    /\ ~Busy(w)
    /\ entry # None => entry.age >= TTL
    /\ Goes(w, [pc |-> IF entry = None THEN "count" ELSE "expired"])
    /\ UNCHANGED <<rows, entry, answer, latencies, alone>>

\* ... which it deletes by its key, whatever is there by now: KeyError if
\* another thread has deleted it.
Drop(w) ==
    /\ session[w].pc = "expired"
    /\ entry' = None
    /\ IF entry = None THEN answer' = KeyError /\ Goes(w, Idle)
                       ELSE answer' = answer /\ Goes(w, [pc |-> "count"])
    /\ UNCHANGED <<rows, latencies, alone>>

\* _build_dashboard
Count(w) ==
    /\ session[w].pc = "count"
    /\ Goes(w, [pc |-> "store", shown |-> rows])
    /\ UNCHANGED <<rows, entry, answer, latencies, alone>>

\* TTLCache.set: the entry replaces any other and lives from now on.
Store(w) ==
    /\ session[w].pc = "store"
    /\ entry' = [shown |-> session[w].shown, age |-> 0]
    /\ answer' = session[w].shown
    /\ Goes(w, Idle)
    /\ UNCHANGED <<rows, latencies, alone>>

Step(w) == Hit(w) \/ Miss(w) \/ Drop(w) \/ Count(w) \/ Store(w)

Next ==
    /\ \/ CommitRow
       \/ Tick
       \/ \E w \in Workers : Step(w)
       \/ \E ms \in Latencies : RunInference(ms)
    /\ alone' => \A v, w \in Workers : Busy(v)' /\ Busy(w)' => v = w

Spec == Init /\ [][Next]_vars

----------------------------------------------------------------------------
\* The runs so far, numbered for each latency; how many took at most ms, and more.
Runs == {r \in Latencies \X (1..MaxRuns) : r[2] <= latencies[r[1]]}
Total == Cardinality(Runs)
UpTo(ms) == Cardinality({r \in Runs : r[1] <= ms})
Slower(ms) == Cardinality({r \in Runs : r[1] > ms})

\* Fault: five percent too low.
PercentileLow(percent) ==
    LET index == (Total * (percent - 5)) \div 100 - 1
        wanted == IF index < 0 THEN 1 ELSE index + 1 IN
    IF Total = 0 THEN None
    ELSE CHOOSE ms \in Latencies :
             UpTo(ms) >= wanted /\ \A x \in Latencies : UpTo(x) >= wanted => ms <= x

\* p95_ms, p99_ms: the element at max(0, int(n * percent) - 1) of the sorted list.
percentile(percent) ==
    LET index == (Total * percent) \div 100 - 1
        wanted == IF index < 0 THEN 1 ELSE index + 1 IN
    IF Total = 0 THEN None
    ELSE CHOOSE ms \in Latencies :
             UpTo(ms) >= wanted /\ \A x \in Latencies : UpTo(x) >= wanted => ms <= x

----------------------------------------------------------------------------
(* A change is shown in the end: once no more rows come, entries that were
   counted before, also one stored late over a newer one, give way, and from
   some time on every answer has them all (intelligence_service.py:287). *)
ChangesAreShown == \A n \in Counts : <>[](rows = n) => <>[](answer \in {n, KeyError, None})

(* At most 5 of 100 runs, and one more, took longer than the 95th percentile that is
   shown, which is a latency of some run and at most the 99th (inference.py:34). *)
SlowRunsFew ==
    Total > 0 =>
        /\ 100 * Slower(percentile(95)) < 5 * Total + 100
        /\ latencies[percentile(95)] > 0
        /\ percentile(95) <= percentile(99)
=============================================================================
