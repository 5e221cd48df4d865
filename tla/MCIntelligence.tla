--------------------------- MODULE MCIntelligence ---------------------------
(* Instances of Intelligence and Dashboard for TLC.  A behaviour takes steps  *)
(* of the analyses, of the dashboard cache or of the latencies.               *)
EXTENDS IntelligenceServices, TLC

all == <<vars, board>>

MCInit == Init /\ Dash!Init
DashStep(A) == A /\ Init /\ UNCHANGED vars
MCNext ==
    \/ Next /\ Dash!Init /\ UNCHANGED board
    \/ \E ms \in Latencies :
           DashStep(Dash!RunInference(ms)) /\ rows = 0 /\ entry = None
           /\ \A w \in Workers : ~Dash!Busy(w)
    \/ DashStep(Dash!Next) /\ latencies' = [ms \in Latencies |-> 0]
MCSpec ==
    /\ MCInit /\ [][MCNext]_all
    /\ WF_all(DashStep(Dash!Tick))
    /\ \A w \in Workers :
           WF_all(DashStep(Dash!Step(w)) /\ latencies = [ms \in Latencies |-> 0])
=============================================================================
