------------------------ MODULE IntelligenceServices ------------------------
(* What backend/services/intelligence_service.py keeps in the process: the   *)
(* inference pipeline with its cache, its latencies, and the dashboard with  *)
(* its own.  Each leaves the state of the others alone.                      *)
EXTENDS Intelligence

CONSTANTS TTL, MaxRows, Latencies, MaxRuns, KeyError

ASSUME DashboardAssumption ==
    /\ TTL \in Nat /\ MaxRows \in Nat /\ MaxRuns \in Nat
    /\ Latencies \subseteq Nat /\ IsFiniteSet(Latencies)

VARIABLES rows, entry, answer, latencies, visits

Dash == INSTANCE Dashboard WITH session <- visits

board == <<rows, entry, answer, latencies, visits>>

(* As Dashboard states it (intelligence_service.py:287). *)
ChangesAreShown == Dash!ChangesAreShown

(* As Dashboard states it (inference.py:34). *)
SlowRunsFew == Dash!SlowRunsFew

(* The pipeline and the dashboard keep their state well typed
   (inference.py:33, intelligence_service.py:278-297). *)
ServicesTyped == TypeOK /\ Dash!TypeOK
=============================================================================
