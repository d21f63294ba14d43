----------------------------- MODULE AdaptiveLoop -----------------------------
(***************************************************************************)
(* A comparison run in "CircuitBreaker" mode (_run_one_mode of             *)
(* scripts/run_comparison.py; experiments/experiment_2.py and 3 loop the   *)
(* same way): tick, ask, then either skip the step or call the simulated   *)
(* API and record the outcome.  The API is an environment that is healthy  *)
(* or not; Exhausted is the step bound.                                    *)
(***************************************************************************)
EXTENDS AdaptiveCircuitBreaker

VARIABLES
  pc,                 \* "decide", "execute" or "stopped"
  first_intervention, \* has a step been refused or probed
  retry_count,        \* failures since the last success
  healthy,            \* environment: would a call succeed now
  waited              \* history: steps skipped since the API last ran

adaptiveLoopVars == <<acb, reply, pc, first_intervention, retry_count, healthy, waited>>
-----------------------------------------------------------------------------
LoopInit ==
  /\ Init
  /\ pc = "decide"
  /\ first_intervention = FALSE
  /\ retry_count = 0
  /\ healthy \in BOOLEAN
  /\ waited = 0

\* cbk.tick() and cbk.should_execute() at the head of a step.
Asked == ShouldExecute(Ticked(acb))

\* The breaker refuses: continue, or break for good.
Blocked ==
  /\ pc = "decide"
  /\ acb' = Asked
  /\ reply' = ReasonOf(Asked)
  /\ ~Allowed(reply')
  /\ first_intervention' = TRUE
  /\ waited' = waited + 1
  /\ pc' = IF reply' = "permanently_open" THEN "stopped" ELSE pc
  /\ UNCHANGED <<retry_count, healthy>>

\* The breaker lets the step through, as a normal call or as a probe.
Admitted ==
  /\ pc = "decide"
  /\ acb' = Asked
  /\ reply' = ReasonOf(Asked)
  /\ Allowed(reply')
  /\ first_intervention' = (first_intervention \/ reply' = "half_open_probe")
  /\ pc' = "execute"
  /\ UNCHANGED <<retry_count, healthy, waited>>

\* api.call() and record_result.
Execute ==
  /\ pc = "execute"
  /\ acb' = RecordResult(acb, healthy)
  /\ retry_count' = IF healthy THEN 0 ELSE retry_count + 1
  /\ waited' = 0
  /\ pc' = "decide"
  /\ UNCHANGED <<reply, first_intervention, healthy>>

\* range(1, max_steps + 1) is used up.
Exhausted ==
  /\ pc = "decide"
  /\ pc' = "stopped"
  /\ UNCHANGED <<acb, reply, first_intervention, retry_count, healthy, waited>>

\* The API breaks or recovers while the run goes on.
ApiChanges ==
  /\ pc # "stopped"
  /\ healthy' = ~healthy
  /\ UNCHANGED <<acb, reply, pc, first_intervention, retry_count, waited>>

Step == Blocked \/ Admitted \/ Execute

LoopNext == Step \/ Exhausted \/ ApiChanges

LoopSpec == LoopInit /\ [][LoopNext]_adaptiveLoopVars

\* The run is a plain for statement: it keeps stepping until it stops.
FairLoopSpec == LoopSpec /\ WF_adaptiveLoopVars(Step)
-----------------------------------------------------------------------------
\* Once the API stays healthy the breaker closes for good, even though the
\* failures left in the window may trip it again after a successful probe.
RecoversWithTheApi == <>[]healthy => <>[](acb.state = "closed" \/ pc = "stopped")
=============================================================================
