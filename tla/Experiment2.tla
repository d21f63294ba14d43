----------------------------- MODULE Experiment2 ------------------------------
(***************************************************************************)
(* experiments/experiment_2.py: the three strategies it runs against a     *)
(* configurable API, and how their runs are scored.  A run is a record;    *)
(* the operators ...Step take it through one iteration of the strategy's   *)
(* loop, given the outcome and latency of the call it would make.          *)
(***************************************************************************)
EXTENDS Hybrid, ConfigurableApi

\* The breaker of experiments 2 to 4.
Small == INSTANCE AdaptiveCircuitBreaker WITH
  WindowSize <- 5, InitialFailureRate <- 60, MinFailureRate <- 40, AdaptationStep <- 5,
  InitialCooldown <- 2, MaxCooldown <- 10, MaxTotalBlocked <- 20, acb <- 0, reply <- 0

Tool == "configurable_api"

\* The locals of a runner before its loop; 0 for no intervention step.
NewRun ==
  [ step |-> 0, steps_executed |-> 0, total_failures |-> 0, retry_count |-> 0, prev_latency |-> 0,
    first_intervention_step |-> 0, first_intervention_type |-> "none", final_state |-> "running",
    step_log |-> << >>, entropy_trajectory |-> << >>, history |-> NewHistory, cb |-> Small!NewBreaker ]

Over(r) == r.final_state # "running"

\* Only the first step that is not plainly allowed is remembered.
Intervened(r, type) ==
  IF r.first_intervention_step # 0 THEN r
  ELSE [r EXCEPT !.first_intervention_step = r.step, !.first_intervention_type = type]

\* The call is counted, and the streak of failures goes on or ends.
Called(r, success, latency) ==
  [r EXCEPT !.steps_executed = @ + 1,
            !.total_failures = IF success THEN @ ELSE @ + 1,
            !.retry_count = IF success THEN 0 ELSE @ + 1,
            !.prev_latency = latency]

Entry(r, executed, success, latency) ==
  [ step |-> r.step, executed |-> executed, success |-> success, latency |-> latency,
    consecutive_failures_at_start |-> r.retry_count ]

\* A flat sequence of calls: the depth is 0, the latency the previous call's, in
\* points per thousand (half a point per second, odd milliseconds rounded down).
ActionOf(r) ==
  [ tool |-> Tool, depth |-> 0, retry_count |-> r.retry_count, latency |-> r.prev_latency \div 2,
    cumulative_calls |-> r.steps_executed ]

\* Slip: a degraded step is not noticed.
RnosStepDeaf(r, success, latency) ==
  LET action   == ActionOf(r)
      decision == Evaluate(r.history, action)
      asked    == [r EXCEPT !.step = @ + 1,
                            !.entropy_trajectory = Append(@, Entropy(r.history, action))]
  IN  IF decision = "REFUSE" THEN [asked EXCEPT !.final_state = "refused"]
      ELSE [Called(asked, success, latency) EXCEPT
              !.history = Recorded(r.history, Tool, success),
              !.step_log = Append(@, Entry(asked, TRUE, success, latency))]

\* Slip: a refusal is noted and overruled.
RnosStepStubborn(r, success, latency) ==
  LET action   == ActionOf(r)
      asked    == [r EXCEPT !.step = @ + 1,
                            !.entropy_trajectory = Append(@, Entropy(r.history, action))]
  IN  [Called(asked, success, latency) EXCEPT
         !.history = Recorded(r.history, Tool, success),
         !.step_log = Append(@, Entry(asked, TRUE, success, latency))]

RnosStep(r, success, latency) ==
  LET action   == ActionOf(r)
      decision == Evaluate(r.history, action)
      asked    == [r EXCEPT !.step = @ + 1,
                            !.entropy_trajectory = Append(@, Entropy(r.history, action))]
      seen     == IF decision = "ALLOW" THEN asked ELSE Intervened(asked, decision)
  IN  IF decision = "REFUSE" THEN [seen EXCEPT !.final_state = "refused"]
      ELSE [Called(seen, success, latency) EXCEPT
              !.history = Recorded(r.history, Tool, success),
              !.step_log = Append(@, Entry(seen, TRUE, success, latency))]

\* A blocked step makes no call and is not logged; only the hard stop ends the run.
BreakerStep(r, success, latency) ==
  LET cb     == Small!ShouldExecute(Small!Ticked(r.cb))
      reason == Small!ReasonOf(cb)
      asked  == [r EXCEPT !.step = @ + 1, !.cb = cb]
  IN  IF Small!Allowed(reason)
      THEN [Called(asked, success, latency) EXCEPT
              !.cb = Small!RecordResult(cb, success),
              !.step_log = Append(@, Entry(asked, TRUE, success, latency))]
      ELSE [Intervened(asked, reason) EXCEPT
              !.final_state = IF reason = "permanently_open"
                              THEN "circuit_permanently_open" ELSE "running"]

BaselineStep(r, success, latency) ==
  LET next == [r EXCEPT !.step = @ + 1]
  IN  [Called(next, success, latency) EXCEPT
         !.step_log = Append(@, Entry(next, TRUE, success, latency))]
-----------------------------------------------------------------------------
\* How many entries of a step_log pass the test.
EntriesWhere(log, Test(_)) == Cardinality({i \in DOMAIN log : Test(log[i])})

\* From two failures in a row on, a runaway cascade only fails.
Absorbed(entry) == entry.consecutive_failures_at_start >= 2

\* _compute_wasted_work: "cascade" is part of the name.
WastedWork2(name, log) ==
  IF name \in {"runaway_cascade", "intermittent_cascade", "fanout_cascade"}
  THEN EntriesWhere(log, Absorbed) ELSE 0

GroundTruth2 ==
  "transient_blip" :> "benign" @@ "rough_patch" :> "benign" @@ "runaway_cascade" :> "structural"

Intervening(result) == result.first_intervention_step # 0

\* A structural failure deserves an intervention and nothing else does.
CorrectCall(truth, result) == Intervening(result) <=> truth[result.scenario] = "structural"

\* _compute_selectivity: slow_burn has no label and is not scored.
Selectivity2(results) ==
  Cardinality({r \in results : r.scenario \in DOMAIN GroundTruth2 /\ CorrectCall(GroundTruth2, r)})

\* main: the scenarios, each given to the three strategies.
Scenarios2 == <<TransientBlip, RoughPatch(3), SlowBurn, RunawayCascade>>

\* _compute_phase_transition: the same with rough patches of every length.
PhaseTransition == [failure_length \in 1..10 |-> RoughPatch(failure_length)]
-----------------------------------------------------------------------------
(***************************************************************************)
(* experiments/experiment_2_5.py: experiment 2's strategies on a pair of   *)
(* scenarios that are the same through step 6.                             *)
(***************************************************************************)
\* matched_collapse fails for good from step 7 on.
WastedWork25(name, log) ==
  IF name = "runaway_cascade" THEN EntriesWhere(log, Absorbed)
  ELSE IF name = "matched_collapse" THEN EntriesWhere(log, LAMBDA e : e.step >= 7)
  ELSE 0

\* The executed entries of a log up to a step, and the last n of them.
UpTo(log, step) == SelectSeq(log, LAMBDA e : e.step <= step /\ e.executed)

\* The failure rate of a window, in thousandths, and 0 for an empty one.
FailRate(entries) ==
  IF entries = << >> THEN 0
  ELSE Rounded(1000 * EntriesWhere(entries, LAMBDA e : ~e.success), Len(entries))

\* Slip: the streak is read after the call, when a success has ended it.
RecoverySignalLate(log, step) ==
  \E i \in DOMAIN log : /\ log[i].step = step - 1
                        /\ log[i].executed
                        /\ log[i].success
                        /\ log[i + 1].consecutive_failures_at_start >= 2

\* Success after two or more failures in a row, at this step.
RecoverySignal(log, step) ==
  \E i \in DOMAIN log : /\ log[i].step = step
                        /\ log[i].executed
                        /\ log[i].success
                        /\ log[i].consecutive_failures_at_start >= 2

\* First and second differences of the entropy; 0 where there is nothing to compare.
Slope(entropies, i) == IF i = 1 THEN 0 ELSE entropies[i] - entropies[i - 1]
Curvature(entropies, i) == IF i = 1 THEN 0 ELSE Slope(entropies, i) - Slope(entropies, i - 1)

\* _enrich_trajectory: signals computed after the run.
Enriched25(entropies, log) ==
  [i \in DOMAIN entropies |->
     [ entropy             |-> entropies[i],
       entropy_slope       |-> Slope(entropies, i),
       entropy_curvature   |-> Curvature(entropies, i),
       sliding_fail_rate_3 |-> FailRate(LastOf(UpTo(log, i), 3)),
       recovery_signal     |-> RecoverySignal(log, i) ]]

Distance(a, b) == IF a >= b THEN a - b ELSE b - a

\* _validate_entropy_assertion: less than half a point apart at step 6.
EntropyAssertion(recovery, collapse) ==
  /\ 6 \in DOMAIN recovery /\ 6 \in DOMAIN collapse
  /\ Distance(recovery[6].entropy, collapse[6].entropy) < 500

GroundTruth25 ==
  "matched_recovery" :> "benign" @@ "matched_collapse" :> "structural"
    @@ "rough_patch" :> "benign" @@ "runaway_cascade" :> "structural"

EasyPair == {"rough_patch", "runaway_cascade"}
HardPair == {"matched_recovery", "matched_collapse"}

\* _compute_selectivity_25
Selectivity25(results) ==
  LET correct == {r.scenario : r \in {x \in results : CorrectCall(GroundTruth25, x)}}
  IN  [ overall |-> Cardinality(correct), easy |-> Cardinality(correct \cap EasyPair),
        hard |-> Cardinality(correct \cap HardPair) ]

\* main
Scenarios25 == <<MatchedRecovery, MatchedCollapse, RoughPatch(3), RunawayCascade>>
=============================================================================
