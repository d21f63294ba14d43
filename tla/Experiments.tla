----------------------------- MODULE Experiments -----------------------------
(***************************************************************************)
(* The experiments as one program: each takes its scenarios in order and   *)
(* runs every strategy against each, in lockstep here, the k-th call of    *)
(* every strategy meeting the same outcome because every run restarts the  *)
(* API with the same seed.  What a scenario draws at random is chosen by   *)
(* the environment.                                                        *)
(*                                                                         *)
(* "phase_transition" is experiment 2's sweep over the length of a rough   *)
(* patch, "comparison" the multi-seed block of scripts/run_comparison.py,  *)
(* and "anything" its loop against an API without a script.                *)
(***************************************************************************)
EXTENDS Experiment5

CONSTANTS
  Experiment,   \* the experiments that are run
  MaxLuck,      \* bound: failures drawn at random in a scripted scenario
  FreeSteps,    \* bound: steps against an API without a script
  FreeLatency   \* the latencies such an API may have

ASSUME ExperimentsAssumption ==
  /\ Experiment \subseteq {"experiment_2", "phase_transition", "experiment_2_5", "experiment_3",
                           "experiment_4", "experiment_5", "comparison", "anything"}
  /\ MaxLuck \in Nat
  /\ FreeSteps \in Nat
  /\ FreeLatency \subseteq Nat

VARIABLES
  experiment,  \* the one that runs
  scenarios,   \* the scenarios still to run, the current one first
  outcomes,    \* outcomes of the current scenario's calls
  luck,        \* how many failures among them were drawn at random
  runs,        \* the run of every strategy on the current scenario
  results      \* what the finished scenarios left

vars == <<experiment, scenarios, outcomes, luck, runs, results>>

Suites(e) ==
  CASE e = "experiment_2"     -> {Scenarios2}
    [] e = "phase_transition" -> {PhaseTransition}
    [] e = "experiment_2_5"   -> {Scenarios25}
    [] e = "experiment_3"     -> {Scenarios3}
    [] e = "experiment_4"     -> {Scenarios4}
    [] e = "experiment_5"     -> {Scenarios5}
    [] e = "comparison"       -> {ComparedScenarios}
    [] e = "anything"         -> {<<Anything(latency)>> : latency \in FreeLatency}

Merging == {"experiment_5", "comparison", "anything"}

Strategies(e) ==
  {"rnos", "adaptive_cb", "baseline"} \cup IF e \in Merging THEN {"hybrid"} ELSE {}

StepsOf(e) == CASE e = "experiment_5" -> 30 [] e = "anything" -> FreeSteps [] OTHER -> 20

LuckOf(e) == IF e = "anything" THEN FreeSteps ELSE MaxLuck

Fresh(e) ==
  [s \in Strategies(e) |->
     IF e \in Merging THEN NewRun5 ELSE IF e = "experiment_3" THEN NewRun3 ELSE NewRun]

\* The runner an experiment uses for a strategy.
StepOf(e, s, api, r, success, latency) ==
  IF e \in {"comparison", "anything"} THEN OneModeStep(s, r, success, latency)
  ELSE CASE s = "baseline" -> BaselineStep(r, success, latency)
         [] s = "hybrid"   -> HybridStep(r, success, latency)
         [] s = "rnos" -> CASE e = "experiment_3" -> RnosStep3(api, r, success, latency)
                            [] e = "experiment_4" -> RnosStep4(r, success, latency)
                            [] e = "experiment_5" -> RnosStep5(r, success, latency)
                            [] OTHER -> RnosStep(r, success, latency)
         [] s = "adaptive_cb" ->
              CASE e \in {"experiment_3", "experiment_4"} -> BreakerStep3(r, success, latency)
                [] e = "experiment_5" -> BreakerStep5(r, success, latency)
                [] OTHER -> BreakerStep(r, success, latency)

WastedWork(e, api, log) ==
  CASE e = "experiment_2_5" -> WastedWork25(api.name, log)
    [] e = "experiment_3"   -> WastedWork3(api.name, log, api.segments)
    [] e = "experiment_4"   -> WastedWork4(api.name, log, api.segments)
    [] e \in Merging -> 0
    [] OTHER -> WastedWork2(api.name, log)

\* The RNOS trajectory with its signals, in the experiments that compute them.
Enriched(e, s, r) ==
  IF s # "rnos" THEN << >>
  ELSE CASE e = "experiment_2_5" -> Enriched25(r.entropy_trajectory, r.step_log)
         [] e = "experiment_3"   -> Enriched3(r.entropy_trajectory, r.step_log)
         [] e = "experiment_4"   -> Enriched4(r.entropy_trajectory, r.step_log)
         [] OTHER -> << >>

\* ScenarioResult
Result(e, api, s, r) ==
  [ scenario |-> api.name, strategy |-> s, failure_length |-> Len(api.schedule) - 2,
    steps |-> r.step, steps_executed |-> r.steps_executed,
    first_intervention_step |-> r.first_intervention_step,
    first_intervention_type |-> r.first_intervention_type,
    final_state |-> IF Over(r) THEN r.final_state ELSE "max_steps_exhausted",
    completed |-> TaskCompleted(api, r), net_value |-> NetValue(api, r),
     wasted_work |-> WastedWork(e, api, r.step_log),
    entropy_trajectory |-> Enriched(e, s, r) ]
-----------------------------------------------------------------------------
Init ==
  /\ experiment \in Experiment
  /\ scenarios \in Suites(experiment)
  /\ outcomes = << >>
  /\ luck = 0
  /\ runs = Fresh(experiment)
  /\ results = {}

Api == scenarios[1]

\* The k-th call of a strategy that was held back meets the k-th outcome, too.
CallOf(r) == r.steps_executed + 1

\* One step of every strategy that is not over.
Iterate(success) ==
  /\ scenarios # << >>
  /\ Len(outcomes) < StepsOf(experiment)
  /\ LET open == OutcomesOf(Api, Len(outcomes) + 1, runs["baseline"].retry_count)
         drawn == open = BOOLEAN /\ ~success
     IN  /\ success \in open
         /\ drawn => luck < LuckOf(experiment)
         /\ luck' = IF drawn THEN luck + 1 ELSE luck
  /\ outcomes' = Append(outcomes, success)
  /\ runs' = [s \in DOMAIN runs |->
                LET k == CallOf(runs[s])
                IN  IF Over(runs[s]) THEN runs[s]
                    ELSE StepOf(experiment, s, Api, runs[s], outcomes'[k], LatencyOf(Api, k))]
  /\ UNCHANGED <<experiment, scenarios, results>>

\* All steps are used up: the results are kept, the next scenario starts afresh.
Finish ==
  /\ scenarios # << >>
  /\ Len(outcomes) >= StepsOf(experiment)
  /\ results' = results \cup {Result(experiment, Api, s, runs[s]) : s \in DOMAIN runs}
  /\ scenarios' = Tail(scenarios)
  /\ outcomes' = << >>
  /\ luck' = 0
  /\ runs' = Fresh(experiment)
  /\ UNCHANGED experiment

Next == Finish \/ \E success \in BOOLEAN : Iterate(success)

Spec == Init /\ [][Next]_vars
-----------------------------------------------------------------------------
Named(scenario) == {r \in results : r.scenario = scenario}
Of(strategy) == {r \in results : r.strategy = strategy}
Complete(e) == experiment = e /\ scenarios = << >>

\* Uncontrolled, the task is completed, and under this strategy it is not.
FalsePositive(r) ==
  ~r.completed /\ \E base \in Named(r.scenario) \cap Of("baseline") : base.completed

\* _dominance_verdict, draw by draw: not worth less than RNOS or the breaker alone.
WeaklyDominates(r) ==
  \A other \in Named(r.scenario) :
    other.strategy \in {"rnos", "adaptive_cb"} => r.net_value >= other.net_value

\* What the next evaluation of a run will say.
RnosNext(r) == Evaluate(r.history, ActionOf(r))
HybridNext(r) == HybridAnswer(r).merged.decision

\* Most failures in a row among the outcomes so far.
LongestStreak(seq) == LongestRun([i \in DOMAIN seq |-> ~seq[i]])

\* Whatever the API does, the merged controller stops the run no later than RNOS
\* alone does and no later than the breaker alone first blocks: it is at least as
\* severe as each and has seen the same calls until then.  Two of its three detectors
\* are half dead, though: its breaker can end a run but never probes, and the coherence
\* proxy never leaves its healthy band, because a refusal ends the run and permitted
\* failures alone keep it at 0.556.
HybridNeverLater ==
  experiment \in Merging =>
    LET hybrid == runs["hybrid"]
        rnos   == runs["rnos"]
        cb     == runs["adaptive_cb"]
    IN  /\ Over(rnos) => Over(hybrid) /\ hybrid.step <= rnos.step
        /\ cb.first_intervention_step # 0 =>
             Over(hybrid) /\ hybrid.step <= cb.first_intervention_step
        /\ hybrid.cb.state # "closed" => Over(hybrid) /\ hybrid.cb.total_blocked = 1
        /\ CoherenceSeverity(hybrid.lambda) = 0

\* An outage is refused whatever came before it: by RNOS after five failures in a
\* row, by the merged controller after four, and after seven among the last ten,
\* even while the breaker's window fills and the breaker itself does not look.
OutagesAreRefused ==
  /\ runs["rnos"].retry_count >= 5 => Over(runs["rnos"]) \/ RnosNext(runs["rnos"]) = "REFUSE"
  /\ experiment \in Merging =>
       LET hybrid == runs["hybrid"]
       IN  hybrid.retry_count >= 4 \/ Large!Failures(hybrid.cb.window) > 6 =>
             Over(hybrid) \/ HybridNext(hybrid) = "REFUSE"

\* What RNOS saw of a scenario, step by step.
TrajectoryOf(scenario) ==
  (CHOOSE r \in Named(scenario) \cap Of("rnos") : TRUE).entropy_trajectory

\* The pairs are matched: until the step at which one recovers and the other does not
\* RNOS has no reason to treat them differently, and the designs' own assertions
\* hold; three steps later the entropies of the first pair are far apart.  The flag of
\* chronic instability tells the other pair apart in the end, not at once: it is up in
\* both from step 11, and goes down for good only where three clean successes come.
PairsAreMatched ==
  /\ Complete("experiment_2_5") =>
       LET recovery == TrajectoryOf("matched_recovery")
           collapse == TrajectoryOf("matched_collapse")
       IN  /\ EntropyAssertion(recovery, collapse)
           /\ \A i \in 1..6 : recovery[i].entropy = collapse[i].entropy
           /\ collapse[8].entropy - recovery[8].entropy > 2500
           /\ \E i \in DOMAIN recovery : recovery[i].recovery_signal
           /\ \A i \in DOMAIN collapse : ~collapse[i].recovery_signal
  /\ Complete("experiment_4") =>
       LET recovery   == TrajectoryOf("noisy_recovery")
           smoldering == TrajectoryOf("smoldering_instability")
       IN  /\ EntropyBandAssertion(recovery, smoldering)
           /\ \A i \in 1..10 : Distance(recovery[i].entropy, smoldering[i].entropy) < 50
           /\ \A i \in 11..20 : smoldering[i].chronic_instability_flag
           /\ \A i \in 11..20 : recovery[i].chronic_instability_flag <=> i <= 13

\* The scores: the breaker is right about every labelled scenario, RNOS about all but
\* the benign ones in which three calls fail in a row, where it degrades; doing
\* nothing is right about the benign half.  The longer the rough patch the harsher the
\* answer: RNOS degrades from three failures on, refuses from four on, and never
\* intervenes later in a longer patch; the breaker blocks from four on and never gives
\* up.  The comparison's price: the burst that would have passed is always a false
\* positive of RNOS and of the merged controller, whatever the draws, and it is the only
\* scenario in which merging can be worth less than either of its parts.  A healthy API
\* with a stray failure or two is left alone by all.
ScoresAsMeasured ==
  /\ Complete("experiment_2") =>
       Selectivity2(Of("rnos")) = 2 /\ Selectivity2(Of("adaptive_cb")) = 3
  /\ Complete("experiment_2_5") =>
       /\ Selectivity25(Of("rnos")) = [overall |-> 2, easy |-> 1, hard |-> 1]
       /\ Selectivity25(Of("adaptive_cb")) = [overall |-> 4, easy |-> 2, hard |-> 2]
  /\ Complete("experiment_3") =>
       /\ Selectivity3(Of("rnos")) = [overall |-> 3, easy |-> 1, hard |-> 2]
       /\ Selectivity3(Of("adaptive_cb")) = [overall |-> 4, easy |-> 2, hard |-> 2]
  /\ Complete("experiment_4") =>
       /\ Selectivity4(Of("rnos")) = [overall |-> 3, easy |-> 1, hard |-> 2]
       /\ Selectivity4(Of("adaptive_cb")) = [overall |-> 4, easy |-> 2, hard |-> 2]
  /\ Complete("phase_transition") =>
         /\ \A r \in Of("rnos") :
              /\ r.first_intervention_step = IF r.failure_length >= 3 THEN 6 ELSE 0
              /\ r.final_state = "refused" <=> r.failure_length >= 4
         /\ \A r \in Of("adaptive_cb") :
              /\ r.first_intervention_step = IF r.failure_length >= 4 THEN 7 ELSE 0
              /\ r.final_state = "max_steps_exhausted"
  /\ experiment = "comparison" =>
       /\ \A r \in results :
            FalsePositive(r) => r.scenario = "recoverable_burst" /\ r.strategy # "baseline"
       /\ \A r \in Named("recoverable_burst") : r.strategy \in {"rnos", "hybrid"} => FalsePositive(r)
       /\ \A r \in Of("hybrid") : WeaklyDominates(r) \/ r.scenario = "recoverable_burst"
       /\ \A r \in Named("benign") : ~Intervening(r)

\* The breaker does no more wasted work than no control at all, by each experiment's
\* own measure, and RNOS no more than the breaker, with one exception: failures that
\* never form a streak are what RNOS lets through and the breaker's window catches.
DamageIsOrdered ==
  \A rnos \in Of("rnos"), cb \in Of("adaptive_cb"), base \in Of("baseline") :
    rnos.scenario = cb.scenario /\ cb.scenario = base.scenario =>
      /\ cb.wasted_work <= base.wasted_work
      /\ rnos.wasted_work > cb.wasted_work => cb.scenario = "smoldering_instability"

\* Nothing but a burst is taken for an outage: streaks of at most two failures are never
\* refused by RNOS, however long they go on, and two successes in a row bring it back to
\* a plain ALLOW.
NoiseIsForgiven ==
  LET rnos == runs["rnos"]
      n    == Len(rnos.step_log)
  IN  /\ Over(rnos) => LongestStreak(outcomes) > 2
      /\ ~Over(rnos) /\ n >= 2 /\ rnos.step_log[n].success /\ rnos.step_log[n - 1].success =>
           RnosNext(rnos) = "ALLOW"
=============================================================================
