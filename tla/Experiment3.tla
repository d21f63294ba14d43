----------------------------- MODULE Experiment3 ------------------------------
(***************************************************************************)
(* experiments/experiment_3.py: bursts of failures with recoveries between *)
(* them.  Its runners are experiment 2's with counters that watch the      *)
(* bursts, and its breaker logs the steps it blocks.                       *)
(***************************************************************************)
EXTENDS Experiment2

NewRun3 ==
  [f \in DOMAIN NewRun \cup {"cumulative_successes_after_burst1", "post_burst_stability"} |->
     IF f \in DOMAIN NewRun THEN NewRun[f] ELSE 0]

\* _get_segment: the last segment that covers the step.
SegmentAt(segments, step) ==
  LET i == SelectLastInSeq(segments, LAMBDA s : step \in s.start_step..s.end_step)
  IN  IF i = 0 THEN Segment(-1, 0, 0, "unknown") ELSE segments[i]

BurstStart(segments, index) ==
  LET i == SelectInSeq(segments, LAMBDA s : s.index = index /\ s.segment_type = "burst")
  IN  IF i = 0 THEN 0 ELSE segments[i].start_step

\* Whether an entry was executed is not asked, only where in the run it is.
WastedWork3(name, log, segments) ==
  LET absorbing == BurstStart(segments, 3)
  IN  IF name = "runaway_cascade" THEN EntriesWhere(log, Absorbed)
      ELSE IF name = "intermittent_cascade"
           THEN EntriesWhere(log, LAMBDA e : e.step >= IF absorbing = 0 THEN 14 ELSE absorbing)
      ELSE 0

\* A fast success outside a burst.
CleanStep(segments, step, success, latency) ==
  success /\ SegmentAt(segments, step).segment_type # "burst" /\ latency < 150

\* _run_rnos_3: the counters only watch, the decisions are experiment 2's.
RnosStep3(api, r, success, latency) ==
  LET next   == RnosStep(r, success, latency)
      burst1 == BurstStart(api.segments, 1)
  IN  IF Over(next) THEN next
      ELSE [next EXCEPT
              !.cumulative_successes_after_burst1 =
                 IF success /\ burst1 # 0 /\ next.step >= burst1 THEN @ + 1 ELSE @,
              !.post_burst_stability =
                 IF CleanStep(api.segments, next.step, success, latency) THEN @ + 1 ELSE 0]

\* _run_adaptive_cb_3: a blocked step is logged, unless it is the hard stop.
BreakerStep3(r, success, latency) ==
  LET next == BreakerStep(r, success, latency)
  IN  IF next.steps_executed > r.steps_executed \/ Over(next) THEN next
      ELSE [next EXCEPT !.step_log = Append(@, Entry(next, FALSE, FALSE, 0))]

\* _enrich_trajectory_3: experiment 2.5's signals and a longer window.
Enriched3(entropies, log) ==
  [i \in DOMAIN entropies |->
     Enriched25(entropies, log)[i]
       @@ "sliding_fail_rate_5" :> FailRate(LastOf(UpTo(log, i), 5))]

GroundTruth3 ==
  "bursty_recovery" :> "benign" @@ "intermittent_cascade" :> "structural"
    @@ "rough_patch" :> "benign" @@ "runaway_cascade" :> "structural"

BurstyPair == {"bursty_recovery", "intermittent_cascade"}

\* A benign scenario that may be degraded but must not be stopped.
Completes(result) ==
  CASE result.strategy = "rnos" -> result.final_state # "refused"
    [] result.strategy = "adaptive_cb" -> result.final_state = "max_steps_exhausted"
    [] OTHER -> TRUE

IsCorrect3(result) ==
  IF result.scenario = "bursty_recovery" THEN Completes(result)
  ELSE CorrectCall(GroundTruth3, result)

\* _compute_selectivity_3
Selectivity3(results) ==
  LET correct == {r.scenario : r \in {x \in results : IsCorrect3(x)}}
  IN  [ overall |-> Cardinality(correct), easy |-> Cardinality(correct \cap EasyPair),
        hard |-> Cardinality(correct \cap BurstyPair) ]

\* main
Scenarios3 == <<BurstyRecovery, IntermittentCascade, RoughPatch(3), RunawayCascade>>
-----------------------------------------------------------------------------
(***************************************************************************)
(* experiments/experiment_4.py: failures spread so thin that no streak     *)
(* forms, in a system that recovers and in one that never does.  RNOS and  *)
(* the breaker run as in experiment 3; the persistence of the trouble is   *)
(* measured on the trajectory afterwards.                                  *)
(***************************************************************************)
ChronicStart(segments) ==
  LET i == SelectInSeq(segments, LAMBDA s : s.segment_type = "chronic")
  IN  IF i = 0 THEN 11 ELSE segments[i].start_step

\* Blocked steps are left out for the smoldering scenario only.
WastedWork4(name, log, segments) ==
  IF name = "runaway_cascade" THEN EntriesWhere(log, Absorbed)
  ELSE IF name = "smoldering_instability"
       THEN EntriesWhere(log, LAMBDA e : e.executed /\ e.step >= ChronicStart(segments))
  ELSE 0

\* _run_rnos_4: experiment 2's loop; cumulative_failures repeats total_failures.
RnosStep4(r, success, latency) == RnosStep(r, success, latency)

\* The longest unbroken run of TRUE in a sequence.
LongestRun(marks) ==
  LET runs == {n \in 0..Len(marks) :
                 \E i \in 0..(Len(marks) - n) : \A j \in 1..n : marks[i + j]}
  IN  CHOOSE n \in runs : \A m \in runs : m <= n

\* The run of TRUE a sequence ends with.
LastRun(marks) ==
  LET failing == {i \in DOMAIN marks : ~marks[i]}
  IN  Len(marks) - (IF failing = {} THEN 0 ELSE CHOOSE i \in failing : \A j \in failing : j <= i)

\* Whether each call succeeded.
Marks(log) == [i \in DOMAIN log |-> log[i].success]

\* A success under one and a half times the normal latency.
Clean(entry) == entry.success /\ entry.latency < 120

StabilityScore(log, step) ==
  LET upTo == UpTo(log, step)
  IN  LastRun([i \in DOMAIN upTo |-> Clean(upTo[i])])

\* chronic_instability_flag: since step 11 no three clean successes in a row, and a
\* quarter of the last ten calls failed.
Chronic(log, step) ==
  LET recent10 == LastOf(UpTo(log, step), 10)
  IN  /\ step > 10
      /\ \A later \in 11..step : StabilityScore(log, later) < 3
      /\ Len(recent10) >= 10 /\ FailRate(recent10) >= 250

\* _enrich_trajectory_4, averages of the latency left out.
Enriched4(entropies, log) ==
  [i \in DOMAIN entropies |->
     LET upTo     == UpTo(log, i)
         recent10 == LastOf(upTo, 10)
     IN  [ entropy                  |-> entropies[i],
           entropy_slope            |-> Slope(entropies, i),
           entropy_curvature        |-> Curvature(entropies, i),
           rolling_failure_rate_5   |-> FailRate(LastOf(upTo, 5)),
           rolling_failure_rate_10  |-> IF Len(recent10) < 10 THEN 0 ELSE FailRate(recent10),
           longest_failure_streak   |-> LongestRun([k \in DOMAIN upTo |-> ~upTo[k].success]),
           longest_success_streak   |-> LongestRun(Marks(upTo)),
           stability_score          |-> StabilityScore(log, i),
           above_floor_count        |-> Cardinality({j \in 1..i : entropies[j] \in 5001..7499}),
           chronic_instability_flag |-> Chronic(log, i) ]]

\* The largest entropy of steps 3 to 10, 0 if the run ended before.
BandMax(trajectory) ==
  LET band == {trajectory[i].entropy : i \in (3..10) \cap DOMAIN trajectory}
  IN  IF band = {} THEN 0 ELSE CHOOSE e \in band : \A f \in band : f <= e

\* _validate_entropy_band_assertion
EntropyBandAssertion(recovery, smoldering) ==
  Distance(BandMax(recovery), BandMax(smoldering)) < 1500

GroundTruth4 ==
  "noisy_recovery" :> "benign" @@ "smoldering_instability" :> "structural"
    @@ "rough_patch" :> "benign" @@ "runaway_cascade" :> "structural"

DistributedPair == {"noisy_recovery", "smoldering_instability"}

IsCorrect4(result) ==
  IF result.scenario = "noisy_recovery" THEN Completes(result)
  ELSE CorrectCall(GroundTruth4, result)

\* _compute_selectivity_4
Selectivity4(results) ==
  LET correct == {r.scenario : r \in {x \in results : IsCorrect4(x)}}
  IN  [ overall |-> Cardinality(correct), easy |-> Cardinality(correct \cap EasyPair),
        hard |-> Cardinality(correct \cap DistributedPair) ]

\* main
Scenarios4 == <<NoisyRecovery, SmolderingInstability, RoughPatch(3), RunawayCascade>>
=============================================================================
