----------------------------- MODULE Experiment6 -----------------------------
(***************************************************************************)
(* Experiment 6 (scripts/run_experiment_6.py on tools/accumulator_env.py): *)
(* a planner walks an accumulator confidently to the wrong fixed point,    *)
(* every call succeeding, under four modes; afterwards the trace is looked *)
(* at by the offline coherence analysis (analysis/coherence.py).           *)
(*                                                                         *)
(* Values are whole, latencies are milliseconds.                           *)
(***************************************************************************)
EXTENDS Hybrid, SequencesExt

CONSTANT Threshold6 \* degrade_entropy of the policy the criteria are about

Breaker == INSTANCE AdaptiveCircuitBreaker WITH
  WindowSize <- 10, InitialFailureRate <- 60, MinFailureRate <- 40, AdaptationStep <- 5,
  InitialCooldown <- 3, MaxCooldown <- 10, MaxTotalBlocked <- 20, acb <- 0, reply <- 0
-----------------------------------------------------------------------------
(* Coherence of a trace, a sequence of rows                                *)
(*   [step, decision, result, emitted, phase, failures, latency].          *)

Greatest(values) == LET m == Max(values \cup {0}) IN IF m > 0 THEN m ELSE 1

MaxFailuresOf(trace) == Greatest({trace[i].failures : i \in DOMAIN trace})
MaxLatencyOf(trace) == Greatest({trace[i].latency : i \in DOMAIN trace})

Unit(b) == IF b THEN 1 ELSE 0

Withheld(row) == row.decision \in {"BLOCKED", "STOPPED"}

\* Slip: whatever was withheld disagrees with the gate, intended or not.
GateAgreesStrictly(row) == ~Withheld(row)

\* s_pg: what the planner never intended cannot be withheld from it.
GateAgrees(row) == ~(Withheld(row) /\ row.emitted)

\* r_t in quarters: intention, gate, outcome, execution.
Agreement(row) ==
  Unit(row.emitted) + Unit(GateAgrees(row)) + Unit(row.result # "NONE")
    + Unit(row.decision = "EXECUTE")

PhasePressure(phase) == CASE phase = "stable" -> 0 [] phase = "unstable" -> 10 [] OTHER -> 20

\* H_t, in hundredths of the product of the two greatest values.
PressureAt(trace, i) ==
  LET row == trace[i]
      f   == MaxFailuresOf(trace)
      l   == MaxLatencyOf(trace)
  IN  35 * row.failures * l + 20 * row.latency * f
        + (PhasePressure(row.phase) + 25 * Unit(Withheld(row))) * f * l

\* Lambda_t = r_t / (1 + H_t) and its regime.
Regime(trace, i) ==
  LET whole  == MaxFailuresOf(trace) * MaxLatencyOf(trace)
      lambda == 2500 * Agreement(trace[i]) * whole \* against hundredths of 1 + H_t
      base   == 100 * whole + PressureAt(trace, i)
  IN  IF lambda > 45 * base THEN "resonant" ELSE IF lambda >= 20 * base THEN "critical"
      ELSE "collapse"

Indices(trace) == [i \in DOMAIN trace |-> i]

\* Does the run of rising pressure go on from the row before?
Rises(trace, i) ==
  LET row == trace[i]  previous == trace[i - 1]
  IN  /\ row.step = previous.step + 1
      /\ Agreement(previous) >= 3
      /\ PressureAt(trace, i) > PressureAt(trace, i - 1)
      /\ row.failures > previous.failures
      /\ row.phase # "stable" \/ previous.phase # "stable"

\* _find_synchronized_failure_run, as a pair of row numbers, << >> if there is none.
SynchronizedRun(trace) ==
  LET Look(search, i) ==
        IF search.run # << >> THEN search
        ELSE IF Agreement(trace[i]) < 3 THEN [search EXCEPT !.start = 0]
        ELSE IF search.start = 0 THEN [search EXCEPT !.start = i]
        ELSE IF Rises(trace, i) THEN [search EXCEPT !.run = <<search.start, i>>]
        ELSE [search EXCEPT !.start = i]
  IN  FoldLeft(Look, [start |-> 0, run |-> << >>], Indices(trace)).run

\* _longest_zero_r_run
LongestZeroRun(trace) ==
  LET Extends(i) == i > 1 /\ trace[i].step = trace[i - 1].step + 1
      Count(seen, i) ==
        IF Agreement(trace[i]) > 0 THEN [seen EXCEPT !.current = 0]
        ELSE LET current == IF Extends(i) THEN seen.current + 1 ELSE 1
             IN  [longest |-> Greater(seen.longest, current), current |-> current]
  IN  FoldLeft(Count, [longest |-> 0, current |-> 0], Indices(trace)).longest
-----------------------------------------------------------------------------
TCorrect == 10
TWrong == 0 - 10
BStar == 6
NSteps == 25

\* Slip: one tool is called over and over.
ToolAtSame(step) == "step_toward"

\* Two tools take turns.
ToolAt(step) == IF step % 2 = 1 THEN "step_toward" ELSE "add"

\* make_plan_step: from BStar on the planner makes for the wrong point; in variant B
\* it grows slow on the way and retries every third step.
PlanStep(step, variant, jitter) ==
  LET offset   == step - BStar
      friction == variant = "B" /\ offset >= 0
  IN  [ tool |-> ToolAt(step), target |-> IF offset < 0 THEN TCorrect ELSE TWrong,
        latency |-> IF friction THEN Lesser(20 + 80 * offset + jitter, 800) ELSE 20,
        retry_count |-> Unit(friction /\ offset % 3 = 2),
        phase |-> IF friction THEN "unstable" ELSE "stable" ]

Size(x) == Greater(x, 0 - x)

\* AccumulatorEnv.execute: two towards the target and not past it, or two added in its
\* direction; both are in range and succeed.
Accumulated(v, plan) ==
  LET diff == plan.target - v
      way  == IF plan.tool = "add" THEN plan.target ELSE diff
      size == IF plan.tool = "add" THEN 2 ELSE Lesser(Size(diff), 2)
  IN  IF way >= 0 THEN v + size ELSE v - size

DistanceToCorrect(v) == Size(v - TCorrect)

\* The locals of _run_accumulator; the draw of the latency is the same at every step.
NewRun6(variant, jitter) ==
  [ variant |-> variant, jitter |-> jitter, step |-> 0, over |-> FALSE, v |-> 0,
    history |-> NewHistory, latency |-> 0, calls |-> 0, cb |-> Breaker!NewBreaker,
    noted |-> << >>, trace |-> << >> ]

\* StepRecord, as far as the criteria and the observers look at it.
Record6(r, plan, executed, entropy, rnos, reason) ==
  [ step |-> r.step + 1, executed |-> executed, entropy |-> entropy, rnos |-> rnos,
    reason |-> reason, phase |-> plan.phase, latency |-> plan.latency ]

Candidate6(r, plan) ==
  [ tool |-> plan.tool, depth |-> 0, retry_count |-> plan.retry_count,
    latency |-> r.latency \div 2, cumulative_calls |-> r.calls ]

\* A step without a call; a refusal ends the run, a breaker that is open does not.
Withdrawn(r, record, ends) ==
  [r EXCEPT !.step = @ + 1, !.over = ends, !.trace = Append(@, record)]

\* The call, and what its controllers hear of it.
Called(r, plan, record) ==
  [r EXCEPT !.step = @ + 1, !.v = Accumulated(@, plan), !.latency = plan.latency,
            !.calls = @ + 1, !.trace = Append(@, record)]

BaselineStep6(r, plan) == Called(r, plan, Record6(r, plan, TRUE, 0, "none", ""))

RnosStep6(r, plan) ==
  LET c        == Candidate6(r, plan)
      decision == Evaluate(r.history, c)
      record   == Record6(r, plan, decision # "REFUSE", Entropy(r.history, c), decision, "")
  IN  IF decision = "REFUSE" THEN Withdrawn(r, record, TRUE)
      ELSE [Called(r, plan, record) EXCEPT !.history = Recorded(@, plan.tool, TRUE)]

BreakerStep6(r, plan) ==
  LET cb     == Breaker!ShouldExecute(Breaker!Ticked(r.cb))
      reason == Breaker!ReasonOf(cb)
      record == Record6(r, plan, Breaker!Allowed(reason), 0, "none", reason)
      asked  == [r EXCEPT !.cb = cb]
  IN  IF ~Breaker!Allowed(reason) THEN Withdrawn(asked, record, reason = "permanently_open")
      ELSE [Called(asked, plan, record) EXCEPT !.cb = Breaker!RecordResult(@, TRUE)]

\* HybridController.tick and evaluate.
Merged6(r, c) ==
  LET cb     == Breaker!ShouldExecute(Breaker!Ticked(r.cb))
      rnos   == Evaluate(r.history, c)
      noted  == Noted(r.noted, rnos)
  IN  [ cb |-> cb, noted |-> noted, rnos |-> rnos, entropy |-> Entropy(r.history, c),
        decision |-> Merge(rnos, Entropy(r.history, c), Breaker!ReasonOf(cb),
                           100 * Breaker!Failures(cb.window), Lambda(noted)).decision ]

\* HybridController.record_outcome
HybridHeard(r, tool, success) ==
  [r EXCEPT !.history = Recorded(@, tool, success), !.noted = Filled(@, success),
            !.cb = Breaker!RecordResult(@, success)]

HybridStep6(r, plan) ==
  LET merged == Merged6(r, Candidate6(r, plan))
      record == Record6(r, plan, merged.decision # "REFUSE", merged.entropy, merged.rnos,
                        Breaker!ReasonOf(merged.cb))
      asked  == [r EXCEPT !.cb = merged.cb, !.noted = merged.noted]
  IN  IF merged.decision = "REFUSE" THEN Withdrawn(asked, record, TRUE)
      ELSE HybridHeard(Called(asked, plan, record), plan.tool, TRUE)

\* One iteration of _run_accumulator.
Step6(mode, r) ==
  LET plan == PlanStep(r.step + 1, r.variant, r.jitter)
  IN  CASE mode = "baseline" -> BaselineStep6(r, plan) [] mode = "rnos" -> RnosStep6(r, plan)
        [] mode = "cb" -> BreakerStep6(r, plan)        [] mode = "hybrid" -> HybridStep6(r, plan)
-----------------------------------------------------------------------------
\* _attach_coherence: the trace as the coherence analysis is given it.
Rows(trace) ==
  [i \in DOMAIN trace |->
     [ step |-> trace[i].step, phase |-> trace[i].phase, latency |-> trace[i].latency,
       failures |-> 0, emitted |-> TRUE,
       decision |-> IF trace[i].executed THEN "EXECUTE"
                    ELSE IF trace[i].reason \in {"open_blocked", "permanently_open"}
                         THEN "BLOCKED" ELSE "STOPPED",
       result |-> IF trace[i].executed THEN "SUCCESS" ELSE "NONE" ]]

\* _compute_lambda_proxy_series: over the last eight calls; all of them succeeded.
ProxyAt(trace, i) ==
  LET calls == SelectSeq(SubSeq(trace, 1, i), LAMBDA record : record.executed)
      last  == LastOf(calls, CoherenceWindow)
  IN  Lambda([k \in DOMAIN last |->
               [allowed |-> last[k].rnos # "REFUSE", outcome |-> "success"]])

\* The first of a trace's entries at which a detector fires, as its step; 0 for never.
FirstStep(trace, entries) ==
  LET steps == {trace[i].step : i \in entries}
  IN  IF steps = {} THEN 0 ELSE Min(steps)

\* _evaluate_criteria: the step at which each detector fires first, 0 for never, and
\* whether the run has ended at the wrong point.
Criteria(r) ==
  LET rows   == Rows(r.trace)
      window == {i \in DOMAIN r.trace : r.trace[i].step >= BStar}
  IN  [ entropy   |-> FirstStep(r.trace, {i \in window : r.trace[i].entropy >= Threshold6}),
        cb        |-> FirstStep(r.trace, {i \in DOMAIN r.trace : rows[i].decision = "BLOCKED"}),
        coherence |-> FirstStep(r.trace, {i \in window : Regime(rows, i) # "resonant"}),
        lambda    |-> FirstStep(r.trace, {i \in window : ProxyAt(r.trace, i) < 450}),
        wrong     |-> 2 * DistanceToCorrect(r.v) > 1 ]
-----------------------------------------------------------------------------
\* _combo_refuse_fpr_check: a burst of five failures, then successes, under the merged
\* controller; how often it degrades and refuses after the burst is counted.
BurstLength == 5

NewBurst ==
  [ step |-> 0, over |-> FALSE, history |-> NewHistory, latency |-> 0, calls |-> 0, retries |-> 0,
    cb |-> Breaker!NewBreaker, noted |-> << >>, recovery_degrade |-> 0, recovery_refuse |-> 0 ]

Retried(retries, success) == IF success THEN 0 ELSE retries + 1

BurstStep(r) ==
  LET recovering == r.step + 1 > BurstLength
      latency    == IF recovering THEN 80 ELSE 400
      merged     == Merged6(r, [ tool |-> "burst_api", depth |-> 0, retry_count |-> r.retries,
                                 latency |-> r.latency \div 2, cumulative_calls |-> r.calls ])
      counted(decision) == Unit(recovering /\ merged.decision = decision)
      asked      == [r EXCEPT !.step = @ + 1, !.cb = merged.cb, !.noted = merged.noted,
                              !.over = merged.decision = "REFUSE",
                              !.recovery_degrade = @ + counted("DEGRADE"),
                              !.recovery_refuse = @ + counted("REFUSE")]
  IN  IF asked.over THEN asked
      ELSE [HybridHeard(asked, "burst_api", recovering) EXCEPT
              !.latency = latency, !.calls = @ + 1, !.retries = Retried(@, recovering)]
=============================================================================
