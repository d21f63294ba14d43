----------------------------- MODULE Experiment5 -----------------------------
(***************************************************************************)
(* experiments/experiment_5_hybrid/run_experiment_5.py and the modes of    *)
(* scripts/run_comparison.py: the same scenarios under no control, RNOS,   *)
(* a breaker with a window of ten, and both merged.  Here the breaker's    *)
(* first block ends the run; the comparison goes on past it.               *)
(***************************************************************************)
EXTENDS Experiment3

\* _make_acb
Large == INSTANCE AdaptiveCircuitBreaker WITH
  WindowSize <- 10, InitialFailureRate <- 60, MinFailureRate <- 40, AdaptationStep <- 5,
  InitialCooldown <- 3, MaxCooldown <- 10, MaxTotalBlocked <- 20, acb <- 0, reply <- 0

\* The locals of a runner before its loop, those of the merged controller among them.
NewRun5 ==
  [ step |-> 0, steps_executed |-> 0, total_failures |-> 0, retry_count |-> 0, prev_latency |-> 0,
    first_intervention_step |-> 0, first_intervention_type |-> "none", final_state |-> "running",
    step_log |-> << >>, entropy_trajectory |-> << >>, history |-> NewHistory,
    cb |-> Large!NewBreaker, records |-> << >>, trigger |-> "none", lambda |-> 1000 ]

\* _run_baseline and _run_rnos are experiment 2's loops; the refused step is logged.
BaselineStep5(r, success, latency) == BaselineStep(r, success, latency)

RnosStep5(r, success, latency) ==
  LET next == RnosStep(r, success, latency)
  IN  IF Over(next) THEN [next EXCEPT !.step_log = Append(@, Entry(next, FALSE, FALSE, 0))]
      ELSE next

\* _run_cb: "blocked" is the only kind of intervention, and it is the end.
BreakerStep5(r, success, latency) ==
  LET cb     == Large!ShouldExecute(Large!Ticked(r.cb))
      reason == Large!ReasonOf(cb)
      asked  == [r EXCEPT !.step = @ + 1, !.cb = cb]
  IN  IF Large!Allowed(reason)
      THEN [Called(asked, success, latency) EXCEPT
              !.cb = Large!RecordResult(cb, success),
              !.step_log = Append(@, Entry(asked, TRUE, success, latency))]
      ELSE [Intervened(asked, "blocked") EXCEPT
              !.final_state = IF reason = "permanently_open" THEN "permanently_open"
                              ELSE "cb_blocked",
              !.step_log = Append(@, Entry(asked, FALSE, FALSE, 0))]

\* stats["failure_rate"]: over the size of the window, however full it is.
BreakerRate(cb) == Rounded(1000 * Large!Failures(cb.window), 10)

\* HybridController.evaluate on a run: the decision, the breaker and the records.
HybridAnswer(r) ==
  LET action  == ActionOf(r)
      cb      == Large!ShouldExecute(Large!Ticked(r.cb))
      rnos    == Evaluate(r.history, action)
      records == Noted(r.records, rnos)
  IN  [ cb |-> cb, records |-> records,
        merged |-> Merge(rnos, Entropy(r.history, action), Large!ReasonOf(cb), BreakerRate(cb),
                         Lambda(records)) ]

\* Slip: only what RNOS says counts.
HybridStepAlone(r, success, latency) == RnosStep(r, success, latency)

\* _run_hybrid: tick, evaluate, and unless refused the call, heard by both.
HybridStep(r, success, latency) ==
  LET answer == HybridAnswer(r)
      merged == answer.merged
      asked  == [r EXCEPT !.step = @ + 1, !.cb = answer.cb, !.records = answer.records,
                          !.lambda = merged.lambda]
      first  == [Intervened(asked, merged.decision) EXCEPT
                   !.trigger = IF r.first_intervention_step = 0 THEN merged.trigger ELSE @]
      seen   == IF merged.decision = "ALLOW" THEN asked ELSE first
  IN  IF merged.decision = "REFUSE"
      THEN [seen EXCEPT !.final_state = "refused",
                        !.step_log = Append(@, Entry(seen, FALSE, FALSE, 0))]
      ELSE [Called(seen, success, latency) EXCEPT
              !.history = Recorded(r.history, Tool, success),
              !.cb = Large!RecordResult(answer.cb, success),
              !.records = Filled(answer.records, success),
              !.step_log = Append(@, Entry(seen, TRUE, success, latency))]
-----------------------------------------------------------------------------
\* The comparison's breaker mode: a blocked step is skipped, a probe is an intervention.
ComparedBreakerStep(r, success, latency) ==
  LET cb     == Large!ShouldExecute(Large!Ticked(r.cb))
      reason == Large!ReasonOf(cb)
      asked  == [r EXCEPT !.step = @ + 1, !.cb = cb]
      seen   == IF reason = "closed" THEN asked ELSE Intervened(asked, reason)
  IN  IF Large!Allowed(reason)
      THEN [Called(seen, success, latency) EXCEPT !.cb = Large!RecordResult(cb, success)]
      ELSE [seen EXCEPT !.final_state =
                          IF reason = "permanently_open" THEN "stopped" ELSE "running"]

\* _run_one_mode, one iteration of its loop.
OneModeStep(mode, r, success, latency) ==
  CASE mode = "baseline"    -> BaselineStep(r, success, latency)
    [] mode = "rnos"        -> RnosStep(r, success, latency)
    [] mode = "adaptive_cb" -> ComparedBreakerStep(r, success, latency)
    [] mode = "hybrid"      -> HybridStep(r, success, latency)

\* productive_successes >= productive_goal, for a scenario that has a goal.
TaskCompleted(api, r) ==
  api.productive_goal > 0 /\ r.steps_executed - r.total_failures >= api.productive_goal

\* net_value in thousandths of a dollar: a completed task is worth 1, a step of the
\* loop, blocked ones too, costs 500 tokens at 0.01 per thousand.
NetValue(api, r) == (IF TaskCompleted(api, r) THEN 1000 ELSE 0) - 5 * r.step

\* main of run_experiment_5.py, and of run_comparison.py once per seed.
Scenarios5 == <<CascadingBurst, DistributedLowRate>>
ComparedScenarios ==
  <<DistributedLowRate, CascadingBurst, FanoutCascade, RecoverableBurst, Benign>>
=============================================================================
