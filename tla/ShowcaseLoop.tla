---------------------------- MODULE ShowcaseLoop ----------------------------
(***************************************************************************)
(* The loop both adversary showcases run (_run_mode): an agent plans an    *)
(* action, the mode's controller answers, what the answer leaves of the    *)
(* action is applied to a simulated graph of services, and the outcome is  *)
(* heard by whoever controls.  A refusal does not end the run.             *)
(*                                                                         *)
(* The graph's heat, debt and damage decide whether a step succeeds; here  *)
(* the environment does.  Latencies stay the same, and a call past the     *)
(* twentieth adds nothing to the entropy: calls are counted to twenty.     *)
(* The entropy that the other two modes only report is left out.           *)
(***************************************************************************)
EXTENDS Hybrid

CONSTANTS
  Latency,            \* of every step, in points per thousand
  ClampFactor(_,_,_,_) \* what is left of an action, in hundredths

Breaker == INSTANCE AdaptiveCircuitBreaker WITH
  WindowSize <- 5, InitialFailureRate <- 60, MinFailureRate <- 40, AdaptationStep <- 5,
  InitialCooldown <- 2, MaxCooldown <- 10, MaxTotalBlocked <- 20, acb <- 0, reply <- 0

Modes == {"baseline", "rnos", "cb", "hybrid"}

\* SyntheticAction, as far as a controller or the loop looks at it.
Action(tool, depth, calls) == [tool |-> tool, depth |-> depth, calls |-> calls]

\* The agent's pause: one call at the front door.
Cooldown == Action("public_api", 0, 1)

\* The locals of _run_mode before its loop; 0 for a step that has not come.
NewRun ==
  [ history |-> NewHistory, latency |-> 0, calls |-> 0, retry_streak |-> 0,
    cb |-> Breaker!NewBreaker, records |-> << >>, observed |-> << >>, observed_trip |-> 0,
    first_refusal_step |-> 0, actual_cb_trip_step |-> 0, decision |-> "ALLOW", executed |-> 0 ]

\* _build_action_record
ActionRecord(r, action) ==
  [ tool |-> action.tool, depth |-> action.depth, retry_count |-> r.retry_streak,
    latency |-> r.latency, cumulative_calls |-> r.calls ]

Answer(decision, trigger, reason, cb, records) ==
  [decision |-> decision, trigger |-> trigger, reason |-> reason, cb |-> cb, records |-> records]

\* The breaker alone: a probe is a degraded step.
BreakerAnswer(r) ==
  LET cb     == Breaker!ShouldExecute(Breaker!Ticked(r.cb))
      reason == Breaker!ReasonOf(cb)
  IN  Answer(IF ~Breaker!Allowed(reason) THEN "REFUSE"
             ELSE IF reason = "half_open_probe" THEN "DEGRADE" ELSE "ALLOW",
             IF reason = "closed" THEN "none" ELSE "cb", reason, cb, r.records)

RnosAnswer(r, action) ==
  LET decision == Evaluate(r.history, ActionRecord(r, action))
  IN  Answer(decision, IF decision = "ALLOW" THEN "none" ELSE "rnos", "", r.cb, r.records)

HybridAnswer(r, action) ==
  LET record  == ActionRecord(r, action)
      cb      == Breaker!ShouldExecute(Breaker!Ticked(r.cb))
      rnos    == Evaluate(r.history, record)
      records == Noted(r.records, rnos)
      merged  == Merge(rnos, Entropy(r.history, record), Breaker!ReasonOf(cb),
                       200 * Breaker!Failures(cb.window), Lambda(records))
  IN  Answer(merged.decision, IF merged.decision = "ALLOW" THEN "none" ELSE merged.trigger,
             Breaker!ReasonOf(cb), cb, records)

AnswerOf(mode, r, action) ==
  CASE mode = "baseline" -> Answer("ALLOW", "none", "", r.cb, r.records)
    [] mode = "rnos"     -> RnosAnswer(r, action)
    [] mode = "cb"       -> BreakerAnswer(r)
    [] mode = "hybrid"   -> HybridAnswer(r, action)

\* apply_action: how many of the planned calls are made.
ExecutedCalls(mode, action, answer) ==
  Rounded(action.calls * ClampFactor(mode, answer.decision, answer.trigger, answer.reason), 100)

\* Slip: the observer is as quick as a window that exceeds nothing.
TrippingAtOnce(window) == Len(window) = 5 /\ Breaker!Failures(window) >= 3

\* FailureDensityObserver.record: a full window of five, more than 60% of it failures.
Tripping(window) == Len(window) = 5 /\ Breaker!Failures(window) > 3

\* Slip: a step that was held back leaves the streak as it is.
QuietedNever(retry_streak) == retry_streak

\* A step without a call lets the streak of failures fade.
Quieted(retry_streak) == Greater(0, retry_streak - 1)

\* What everyone hears of an executed step.
Heard(mode, r, action, success, step) ==
  LET observed == LastOf(Append(r.observed, success), 5)
  IN  [r EXCEPT
         !.history  = IF mode \in {"rnos", "hybrid"} THEN Recorded(@, action.tool, success) ELSE @,
         !.latency  = Latency,
         !.cb       = IF mode \in {"cb", "hybrid"} THEN Breaker!RecordResult(@, success) ELSE @,
         !.records  = IF mode = "hybrid" THEN Filled(@, success) ELSE @,
         !.observed = observed,
         !.observed_trip = IF @ = 0 /\ Tripping(observed) THEN step ELSE @,
         !.retry_streak  = IF success THEN 0 ELSE @ + 1]

Blocked == {"open_blocked", "permanently_open"}

\* The answer and what is left of the action.
Asked(mode, r, action, answer, step) ==
  [r EXCEPT
     !.cb = answer.cb, !.records = answer.records, !.decision = answer.decision,
     !.executed = ExecutedCalls(mode, action, answer),
     !.first_refusal_step = IF @ = 0 /\ answer.decision = "REFUSE" THEN step ELSE @,
     !.actual_cb_trip_step = IF @ = 0 /\ answer.reason \in Blocked THEN step ELSE @]

\* A step without a call is heard of by nobody.
Settled(mode, r, action, success, step) ==
  IF r.executed > 0 THEN Heard(mode, r, action, success, step)
  ELSE [r EXCEPT !.retry_streak = Quieted(@)]

Counted(r) == [r EXCEPT !.calls = Lesser(20, @ + r.executed)]

\* One step of _run_mode.
Ran(mode, r, action, success, step) ==
  Counted(Settled(mode, Asked(mode, r, action, AnswerOf(mode, r, action), step),
                  action, success, step))

\* ModeResult.first_cb_trip_step
FirstTrip(r) == IF r.actual_cb_trip_step # 0 THEN r.actual_cb_trip_step ELSE r.observed_trip
=============================================================================
