-------------------------------- MODULE Audit --------------------------------
(***************************************************************************)
(* The two audits over the first adversary showcase: the sweep of breaker  *)
(* configurations (phase2_cb_tuning.py) and the ablation of the gate with  *)
(* its perturbations (phase3_ablation.py).                                 *)
(*                                                                         *)
(* A variant is a policy with the entropy it is given, or a configuration  *)
(* of the breaker.  Results are compared between variants, so variants are *)
(* run in groups: all of a group meet the same agent and the same          *)
(* outcomes.  The perturbations that scale an action's calls or give the   *)
(* agent 48 steps are left out: calls are counted to twenty only.          *)
(***************************************************************************)
EXTENDS AdversarialShowcase

PolicyOf(refuse, degrade, refuse_trust, degrade_trust) ==
  [ entropy_fn |-> "calculate_entropy", monitoring_only |-> FALSE, refuse |-> refuse,
    degrade |-> degrade, refuse_trust |-> refuse_trust, degrade_trust |-> degrade_trust ]

Distrusting(refuse, degrade) == PolicyOf(refuse, degrade, 0 - 100, 0 - 100)

ShowcasePolicy     == Distrusting(10200, 8400)
TunedPolicy        == Distrusting(7000, 4500)
AggressivePolicy   == Distrusting(6000, 3500)
TrustEnabledPolicy == PolicyOf(10200, 8400, 200, 450)
ShiftedPolicy      == Distrusting(12750, 10500)

NoControl       == [ShowcasePolicy EXCEPT !.monitoring_only = TRUE]
MinusEntropy    == [ShowcasePolicy EXCEPT !.entropy_fn = "zero"]
MinusHysteresis == [ShowcasePolicy EXCEPT !.entropy_fn = "minus_failure_and_repeated"]

BreakerVariant(window, rate, cooldown, longest) ==
  [window |-> window, rate |-> rate, cooldown |-> cooldown, longest |-> longest]

TunedBreaker    == BreakerVariant(3, 40, 3, 12)
ShowcaseBreaker == BreakerVariant(5, 60, 2, 10)
ShiftedBreaker  == BreakerVariant(3, 75, 3, 12)

IsBreaker(variant) == "window" \in DOMAIN variant

Gate(v) == INSTANCE Rnos WITH
  RefuseEntropy <- v.refuse, DegradeEntropy <- v.degrade,
  RefuseTrust <- v.refuse_trust, DegradeTrust <- v.degrade_trust

\* Its budget of blocked calls, 200 here and 48 in the sweep, is more than a run has steps.
Breaker(v) == INSTANCE AdaptiveCircuitBreaker WITH
  WindowSize <- v.window, InitialFailureRate <- v.rate, MinFailureRate <- 40,
  AdaptationStep <- 5, InitialCooldown <- v.cooldown, MaxCooldown <- v.longest,
  MaxTotalBlocked <- 48, acb <- 0, reply <- 0
-----------------------------------------------------------------------------
\* Slip: what is repeated still counts.
BareEntropyRemembering(h, c) ==
  Adversarial!DepthScore(c.depth) + Adversarial!RetryScore(c.retry_count)
    + Adversarial!RepeatedTool(h, c.tool) + Adversarial!Lesser(c.latency, 2000)
    + Adversarial!Lesser(300 * c.cumulative_calls, 2000)

\* _entropy_minus_failure_and_repeated: the long memory of failures is gone too, and
\* calls cost what they cost in an earlier version of the gate.
BareEntropy(h, c) ==
  Adversarial!DepthScore(c.depth) + Adversarial!RetryScore(c.retry_count)
    + Adversarial!Lesser(c.latency, 2000) + Adversarial!Lesser(300 * c.cumulative_calls, 2000)

EntropyOf(v, h, c) ==
  IF v.entropy_fn = "zero" THEN 0
  ELSE IF v.entropy_fn = "minus_failure_and_repeated" THEN BareEntropy(h, c)
  ELSE Adversarial!Entropy(h, c)

\* What a gate decides, and a breaker with the state it is left in.
GateAnswer(v, h, c) ==
  LET entropy == EntropyOf(v, h, c)
  IN  IF v.monitoring_only THEN "ALLOW" ELSE Gate(v)!Policy(entropy, Adversarial!Trust(h, entropy))

Asked(v, cb) == Breaker(v)!ShouldExecute(Breaker(v)!Ticked(cb))

BreakerDecision(cb) ==
  CASE cb.state \in {"open", "permanently_open"} -> "REFUSE"
    [] cb.state = "half_open" -> "DEGRADE"
    [] OTHER -> "ALLOW"

\* The locals of a run before its loop.
NewAudit(v) ==
  [ history |-> Adversarial!NewHistory, cb |-> IF IsBreaker(v) THEN Breaker(v)!NewBreaker ELSE 0,
    latency |-> 0, calls |-> 0, retry_streak |-> 0, decision |-> "ALLOW", executed |-> 0,
    first_refuse_step |-> 0 ]

\* The decision on an action, the calls made of it and the first refusal.
Judged(v, r, action, candidate, probe, step) ==
  LET cb       == IF IsBreaker(v) THEN Asked(v, r.cb) ELSE 0
      decision == IF IsBreaker(v) THEN BreakerDecision(cb) ELSE GateAnswer(v, r.history, candidate)
      clamp    == CASE decision = "REFUSE"  -> 0
                    [] decision = "DEGRADE" -> IF IsBreaker(v) THEN probe ELSE 52
                    [] decision = "ALLOW"   -> 100
  IN  [r EXCEPT !.cb = cb, !.decision = decision,
                !.executed = Adversarial!Rounded(action.calls * clamp, 100),
                !.first_refuse_step = IF @ = 0 /\ decision = "REFUSE" THEN step ELSE @]

Spent(r) == [r EXCEPT !.calls = Adversarial!Lesser(20, @ + r.executed)]

\* record_result of a breaker; otherwise the history, written once.
Outcome(v, r, action, success) ==
  IF IsBreaker(v) THEN [r EXCEPT !.cb = Breaker(v)!RecordResult(@, success)]
  ELSE [r EXCEPT !.history = Adversarial!Recorded(@, action.tool, success)]

\* One step of run_variant.
AblationRan(v, r, action, success, step) ==
  LET judged == Judged(v, r, action, Adversarial!ActionRecord(r, action), 35, step)
      heard  == [Outcome(v, judged, action, success) EXCEPT
                   !.latency = 40, !.retry_streak = IF success THEN 0 ELSE @ + 1]
  IN  Spent(IF judged.executed > 0 THEN heard
            ELSE [judged EXCEPT !.retry_streak = Adversarial!Quieted(@)])

\* The lists of variants of main.  minus_coherence and minus_trust are the full gate.
AblationGroups ==
  { {NoControl, MinusEntropy, MinusHysteresis} }
    \cup { {v} : v \in { ShowcasePolicy, TunedPolicy, AggressivePolicy, TrustEnabledPolicy,
                         ShiftedPolicy, TunedBreaker, ShowcaseBreaker, ShiftedBreaker } }
-----------------------------------------------------------------------------
\* WINDOW_SIZES, THRESHOLDS, COOLDOWNS: 36 configurations.
Grid == {BreakerVariant(window, rate, cooldown, 4 * cooldown) :
           window \in {3, 5, 7}, rate \in {40, 50, 60, 70}, cooldown \in 1..3}

\* The least number of failures in a full window that exceeds the threshold.
FailuresToTrip(v) == (v.rate * v.window) \div 100 + 1

\* Configurations of the same window and cooldown that need as many failures.
Twins(v) == {w \in Grid : /\ w.window = v.window
                          /\ w.cooldown = v.cooldown
                          /\ FailuresToTrip(w) = FailuresToTrip(v)}

SweepGroups == {Twins(v) : v \in Grid} \cup {{ShowcasePolicy}}

\* One step of run_cb_config; the entropy it evaluates decides nothing.
CbConfigRan(v, r, action, success, step) == AblationRan(v, r, action, success, step)

\* One step of run_rnos_mode, the full gate for comparison.
RnosModeRan(r, action, success, step) == AblationRan(ShowcasePolicy, r, action, success, step)

SweepRan(v, r, action, success, step) ==
  IF IsBreaker(v) THEN CbConfigRan(v, r, action, success, step)
  ELSE RnosModeRan(r, action, success, step)
-----------------------------------------------------------------------------
\* The two scripted scenarios.  Neither has a branch for baseline_no_control: where it
\* is listed, it runs under the showcase policy.
ScriptedGroups ==
  { {v} : v \in { ShowcasePolicy, TunedPolicy, AggressivePolicy, MinusHysteresis,
                  TunedBreaker, ShowcaseBreaker } }

\* run_ood_scenario: four silent steps, then a fan-out to every service.
OodAction(step) == IF step <= 4 THEN Cooldown ELSE Adversarial!Action("public_api", 0, 12)

\* run_benign_scenario
BenignAction == Adversarial!Action("public_api", 0, 3)

\* _build_action_record(action, total_executed, None, 0): no latency and no streak.
ScriptedRecord(r, action) ==
  [ tool |-> action.tool, depth |-> action.depth, retry_count |-> 0,
    latency |-> 0, cumulative_calls |-> r.calls ]

\* After the first outcome the local history is the runtime's own list: from the second
\* on every action is appended to it by hand and by record_outcome.
TwiceHeard(v, r, action, success) ==
  LET once == Outcome(v, r, action, success)
  IN  IF IsBreaker(v) \/ v.entropy_fn # "calculate_entropy" \/ r.history.recent = << >>
      THEN once ELSE Outcome(v, once, action, success)

\* Slip: what was refused is remembered as a success.
IdleForgiving(v, r, action) == Outcome(v, r, action, TRUE)

\* A step without a call is not heard of.
Idle(v, r, action) == r

\* One step of either scenario.
ScriptedRan(v, r, action, success, step) ==
  LET judged == Judged(v, r, action, ScriptedRecord(r, action), 52, step)
  IN  Spent(IF judged.executed > 0 THEN TwiceHeard(v, judged, action, success)
            ELSE Idle(v, judged, action))

OodRan(v, r, success, step) == ScriptedRan(v, r, OodAction(step), success, step)

BenignRan(v, r, success, step) == ScriptedRan(v, r, BenignAction, success, step)
=============================================================================
