-------------------------- MODULE SmolderingShowcase --------------------------
(***************************************************************************)
(* experiments/smoldering_adversary_showcase: the same loop against an     *)
(* agent that never pushes hard.  Its controllers differ in the degrading  *)
(* threshold and in what a degraded action keeps: nothing at all where the *)
(* merged controller degrades because of the breaker.                      *)
(***************************************************************************)
EXTENDS AdversarialShowcase

\* Slip: a degraded probe is let through at a third, as in the other modes.
SmolderingClampKind(mode, decision, trigger, reason) ==
  IF decision = "REFUSE" THEN 0
  ELSE IF decision = "DEGRADE" THEN IF trigger = "cb" THEN 38 ELSE 60 ELSE 100

\* _clamp_factor
SmolderingClamp(mode, decision, trigger, reason) ==
  IF decision = "REFUSE" THEN 0
  ELSE IF mode = "cb" /\ reason = "half_open_probe" THEN 38
  ELSE IF decision = "DEGRADE"
       THEN IF mode = "hybrid" THEN IF trigger \in {"cb", "both"} THEN 0 ELSE 30
            ELSE IF trigger = "cb" THEN 42 ELSE IF trigger = "both" THEN 34 ELSE 60
  ELSE 100

\* SHOWCASE_POLICY and the loop
Smoldering == INSTANCE ShowcaseLoop WITH
  RefuseEntropy <- 10200, DegradeEntropy <- 7800, RefuseTrust <- 0 - 100, DegradeTrust <- 0 - 100,
  Latency <- 40, ClampFactor <- SmolderingClamp

SmolderingBudget == 30

\* phase_spans: eight steps to drift, at least, and the rest to smolder.
SmolderingPhase(step) ==
  LET quarter == SmolderingBudget \div 4
      blend   == IF quarter > 6 THEN quarter ELSE 6
      lean    == blend + (IF quarter > 7 THEN quarter ELSE 7)
      drift   == lean + (IF quarter > 8 THEN quarter ELSE 8)
  IN  IF step <= blend THEN "blend" ELSE IF step <= lean THEN "lean"
      ELSE IF step <= drift THEN "drift" ELSE "smolder"

\* The steps at which the agent pauses of its own accord or after a refusal.
SmolderingPauses(a, step) ==
  CASE SmolderingPhase(step) = "drift"   -> a.recent_refusals >= 1 /\ step % 2 = 0
    [] SmolderingPhase(step) = "smolder" -> a.recent_refusals >= 2 \/ step % 4 = 0
    [] OTHER -> FALSE

\* choose_action: from drift on the hidden service is a target, too.
SmolderingActions(a, step) ==
  IF SmolderingPauses(a, step) THEN {Cooldown}
  ELSE {Attack(target, 8) :
          target \in KnownTargets(a, SmolderingPhase(step) \in {"drift", "smolder"})}

\* observe
SmolderingObserved(a, action, r) == AdversarialObserved(a, action, r)

\* _run_mode
SmolderingRan(mode, r, action, success, step) == Smoldering!Ran(mode, r, action, success, step)
=============================================================================
