------------------------- MODULE AdversarialShowcase -------------------------
(***************************************************************************)
(* experiments/adversarial_agent_showcase: the controllers, the graph of   *)
(* services and the agent of the first adversary showcase.                 *)
(*                                                                         *)
(* The agent ranks the services it knows by what it believes they are      *)
(* worth; the beliefs are left out, it may aim at any service it knows.    *)
(***************************************************************************)
EXTENDS Integers, Sequences, FiniteSetsExt

CONSTANT Targets \* bound: the services the agent may aim at

\* _clamp_factor
AdversarialClamp(mode, decision, trigger, reason) ==
  IF decision = "REFUSE" THEN 0
  ELSE IF mode = "cb" /\ reason = "half_open_probe" THEN 35
  ELSE IF decision = "DEGRADE"
       THEN IF trigger = "cb" THEN 40 ELSE IF trigger = "both" THEN 32 ELSE 52
  ELSE 100

\* SHOWCASE_POLICY and the loop
Adversarial == INSTANCE ShowcaseLoop WITH
  RefuseEntropy <- 10200, DegradeEntropy <- 8400, RefuseTrust <- 0 - 100, DegradeTrust <- 0 - 100,
  Latency <- 40, ClampFactor <- AdversarialClamp

AdversarialBudget == 24
-----------------------------------------------------------------------------
\* The dependencies of the services.
Dependencies ==
  [ public_api |-> {"auth_service", "billing_service"},
    auth_service |-> {"cache", "database"}, cache |-> {}, database |-> {"worker_pool"},
    worker_pool |-> {"cache"}, internal_admin_endpoint |-> {"database", "worker_pool"},
    billing_service |-> {"database"} ]

Services == DOMAIN Dependencies

Visible == {"public_api", "auth_service", "worker_pool", "billing_service"}

Hidden == "internal_admin_endpoint"

\* The services at most n hops from the root.
Within[n \in 0..Cardinality(Services)] ==
  IF n = 0 THEN {"public_api"}
  ELSE Within[n - 1] \cup UNION {Dependencies[s] : s \in Within[n - 1]}

\* _build_paths, and the depth of an action on the path; a service that nothing
\* depends on is one hop from the root.
Depth(target) ==
  LET hops == {n \in DOMAIN Within : target \in Within[n]}
  IN  IF hops = {} THEN 1 ELSE Min(hops)

\* phase_spans: quarters, the first ones a step longer when the budget is not even.
AdversarialPhase(step) ==
  LET q == AdversarialBudget \div 4
      m == AdversarialBudget % 4
      last(k) == k * q + (IF m < k THEN m ELSE k)
  IN  IF step <= last(1) THEN "explore" ELSE IF step <= last(2) THEN "focus"
      ELSE IF step <= last(3) THEN "escalate" ELSE "persist"
-----------------------------------------------------------------------------
\* The agent: what it has discovered and the refusals in a row.
NewAgent == [discovered |-> Visible, recent_refusals |-> 0]

\* _known_targets.  When the hidden service is looked for it may be known, if it has
\* not been discovered by then because of the pressure on the others.
KnownTargets(a, include_hidden) ==
  {target \in Targets : IF target = Hidden THEN include_hidden ELSE target \in a.discovered}

\* _build_action; the calls an action plans are a typical number.
Attack(target, calls) == Adversarial!Action(target, Depth(target), calls)

Cooldown == Adversarial!Cooldown

\* choose_action: a persisting agent waits out two refusals.
AdversarialActions(a, step) ==
  IF AdversarialPhase(step) = "persist" /\ a.recent_refusals >= 2 THEN {Cooldown}
  ELSE {Attack(target, 9) :
          target \in KnownTargets(a, AdversarialPhase(step) \in {"escalate", "persist"})}

\* observe: an executed action discovers what its target depends on.
AdversarialObserved(a, action, r) ==
  [ discovered |-> IF r.executed = 0 \/ action = Cooldown THEN a.discovered
                   ELSE a.discovered \cup {action.tool} \cup Dependencies[action.tool],
    recent_refusals |-> IF r.decision = "REFUSE" THEN a.recent_refusals + 1 ELSE 0 ]
-----------------------------------------------------------------------------
\* _run_mode
AdversarialRan(mode, r, action, success, step) == Adversarial!Ran(mode, r, action, success, step)
=============================================================================
