------------------------------ MODULE AgentGate ------------------------------
(***************************************************************************)
(* The agent-gate demo (agent_runtime/runner.py, run_agent_gate_scenario): *)
(* an agent walks through the plans of a scenario; each plan is scored for *)
(* tool risk (risk_model.py) and drift (drift_model.py), judged by the     *)
(* gate, cut down to a look when the gate says DEGRADE or RECOVER,         *)
(* executed and validated.  compare_agent_gate_scenario runs a scenario    *)
(* naive first, where the gate is asked and not obeyed, then with RNOS.    *)
(*                                                                         *)
(* A plan holds what the two scores see of it: its tool, the words of its  *)
(* text, its target and the target's first path component, what target and *)
(* command name, whether the command destroys and the description strays,  *)
(* and whether it is going to succeed.                                     *)
(***************************************************************************)
EXTENDS RnosBridge, SequencesExt

CONSTANTS
  GateScenarios   \* [name, plans, naive_max_steps, rnos_max_steps]

PlanTool == {"read", "run_tests", "edit_file", "network", "shell_command", "delete"}

ASSUME ScenariosAssumption ==
  \A s \in GateScenarios :
    /\ Len(s.plans) \in Nat /\ DOMAIN s.plans = 1 .. Len(s.plans)
    /\ \A i \in DOMAIN s.plans : s.plans[i].tool \in PlanTool /\ IsFiniteSet(s.plans[i].words)

VARIABLES
  scenario,
  mode,                \* "naive", then "rnos", then "compared"
  retry_count,
  validation_failures,
  previous_failures,
  previous_entropy,
  trace,               \* the StepTraces: the plan, what was made of it, its scores
  refusal_step,        \* 0 when there is none
  destructive_actions_prevented,
  result               \* the finished runs by mode

agentVars == <<retry_count, validation_failures, previous_failures, previous_entropy>>
gateRunVars == <<scenario, mode, agentVars, trace, refusal_step,
                 destructive_actions_prevented, result>>

GateRunInit(scenarios) ==
  /\ scenario \in scenarios
  /\ mode = "naive"
  /\ retry_count = 0
  /\ validation_failures = 0
  /\ previous_failures = None
  /\ previous_entropy = None
  /\ trace = << >>
  /\ refusal_step = 0
  /\ destructive_actions_prevented = 0
  /\ result = << >>
-----------------------------------------------------------------------------
\* The steps of this run that were executed, all but a refused one, which is the last:
\* attempts is their number.
Executed == IF refusal_step = 0 THEN trace ELSE SubSeq(trace, 1, Len(trace) - 1)
attempts == Len(Executed)

\* risk_model: _base_risk
BaseRisk(plan) ==
  CASE plan.tool = "read" -> 1000
    [] plan.tool = "run_tests" -> 2000
    [] plan.tool = "edit_file" -> 3000
    [] plan.tool = "network" -> 6000
    [] plan.tool = "shell_command" -> 7000
    [] plan.tool = "delete" -> 9000

\* estimate_blast_radius, of which 18 % count.
BlastRisk(plan) ==
  IF plan.tool = "delete" THEN 1800
  ELSE IF plan.names = "source" THEN 1080
  ELSE IF plan.names = "everything" THEN 1350
  ELSE IF plan.target # "" THEN 540
  ELSE IF plan.tool = "shell_command" THEN 900
  ELSE 180

Destructive(plan) == plan.destroys \/ plan.tool = "delete"

\* A risky tool, out of proportion to the last three.
Escalates(plan) ==
  /\ Executed # << >>
  /\ BaseRisk(plan) >= 6000
  /\ \A t \in ToSet(LastOf(Executed, 3)) : BaseRisk(plan) > t.tool_risk + 2000

\* assess_tool_risk
AgentRisk(plan) ==
  Lesser(10000, BaseRisk(plan) + BlastRisk(plan)
                  + If(Escalates(plan), 900) + If(Destructive(plan), 3000))

PastTargets == SelectSeq([i \in DOMAIN Executed |-> Executed[i].plan], LAMBDA p : p.target # "")

\* drift_model: _target_shift
TargetShift(plan) ==
  IF PastTargets = << >> \/ plan.target = "" THEN 0
  ELSE IF plan.target \in {p.target : p \in ToSet(LastOf(PastTargets, 2))} THEN 0
  ELSE IF plan.root \in {p.root : p \in ToSet(PastTargets)} THEN 2000
  ELSE 4000

\* _similarity of the plan to the one before, turned into drift.
WordDrift(plan) ==
  LET before == Last(Executed).plan.words
  IN  IF Executed = << >> \/ before \cup plan.words = {} THEN 0
      ELSE Rounded(3500 * Cardinality((before \cup plan.words) \ (before \cap plan.words)),
                   Cardinality(before \cup plan.words))

FailedEdits(plan) ==
  IF plan.tool # "edit_file" \/ plan.target = "" THEN 0
  ELSE Cardinality({i \in DOMAIN Executed : /\ Executed[i].plan.tool = "edit_file"
                                            /\ Executed[i].plan.target = plan.target
                                            /\ ~Executed[i].success})

\* assess_drift
AgentDrift(plan) ==
  Lesser(10000, WordDrift(plan) + TargetShift(plan)
                  + Lesser(1700 * FailedEdits(plan), 3500) + If(plan.strays, 2000))

\* _evaluate_gate
GateContext(plan) ==
  [ entropy |-> 0,
    retry_count |-> retry_count,
    drift_score |-> AgentDrift(plan),
    tool_risk |-> AgentRisk(plan),
    validation_failures |-> validation_failures,
    destructive_action |-> Destructive(plan),
    risk_escalation |-> Escalates(plan),
    malformed_output |-> FALSE,
    retry_limit |-> 2,
    previous_failures |-> previous_failures,
    previous_entropy |-> previous_entropy ]
-----------------------------------------------------------------------------
\* constrain_plan: a look at the target in the place of whatever was planned.  It is
\* expected to succeed, or fail, as the plan was.
ConstrainPlan(plan) ==
  IF plan.tool \in {"read", "run_tests"} THEN plan
  ELSE [plan EXCEPT !.tool = "read", !.destroys = FALSE]

\* ToolExecutor.execute and GateValidator.validate: nothing destructive is executed.
Succeeds(plan) == plan.succeeds /\ ~Destructive(plan)

Trace(plan, answer, executed, success, refused) ==
  [ plan |-> plan, executed |-> executed,
    decision |-> IF mode = "naive" THEN "ALLOW" ELSE answer.action,
    entropy |-> answer.entropy, tool_risk |-> AgentRisk(plan),
    drift |-> AgentDrift(plan), success |-> success, refused |-> refused ]

MaxStepsOf(m) ==
  IF m = "naive" THEN scenario.naive_max_steps ELSE scenario.rnos_max_steps

\* DeterministicScenarioAgent.plan, within the steps of the mode.
Planned ==
  /\ mode # "compared"
  /\ refusal_step = 0
  /\ Len(trace) < MaxStepsOf(mode)
  /\ attempts < Len(scenario.plans)

Plan == scenario.plans[attempts + 1]

\* The gate refuses, and is obeyed: break.
RefuseStep ==
  /\ Planned
  /\ mode = "rnos"
  /\ Gate(GateContext(Plan)).action = "REFUSE"
  /\ refusal_step' = Len(trace) + 1
  /\ destructive_actions_prevented' =
       destructive_actions_prevented + If(Destructive(Plan), 1)
  /\ trace' = Append(trace, Trace(Plan, Gate(GateContext(Plan)), "-", FALSE, TRUE))
  /\ UNCHANGED <<scenario, mode, agentVars, result>>

\* The plan is executed, or what is left of it, and _update_state.
ExecuteStep ==
  LET answer      == Gate(GateContext(Plan))
      constrained == mode = "rnos" /\ answer.action \in {"DEGRADE", "RECOVER"}
      executable  == IF constrained THEN ConstrainPlan(Plan) ELSE Plan
      success     == Succeeds(executable)
  IN  /\ Planned
      /\ mode = "naive" \/ answer.action # "REFUSE"
      /\ retry_count' = IF success THEN 0 ELSE retry_count + 1
      /\ validation_failures' = validation_failures + If(~success, 1)
      /\ previous_failures' = validation_failures
      /\ previous_entropy' = answer.entropy
      /\ trace' = Append(trace, Trace(Plan, answer, executable.tool, success, FALSE))
      /\ UNCHANGED <<scenario, mode, refusal_step, destructive_actions_prevented, result>>

\* The ModeRunResult is put together; naive is followed by a fresh run with RNOS.
FinishRun ==
  /\ mode # "compared"
  /\ ~Planned
  /\ result' = (mode :> [ trace |-> trace, attempts |-> attempts,
                          wasted |-> validation_failures, refusal_step |-> refusal_step,
                          prevented |-> destructive_actions_prevented ]) @@ result
  /\ mode' = IF mode = "naive" THEN "rnos" ELSE "compared"
  /\ retry_count' = 0
  /\ validation_failures' = 0
  /\ previous_failures' = None
  /\ previous_entropy' = None
  /\ trace' = << >>
  /\ refusal_step' = 0
  /\ destructive_actions_prevented' = 0
  /\ UNCHANGED scenario

GateRunNext == RefuseStep \/ ExecuteStep \/ FinishRun

GateRunSpec == GateRunInit(GateScenarios) /\ [][GateRunNext]_gateRunVars
-----------------------------------------------------------------------------
\* The gate goes easy on failures it calls recoverable and looks at the policy for the
\* rest, drift among them: drifting is no way around the limit of two retries.
DriftIsNoWayOut == mode = "rnos" => retry_count <= 2

=============================================================================
