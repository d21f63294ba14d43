------------------------------- MODULE RealRun -------------------------------
(***************************************************************************)
(* The gated editing loop of agent_runtime/real_loop (run_real_scenario of *)
(* real_runner.py): an agent proposes plans for a sandbox repository, each *)
(* is dry-run and judged by the gate, executed as it is, as an inspection  *)
(* or cut down, and followed by the tests; at the end, however it comes,   *)
(* the sandbox is rolled back.                                             *)
(*                                                                         *)
(* A plan is a record of what the loop sees of it, so the plan is its own  *)
(* text.  The agent and the effect of a patch on the tests are the         *)
(* environment.  A patch that the loop cuts down keeps its report: only    *)
(* unrisky single-file patches get that far.                               *)
(***************************************************************************)
EXTENDS RnosBridge, SequencesExt

CONSTANTS
  Plans,        \* [action, target, files, lines, destructive, failure_type]
  Readable,     \* the files of the sandbox
  TextDrift,    \* drift score between two different plan texts
  Modes,        \* the modes looked at: "naive", "rnos"
  MaxFailures,  \* the most tests that can fail
  MaxSteps      \* naive_max_steps, rnos_max_steps

ASSUME RealRunAssumption ==
  /\ Modes \subseteq {"naive", "rnos"}
  /\ TextDrift \in 0..2000
  /\ MaxFailures \in Nat \ {0}
  /\ MaxSteps \in Nat

ASSUME PlanAssumption ==
  Plans \subseteq [ action : STRING, target : STRING, files : Nat, lines : Nat,
                    destructive : BOOLEAN, failure_type : STRING ]

RetryLimit == 2
Edits == {"edit_file", "apply_patch"}

VARIABLES
  pc,                  \* "plan", "finally", "returned" or "raised"
  mode,
  raising,             \* an exception is on its way through finally
  plan_texts,          \* the plans executed so far; targets and last_actions are theirs
  retry_count,
  validation_failures,
  previous_failures,
  previous_entropy,
  retry_budget,
  prev_failures,
  risk_scores,         \* the last three
  decision,            \* the latest answer of the gate, "none" before the first
  refusal,             \* why the run was refused, "none" if it was not
  logged,              \* the event log has been saved
  failing,             \* environment: tests the repository fails now
  dirty,               \* the repository differs from the baseline
  danger_applied       \* history: a large or destructive patch was applied

gateVars == <<retry_count, validation_failures, previous_failures, previous_entropy,
              retry_budget, prev_failures, risk_scores>>
repoVars == <<failing, dirty, danger_applied>>
realVars == <<pc, mode, raising, plan_texts, gateVars, decision, refusal, logged, repoVars>>

RealInit ==
  /\ pc = "plan"
  /\ mode \in Modes
  /\ raising = FALSE
  /\ plan_texts = << >>
  /\ retry_count = 0
  /\ validation_failures = 0
  /\ previous_failures = None
  /\ previous_entropy = None
  /\ retry_budget = RetryLimit
  /\ prev_failures = None
  /\ risk_scores = << >>
  /\ decision = "none"
  /\ refusal = "none"
  /\ logged = FALSE
  /\ failing \in 0..MaxFailures
  /\ dirty = FALSE
  /\ danger_applied = FALSE
-----------------------------------------------------------------------------
\* PatchReport: the flags that follow from the counts.  A patch whose dry run fails
\* changes no line and is risky: a dry run never looks at the anchors, the one
\* failure that is not.
Large(p) == p.lines > 30
MultiFile(p) == p.files > 1
Risky(p) == Large(p) \/ MultiFile(p) \/ p.destructive \/ p.failure_type # ""

Report(files, lines) ==
  [files |-> files, lines |-> lines, destructive |-> FALSE, failure_type |-> ""]

NoReport == Report(0, 0)

\* _tool_risk of a plan with the given report.
ToolRisk(plan, report) ==
  IF plan.action \in Edits
  THEN Lesser(10000,
         3000 + Lesser(50 * report.lines, 2500) + If(MultiFile(report), 2000)
              + If(Large(report), 2500) + If(report.destructive, 3000))
  ELSE IF plan.action = "read_file" THEN 1000 ELSE 2000

Targets == SelectSeq([i \in DOMAIN plan_texts |-> plan_texts[i].target], LAMBDA t : t # "")

\* _drift_score
Drift(plan) ==
  IF plan_texts = << >> THEN 0
  ELSE If(Last(plan_texts) # plan, TextDrift)
         + If(/\ plan.target # "" /\ Targets # << >>
              /\ plan.target \notin ToSet(LastOf(Targets, 2)), 2500)

\* _blast_radius
BlastRadius(plan) ==
  IF plan.files = 0 THEN 1000 ELSE Lesser(10000, 2000 * plan.files + 80 * plan.lines)

Malformed(plan) ==
  \/ plan.failure_type = "malformed_output"
  \/ Risky(plan) /\ ~Large(plan) /\ plan.lines = 0

\* How often the plan was executed before, and what RealRNOSGate adds to that.
ContextEntropy(plan) ==
  LET repeated == Cardinality({i \in DOMAIN plan_texts : plan_texts[i] = plan})
  IN  Lesser(250000 * repeated, 750000) + Lesser(35000 * plan.files, 140000)
        + Lesser(3000 * plan.lines, 180000) + Lesser(12 * BlastRadius(plan), 120000)

Destructive(plan) ==
  plan.destructive \/ (Risky(plan) /\ ToolRisk(plan, plan) >= 9000 /\ ~Malformed(plan))

Escalates(plan) ==
  /\ risk_scores # << >>
  /\ ToolRisk(plan, plan) >= 6000
  /\ \A r \in ToSet(risk_scores) : ToolRisk(plan, plan) > r + 2000

\* _build_context
Context(plan) ==
  [ entropy |-> ContextEntropy(plan),
    retry_count |-> retry_count,
    drift_score |-> Drift(plan),
    tool_risk |-> ToolRisk(plan, plan),
    validation_failures |-> validation_failures,
    previous_failures |-> previous_failures,
    previous_entropy |-> previous_entropy,
    retry_limit |-> RetryLimit,
    malformed_output |-> Malformed(plan),
    destructive_action |-> Destructive(plan),
    risk_escalation |-> Escalates(plan) ]

Signature(plan) == <<plan.action, plan.target>>

\* _repeat_refusal
RepeatRefused(plan) ==
  /\ validation_failures > 0
  /\ retry_budget <= 0
  /\ Len(plan_texts) >= 2
  /\ \A i \in {Len(plan_texts) - 1, Len(plan_texts)} :
       Signature(plan_texts[i]) = Signature(plan)
-----------------------------------------------------------------------------
Inspection(target) ==
  [ action |-> "read_file", target |-> target, files |-> 0, lines |-> 0,
    destructive |-> FALSE, failure_type |-> "" ]

\* _constrain_plan
Constrained(plan) == IF plan.action \in Edits THEN Inspection(plan.target) ELSE plan

OriginalTarget(plan) == IF Targets = << >> THEN plan.target ELSE Targets[1]

\* Slip: a recovery runs the plan as it is.
RecoveredAsIs(plan) == plan

\* _recover_plan: a risky or stray edit becomes a look at the first target; the rest of
\* the edits aim at that target already.
Recovered(plan) ==
  LET original == OriginalTarget(plan)
  IN  IF plan.action \notin Edits THEN plan
      ELSE IF Risky(plan) \/ (original # "" /\ plan.target # original)
      THEN Inspection(original)
      ELSE plan

\* What is executed for a plan that is not refused.
Executable(plan, action) ==
  IF mode = "naive" THEN plan
  ELSE IF action = "DEGRADE" THEN Constrained(plan)
  ELSE IF action = "RECOVER" THEN Recovered(plan)
  ELSE plan

\* The reason the run is refused on this plan, or "none".
RefusalOf(plan, answer) ==
  IF mode = "naive" THEN "none"
  ELSE IF RepeatRefused(plan) THEN "repeating identical action"
  ELSE IF answer.action = "REFUSE" THEN "gate"
  ELSE IF answer.action = "RECOVER" /\ retry_budget <= 0 THEN "no improvement"
  ELSE "none"

\* _update_retry_budget
BudgetAfter(failures, failure_type) ==
  IF prev_failures = None THEN RetryLimit
  ELSE IF failure_type = "malformed_output" /\ failures >= prev_failures THEN retry_budget
  ELSE IF failures < prev_failures THEN retry_budget + 1
  ELSE IF failures = prev_failures THEN retry_budget - 1
  ELSE 0

Retried(failures) == IF failures = 0 THEN 0 ELSE retry_count + 1

\* _update_state, after a step whose tests counted so many failures.
UpdateState(plan, report, failures, answer) ==
  /\ retry_count' = Retried(failures)
  /\ validation_failures' = validation_failures + If(failures > 0, 1)
  /\ previous_failures' = validation_failures
  /\ previous_entropy' = answer.entropy
  /\ retry_budget' = BudgetAfter(failures, answer.failure_type)
  /\ prev_failures' = IF failures = 0 /\ prev_failures = None THEN None ELSE failures
  /\ risk_scores' = LastOf(Append(risk_scores, ToolRisk(plan, report)), 3)
  /\ plan_texts' = Append(plan_texts, plan)
-----------------------------------------------------------------------------
\* The sandbox as it is after the tests ran on it, unchanged.
Looked(plan, answer) ==
  /\ UpdateState(plan, NoReport, failing, answer)
  /\ UNCHANGED repoVars

\* The patch went in, as the diff says or as line edits: the tests may do anything.
Applied(plan, executable, answer) ==
  \E report \in {executable, Report(1, 1)} :
    /\ report # executable =>
         /\ executable.target # "" /\ ~MultiFile(executable)
         /\ executable.target \in Readable \/ dirty
    /\ failing' \in 0..MaxFailures
    /\ dirty' = TRUE
    /\ danger_applied' = (danger_applied \/ Large(report) \/ report.destructive)
    /\ UpdateState(plan, report, failing', answer)

\* The patch was rejected, which counts as one failure whatever the tests say.  The
\* files before the one that did not match have been written.
Rejected(plan, executable, answer) ==
  /\ UpdateState(plan, NoReport, 1, answer)
  /\ UNCHANGED danger_applied
  /\ IF MultiFile(executable) THEN dirty' \in {dirty, TRUE} /\ failing' \in 0..MaxFailures
     ELSE UNCHANGED <<dirty, failing>>

\* A step that is executed, down to the update of the state.
Execute(plan) ==
  LET answer     == Gate(Context(plan))
      executable == Executable(plan, answer.action)
  IN  /\ pc = "plan"
      /\ Len(plan_texts) < MaxSteps
      /\ RefusalOf(plan, answer) = "none"
      /\ executable.action = "read_file" => executable.target \in Readable \/ dirty
      /\ decision' = answer.action
      /\ IF executable.action \in Edits
         THEN Applied(plan, executable, answer) \/ Rejected(plan, executable, answer)
         ELSE Looked(plan, answer)
      /\ UNCHANGED <<pc, mode, raising, refusal, logged>>

\* Reading a file that is not there raises, out of the loop: a look, or the fallback for a
\* patch that did not match, which may have written the files before.
ReadRaises(plan) ==
  LET answer     == Gate(Context(plan))
      executable == Executable(plan, answer.action)
  IN  /\ pc = "plan"
      /\ Len(plan_texts) < MaxSteps
      /\ RefusalOf(plan, answer) = "none"
      /\ executable.target \notin Readable \/ danger_applied
      /\ executable.action \in Edits => executable.target # ""
      /\ executable.action \in Edits \cup {"read_file"}
      /\ IF executable.action \in Edits /\ MultiFile(executable) THEN dirty' \in {dirty, TRUE}
         ELSE UNCHANGED dirty
      /\ decision' = answer.action
      /\ raising' = TRUE
      /\ pc' = "finally"
      /\ UNCHANGED <<mode, plan_texts, gateVars, refusal, logged, failing, danger_applied>>

\* The gate, the repetition or the budget refuses: break.
Refuse(plan) ==
  LET answer == Gate(Context(plan))
  IN  /\ pc = "plan"
      /\ Len(plan_texts) < MaxSteps
      /\ RefusalOf(plan, answer) # "none"
      /\ refusal' = RefusalOf(plan, answer)
      /\ decision' = "REFUSE"
      /\ pc' = "finally"
      /\ UNCHANGED <<mode, raising, plan_texts, gateVars, logged, repoVars>>

\* The agent raises instead of planning: refused, in either mode.
PlannerFails ==
  /\ pc = "plan"
  /\ Len(plan_texts) < MaxSteps
  /\ refusal' = "planner"
  /\ decision' = "REFUSE"
  /\ pc' = "finally"
  /\ UNCHANGED <<mode, raising, plan_texts, gateVars, logged, repoVars>>

\* The agent is done, or the steps are used up.
Finish ==
  /\ pc = "plan"
  /\ pc' = "finally"
  /\ UNCHANGED <<mode, raising, plan_texts, gateVars, decision, refusal, logged, repoVars>>

\* Slip: the rollback is not in the finally block.
RollbackIfReturned(d) == IF raising THEN d ELSE FALSE

Rollback(d) == FALSE

\* The rollback; then the log is saved and the result returned, or the exception
\* goes on its way.
Finally ==
  /\ pc = "finally"
  /\ dirty' = Rollback(dirty)
  /\ logged' = ~raising
  /\ pc' = IF raising THEN "raised" ELSE "returned"
  /\ UNCHANGED <<mode, raising, plan_texts, gateVars, decision, refusal, failing, danger_applied>>

RealNext ==
  \/ \E plan \in Plans : Execute(plan) \/ ReadRaises(plan) \/ Refuse(plan)
  \/ PlannerFails
  \/ Finish
  \/ Finally

RealSpec == RealInit /\ [][RealNext]_realVars
-----------------------------------------------------------------------------
Score == 0..10000

GateTypeOK ==
  /\ plan_texts \in Seq(Plans)
  /\ Len(plan_texts) <= MaxSteps
  /\ validation_failures \in 0..Len(plan_texts)
  /\ retry_count \in 0..validation_failures
  /\ previous_failures \in (0..validation_failures) \cup {None}
  /\ previous_entropy \in Int \cup {None}
  /\ retry_budget \in Int
  /\ prev_failures \in (0..MaxFailures) \cup {None}
  /\ risk_scores \in Seq(Score)
  /\ Len(risk_scores) = Lesser(3, Len(plan_texts))

RealTypeOK ==
  /\ pc \in {"plan", "finally", "returned", "raised"}
  /\ mode \in Modes
  /\ decision \in GateAction \cup {"none"}
  /\ failing \in 0..MaxFailures
  /\ raising \in BOOLEAN /\ logged \in BOOLEAN /\ dirty \in BOOLEAN
  /\ danger_applied \in BOOLEAN
  /\ GateTypeOK

\* "A safety kernel that can stop ... dangerous edits before they touch the
\* repository": over any sequence of plans no large or destructive patch goes in,
\* whichever of the refusals, inspections and cuts it meets.
DangerousEditsStopped == mode = "rnos" => ~danger_applied

\* "... runaway retries": two failing steps in a row are the last of the run.
RunawayRetriesStopped == mode = "rnos" => retry_count <= 2

\* However a run ends, its sandbox is the baseline again.
EndsRolledBack == pc \in {"returned", "raised"} => ~dirty
=============================================================================
