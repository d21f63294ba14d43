------------------------------ MODULE RnosLoop ------------------------------
(***************************************************************************)
(* The agent loop in its default mode (run_agent of scripts/run_agent.py): *)
(* plan, ask RNOS, stop or execute, record the outcome.  DEGRADE opens a   *)
(* budget of degraded executions that the next ALLOW closes.  The planner  *)
(* (which tool, how slow) and the tool (does the call succeed) are the     *)
(* environment; they may answer anything.                                  *)
(***************************************************************************)
EXTENDS Rnos

CONSTANTS
  MaxSteps,  \* max_steps
  Tool,      \* "unstable_api", the one tool the loop can run
  OtherTool, \* any other name the planner may come up with
  Latency    \* the latency scores a planner call may cost

ASSUME LoopAssumption ==
  /\ MaxSteps \in Nat
  /\ Tool # OtherTool
  /\ Latency \subseteq Nat

NotDegraded == -1  \* degrade_remaining is None

VARIABLES
  pc,                  \* "decide", "execute" or "stopped"
  history,             \* what RNOS remembers
  step,                \* steps begun
  action,              \* the latest planned action
  decision,            \* its decision, "none" before the first
  retry_count,
  steps_executed,
  degrade_remaining,
  executed_in_degrade,
  stop_reason,
  degraded_calls       \* history: degraded executions since the last ALLOW

loopVars == <<pc, history, step, action, decision, retry_count, steps_executed,
              degrade_remaining, executed_in_degrade, stop_reason, degraded_calls>>

StopReason == {"none", "completed", "refused", "degrade_exhausted", "unknown_tool"}
-----------------------------------------------------------------------------
\* The candidate the loop builds from the planner's answer.
Candidate(tool, latency) ==
  [ tool |-> tool, latency |-> latency, depth |-> step, retry_count |-> retry_count,
    cumulative_calls |-> steps_executed ]

Init ==
  /\ pc = "decide"
  /\ history = NewHistory
  /\ step = 0
  /\ action = [ tool |-> Tool, latency |-> 0, depth |-> 0, retry_count |-> 0,
                cumulative_calls |-> 0 ]
  /\ decision = "none"
  /\ retry_count = 0
  /\ steps_executed = 0
  /\ degrade_remaining = NotDegraded
  /\ executed_in_degrade = FALSE
  /\ stop_reason = "none"
  /\ degraded_calls = 0

\* The planner answers and RNOS assesses the action.
Assessed(tool, latency) ==
  /\ pc = "decide"
  /\ step < MaxSteps
  /\ step' = step + 1
  /\ action' = Candidate(tool, latency)
  /\ decision' = Evaluate(history, action')
  /\ UNCHANGED <<history, retry_count, steps_executed>>

Stop(reason) == pc' = "stopped" /\ stop_reason' = reason

BudgetExhausted == degrade_remaining = 0

\* REFUSE ends the run.
Refuse(tool, latency) ==
  /\ Assessed(tool, latency)
  /\ decision' = "REFUSE"
  /\ Stop("refused")
  /\ executed_in_degrade' = FALSE
  /\ UNCHANGED <<degrade_remaining, degraded_calls>>

\* DEGRADE with nothing left of the budget ends the run.
DegradeExhausted(tool, latency) ==
  /\ Assessed(tool, latency)
  /\ decision' = "DEGRADE"
  /\ BudgetExhausted
  /\ Stop("degrade_exhausted")
  /\ executed_in_degrade' = FALSE
  /\ UNCHANGED <<degrade_remaining, degraded_calls>>

\* DEGRADE opens the budget or uses what is left of it.
Degrade(tool, latency) ==
  /\ Assessed(tool, latency)
  /\ decision' = "DEGRADE"
  /\ ~BudgetExhausted
  /\ degrade_remaining' = IF degrade_remaining = NotDegraded
                          THEN MaxAdditionalSteps ELSE degrade_remaining
  /\ executed_in_degrade' = TRUE
  /\ pc' = "execute"
  /\ UNCHANGED <<stop_reason, degraded_calls>>

\* Slip: ALLOW leaves the budget of the last caution window open.
AllowKeepingBudget(tool, latency) ==
  /\ Assessed(tool, latency)
  /\ decision' = "ALLOW"
  /\ executed_in_degrade' = FALSE
  /\ degraded_calls' = 0
  /\ pc' = "execute"
  /\ UNCHANGED <<degrade_remaining, stop_reason>>

\* ALLOW closes the budget.
Allow(tool, latency) ==
  /\ Assessed(tool, latency)
  /\ decision' = "ALLOW"
  /\ degrade_remaining' = NotDegraded
  /\ executed_in_degrade' = FALSE
  /\ degraded_calls' = 0
  /\ pc' = "execute"
  /\ UNCHANGED stop_reason

\* The planner asked for another tool: recorded as a failure, and the run ends.
UnknownTool ==
  /\ pc = "execute"
  /\ action.tool # Tool
  /\ history' = Recorded(history, action.tool, FALSE)
  /\ steps_executed' = steps_executed + 1
  /\ Stop("unknown_tool")
  /\ UNCHANGED <<step, action, decision, retry_count, degrade_remaining,
                 executed_in_degrade, degraded_calls>>

\* The tool runs; its outcome is recorded and a degraded call is paid for.
Execute(success) ==
  /\ pc = "execute"
  /\ action.tool = Tool
  /\ history' = Recorded(history, action.tool, success)
  /\ steps_executed' = steps_executed + 1
  /\ retry_count' = IF success THEN 0 ELSE retry_count + 1
  /\ IF executed_in_degrade
     THEN /\ degrade_remaining' = degrade_remaining - 1
          /\ degraded_calls' = degraded_calls + 1
     ELSE UNCHANGED <<degrade_remaining, degraded_calls>>
  /\ pc' = "decide"
  /\ UNCHANGED <<step, action, decision, executed_in_degrade, stop_reason>>

OutOfSteps == step >= MaxSteps

\* range(1, max_steps + 1) is used up.
Exhausted ==
  /\ pc = "decide"
  /\ OutOfSteps
  /\ Stop("completed")
  /\ UNCHANGED <<history, step, action, decision, retry_count, steps_executed,
                 degrade_remaining, executed_in_degrade, degraded_calls>>

Decide(tool, latency) ==
  \/ Refuse(tool, latency)
  \/ DegradeExhausted(tool, latency)
  \/ Degrade(tool, latency)
  \/ Allow(tool, latency)

Next ==
  \/ \E tool \in {Tool, OtherTool}, latency \in Latency : Decide(tool, latency)
  \/ \E success \in BOOLEAN : Execute(success)
  \/ UnknownTool
  \/ Exhausted

Spec == Init /\ [][Next]_loopVars

-----------------------------------------------------------------------------
Candidates ==
  [ tool : {Tool, OtherTool}, latency : Nat, depth : Nat, retry_count : Nat,
    cumulative_calls : Nat ]

TypeOK ==
  /\ pc \in {"decide", "execute", "stopped"}
  /\ history.recent \in Seq([tool : {Tool, OtherTool}, success : BOOLEAN])
  /\ Len(history.recent) <= 10
  /\ history.ewma \in 0..OneEwma
  /\ step \in 0..MaxSteps
  /\ action \in Candidates
  /\ decision \in Decision \cup {"none"}
  /\ retry_count \in 0..steps_executed
  /\ steps_executed \in 0..step
  /\ degrade_remaining \in NotDegraded..MaxAdditionalSteps
  /\ executed_in_degrade \in BOOLEAN
  /\ stop_reason \in StopReason
  /\ degraded_calls \in Nat

\* "A value of 0 means budget exhausted; detected before the NEXT tool is allowed
\* to run": in one caution window no more degraded calls run than the constraint
\* grants, and the budget left is what the grant and the calls made leave.
BudgetIsHonoured ==
  /\ degraded_calls <= MaxAdditionalSteps
  /\ degrade_remaining = NotDegraded => degraded_calls = 0
  /\ degrade_remaining # NotDegraded => degrade_remaining + degraded_calls = MaxAdditionalSteps

\* A failure never loosens the gate: as long as calls fail (and the planner is as
\* slow and as stubborn as before) each decision is at least as strict as the
\* one before, whatever the histories of success before them.
Strictness(d) == CASE d = "ALLOW" -> 0 [] d = "DEGRADE" -> 1 [] d = "REFUSE" -> 2
FailureNeverLoosens ==
  [][pc = "decide" /\ step' = step + 1 /\ step > 0
       /\ ~history.recent[Len(history.recent)].success
       /\ action'.latency = action.latency /\ action'.tool = action.tool
     => Strictness(decision') >= Strictness(decision)]_loopVars

\* Calls that reached the tool: steps_executed counts an unknown tool too.
ToolCalls == steps_executed - IF stop_reason = "unknown_tool" THEN 1 ELSE 0

\* "At the default thresholds, RNOS terminates every run by step 4 regardless of
\* the actual failure rate": after at most three calls, successful ones included.
StopsByStepFour == step <= 4 /\ ToolCalls <= 3

\* The same for any thresholds: when depth and repetition alone reach the
\* degrading threshold before some call, that call is the last one.
StructuralFloor(calls) == DepthScore(calls) + IF calls >= 2 THEN 2000 ELSE 0
FloorEndsTheRun ==
  \A calls \in 0..(ToolCalls - 2) : StructuralFloor(calls) < DegradeEntropy

\* A run ends, and the reason it gives is the one that ended it: refused after a
\* REFUSE, exhausted after a DEGRADE that had its one call, completed only when
\* every step ran.
ReasonMatchesRun ==
  /\ pc = "stopped" <=> stop_reason # "none"
  /\ stop_reason = "refused" => decision = "REFUSE"
  /\ stop_reason = "degrade_exhausted" =>
       decision = "DEGRADE" /\ degraded_calls = MaxAdditionalSteps
  /\ stop_reason = "completed" => steps_executed = MaxSteps
  /\ pc = "stopped" /\ stop_reason \in {"refused", "degrade_exhausted"} =>
       steps_executed = step - 1

=============================================================================
