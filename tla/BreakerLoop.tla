----------------------------- MODULE BreakerLoop -----------------------------
(***************************************************************************)
(* The agent loop in circuit-breaker mode (scripts/run_agent.py, and the   *)
(* same shape in scripts/eval_harness.py): plan, tick, ask, then either    *)
(* skip the iteration or run the tool and record its result.  The tool is  *)
(* an environment that is healthy or not; the loop's own step bound is the *)
(* action Exhausted, which may end the run before any iteration.           *)
(***************************************************************************)
EXTENDS CircuitBreaker

VARIABLES
  pc,                  \* "decide", "execute" or "stopped"
  total_blocked_steps, \* the loop's own count of skipped iterations
  first_intervention,  \* "none", "blocked" or "half_open"
  max_cooldown_reached,
  stop_reason,
  retry_count,         \* failures since the last success
  healthy,             \* environment: would a call succeed now
  waited               \* history: iterations skipped since the tool last ran

loopVars == <<cb, reply, pc, total_blocked_steps, first_intervention,
              max_cooldown_reached, stop_reason, retry_count, healthy, waited>>

StopReason == {"none", "completed", "permanently_open", "unknown_tool"}
-----------------------------------------------------------------------------
LoopInit ==
  /\ Init
  /\ pc = "decide"
  /\ total_blocked_steps = 0
  /\ first_intervention = "none"
  /\ max_cooldown_reached = FALSE
  /\ stop_reason = "none"
  /\ retry_count = 0
  /\ healthy \in BOOLEAN
  /\ waited = 0

\* cb.tick() and cb.should_execute() at the head of an iteration.
Asked == ShouldExecute(Ticked(cb))

Intervene(kind) ==
  first_intervention' = IF first_intervention = "none" THEN kind ELSE first_intervention

\* Slip: a refused iteration is repeated without being counted.
BlockedSpins == pc = "decide" /\ ~Allowed(ReasonOf(Asked)) /\ UNCHANGED loopVars

\* The breaker refuses: count the step and continue, or break for good.
Blocked ==
  /\ pc = "decide"
  /\ cb' = Asked
  /\ reply' = ReasonOf(Asked)
  /\ ~Allowed(reply')
  /\ total_blocked_steps' = total_blocked_steps + 1
  /\ waited' = waited + 1
  /\ Intervene("blocked")
  /\ IF reply' = "permanently_open"
     THEN pc' = "stopped" /\ stop_reason' = "permanently_open"
     ELSE UNCHANGED <<pc, stop_reason>>
  /\ UNCHANGED <<max_cooldown_reached, retry_count, healthy>>

\* The breaker lets the iteration through, as a normal call or as a probe.
Admitted ==
  /\ pc = "decide"
  /\ cb' = Asked
  /\ reply' = ReasonOf(Asked)
  /\ Allowed(reply')
  /\ pc' = "execute"
  /\ IF reply' = "half_open_probe"
     THEN Intervene("half_open")
     ELSE UNCHANGED first_intervention
  /\ UNCHANGED <<total_blocked_steps, max_cooldown_reached, stop_reason, retry_count, healthy, waited>>

\* The tool runs and its result reaches the breaker.
Execute ==
  /\ pc = "execute"
  /\ cb' = RecordResult(cb, healthy)
  /\ max_cooldown_reached' =
       (max_cooldown_reached \/ cb'.current_cooldown_limit >= MaxCooldown)
  /\ retry_count' = IF healthy THEN 0 ELSE retry_count + 1
  /\ waited' = 0
  /\ pc' = "decide"
  /\ UNCHANGED <<reply, total_blocked_steps, first_intervention, stop_reason, healthy>>

\* The planner asked for another tool: the loop ends, the breaker is not told.
UnknownTool ==
  /\ pc = "execute"
  /\ pc' = "stopped"
  /\ stop_reason' = "unknown_tool"
  /\ UNCHANGED <<cb, reply, total_blocked_steps, first_intervention,
                 max_cooldown_reached, retry_count, healthy, waited>>

\* range(1, max_steps + 1) is used up.
Exhausted ==
  /\ pc = "decide"
  /\ pc' = "stopped"
  /\ stop_reason' = "completed"
  /\ UNCHANGED <<cb, reply, total_blocked_steps, first_intervention,
                 max_cooldown_reached, retry_count, healthy, waited>>

\* The downstream service breaks or recovers while the loop runs.
ToolChanges ==
  /\ pc # "stopped"
  /\ healthy' = ~healthy
  /\ UNCHANGED <<cb, reply, pc, total_blocked_steps, first_intervention,
                 max_cooldown_reached, stop_reason, retry_count, waited>>

Iteration == Blocked \/ Admitted \/ Execute

LoopNext == Iteration \/ UnknownTool \/ Exhausted \/ ToolChanges

LoopSpec == LoopInit /\ [][LoopNext]_loopVars

\* The loop is a plain for statement: it keeps iterating until it stops.
FairLoopSpec == LoopSpec /\ WF_loopVars(Iteration)
-----------------------------------------------------------------------------
LoopTypeOK ==
  /\ TypeOK
  /\ pc \in {"decide", "execute", "stopped"}
  /\ total_blocked_steps \in Nat
  /\ first_intervention \in {"none", "blocked", "half_open"}
  /\ max_cooldown_reached \in BOOLEAN
  /\ stop_reason \in StopReason
  /\ retry_count \in Nat
  /\ healthy \in BOOLEAN
  /\ waited \in Nat

\* One probe per half-open period ("Exactly one request is allowed through"):
\* the class does not count probes, the loop's order of calls does.  No
\* iteration starts in half_open, so a probe slot is never offered twice.
OneProbePerHalfOpen ==
  /\ pc = "decide" => cb.state \in {"closed", "open"}
  /\ pc = "execute" => cb.state \in {"closed", "half_open"}

\* A probe runs after exactly limit - 1 skipped iterations, since the tick comes
\* before the question; a normal call follows the previous call immediately.
ProbeAfterFullCooldown ==
  pc = "execute" =>
    waited = IF cb.state = "half_open" THEN cb.current_cooldown_limit - 1 ELSE 0

\* The summary's total_blocked_steps is the breaker's own count, and a run ends
\* as permanently_open exactly when that count reached the budget.
SummaryAgreesWithBreaker ==
  /\ total_blocked_steps = cb.total_blocked
  /\ (stop_reason = "permanently_open") <=> (cb.total_blocked = MaxTotalBlocked)

\* The two counters a step log shows as consecutive_failures, the breaker's and
\* the loop's retry_count, never drift apart: every result the loop counts the
\* breaker was listening to.
FailureCountersAgree == cb.consecutive_failures = retry_count

\* Under a tool that stays broken the loop does not probe for ever: the blocked
\* budget runs out (for ceilings of at least two ticks), or the run ends.
OutageStopsTheLoop == <>[](~healthy) => <>(pc = "stopped")

\* Once the tool stays healthy the breaker closes again and remains closed,
\* unless the run has ended.
RecoversWithTheTool == <>[]healthy => <>[](cb.state = "closed" \/ pc = "stopped")
=============================================================================
