----------------------------- MODULE RnosBridge -----------------------------
(***************************************************************************)
(* The gate of the agent runtime (agent_runtime/rnos_bridge.py) with the   *)
(* failure classifier it asks (agent_runtime/tuning/classifier.py), as     *)
(* operators from a context to a decision.  It knows one answer more than  *)
(* RNOS: RECOVER, go on under tight constraints.                           *)
(*                                                                         *)
(* A context's entropy is in hundred-thousandths, so that nothing is       *)
(* rounded before the code rounds; every other score is in thousandths.    *)
(* None is a value that is not there yet.                                  *)
(***************************************************************************)
EXTENDS Rnos

CONSTANT None

ASSUME NoneAssumption == None \notin Int

GateAction == {"ALLOW", "DEGRADE", "RECOVER", "REFUSE"}
-----------------------------------------------------------------------------
\* classify_failure
FailureType(c) ==
  IF c.tool_risk > 8500 \/ c.destructive_action THEN "fatal_risk"
  ELSE IF c.malformed_output THEN "malformed_output"
  ELSE IF c.drift_score > 4500 THEN "drift"
  ELSE IF c.validation_failures > 0 /\ c.entropy < 700000 THEN "recoverable_validation"
  ELSE "unknown"

Recoverable == {"recoverable_validation", "malformed_output", "unknown"}

If(condition, score) == IF condition THEN score ELSE 0

\* Slip: nothing is added for being stuck.
ComposedUnstuck(c) ==
  LET retries  == Lesser(900 * c.retry_count, 2700)
      failures == Lesser(1300 * c.validation_failures, 3900)
      rising   == If(c.risk_escalation, 800)
  IN  Lesser(10000,
        Rounded(c.entropy + 55 * c.tool_risk + 35 * c.drift_score
                  + 100 * (retries + failures + rising), 100))

\* _compose_entropy
Composed(c) ==
  LET retries  == Lesser(900 * c.retry_count, 2700)
      failures == Lesser(1300 * c.validation_failures, 3900)
      stuck    == If(c.retry_count >= 2 /\ c.validation_failures >= 2, 1700)
      rising   == If(c.risk_escalation, 800)
  IN  Lesser(10000,
        Rounded(c.entropy + 55 * c.tool_risk + 35 * c.drift_score
                  + 100 * (retries + failures + stuck + rising), 100))

\* _compute_improvement, where it matters: FALSE there, TRUE or None here.
NotImproved(c, entropy) ==
  LET failed  == c.previous_failures # None
      scored  == c.previous_entropy # None
  IN  /\ failed \/ scored
      /\ failed => c.validation_failures >= c.previous_failures
      /\ \/ failed /\ c.validation_failures > c.previous_failures
         \/ scored => entropy >= c.previous_entropy

\* A step of the run has failed, or this one is malformed.
FailureSignal(c) ==
  c.validation_failures > 0 \/ c.retry_count > 0 \/ c.malformed_output

\* Retried more than once, and the last try made it worse.
Worsened(c, entropy) ==
  /\ FailureType(c) = "unknown"
  /\ NotImproved(c, entropy)
  /\ c.retry_count > 1
  /\ c.previous_failures # None
  /\ c.validation_failures > c.previous_failures

\* Slip: one retry more than the limit.
GivenUpLate(c, entropy) == c.retry_count > c.retry_limit

GivenUp(c, entropy) == c.retry_count >= c.retry_limit \/ Worsened(c, entropy)

Answer(action, entropy, c) ==
  [action |-> action, entropy |-> entropy, failure_type |-> FailureType(c)]

\* fatal_risk, or a tool risk of 9.0
Fatal(c) == FailureType(c) = "fatal_risk" \/ c.tool_risk >= 9000

\* The branch that recovers or gives up, without looking at the policy.
InRecovery(c) == FailureSignal(c) /\ FailureType(c) \in Recoverable

\* RNOSBridge.evaluate
Gate(c) ==
  LET entropy == Composed(c)
      trust   == Rounded(10000 - entropy, 10)
  IN  IF Fatal(c) THEN Answer("REFUSE", Greater(entropy, 9000), c)
      ELSE IF InRecovery(c)
      THEN IF GivenUp(c, entropy) THEN Answer("REFUSE", Greater(entropy, RefuseEntropy), c)
           ELSE Answer("RECOVER", entropy, c)
      ELSE Answer(Policy(entropy, trust), entropy, c)
=============================================================================
