------------------------------- MODULE Hybrid -------------------------------
(***************************************************************************)
(* The merge of rnos/hybrid.py: the RNOS decision, the breaker's reason    *)
(* and failure rate and a coherence proxy are combined into one decision   *)
(* with the name of the detector it is put down to.                        *)
(*                                                                         *)
(* Severities are 0, 1, 2 for ALLOW, DEGRADE, REFUSE; rates and the proxy  *)
(* are in thousandths.  For the thresholds of the experiments (10.0, 7.5)  *)
(* and rates in tenths the integers decide as the doubles do.              *)
(***************************************************************************)
EXTENDS Rnos, FiniteSetsExt

CoherenceWindow == 8

\* A record of a step whose outcome is not known yet.
Pending(allowed) == [allowed |-> allowed, outcome |-> "pending"]

\* evaluate appends a record, for refused steps too.
Noted(records, rnosDecision) ==
  LastOf(Append(records, Pending(rnosDecision \in {"ALLOW", "DEGRADE"})), CoherenceWindow)

\* record_outcome fills in the latest record, if there is one.
Filled(records, success) ==
  IF records = << >> THEN records
  ELSE [records EXCEPT ![Len(records)].outcome = IF success THEN "success" ELSE "failure"]

\* r_t / (1 + h_t) of one step, in 720ths.
StepLambda(record) ==
  IF record.outcome = "success"
  THEN IF record.allowed THEN 720 ELSE 432
  ELSE IF record.allowed THEN 400 ELSE 225

\* How many of the records are this one.
CopiesOf(record, records) == Cardinality({i \in DOMAIN records : records[i] = record})

\* _lambda_success_proxy: the mean over the known outcomes, and 1.0 before the second.
Lambda(records) ==
  LET Kind(allowed, outcome) == [allowed |-> allowed, outcome |-> outcome]
      Count(allowed, outcome) == CopiesOf(Kind(allowed, outcome), records)
      Share(allowed, outcome) == Count(allowed, outcome) * StepLambda(Kind(allowed, outcome))
      known == Count(TRUE, "success") + Count(TRUE, "failure")
                 + Count(FALSE, "success") + Count(FALSE, "failure")
      total == Share(TRUE, "success") + Share(TRUE, "failure")
                 + Share(FALSE, "success") + Share(FALSE, "failure")
  IN  IF known < 2 THEN 1000 ELSE Rounded(1000 * total, 720 * known)

CoherenceSeverity(lambda) ==
  IF lambda < 200 THEN 2 ELSE IF lambda < 450 THEN 1 ELSE 0
-----------------------------------------------------------------------------
SeverityOf(decision) ==
  CASE decision = "REFUSE" -> 2 [] decision = "DEGRADE" -> 1 [] OTHER -> 0

\* The breaker's reason on the same scale.
BreakerSeverity(reason) ==
  CASE reason \in {"open_blocked", "permanently_open"} -> 2
    [] reason = "half_open_probe" -> 1
    [] OTHER -> 0

\* Slip: the failure rate lowers no threshold.
NoPressure(rate) == 0

\* How far the failure rate is from 0.25 to 0.75, cut at both ends.
RatePressure(rate) == Greater(0, Lesser(1000, 2 * (rate - 250)))

\* (a): the rate takes up to 30% off the refusing threshold and up to 25% off the
\* degrading one; a critical proxy takes another 15% off the refusing one.
LoweredSeverity(entropy, rate, coherence) ==
  LET discount == 3 * RatePressure(rate) + (IF coherence >= 1 THEN 1500 ELSE 0)
  IN  IF 10000 * entropy >= RefuseEntropy * (10000 - discount) THEN 2
      ELSE IF 4000 * entropy >= DegradeEntropy * (4000 - RatePressure(rate)) THEN 1
      ELSE 0

\* (b): combinations that refuse together.
Combo(rnos, breaker, coherence, rate) ==
  \/ rnos >= 1 /\ breaker >= 1
  \/ rate > 300 /\ coherence >= 1
  \/ rnos >= 1 /\ coherence >= 2

\* trigger_source; a combination always refuses.
Trigger(rnos, breaker, coherence, combo) ==
  IF combo THEN "combo"
  ELSE IF rnos > breaker /\ rnos > coherence THEN "rnos"
  ELSE IF breaker > rnos /\ breaker > coherence THEN "cb"
  ELSE IF coherence >= rnos /\ coherence >= breaker /\ coherence > 0 THEN "coherence"
  ELSE "both"

\* _coupled_merge
Merge(rnosDecision, entropy, reason, rate, lambda) ==
  LET coherence == CoherenceSeverity(lambda)
      breaker   == BreakerSeverity(reason)
      rnos      == Greater(SeverityOf(rnosDecision), LoweredSeverity(entropy, rate, coherence))
      combo     == Combo(rnos, breaker, coherence, rate)
      worst     == Greater(rnos, Greater(breaker, coherence))
  IN  [ decision |-> IF combo \/ worst = 2 THEN "REFUSE"
                     ELSE IF worst = 1 THEN "DEGRADE" ELSE "ALLOW",
        rnos     |-> rnosDecision,
        trigger  |-> Trigger(rnos, breaker, coherence, combo),
        lambda   |-> lambda ]
=============================================================================
