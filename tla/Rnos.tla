-------------------------------- MODULE Rnos --------------------------------
(***************************************************************************)
(* The gate of rnos/: entropy (entropy.py), trust (trust.py) and policy    *)
(* (policy.py) as operators from the recorded history and a candidate      *)
(* action to a decision.                                                   *)
(*                                                                         *)
(* Scores are in thousandths, which is what the code rounds them to; a tie *)
(* goes to the even neighbour, as Python's round does.  RNOSRuntime keeps  *)
(* the whole history and folds it at each call; every score but one looks  *)
(* at the last ten items, and the exponential average of the failures is   *)
(* that fold, so the state here is the last ten items and the average.     *)
(***************************************************************************)
EXTENDS Integers, Sequences, FiniteSets

CONSTANTS
  RefuseEntropy,   \* PolicyConfig, in thousandths
  RefuseTrust,
  DegradeEntropy,
  DegradeTrust

\* Thresholds are any numbers: a negative trust threshold switches that gate off.
ASSUME PolicyAssumption ==
  /\ RefuseEntropy \in Int
  /\ RefuseTrust \in Int
  /\ DegradeEntropy \in Int
  /\ DegradeTrust \in Int

Lesser(a, b) == IF a <= b THEN a ELSE b
Greater(a, b) == IF a >= b THEN a ELSE b

\* round(n / d) for d > 0: to the nearest integer, ties to even.
Rounded(n, d) ==
  LET q == n \div d
      r == n % d
  IN  IF 2 * r < d \/ (2 * r = d /\ q % 2 = 0) THEN q ELSE q + 1
-----------------------------------------------------------------------------
\* The average's unit: 1.0 is OneEwma.
OneEwma == 100000000

Item(tool, success) == [tool |-> tool, success |-> success]

NewHistory == [recent |-> << >>, ewma |-> 0]

\* The last k elements of a sequence.
LastOf(s, k) == SubSeq(s, Greater(1, Len(s) - k + 1), Len(s))

\* ewma = 0.10 * signal + 0.90 * ewma, the signal being 1 for a failure.
Smoothed(ewma, success) ==
  ((IF success THEN 0 ELSE OneEwma) + 9 * ewma) \div 10

\* RNOSRuntime.record_outcome
Recorded(h, tool, success) ==
  [ recent |-> LastOf(Append(h.recent, Item(tool, success)), 10),
    ewma   |-> Smoothed(h.ewma, success) ]

CountOf(items, success) == Cardinality({i \in DOMAIN items : items[i].success = success})
-----------------------------------------------------------------------------
\* Slip: a depth past the cut scores nothing.
DepthScoreLapsed(depth) == IF 600 * depth <= 4000 THEN 600 * depth ELSE 0

DepthScore(depth) == Lesser(600 * depth, 4000)

\* Slip: every retry costs two points.
RetryScoreSteep(retry_count) == Lesser(2000 * retry_count, 4000)

RetryScore(retry_count) == Lesser(1000 * retry_count, 4000)

\* 0.65 per failure among the last five.
FailureScore(h) == Lesser(650 * CountOf(LastOf(h.recent, 5), FALSE), 3000)

\* 1.0 when the candidate repeats the last tool, 2.0 when it repeats the last two.
RepeatedTool(h, tool) ==
  LET n == Len(h.recent)
      repeats(i) == h.recent[i].tool = tool
  IN  CASE n >= 2 /\ repeats(n) /\ repeats(n - 1) -> 2000
        [] n >= 1 /\ repeats(n) /\ (n = 1 \/ ~repeats(n - 1)) -> 1000
        [] OTHER -> 0

\* A small base per call, plus the calls spent per success among the last ten.
CostScore(h, cumulative_calls) ==
  LET base    == Lesser(25 * cumulative_calls, 500)
      n       == Len(h.recent)
      outputs == Greater(1, CountOf(h.recent, TRUE))
      waste   == Lesser(Rounded((n - outputs) * 500, outputs), 1500)
  IN  IF n = 0 THEN base ELSE Lesser(base + Greater(0, waste), 2000)

\* Twice the average, cut at 2.0.
LongMemoryScore(h) == Lesser(Rounded(2 * h.ewma, OneEwma \div 1000), 2000)

\* calculate_entropy.  The candidate's latency comes as its score already:
\* half a point per second, at most 2.0.
Entropy(h, c) ==
  DepthScore(c.depth) + RetryScore(c.retry_count) + FailureScore(h)
    + RepeatedTool(h, c.tool) + Lesser(c.latency, 2000)
    + CostScore(h, c.cumulative_calls) + LongMemoryScore(h)
-----------------------------------------------------------------------------
\* calculate_trust: success rate of the last ten items (at least 0.3, and 0.65
\* before the first), less a twelfth of the entropy (at most 0.7), plus 0.2.
Trust(h, entropy) ==
  LET n       == Len(h.recent)
      won     == CountOf(h.recent, TRUE)
      num     == CASE n = 0 -> 13 [] n > 0 /\ 10 * won >= 3 * n -> won [] OTHER -> 3
      den     == CASE n = 0 -> 20 [] n > 0 /\ 10 * won >= 3 * n -> n   [] OTHER -> 10
      penalty == Lesser(entropy, 8400)
  IN  Greater(0, Lesser(1000, Rounded(12 * (1000 * num + 200 * den) - penalty * den, 12 * den)))

Decision == {"ALLOW", "DEGRADE", "REFUSE"}

\* evaluate_policy: the refusing thresholds are looked at first.
Policy(entropy, trust) ==
  IF entropy >= RefuseEntropy \/ trust <= RefuseTrust THEN "REFUSE"
  ELSE IF entropy >= DegradeEntropy \/ trust <= DegradeTrust THEN "DEGRADE"
  ELSE "ALLOW"

\* RNOSRuntime.evaluate
Evaluate(h, c) ==
  LET entropy == Entropy(h, c)
  IN  Policy(entropy, Trust(h, entropy))

\* DEGRADE's constraint max_additional_steps.
MaxAdditionalSteps == 1
=============================================================================
