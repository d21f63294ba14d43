------------------------------- MODULE Cevak -------------------------------
(***************************************************************************)
(* The CEVAK monitor (rnos_cevak/core): a reference distribution of        *)
(* actions per task class, one sliding window of the actions that follow,  *)
(* one reference for the five output scores, and the classification of     *)
(* their drift.                                                            *)
(*                                                                         *)
(* Scores are hundredths, C E V A K in this order; a mean is kept as the   *)
(* sum and the count.  Logarithms are in ten-thousandths.                  *)
(***************************************************************************)
EXTENDS Integers, Sequences, FiniteSetsExt

CONSTANTS
  Classes,      \* task classes
  ActionTypes,  \* kinds of action
  WindowSize    \* ade_window_size

Dimensions == 1..5

NoActions == [action \in ActionTypes |-> 0]
NoVectors == [n |-> 0, sum |-> [d \in Dimensions |-> 0]]

\* Corpora, frozen corpora, the window of <<class, action>>, the vectors calibrated
\* so far, and those the reference is the mean of.
NewMonitor ==
  [ calibration |-> [class \in Classes |-> NoActions],
    baselines |-> [class \in Classes |-> NoActions],
    window |-> << >>, calibrated |-> NoVectors, reference |-> NoVectors ]

Total(counts) == MapThenSumSet(LAMBDA action : counts[action], ActionTypes)

\* Only a corpus with an action in it is ever frozen.
Frozen(m, class) == m.baselines[class] # NoActions

\* The window is shared by all classes.
Slide(window, entry) ==
  LET all == Append(window, entry)
  IN  IF Len(all) > WindowSize THEN Tail(all) ELSE all

\* Slip: the corpus grows on after it was frozen.
RecordActionTwice(m, action, class) ==
  [m EXCEPT !.window = IF Frozen(m, class) THEN Slide(@, <<class, action>>) ELSE @,
            !.calibration[class][action] = @ + 1]

RecordAction(m, action, class) ==
  IF Frozen(m, class) THEN [m EXCEPT !.window = Slide(@, <<class, action>>)]
  ELSE [m EXCEPT !.calibration[class][action] = @ + 1]

RecordCalibrationVector(m, scores) ==
  [m EXCEPT !.calibrated = [n |-> @.n + 1, sum |-> [d \in Dimensions |-> @.sum[d] + scores[d]]]]

\* ActionDistributionEntropy.set_baseline; an empty corpus is an error.
FreezeActions(m, class) ==
  IF m.calibration[class] = NoActions THEN m
  ELSE [m EXCEPT !.baselines[class] = m.calibration[class]]

\* CevakMonitor.set_baseline; the scores are averaged over all classes, and they are
\* even when freezing the actions is an error after that.
SetBaseline(m, class) ==
  IF m.calibrated.n = 0 THEN m
  ELSE FreezeActions([m EXCEPT !.reference = m.calibrated], class)

\* Actions of a class in the window.
Seen(m, class) ==
  [action \in ActionTypes |->
     Cardinality({i \in DOMAIN m.window : m.window[i] = <<class, action>>})]

Ln ==
  << 0, 6931, 10986, 13863, 16094, 17918, 19459, 20794, 21972, 23026, 23979, 24849, 25649, 26391,
     27081, 27726 >>

\* compute_ade: KL(Q || P) with add-one smoothing, times the size of Q.
Divergence(m, class) ==
  LET p     == m.baselines[class]
      q     == Seen(m, class)
      known == {action \in ActionTypes : p[action] > 0 \/ q[action] > 0}
      whole == Total(q) + Cardinality(known)
      Of(action) ==
        (q[action] + 1) * ((Ln[q[action] + 1] - Ln[p[action] + 1])
                            + (Ln[Total(p) + Cardinality(known)] - Ln[whole]))
  IN  [sum |-> MapThenSumSet(Of, known), whole |-> whole]

\* ade_threshold times max_ade
ShiftThreshold == 7000

\* Slip: the divergence is compared without being normalised.
ShiftedRaw(m, class) ==
  /\ Frozen(m, class)
  /\ Total(Seen(m, class)) > 0
  /\ 2 * Divergence(m, class).sum >= ShiftThreshold * Divergence(m, class).whole

\* get_score against ade_threshold
Shifted(m, class) ==
  /\ Frozen(m, class)
  /\ Total(Seen(m, class)) > 0
  /\ Divergence(m, class).sum >= ShiftThreshold * Divergence(m, class).whole

\* Is a score at least this far from the mean of the reference?
Off(m, scores, d, threshold) ==
  LET difference == m.reference.n * scores[d] - m.reference.sum[d]
  IN  difference >= threshold * m.reference.n \/ 0 - difference >= threshold * m.reference.n

\* evaluate and classify_drift: the first mode that fits.
Classify(m, scores, class) ==
  LET triggered == {d \in Dimensions : Off(m, scores, d, 25)}
      clean     == Dimensions \ triggered
  IN  IF m.reference.n = 0 THEN "none"
      ELSE IF Shifted(m, class) /\ Cardinality(clean) >= 3 THEN "evasion"
      ELSE IF Off(m, scores, 1, 40) \/ Off(m, scores, 5, 40) THEN "incoherence"
      ELSE IF {3, 4} \subseteq triggered /\ ~Shifted(m, class) THEN "echo_chamber"
      ELSE IF Cardinality(triggered) >= 2 THEN "overreach"
      ELSE "none"
=============================================================================
