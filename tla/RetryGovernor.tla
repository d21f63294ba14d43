---------------------------- MODULE RetryGovernor ----------------------------
(***************************************************************************)
(* The governor of an agent that writes code again and again               *)
(* (agent_runtime/rnos_adapter.py with cevak.py and intent_signal.py), in  *)
(* the loop of run_task (agent_runtime/runner.py) and of                   *)
(* langchain_demo/langchain_runner.py: an attempt is compared with the one *)
(* before it, validated, and the last three attempts decide: refuse, which *)
(* ends the run, or retry or continue, which both take the next step.      *)
(*                                                                         *)
(* What an attempt's source has in common with the previous one is the     *)
(* environment's choice: similarity and progress in thousandths, and the   *)
(* nodes it has more or fewer of.  Scores made of them are in thousandths, *)
(* or in millionths where the code multiplies two of them.                 *)
(***************************************************************************)
EXTENDS Integers, Sequences, FiniteSets

CONSTANTS
  Changes,      \* [similarity, progress, flow, functions, minor]
  Errors,       \* [type, text]: failure_type and the normalized message
  MaxAttempts,  \* the steps of the plan, or MAX_ATTEMPTS
  NoChange,     \* the first attempt has nothing to be compared with
  Passed        \* the outcome of an attempt that has no error

Score == {score \in Nat : score <= 1000}
Difference == [similarity : Score, progress : Score, flow : Nat, functions : Nat, minor : Nat]

ASSUME GovernorAssumption ==
  /\ Changes \subseteq Difference
  /\ NoChange \notin Changes
  /\ Passed \notin Errors
  /\ MaxAttempts \in Nat

Window == 3

VARIABLES
  history,      \* the last Window results
  attempt,      \* how many there were
  verdict       \* what the governor said last

governorVars == <<history, attempt, verdict>>

GovernorInit ==
  /\ history = << >>
  /\ attempt = 0
  /\ verdict = "none"
-----------------------------------------------------------------------------
Clamped(score) == IF score < 0 THEN 0 ELSE IF score > 1000 THEN 1000 ELSE score
Largest(S) == CHOOSE x \in S : \A y \in S : y <= x
Smallest(S) == CHOOSE x \in S : \A y \in S : x <= y

\* _recent
Recent(h) == SubSeq(h, Largest({1, Len(h) - Window + 1}), Len(h))
Latest(h) == h[Len(h)]
LatestFailed(h) == Latest(h).outcome # Passed

\* Where in the window the attempts that failed are, and those compared with another.
Failures(h) == {i \in DOMAIN h : h[i].outcome # Passed}
Scored(h)   == {i \in DOMAIN h : h[i].change # NoChange}

\* intent_signal: structural score, at most 1; a change of control flow or functions.
Structural(change) ==
  LET n == change.flow + change.functions IN IF n >= 2 THEN 1000 ELSE 500 * n

\* classify_intent
Intent(change) ==
  IF change.progress < 100 /\ change.similarity > 850 THEN "no_intent"
  ELSE IF change.progress < 200 /\ Structural(change) = 0 THEN "cosmetic_intent"
  ELSE IF change.progress > 400 /\ Structural(change) > 0 THEN "exploratory_intent"
  ELSE IF change.progress > 600 THEN "strong_intent"
  ELSE "weak_intent"

\* ast_change_vector: summarize_change
Summary(change) ==
  IF change.flow > 0 /\ change.functions > 0 THEN "major structural change"
  ELSE IF change.flow > 0 THEN "control flow change"
  ELSE IF change.functions > 0 THEN "function structure change"
  ELSE IF change.minor > 0 THEN "minor logic change"
  ELSE "no structural change"
-----------------------------------------------------------------------------
\* cevak: _attempt_similarity of the latest result, if it and the one before failed.
Agreement(h) ==
  LET n == Len(h)
  IN  IF n >= 2 /\ h[n].outcome # Passed /\ h[n - 1].outcome # Passed
      THEN h[n].change.similarity ELSE 0

\* How far the progress scores of the window lie apart.
Fluctuation(h) ==
  LET scores == {h[i].change.progress : i \in Scored(h)}
  IN  IF Cardinality(Scored(h)) < 2 THEN 0 ELSE Largest(scores) - Smallest(scores)

\* 1 - consistency
Incoherence(h) ==
  LET stuck == IF LatestFailed(h) /\ Cardinality(Failures(h)) >= 2 THEN Agreement(h) ELSE 0
  IN  Largest({stuck, Fluctuation(h)})

\* Twice the confidence: half the missing progress and half the agreement.
TwiceConfidence(h) ==
  1000 - (IF Latest(h).change = NoChange THEN 0 ELSE Latest(h).change.progress) + Agreement(h)

\* compute_cevak: confidence against evidence, agreement against variance, and the
\* first of the three above 0.6.
DriftType(h) ==
  LET missing == Window - Cardinality(DOMAIN h \ Failures(h))
  IN  IF TwiceConfidence(h) * missing > 1200 * Window THEN "overreach"
      ELSE IF Agreement(h) * Agreement(h) > 600000 THEN "echo_chamber"
      ELSE IF Incoherence(h) > 600 THEN "incoherent"
      ELSE "stable"
-----------------------------------------------------------------------------
\* compute_failure_rate: out of a full window, also before it is full.
FailureRate(h) == (1000 * Cardinality(Failures(h))) \div Window

\* compute_diversity
Diversity(h) ==
  LET types == {h[i].outcome.type : i \in Failures(h)}
  IN  IF Failures(h) = {} THEN 0
      ELSE (1000 * Cardinality(types)) \div Cardinality(Failures(h))

\* compute_error_similarity: the share of the failures whose message repeats.
ErrorSimilarity(h) ==
  LET repeated == {i \in Failures(h) :
                     \E j \in Failures(h) \ {i} : h[j].outcome.text = h[i].outcome.text}
  IN  IF Failures(h) = {} THEN 0
      ELSE (1000 * Cardinality(repeated)) \div Cardinality(Failures(h))

\* compute_ast_retry_similarity: the mean over failures that follow a failure, of which a
\* window has two at most.
RetrySimilarity(h) ==
  LET again == {i \in 2..Len(h) : {i - 1, i} \subseteq Failures(h)}
      score(i) == IF i \in again THEN h[i].change.similarity ELSE 0
  IN  IF again = {} THEN 0 ELSE (score(2) + score(3)) \div Cardinality(again)

Similarity(h) == Largest({ErrorSimilarity(h), RetrySimilarity(h)})

\* compute_trend: the last half against the first, without the one in the middle.
Trend(h) ==
  LET failed(r) == IF r.outcome = Passed THEN 0 ELSE 1000
  IN  IF Len(h) < 2 THEN 0 ELSE Clamped(failed(Latest(h)) - failed(h[1]))

\* compute_instability
Instability(h) ==
  Clamped((35 * FailureRate(h) + 20 * Diversity(h) + 30 * Similarity(h) + 15 * Trend(h)) \div 100)

\* The latest value there is in the window, for what the first attempt does not have.
LatestChange(h) == IF Scored(h) = {} THEN NoChange ELSE h[Largest(Scored(h))].change
ProgressOf(h) == IF LatestChange(h) = NoChange THEN 0 ELSE LatestChange(h).progress
SummaryOf(h) == IF LatestChange(h) = NoChange THEN "unknown" ELSE Summary(LatestChange(h))
IntentOf(h) == IF LatestChange(h) = NoChange THEN "unknown" ELSE Intent(LatestChange(h))

\* The ways a failed attempt is refused, before any that lets it retry ...
Stagnates(h) ==
  \/ DriftType(h) = "overreach" /\ IntentOf(h) \in {"no_intent", "cosmetic_intent"}
  \/ DriftType(h) = "echo_chamber" /\ Similarity(h) > 800
\* ... unless the attempts are all over the place,
IsPointless(h) ==
  \/ IntentOf(h) = "no_intent"
  \/ IntentOf(h) = "cosmetic_intent" /\ Similarity(h) > 800
\* or this one means something,
IsMeant(h) == IntentOf(h) \in {"exploratory_intent", "strong_intent"}
\* or it repeats itself,
Repeats(h) ==
  /\ Cardinality(Failures(h)) >= 2
  /\ \/ /\ Similarity(h) > 850
        /\ ProgressOf(h) < 100
        /\ SummaryOf(h) \in {"no structural change", "unknown"}
     \/ /\ Similarity(h) > 750
        /\ ProgressOf(h) < 200
        /\ SummaryOf(h) = "minor logic change"
\* or its structure is different.
IsRestructured(h) ==
  SummaryOf(h) \in {"control flow change", "function structure change", "major structural change"}

\* Slip: an instability of 0.7 is enough.
GivesUpEarly(h) ==
  IF Instability(h) > 700 THEN "refuse"
  ELSE IF LatestFailed(h) /\ ProgressOf(h) > 400 THEN "retry"
  ELSE IF ErrorSimilarity(h) > 600 /\ Cardinality(Failures(h)) >= 2 THEN "refuse"
  ELSE IF LatestFailed(h) /\ Instability(h) >= 400 THEN "retry"
  ELSE "continue"

\* Slip: two failures of three do not make a loop.
GivesUpLate(h) ==
  IF Instability(h) > 750 THEN "refuse"
  ELSE IF LatestFailed(h) /\ ProgressOf(h) > 400 THEN "retry"
  ELSE IF ErrorSimilarity(h) > 600 /\ Cardinality(Failures(h)) > 2 THEN "refuse"
  ELSE IF LatestFailed(h) /\ Instability(h) >= 400 THEN "retry"
  ELSE "continue"

\* The rest of the ladder, which looks at a success as well.
GivesUp(h) ==
  IF Instability(h) > 750 THEN "refuse"
  ELSE IF LatestFailed(h) /\ ProgressOf(h) > 400 THEN "retry"
  ELSE IF ErrorSimilarity(h) > 600 /\ Cardinality(Failures(h)) >= 2 THEN "refuse"
  ELSE IF LatestFailed(h) /\ Instability(h) >= 400 THEN "retry"
  ELSE "continue"

\* evaluate_state
EvaluateState(h) ==
  IF ~LatestFailed(h) THEN GivesUp(h)
  ELSE IF Stagnates(h) THEN "refuse"
  ELSE IF DriftType(h) = "incoherent" THEN "retry"
  ELSE IF IsPointless(h) THEN "refuse"
  ELSE IF IsMeant(h) THEN "retry"
  ELSE IF Repeats(h) THEN "refuse"
  ELSE IF IsRestructured(h) THEN "retry"
  ELSE GivesUp(h)
-----------------------------------------------------------------------------
\* One step of the plan: execute, compare, validate, evaluate.  Only a refusal ends
\* the run before its steps are used up; a success does not.
Attempt(change, outcome) ==
  /\ verdict # "refuse"
  /\ attempt < MaxAttempts
  /\ change = NoChange <=> history = << >>
  /\ history' = Recent(Append(history, [outcome |-> outcome, change |-> change]))
  /\ attempt' = attempt + 1
  /\ verdict' = EvaluateState(history')

GovernorNext ==
  \E change \in Changes \cup {NoChange}, outcome \in Errors \cup {Passed} :
    Attempt(change, outcome)

GovernorSpec == GovernorInit /\ [][GovernorNext]_governorVars
-----------------------------------------------------------------------------
Before(h) == h[Len(h) - 1]
FailedTwice ==
  Len(history) >= 2 /\ Latest(history).outcome # Passed /\ Before(history).outcome # Passed

\* A loop that hands in what it handed in before and fails again is over at once: the
\* ladder's exits for exploration and for incoherent attempts, which such a loop
\* resembles in every other score, come too late to save it.  The same message twice is
\* let through for a reason: the code has changed much, or in its structure, or the
\* attempts lie far apart.  Or for none: between 0.6 and the root of 0.6 being alike
\* counts as incoherent and not yet as an echo, and that is retried.
SameErrorNeedsAChange ==
  FailedTwice /\ verdict # "refuse" =>
    LET change == Latest(history).change
    IN  /\ change.similarity < 1000 \/ change.progress > 0
        /\ Latest(history).outcome = Before(history).outcome =>
             \/ Structural(change) > 0
             \/ change.progress > 400
             \/ Fluctuation(history) > 600
             \/ change.similarity \in 601..774

\* The window outlives the failures in it: an attempt that passes is refused all the
\* same, as a "stuck retry loop", when the two before it failed with one message; and
\* only then.
PassRefusedAfterTwins ==
  history # << >> /\ ~LatestFailed(history) =>
    (verdict = "refuse" <=>
       /\ Cardinality(Failures(history)) = 2
       /\ history[1].outcome.text = history[2].outcome.text)
=============================================================================
