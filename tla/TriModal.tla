------------------------------ MODULE TriModal ------------------------------
(***************************************************************************)
(* What the four domain experiments (experiments/{ci,db,microservice,      *)
(* scheduler}_control) share: a sliding-window breaker that latches, the   *)
(* persistence window of experiments/common/persistence.py, the merge of   *)
(* three severities, and the loop that runs one controller over a list of  *)
(* domain states.  Each domain has its own copy of the code; the copies    *)
(* are the definitions of its own module, in terms of these.               *)
(*                                                                         *)
(* Severities are 0, 1, 2 for allow, degrade, refuse.  Entropies are in    *)
(* thousandths, rates and scores in hundredths.                            *)
(***************************************************************************)
EXTENDS Integers, Sequences, FiniteSets

CONSTANTS
  CbWindow,       \* CB_WINDOW
  CbThreshold,    \* CB_THRESHOLD, hundredths
  PersistWindow,  \* PERSIST_WINDOW
  PersistDegrade, \* PERSIST_DEGRADE, hundredths
  PersistRefuse,  \* PERSIST_REFUSE, hundredths
  RnosDegrade,    \* RNOS_DEGRADE, thousandths
  RnosRefuse      \* RNOS_REFUSE, thousandths

\* The constructors check none of these; every runner passes positive sizes.
ASSUME TriModalAssumption ==
  /\ CbWindow \in Nat \ {0}
  /\ CbThreshold \in Nat
  /\ PersistWindow \in Nat \ {0}
  /\ PersistDegrade \in Nat
  /\ PersistRefuse \in Nat
  /\ RnosDegrade \in Nat
  /\ RnosRefuse \in Nat

Least(a, b) == IF a <= b THEN a ELSE b
Most(a, b) == IF a >= b THEN a ELSE b

\* 1000 * log2(n) for n up to 64.  Every score cuts its logarithm off there or
\* takes it of a power of two.
Log2Table ==
  << 0, 1000, 1585, 2000, 2322, 2585, 2807, 3000, 3170, 3322, 3459, 3585, 3700, 3807, 3907,
     4000, 4087, 4170, 4248, 4322, 4392, 4459, 4524, 4585, 4644, 4700, 4755, 4807, 4858, 4907,
     4954, 5000, 5044, 5087, 5129, 5170, 5209, 5248, 5285, 5322, 5358, 5392, 5426, 5459, 5492,
     5524, 5555, 5585, 5615, 5644, 5672, 5700, 5728, 5755, 5781, 5807, 5833, 5858, 5883, 5907,
     5931, 5954, 5977, 6000 >>

Log2(n) == IF n <= 64 THEN Log2Table[n] ELSE 2000 + Log2Table[Least(n, 256) \div 4]

\* A score that grows with the structure up to a cap, against the two thresholds.
EntropySeverity(entropy) ==
  IF entropy >= RnosRefuse THEN 2 ELSE IF entropy >= RnosDegrade THEN 1 ELSE 0
-----------------------------------------------------------------------------
\* deque(maxlen = size).append(item)
Slid(window, size, item) ==
  Append(IF Len(window) < size THEN window ELSE Tail(window), item)

NewBreaker == [window |-> << >>, tripped |-> FALSE]

FailuresOf(window) == Cardinality({i \in DOMAIN window : ~window[i]})

\* Slip: a rate that is as high as the threshold trips too.
TrippingAtThreshold(window) ==
  Len(window) >= CbWindow /\ 100 * FailuresOf(window) >= CbThreshold * Len(window)

\* A full window whose failure rate lies above the threshold.
Tripping(window) ==
  Len(window) >= CbWindow /\ 100 * FailuresOf(window) > CbThreshold * Len(window)

\* SlidingWindowCBController.evaluate: the breaker trips when asked, and for good.
Asked(breaker) ==
  [window |-> breaker.window, tripped |-> breaker.tripped \/ Tripping(breaker.window)]

BreakerSeverity(breaker) == IF breaker.tripped THEN 2 ELSE 0

\* SlidingWindowCBController.record_outcome
Told(breaker, success) ==
  [window |-> Slid(breaker.window, CbWindow, success), tripped |-> breaker.tripped]
-----------------------------------------------------------------------------
\* PersistenceController.evaluate: nothing until the window is full, then a score
\* of 0.7 per failed and 0.3 per restless step.
PersistenceSeverity(seen) ==
  LET failed == Cardinality({i \in DOMAIN seen : seen[i].failed})
      above  == Cardinality({i \in DOMAIN seen : seen[i].above})
      score  == 10 * (7 * failed + 3 * above)
  IN  IF Len(seen) < PersistWindow THEN 0
      ELSE IF score >= PersistRefuse * Len(seen) THEN 2
      ELSE IF score >= PersistDegrade * Len(seen) THEN 1 ELSE 0

\* PersistenceController.update: both deques slide together.
Updated(seen, success, above) ==
  Slid(seen, PersistWindow, [failed |-> ~success, above |-> above])
-----------------------------------------------------------------------------
Part == {"rnos", "cb", "persistence"}

\* The three controllers inside a tri-modal one; signal is what evaluate stashes
\* for record_outcome, and cost what a stateful RNOS controller has added up.
\* The other modes use the controllers they create and leave the rest alone.
NewTriModal == [cb |-> NewBreaker, seen |-> << >>, signal |-> FALSE, cost |-> 0]

\* What evaluate leaves behind: an asked breaker and the stashed signal.
Evaluated(tri, signal) ==
  [cb |-> Asked(tri.cb), seen |-> tri.seen, signal |-> signal, cost |-> tri.cost]

\* What record_outcome tells the breaker and the window, the signal being the stash.
Learned(tri, success) ==
  [ cb     |-> Told(tri.cb, success),
    seen   |-> Updated(tri.seen, success, tri.signal),
    signal |-> tri.signal,
    cost   |-> tri.cost ]

WithBreaker(tri, breaker) ==
  [cb |-> breaker, seen |-> tri.seen, signal |-> tri.signal, cost |-> tri.cost]

WithWindow(tri, seen) == [cb |-> tri.cb, seen |-> seen, signal |-> tri.signal, cost |-> tri.cost]

\* A controller of one axis decides alone.
Alone(severity) == [severity |-> severity, trigger_source |-> {}]

\* The most severe of the three wins, and every part that severe is named.
Merged(tri, entropy) ==
  LET sev == [ rnos        |-> EntropySeverity(entropy),
               cb          |-> BreakerSeverity(tri.cb),
               persistence |-> PersistenceSeverity(tri.seen) ]
      most == Most(sev.rnos, Most(sev.cb, sev.persistence))
  IN  [ severity       |-> most,
        trigger_source |-> IF most = 0 THEN {} ELSE {part \in Part : sev[part] = most} ]
-----------------------------------------------------------------------------
\* A run before its first state: ScenarioResult's fields, whether the loop was
\* left, the controllers, and the latest trigger.
NewRun ==
  [ executions |-> 0, first_intervention_step |-> 0, final_state |-> "completed",
    over |-> FALSE, tri |-> NewTriModal, trigger_source |-> {} ]

\* A state was judged.  The refused one is counted too, and ends the run; only the
\* runners that mark it remember that a state was degraded.
Judged(run, step, a, marks, tri) ==
  [ executions     |-> run.executions + 1,
    first_intervention_step |->
      IF a.severity > 0 /\ run.first_intervention_step = 0 THEN step
      ELSE run.first_intervention_step,
    final_state    |-> IF a.severity = 2 THEN "refused"
                       ELSE IF a.severity = 1 /\ marks THEN "degraded" ELSE run.final_state,
    over           |-> a.severity = 2,
    tri            |-> tri,
    trigger_source |-> a.trigger_source ]
=============================================================================
