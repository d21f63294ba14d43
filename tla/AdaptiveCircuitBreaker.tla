----------------------- MODULE AdaptiveCircuitBreaker -----------------------
(***************************************************************************)
(* The sliding-window breaker of baselines/adaptive_circuit_breaker.py as  *)
(* an object.  It trips while answering should_execute, on the failure     *)
(* rate of the last WindowSize results, and moves its own threshold: down  *)
(* at a trip, up at a successful probe.                                    *)
(*                                                                         *)
(* Rates are in hundredths.  The code's doubles agree with them here: for  *)
(* every multiple of 0.05 the double that a trip subtracts the step from   *)
(* is restored exactly by the success that adds it back.                   *)
(***************************************************************************)
EXTENDS Integers, Sequences, FiniteSets

CONSTANTS
  WindowSize,         \* results remembered
  InitialFailureRate, \* threshold of a fresh breaker, and its upper limit
  MinFailureRate,     \* its lower limit
  AdaptationStep,
  InitialCooldown,
  MaxCooldown,
  MaxTotalBlocked

\* __init__ validates nothing; these are arguments the callers pass.
ASSUME AdaptiveAssumption ==
  /\ WindowSize \in Nat \ {0}
  /\ MinFailureRate \in Nat
  /\ InitialFailureRate \in Nat
  /\ MinFailureRate <= InitialFailureRate
  /\ AdaptationStep \in Nat
  /\ InitialCooldown \in Nat \ {0}
  /\ MaxCooldown \in Nat \ {0}
  /\ MaxTotalBlocked \in Nat \ {0}

VARIABLES
  acb,   \* the fields of the breaker
  reply  \* the reason of the latest should_execute, "none" before the first

adaptiveVars == <<acb, reply>>

BreakerState == {"closed", "open", "half_open", "permanently_open"}
Reason == {"closed", "half_open_probe", "open_blocked", "permanently_open"}
-----------------------------------------------------------------------------
NewBreaker ==
  [ state              |-> "closed",
    window             |-> << >>,
    threshold          |-> InitialFailureRate,
    total_blocked      |-> 0,
    cooldown_remaining |-> 0,
    current_cooldown   |-> InitialCooldown ]

\* deque(maxlen=window_size).append
Pushed(window, success) ==
  Append(IF Len(window) < WindowSize THEN window ELSE Tail(window), success)

Failures(window) == Cardinality({i \in DOMAIN window : ~window[i]})

\* A full window whose failure rate exceeds the threshold.
Failing(window, threshold) ==
  /\ Len(window) >= WindowSize
  /\ Failures(window) * 100 > threshold * WindowSize

\* Slip: tightening and loosening are not the same step.
TightenedTwice(threshold) == threshold - 2 * AdaptationStep

\* max(min_failure_rate, threshold - adaptation_step)
Tightened(threshold) ==
  IF threshold - AdaptationStep >= MinFailureRate
  THEN threshold - AdaptationStep ELSE MinFailureRate

\* min(initial_failure_rate, threshold + adaptation_step)
Loosened(threshold) ==
  IF threshold + AdaptationStep <= InitialFailureRate
  THEN threshold + AdaptationStep ELSE InitialFailureRate

BudgetSpent(blocked) == blocked >= MaxTotalBlocked

\* A refused request, counted; the one that exhausts the budget stops for good.
Refused(b) ==
  LET blocked == b.total_blocked + 1
  IN  [b EXCEPT !.total_blocked = blocked,
                !.state = IF BudgetSpent(blocked) THEN "permanently_open" ELSE "open"]

\* Tighten the threshold and start the first cooldown of an outage.
Tripped(b) ==
  [b EXCEPT !.threshold = Tightened(b.threshold),
            !.current_cooldown = InitialCooldown,
            !.cooldown_remaining = InitialCooldown]

ShouldExecute(b) ==
  CASE b.state = "open" -> Refused(b)
    [] b.state = "closed" /\ Failing(b.window, b.threshold) -> Refused(Tripped(b))
    [] OTHER -> b

\* The reason should_execute returns, as a function of the state it leaves.
ReasonOf(b) ==
  CASE b.state = "permanently_open" -> "permanently_open"
    [] b.state = "open"             -> "open_blocked"
    [] b.state = "half_open"        -> "half_open_probe"
    [] OTHER                        -> "closed"

Allowed(reason) == reason \in {"closed", "half_open_probe"}

\* Slip: a successful probe does not close the breaker.
RecoveredStays(b) == [b EXCEPT !.threshold = Loosened(b.threshold)]

\* A successful probe.  The window keeps the failures of the outage.
Recovered(b) ==
  [b EXCEPT !.state = "closed",
            !.current_cooldown = InitialCooldown,
            !.cooldown_remaining = 0,
            !.threshold = Loosened(b.threshold)]

BackedOff(cooldown) == IF cooldown * 2 <= MaxCooldown THEN cooldown * 2 ELSE MaxCooldown

\* A failed probe.
Reopened(b) ==
  LET cooldown == BackedOff(b.current_cooldown)
  IN  [b EXCEPT !.state = "open",
                !.current_cooldown = cooldown,
                !.cooldown_remaining = cooldown]

\* record_result is heard while the breaker lets calls through.
Listening(b) == b.state \in {"closed", "half_open"}

RecordResult(b, success) ==
  LET heard == [b EXCEPT !.window = Pushed(b.window, success)]
  IN  CASE ~Listening(b)         -> b
        [] b.state = "half_open" -> IF success THEN Recovered(heard) ELSE Reopened(heard)
        [] OTHER                 -> heard

CooledDown(left) == left <= 0

Ticked(b) ==
  LET left == b.cooldown_remaining - 1
  IN  IF b.state # "open" THEN b
      ELSE IF CooledDown(left)
           THEN [b EXCEPT !.cooldown_remaining = 0, !.state = "half_open"]
           ELSE [b EXCEPT !.cooldown_remaining = left]
-----------------------------------------------------------------------------
Init == acb = NewBreaker /\ reply = "none"

CallShouldExecute ==
  /\ acb' = ShouldExecute(acb)
  /\ reply' = ReasonOf(ShouldExecute(acb))

CallRecordResult(success) == acb' = RecordResult(acb, success) /\ UNCHANGED reply

CallTick == acb' = Ticked(acb) /\ UNCHANGED reply

Next ==
  \/ CallShouldExecute
  \/ \E success \in BOOLEAN : CallRecordResult(success)
  \/ CallTick

Spec == Init /\ [][Next]_adaptiveVars
-----------------------------------------------------------------------------
Ceiling == IF InitialCooldown >= MaxCooldown THEN InitialCooldown ELSE MaxCooldown

\* The fields a breaker may hold.
Breaker ==
  [ state              : BreakerState,
    window             : Seq(BOOLEAN),
    threshold          : MinFailureRate..InitialFailureRate,
    total_blocked      : 0..MaxTotalBlocked,
    cooldown_remaining : 0..Ceiling,
    current_cooldown   : 1..Ceiling ]

\* The fields keep their types whatever the order of calls: the window never
\* outgrows its size, the threshold stays between floor and initial rate, the
\* cooldown under its ceiling and the blocked count under the budget.
TypeOK ==
  /\ acb \in Breaker
  /\ Len(acb.window) <= WindowSize
  /\ reply \in Reason \cup {"none"}

\* The state, the ticks left and the blocked count tell the same story: an open
\* breaker has ticks left within its limit, a probing or closed one has none,
\* and the hard stop is exactly the exhausted budget.
StateIsConsistent ==
  /\ acb.state = "open" => acb.cooldown_remaining \in 1..acb.current_cooldown
  /\ acb.state \in {"closed", "half_open"} => acb.cooldown_remaining = 0
  /\ (acb.state = "permanently_open") <=> (acb.total_blocked = MaxTotalBlocked)

\* A breaker that left "closed" still holds a full window: the failures it
\* tripped on, with the probes since pushed over the oldest of them.
OpenRemembersTheOutage == acb.state # "closed" => Len(acb.window) = WindowSize

\* The adaptation has no effect on any decision: a trip tightens the threshold
\* by one step, failed probes leave it there, the successful probe that closes
\* the breaker undoes it, and only a closed breaker ever looks at it.
AdaptationIsInert ==
  acb.threshold = IF acb.state = "closed"
                  THEN InitialFailureRate ELSE Tightened(InitialFailureRate)

Protocol == INSTANCE BreakerProtocol WITH
  Budget <- MaxTotalBlocked, mode <- acb.state, blocked <- acb.total_blocked

\* The adaptive breaker too makes only the moves of the abstract protocol: its
\* trips are refusals, since they happen while answering a request.
ImplementsProtocol == Protocol!Spec
=============================================================================
