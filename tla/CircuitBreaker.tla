--------------------------- MODULE CircuitBreaker ---------------------------
(***************************************************************************)
(* The exponential-backoff circuit breaker of baselines/circuit_breaker.py *)
(* as an object: its three methods are operators from the breaker's fields *)
(* to its fields, so that the loops that drive it can compose them inside  *)
(* one step.  Spec is the object under every order of method calls: the    *)
(* class leaves the order to its callers.                                  *)
(***************************************************************************)
EXTENDS Integers

CONSTANTS
  FailureThreshold, \* consecutive failures that trip a closed breaker
  InitialCooldown,  \* first cooldown, in ticks
  MaxCooldown,      \* the ceiling a doubled cooldown is cut to
  MaxTotalBlocked   \* blocked requests before the breaker stays open for good

\* __init__ validates nothing; these are the arguments its docstring describes.
ASSUME BreakerAssumption ==
  /\ FailureThreshold \in Nat \ {0}
  /\ InitialCooldown \in Nat \ {0}
  /\ MaxCooldown \in Nat \ {0}
  /\ MaxTotalBlocked \in Nat \ {0}

VARIABLES
  cb,    \* the fields of the breaker
  reply  \* the reason of the latest should_execute, "none" before the first

breakerVars == <<cb, reply>>

BreakerState == {"closed", "open", "half_open", "permanently_open"}
Reason == {"closed", "half_open_probe", "open_blocked", "permanently_open"}
-----------------------------------------------------------------------------
NewBreaker ==
  [ state                  |-> "closed",
    consecutive_failures   |-> 0,
    total_blocked          |-> 0,
    cooldown_remaining     |-> 0,
    current_cooldown_limit |-> InitialCooldown ]

Smaller(a, b) == IF a <= b THEN a ELSE b

\* Slip: the budget is overrun by one before the hard stop.
BudgetOverrun(blocked) == blocked > MaxTotalBlocked

BudgetSpent(blocked) == blocked >= MaxTotalBlocked

\* should_execute: a blocked request is counted, and the one that exhausts the
\* budget is already answered "permanently_open".
ShouldExecute(b) ==
  LET blocked == b.total_blocked + 1
  IN  IF b.state # "open" THEN b
      ELSE IF BudgetSpent(blocked)
           THEN [b EXCEPT !.total_blocked = blocked, !.state = "permanently_open"]
           ELSE [b EXCEPT !.total_blocked = blocked]

\* The reason should_execute returns, as a function of the state it leaves.
ReasonOf(b) ==
  CASE b.state = "permanently_open" -> "permanently_open"
    [] b.state = "open"             -> "open_blocked"
    [] b.state = "half_open"        -> "half_open_probe"
    [] OTHER                        -> "closed"

Allowed(reason) == reason \in {"closed", "half_open_probe"}

\* Open for a cooldown of limit ticks.
OpenFor(b, limit) ==
  [b EXCEPT !.state = "open",
            !.current_cooldown_limit = limit,
            !.cooldown_remaining = limit]

\* Closed again: nothing of the outage but the blocked count is kept.
Closed(b) ==
  [b EXCEPT !.state = "closed",
            !.consecutive_failures = 0,
            !.current_cooldown_limit = InitialCooldown,
            !.cooldown_remaining = 0]

\* Slip: a success only clears the failure run.
RecordSuccessStays(b) == [b EXCEPT !.consecutive_failures = 0]

\* record_result(success=True).  An open or stopped breaker ignores results.
RecordSuccess(b) ==
  CASE b.state = "closed"    -> [b EXCEPT !.consecutive_failures = 0]
    [] b.state = "half_open" -> Closed(b)
    [] OTHER                 -> b

BackedOff(limit) == Smaller(limit * 2, MaxCooldown)

\* record_result(success=False).
RecordFailure(b) ==
  LET failed == [b EXCEPT !.consecutive_failures = @ + 1]
  IN  CASE b.state = "closed" ->
             IF failed.consecutive_failures >= FailureThreshold
             THEN OpenFor(failed, InitialCooldown)
             ELSE failed
        [] b.state = "half_open" -> OpenFor(failed, BackedOff(b.current_cooldown_limit))
        [] OTHER -> b

RecordResult(b, success) == IF success THEN RecordSuccess(b) ELSE RecordFailure(b)

\* Slip: one tick too many before the probe.
CooledDownLate(left) == left < 0

CooledDown(left) == left <= 0

\* tick: one step of cooldown; the last one opens the probe slot.
Ticked(b) ==
  LET left == b.cooldown_remaining - 1
  IN  IF b.state # "open" THEN b
      ELSE IF CooledDown(left)
           THEN [b EXCEPT !.cooldown_remaining = 0, !.state = "half_open"]
           ELSE [b EXCEPT !.cooldown_remaining = left]
-----------------------------------------------------------------------------
Init == cb = NewBreaker /\ reply = "none"

CallShouldExecute ==
  /\ cb' = ShouldExecute(cb)
  /\ reply' = ReasonOf(ShouldExecute(cb))

CallRecordResult(success) == cb' = RecordResult(cb, success) /\ UNCHANGED reply

CallTick == cb' = Ticked(cb) /\ UNCHANGED reply

Next ==
  \/ CallShouldExecute
  \/ \E success \in BOOLEAN : CallRecordResult(success)
  \/ CallTick

Spec == Init /\ [][Next]_breakerVars
-----------------------------------------------------------------------------
Ceiling == IF InitialCooldown >= MaxCooldown THEN InitialCooldown ELSE MaxCooldown

\* The fields a breaker may hold.
Breaker ==
  [ state                  : BreakerState,
    consecutive_failures   : Nat,
    total_blocked          : 0..MaxTotalBlocked,
    cooldown_remaining     : 0..Ceiling,
    current_cooldown_limit : 1..Ceiling ]

\* The fields keep their types; the cooldown never outgrows its two bounds and
\* the blocked count never outgrows the budget, whatever the order of calls.
TypeOK ==
  /\ cb \in Breaker
  /\ reply \in Reason \cup {"none"}

\* The breaker is closed exactly while its failure run is below the threshold:
\* neither a late result nor a probe can leave a tripped count in a closed
\* breaker, or a fresh count in a tripped one (record_result).
ClosedBelowThreshold ==
  (cb.state = "closed") <=> (cb.consecutive_failures < FailureThreshold)

\* An open breaker always has ticks left to wait, never more than the current
\* limit; a closed or probing one has none (tick against record_result).
CooldownMatchesState ==
  /\ cb.state = "open" => cb.cooldown_remaining \in 1..cb.current_cooldown_limit
  /\ cb.state \in {"closed", "half_open"} => cb.cooldown_remaining = 0

\* The hard stop is exactly the exhaustion of the blocked budget: no path stops
\* early, and none keeps asking the budget after it is spent (should_execute).
StoppedIffBudgetSpent ==
  (cb.state = "permanently_open") <=> (cb.total_blocked = MaxTotalBlocked)

\* Nothing that was blocked is ever forgiven, and a stopped breaker never
\* changes again: results that arrive late included.
StopIsFinal ==
  [][/\ cb'.total_blocked >= cb.total_blocked
     /\ cb.state = "permanently_open" => cb' = cb]_breakerVars

Protocol == INSTANCE BreakerProtocol WITH
  Budget <- MaxTotalBlocked, mode <- cb.state, blocked <- cb.total_blocked

\* The breaker makes only the moves of the abstract protocol: one unit of the
\* blocked budget per refused request, and a way back only through a probe.
ImplementsProtocol == Protocol!Spec
=============================================================================
