-------------------------- MODULE BreakerProtocol --------------------------
(***************************************************************************)
(* What every circuit breaker of baselines/ promises its caller: the four  *)
(* states listed in the class docstrings, the only moves between them, and *)
(* a budget of blocked requests whose last unit is the hard stop.          *)
(* CircuitBreaker and AdaptiveCircuitBreaker are shown to implement it.    *)
(***************************************************************************)
EXTENDS Integers

CONSTANT Budget  \* blocked requests before the hard stop

VARIABLES
  mode,     \* the state the caller observes
  blocked   \* requests refused so far

protocolVars == <<mode, blocked>>

Init == mode = "closed" /\ blocked = 0

\* A refused request: it costs one unit, and the last unit stops for good.
Refuse ==
  /\ blocked' = blocked + 1
  /\ mode' = IF blocked' = Budget THEN "permanently_open" ELSE "open"

\* Too many failures: on a result, or while answering a request.
Trip ==
  /\ mode = "closed"
  /\ \/ mode' = "open" /\ UNCHANGED blocked
     \/ Refuse

Block == mode = "open" /\ Refuse

OfferProbe == mode = "open" /\ mode' = "half_open" /\ UNCHANGED blocked

Recover == mode = "half_open" /\ mode' = "closed" /\ UNCHANGED blocked

Reopen == mode = "half_open" /\ mode' = "open" /\ UNCHANGED blocked

Next == Trip \/ Block \/ OfferProbe \/ Recover \/ Reopen

Spec == Init /\ [][Next]_protocolVars
=============================================================================
