--------------------------- MODULE BreakerProofs ---------------------------
(***************************************************************************)
(* The breaker and its loop for every threshold, cooldown, ceiling and     *)
(* budget: first the invariants of the object and that it implements       *)
(* BreakerProtocol, whoever calls it; then what the loop adds to it:       *)
(* single probes, exact waiting times, and counters that agree.            *)
(***************************************************************************)
EXTENDS BreakerLoop, TLAPS
-----------------------------------------------------------------------------
(* The breaker.                                                            *)

\* The four state invariants hold each other up: a trip needs the cooldown to
\* be a legal one, a hard stop needs the open breaker to be below its budget.
IInv ==
  /\ TypeOK
  /\ ClosedBelowThreshold
  /\ CooldownMatchesState
  /\ StoppedIffBudgetSpent

\* The part of IInv about the fields b of a breaker that relates them.
Consistent(b) ==
  /\ (b.state = "closed") <=> (b.consecutive_failures < FailureThreshold)
  /\ b.state = "open" => b.cooldown_remaining \in 1..b.current_cooldown_limit
  /\ b.state \in {"closed", "half_open"} => b.cooldown_remaining = 0
  /\ (b.state = "permanently_open") <=> (b.total_blocked = MaxTotalBlocked)

Sound(b) == b \in Breaker /\ Consistent(b)

\* Both bounds of the cooldown are below the ceiling.
LEMMA CeilingBounds ==
  /\ Ceiling \in Nat \ {0}
  /\ InitialCooldown \in 1..Ceiling
  /\ MaxCooldown \in 1..Ceiling
BY BreakerAssumption DEF Ceiling

\* A doubled and cut cooldown is again a legal one.
LEMMA DoubledIsLegal ==
  ASSUME NEW limit \in 1..Ceiling
  PROVE  BackedOff(limit) \in 1..Ceiling
BY CeilingBounds DEF BackedOff, Smaller

\* A new breaker is sound.
LEMMA NewIsSound == Sound(NewBreaker)
<1>1. NewBreaker \in Breaker
  BY BreakerAssumption, CeilingBounds DEF NewBreaker, Breaker, BreakerState
<1>2. Consistent(NewBreaker)
  BY BreakerAssumption DEF NewBreaker, Consistent
<1>3. QED BY <1>1, <1>2 DEF Sound

\* Opening for a legal cooldown below the budget gives a sound breaker.
LEMMA OpenForSound ==
  ASSUME NEW b \in Breaker, NEW limit \in 1..Ceiling,
         b.consecutive_failures >= FailureThreshold,
         b.total_blocked # MaxTotalBlocked
  PROVE  Sound(OpenFor(b, limit))
<1>1. limit \in 0..Ceiling /\ "open" \in BreakerState
  BY DEF BreakerState
<1>2. OpenFor(b, limit) \in Breaker
  BY <1>1 DEF OpenFor, Breaker
<1>3. Consistent(OpenFor(b, limit))
  BY BreakerAssumption, CeilingBounds DEF OpenFor, Consistent, Breaker
<1>4. QED BY <1>2, <1>3 DEF Sound

\* should_execute keeps a breaker sound.
LEMMA ShouldExecuteSound ==
  ASSUME NEW b, Sound(b)
  PROVE  Sound(ShouldExecute(b))
<1> DEFINE blocked == b.total_blocked + 1
<1>1. CASE b.state # "open"
  BY <1>1 DEF ShouldExecute, BudgetSpent
<1>2. CASE b.state = "open"
  <2>1. blocked \in 0..MaxTotalBlocked
    BY <1>2, BreakerAssumption DEF Sound, Breaker, Consistent
  <2>2. "permanently_open" \in BreakerState
    BY DEF BreakerState
  <2>3. CASE blocked >= MaxTotalBlocked
    <3>1. ShouldExecute(b) =
            [b EXCEPT !.total_blocked = blocked, !.state = "permanently_open"]
      BY <1>2, <2>3 DEF ShouldExecute, BudgetSpent
    <3>2. ShouldExecute(b) \in Breaker
      BY <3>1, <2>1, <2>2 DEF Sound, Breaker
    <3>3. Consistent(ShouldExecute(b))
      BY <1>2, <2>1, <2>3, <3>1, BreakerAssumption DEF Sound, Breaker, Consistent
    <3>4. QED BY <3>2, <3>3 DEF Sound
  <2>4. CASE ~(blocked >= MaxTotalBlocked)
    <3>1. ShouldExecute(b) = [b EXCEPT !.total_blocked = blocked]
      BY <1>2, <2>4 DEF ShouldExecute, BudgetSpent
    <3>2. ShouldExecute(b) \in Breaker
      BY <3>1, <2>1 DEF Sound, Breaker
    <3>3. Consistent(ShouldExecute(b))
      BY <1>2, <2>1, <2>4, <3>1, BreakerAssumption DEF Sound, Breaker, Consistent
    <3>4. QED BY <3>2, <3>3 DEF Sound
  <2>5. QED BY <2>3, <2>4
<1>3. QED BY <1>1, <1>2

\* tick keeps a breaker sound.
LEMMA TickedSound ==
  ASSUME NEW b, Sound(b)
  PROVE  Sound(Ticked(b))
<1> DEFINE left == b.cooldown_remaining - 1
<1>1. CASE b.state # "open"
  BY <1>1 DEF Ticked, CooledDown
<1>2. CASE b.state = "open"
  <2>1. left \in 0..Ceiling /\ left < b.current_cooldown_limit
    BY <1>2, CeilingBounds DEF Sound, Breaker, Consistent
  <2>2. 0 \in 0..Ceiling /\ "half_open" \in BreakerState
    BY CeilingBounds DEF BreakerState
  <2>3. CASE left <= 0
    <3>1. Ticked(b) = [b EXCEPT !.cooldown_remaining = 0, !.state = "half_open"]
      BY <1>2, <2>3 DEF Ticked, CooledDown
    <3>2. Ticked(b) \in Breaker
      BY <3>1, <2>2 DEF Sound, Breaker
    <3>3. Consistent(Ticked(b))
      BY <1>2, <3>1 DEF Sound, Breaker, Consistent
    <3>4. QED BY <3>2, <3>3 DEF Sound
  <2>4. CASE ~(left <= 0)
    <3>1. Ticked(b) = [b EXCEPT !.cooldown_remaining = left]
      BY <1>2, <2>4 DEF Ticked, CooledDown
    <3>2. Ticked(b) \in Breaker
      BY <3>1, <2>1 DEF Sound, Breaker
    <3>3. Consistent(Ticked(b))
      BY <1>2, <2>1, <2>4, <3>1 DEF Sound, Breaker, Consistent
    <3>4. QED BY <3>2, <3>3 DEF Sound
  <2>5. QED BY <2>3, <2>4
<1>3. QED BY <1>1, <1>2

\* record_result(success=True) keeps a breaker sound.
LEMMA RecordSuccessSound ==
  ASSUME NEW b, Sound(b)
  PROVE  Sound(RecordSuccess(b))
<1>1. CASE b.state = "closed"
  <2>1. RecordSuccess(b) = [b EXCEPT !.consecutive_failures = 0]
    BY <1>1 DEF RecordSuccess
  <2>2. RecordSuccess(b) \in Breaker
    BY <2>1 DEF Sound, Breaker
  <2>3. 0 < FailureThreshold /\ 0 \in Nat
    BY BreakerAssumption
  <2>4. Consistent(RecordSuccess(b))
    BY <1>1, <2>1, <2>3 DEF Sound, Breaker, Consistent
  <2>5. QED BY <2>2, <2>4 DEF Sound
<1>2. CASE b.state = "half_open"
  <2>1. RecordSuccess(b) = [b EXCEPT !.state = "closed",
                                     !.consecutive_failures = 0,
                                     !.current_cooldown_limit = InitialCooldown,
                                     !.cooldown_remaining = 0]
    BY <1>2 DEF RecordSuccess, Closed
  <2>2. /\ "closed" \in BreakerState
        /\ InitialCooldown \in 1..Ceiling
        /\ 0 \in 0..Ceiling
    BY CeilingBounds DEF BreakerState
  <2>3. RecordSuccess(b) \in Breaker
    <3> DEFINE reset == [b EXCEPT !.state = "closed", !.consecutive_failures = 0]
    <3>1. reset \in Breaker
      BY <2>2 DEF Sound, Breaker
    <3>2. [reset EXCEPT !.current_cooldown_limit = InitialCooldown,
                        !.cooldown_remaining = 0] \in Breaker
      <4> HIDE DEF reset
      <4>1. QED BY <2>2, <3>1 DEF Breaker
    <3>3. QED BY <2>1, <3>2
  <2>4. /\ RecordSuccess(b).state = "closed"
        /\ RecordSuccess(b).consecutive_failures = 0
        /\ RecordSuccess(b).cooldown_remaining = 0
        /\ RecordSuccess(b).total_blocked = b.total_blocked
    BY <2>1 DEF Sound, Breaker
  <2>5. Consistent(RecordSuccess(b))
    BY <1>2, <2>4, BreakerAssumption DEF Sound, Consistent
  <2>6. QED BY <2>3, <2>5 DEF Sound
<1>3. CASE b.state \notin {"closed", "half_open"}
  BY <1>3 DEF RecordSuccess
<1>4. QED BY <1>1, <1>2, <1>3

\* record_result(success=False) keeps a breaker sound.
LEMMA RecordFailureSound ==
  ASSUME NEW b, Sound(b)
  PROVE  Sound(RecordFailure(b))
<1> DEFINE failed == [b EXCEPT !.consecutive_failures = @ + 1]
<1>1. /\ failed \in Breaker
      /\ failed.consecutive_failures = b.consecutive_failures + 1
      /\ failed.total_blocked = b.total_blocked
      /\ b.consecutive_failures \in Nat
  BY DEF Sound, Breaker
<1>2. CASE b.state = "closed" /\ failed.consecutive_failures >= FailureThreshold
  <2>1. RecordFailure(b) = OpenFor(failed, InitialCooldown)
    BY <1>2 DEF RecordFailure
  <2>2. b.total_blocked # MaxTotalBlocked
    BY <1>2 DEF Sound, Consistent
  <2>3. QED BY <1>1, <1>2, <2>1, <2>2, CeilingBounds, OpenForSound
<1>3. CASE b.state = "closed" /\ ~(failed.consecutive_failures >= FailureThreshold)
  <2>1. RecordFailure(b) = failed
    BY <1>3 DEF RecordFailure
  <2>2. Consistent(failed)
    BY <1>1, <1>3, BreakerAssumption DEF Sound, Breaker, Consistent
  <2>3. QED BY <1>1, <2>1, <2>2 DEF Sound
<1>4. CASE b.state = "half_open"
  <2>1. RecordFailure(b) =
          OpenFor(failed, BackedOff(b.current_cooldown_limit))
    BY <1>4 DEF RecordFailure
  <2>2. BackedOff(b.current_cooldown_limit) \in 1..Ceiling
    BY DoubledIsLegal DEF Sound, Breaker
  <2>3. /\ b.total_blocked # MaxTotalBlocked
        /\ failed.consecutive_failures >= FailureThreshold
    BY <1>1, <1>4, BreakerAssumption DEF Sound, Consistent
  <2>4. QED BY <1>1, <2>1, <2>2, <2>3, OpenForSound
<1>5. CASE b.state \notin {"closed", "half_open"}
  BY <1>5 DEF RecordFailure
<1>6. QED BY <1>2, <1>3, <1>4, <1>5

\* record_result keeps a breaker sound.
LEMMA RecordResultSound ==
  ASSUME NEW b, Sound(b), NEW success \in BOOLEAN
  PROVE  Sound(RecordResult(b, success))
BY RecordSuccessSound, RecordFailureSound DEF RecordResult

\* The reason is one of the four the docstring lists.
LEMMA ReasonType == ASSUME NEW b PROVE ReasonOf(b) \in Reason
BY DEF ReasonOf, Reason

\* IInv is soundness of the breaker plus the type of the reply.
LEMMA IInvIsSound == IInv <=> Sound(cb) /\ reply \in Reason \cup {"none"}
BY DEF IInv, Sound, Consistent, TypeOK, ClosedBelowThreshold, CooldownMatchesState,
       StoppedIffBudgetSpent

\* Every call keeps the invariant.
LEMMA IInvInductive == IInv /\ [Next]_breakerVars => IInv'
<1> SUFFICES ASSUME IInv, [Next]_breakerVars PROVE IInv'
  OBVIOUS
<1>0. Sound(cb) /\ reply \in Reason \cup {"none"}
  BY IInvIsSound
<1>1. (Sound(cb) /\ reply \in Reason \cup {"none"})' => IInv'
  BY DEF IInv, Sound, Consistent, TypeOK, ClosedBelowThreshold,
         CooldownMatchesState, StoppedIffBudgetSpent
<1>2. CASE CallShouldExecute
  BY <1>0, <1>1, <1>2, ShouldExecuteSound, ReasonType DEF CallShouldExecute
<1>3. CASE \E success \in BOOLEAN : CallRecordResult(success)
  BY <1>0, <1>1, <1>3, RecordResultSound DEF CallRecordResult
<1>4. CASE CallTick
  BY <1>0, <1>1, <1>4, TickedSound DEF CallTick
<1>5. CASE UNCHANGED breakerVars
  BY <1>0, <1>1, <1>5 DEF breakerVars
<1>6. QED BY <1>2, <1>3, <1>4, <1>5 DEF Next

\* IInv holds in every reachable state of the breaker.
LEMMA Invariance == Spec => []IInv
<1>1. Init => IInv
  BY NewIsSound, IInvIsSound DEF Init
<1>2. QED BY <1>1, IInvInductive, PTL DEF Spec

\* The fields keep their types and bounds under every order of calls.
THEOREM TypeCorrect == Spec => []TypeOK
<1>1. IInv => TypeOK BY DEF IInv
<1>2. QED BY <1>1, Invariance, PTL

\* A breaker is closed exactly while its failure run is below the threshold,
\* waits exactly while it is open, and stops exactly when its budget is spent.
THEOREM BreakerSafety ==
  Spec => [](ClosedBelowThreshold /\ CooldownMatchesState /\ StoppedIffBudgetSpent)
<1>1. IInv => ClosedBelowThreshold /\ CooldownMatchesState /\ StoppedIffBudgetSpent
  BY DEF IInv
<1>2. QED BY <1>1, Invariance, PTL

\* A request, a result or a tick is a move of the protocol or no move at all.
LEMMA StepImplementsProtocol ==
  IInv /\ [Next]_breakerVars => [Protocol!Next]_(Protocol!protocolVars)
<1> SUFFICES ASSUME IInv, [Next]_breakerVars
             PROVE  [Protocol!Next]_(Protocol!protocolVars)
  OBVIOUS
<1> USE DEF Protocol!Next, Protocol!protocolVars
<1>0. cb \in Breaker /\ Consistent(cb)
  BY IInvIsSound DEF Sound
<1>1. CASE CallShouldExecute
  <2>1. CASE cb.state # "open"
    BY <1>1, <2>1 DEF CallShouldExecute, ShouldExecute
  <2>2. CASE cb.state = "open" /\ cb.total_blocked + 1 >= MaxTotalBlocked
    <3>1. /\ cb'.total_blocked = cb.total_blocked + 1
          /\ cb'.state = "permanently_open"
      BY <1>0, <1>1, <2>2 DEF CallShouldExecute, ShouldExecute, BudgetSpent, Breaker
    <3>2. cb.total_blocked + 1 = MaxTotalBlocked
      BY <1>0, <2>2, BreakerAssumption DEF Breaker, Consistent
    <3>3. QED BY <2>2, <3>1, <3>2 DEF Protocol!Block, Protocol!Refuse
  <2>3. CASE cb.state = "open" /\ ~(cb.total_blocked + 1 >= MaxTotalBlocked)
    <3>1. /\ cb'.total_blocked = cb.total_blocked + 1
          /\ cb'.state = "open"
      BY <1>0, <1>1, <2>3 DEF CallShouldExecute, ShouldExecute, BudgetSpent, Breaker
    <3>2. cb.total_blocked + 1 # MaxTotalBlocked
      BY <1>0, <2>3, BreakerAssumption DEF Breaker
    <3>3. QED BY <2>3, <3>1, <3>2 DEF Protocol!Block, Protocol!Refuse
  <2>4. QED BY <2>1, <2>2, <2>3
<1>2. ASSUME NEW success \in BOOLEAN, CallRecordResult(success)
      PROVE  [Protocol!Next]_(Protocol!protocolVars)
  <2>1. cb' = RecordResult(cb, success)
    BY <1>2 DEF CallRecordResult
  <2>2. CASE cb.state = "closed"
    <3>1. /\ cb'.total_blocked = cb.total_blocked
          /\ cb'.state \in {"closed", "open"}
      BY <1>0, <2>1, <2>2
      DEF RecordResult, RecordSuccess, Closed, RecordFailure, OpenFor, Breaker
    <3>2. QED BY <2>2, <3>1 DEF Protocol!Trip
  <2>3. CASE cb.state = "half_open"
    <3>1. /\ cb'.total_blocked = cb.total_blocked
          /\ cb'.state \in {"closed", "open"}
      BY <1>0, <2>1, <2>3
      DEF RecordResult, RecordSuccess, Closed, RecordFailure, OpenFor, Breaker
    <3>2. QED BY <2>3, <3>1 DEF Protocol!Recover, Protocol!Reopen
  <2>4. CASE cb.state \notin {"closed", "half_open"}
    BY <2>1, <2>4 DEF RecordResult, RecordSuccess, RecordFailure
  <2>5. QED BY <2>2, <2>3, <2>4
<1>3. CASE CallTick
  <2>1. CASE cb.state # "open"
    BY <1>3, <2>1 DEF CallTick, Ticked
  <2>2. CASE cb.state = "open"
    <3>1. /\ cb'.total_blocked = cb.total_blocked
          /\ cb'.state \in {"open", "half_open"}
      BY <1>0, <1>3, <2>2 DEF CallTick, Ticked, CooledDown, Breaker
    <3>2. QED BY <2>2, <3>1 DEF Protocol!OfferProbe
  <2>3. QED BY <2>1, <2>2
<1>4. CASE UNCHANGED breakerVars
  BY <1>4 DEF breakerVars
<1>5. QED BY <1>1, <1>2, <1>3, <1>4 DEF Next

\* The breaker object implements the protocol its callers rely on.
THEOREM RefinesProtocol == Spec => ImplementsProtocol
<1>1. Init => Protocol!Init
  BY DEF Init, NewBreaker, Protocol!Init
<1>2. QED
  BY <1>1, Invariance, StepImplementsProtocol, PTL
  DEF Spec, ImplementsProtocol, Protocol!Spec

\* Blocked requests are never forgiven and a stopped breaker never moves again.
THEOREM StopsForGood == Spec => StopIsFinal
<1>1. IInv /\ [Next]_breakerVars =>
        [/\ cb'.total_blocked >= cb.total_blocked
         /\ cb.state = "permanently_open" => cb' = cb]_breakerVars
  <2> SUFFICES ASSUME IInv, Next
               PROVE  /\ cb'.total_blocked >= cb.total_blocked
                      /\ cb.state = "permanently_open" => cb' = cb
    OBVIOUS
  <2>1. cb.total_blocked \in Nat /\ cb'.total_blocked \in Nat
    BY IInvInductive, BreakerAssumption DEF IInv, TypeOK, Breaker
  <2>2. cb.state = "permanently_open" => cb' = cb
    BY DEF Next, CallShouldExecute, CallRecordResult, CallTick,
           ShouldExecute, RecordResult, RecordSuccess, RecordFailure, Ticked
  <2>3. [Protocol!Next]_(Protocol!protocolVars)
    BY StepImplementsProtocol
  <2>4. cb'.total_blocked \in {cb.total_blocked, cb.total_blocked + 1}
    BY <2>3 DEF Protocol!Next, Protocol!protocolVars, Protocol!Trip, Protocol!Block,
      Protocol!Refuse, Protocol!OfferProbe, Protocol!Recover, Protocol!Reopen
  <2>5. QED BY <2>1, <2>2, <2>4
<1>2. QED BY <1>1, Invariance, PTL DEF Spec, StopIsFinal
-----------------------------------------------------------------------------
(* The loop.                                                               *)

\* Ticks still to come plus iterations already skipped make up the cooldown.
WaitedSoFar ==
  /\ pc = "decide" =>
       waited + cb.cooldown_remaining =
         IF cb.state = "open" THEN cb.current_cooldown_limit ELSE 0
  /\ ProbeAfterFullCooldown

LoopIInv ==
  /\ Sound(cb)
  /\ pc \in {"decide", "execute", "stopped"}
  /\ waited \in Nat
  /\ OneProbePerHalfOpen
  /\ WaitedSoFar
  /\ total_blocked_steps = cb.total_blocked
  /\ pc # "stopped" => stop_reason = "none"
  /\ (stop_reason = "permanently_open") <=> (cb.state = "permanently_open")
  /\ FailureCountersAgree

\* Neither a tick nor a question touches the failure run, and a question asked
\* after the tick finds one of the four reasons.
LEMMA AskedFacts ==
  ASSUME Sound(cb), cb.state \in {"closed", "open"}
  PROVE  /\ Sound(Asked)
         /\ Asked.consecutive_failures = cb.consecutive_failures
         /\ Asked.current_cooldown_limit = cb.current_cooldown_limit
         /\ cb.state = "closed" => Asked = cb
         /\ cb.state = "open" /\ cb.cooldown_remaining = 1 =>
              /\ Asked.state = "half_open"
              /\ Asked.cooldown_remaining = 0
              /\ Asked.total_blocked = cb.total_blocked
         /\ cb.state = "open" /\ cb.cooldown_remaining # 1 =>
              /\ Asked.state \in {"open", "permanently_open"}
              /\ Asked.cooldown_remaining = cb.cooldown_remaining - 1
              /\ Asked.total_blocked = cb.total_blocked + 1
<1> DEFINE t == Ticked(cb)
<1>1. Sound(Asked)
  BY TickedSound, ShouldExecuteSound DEF Asked
<1>2. CASE cb.state = "closed"
  <2>1. Asked = cb
    BY <1>2 DEF Asked, Ticked, ShouldExecute
  <2>2. QED BY <1>1, <1>2, <2>1
<1>3. CASE cb.state = "open" /\ cb.cooldown_remaining = 1
  <2>1. t = [cb EXCEPT !.cooldown_remaining = 0, !.state = "half_open"]
    BY <1>3 DEF Ticked, CooledDown
  <2>2. Asked = t
    BY <1>3, <2>1 DEF Asked, ShouldExecute, Sound, Breaker
  <2>3. QED BY <1>1, <1>3, <2>1, <2>2 DEF Sound, Breaker
<1>4. CASE cb.state = "open" /\ cb.cooldown_remaining # 1
  <2>1. ~(cb.cooldown_remaining - 1 <= 0)
    BY <1>4, CeilingBounds DEF Sound, Breaker, Consistent
  <2>2. t = [cb EXCEPT !.cooldown_remaining = cb.cooldown_remaining - 1]
    BY <1>4, <2>1 DEF Ticked, CooledDown
  <2>3. /\ t.state = "open"
        /\ t.total_blocked = cb.total_blocked
        /\ t.cooldown_remaining = cb.cooldown_remaining - 1
        /\ t.consecutive_failures = cb.consecutive_failures
        /\ t.current_cooldown_limit = cb.current_cooldown_limit
    BY <1>4, <2>2 DEF Sound, Breaker
  <2>4. /\ Asked.state \in {"open", "permanently_open"}
        /\ Asked.total_blocked = t.total_blocked + 1
        /\ Asked.cooldown_remaining = t.cooldown_remaining
        /\ Asked.consecutive_failures = t.consecutive_failures
        /\ Asked.current_cooldown_limit = t.current_cooldown_limit
    <3>1. t \in Breaker
      BY TickedSound DEF Sound
    <3> HIDE DEF t
    <3>2. Asked = ShouldExecute(t)
      BY DEF Asked, t
    <3>3. CASE t.total_blocked + 1 >= MaxTotalBlocked
      <4>1. Asked = [t EXCEPT !.total_blocked = t.total_blocked + 1,
                              !.state = "permanently_open"]
        BY <2>3, <3>2, <3>3 DEF ShouldExecute, BudgetSpent
      <4>2. QED BY <3>1, <4>1 DEF Breaker
    <3>4. CASE ~(t.total_blocked + 1 >= MaxTotalBlocked)
      <4>1. Asked = [t EXCEPT !.total_blocked = t.total_blocked + 1]
        BY <2>3, <3>2, <3>4 DEF ShouldExecute, BudgetSpent
      <4>2. QED BY <2>3, <3>1, <4>1 DEF Breaker
    <3>5. QED BY <3>3, <3>4
  <2>5. QED BY <1>1, <1>4, <2>3, <2>4
<1>5. QED BY <1>2, <1>3, <1>4

\* The invariant holds initially.
LEMMA LoopIInvInit == LoopInit => LoopIInv
BY NewIsSound, BreakerAssumption
DEF LoopInit, Init, LoopIInv, WaitedSoFar, OneProbePerHalfOpen,
    ProbeAfterFullCooldown, FailureCountersAgree, NewBreaker

\* A refused iteration moves one tick from the cooldown to the waiting time.
LEMMA BlockedStep == LoopIInv /\ Blocked => LoopIInv'
<1> SUFFICES ASSUME LoopIInv, Blocked PROVE LoopIInv'
  OBVIOUS
<1> USE DEF LoopIInv
<1>1. pc = "decide" /\ cb' = Asked /\ cb.state \in {"closed", "open"}
  BY DEF Blocked, OneProbePerHalfOpen
<1>2. cb'.state \in {"open", "permanently_open"}
  BY <1>1, ShouldExecuteSound, TickedSound
  DEF Blocked, ReasonOf, Allowed, Asked, Sound, Breaker, BreakerState
<1>3. cb.state = "open" /\ cb.cooldown_remaining # 1
  BY <1>1, <1>2, AskedFacts
<1>4. /\ Sound(cb')
      /\ cb'.consecutive_failures = cb.consecutive_failures
      /\ cb'.current_cooldown_limit = cb.current_cooldown_limit
      /\ cb'.cooldown_remaining = cb.cooldown_remaining - 1
      /\ cb'.total_blocked = cb.total_blocked + 1
  BY <1>1, <1>3, AskedFacts
<1>5. pc' = (IF cb'.state = "permanently_open" THEN "stopped" ELSE "decide")
  BY <1>1, <1>2 DEF Blocked, ReasonOf
<1>6. WaitedSoFar'
  BY <1>1, <1>2, <1>3, <1>4, <1>5
  DEF WaitedSoFar, ProbeAfterFullCooldown, Blocked, Sound, Breaker
<1>7. stop_reason' = (IF cb'.state = "permanently_open" THEN "permanently_open" ELSE "none")
  BY <1>1, <1>2 DEF Blocked, ReasonOf
<1>8. QED
  BY <1>1, <1>2, <1>4, <1>5, <1>6, <1>7
  DEF Blocked, OneProbePerHalfOpen, FailureCountersAgree

\* An admitted iteration finds the breaker closed, or its last tick spent.
LEMMA AdmittedStep == LoopIInv /\ Admitted => LoopIInv'
<1> SUFFICES ASSUME LoopIInv, Admitted PROVE LoopIInv'
  OBVIOUS
<1> USE DEF LoopIInv
<1>1. /\ pc = "decide" /\ pc' = "execute"
      /\ cb' = Asked /\ cb.state \in {"closed", "open"}
      /\ stop_reason = "none" /\ stop_reason' = "none" /\ waited' = waited
      /\ total_blocked_steps' = total_blocked_steps /\ retry_count' = retry_count
  BY DEF Admitted, OneProbePerHalfOpen
<1>2. cb'.state \in {"closed", "half_open"}
  BY <1>1, AskedFacts DEF Admitted, ReasonOf, Allowed
<1>3. cb.state = "closed" \/ (cb.state = "open" /\ cb.cooldown_remaining = 1)
  BY <1>1, <1>2, AskedFacts
<1>4. /\ Sound(cb')
      /\ cb'.consecutive_failures = cb.consecutive_failures
      /\ cb'.current_cooldown_limit = cb.current_cooldown_limit
      /\ cb'.total_blocked = cb.total_blocked
      /\ (cb'.state = "half_open") <=> (cb.state = "open")
  BY <1>1, <1>3, AskedFacts
<1>5. /\ cb.cooldown_remaining = IF cb.state = "open" THEN 1 ELSE 0
      /\ cb.current_cooldown_limit \in Nat
  BY <1>3, CeilingBounds DEF Sound, Breaker, Consistent
<1>6. WaitedSoFar'
  BY <1>1, <1>2, <1>3, <1>4, <1>5 DEF WaitedSoFar, ProbeAfterFullCooldown
<1>7. QED
  BY <1>1, <1>2, <1>4, <1>6 DEF OneProbePerHalfOpen, FailureCountersAgree

\* Recording a result leaves half_open and starts a new waiting time.
LEMMA ExecuteStep == LoopIInv /\ Execute => LoopIInv'
<1> SUFFICES ASSUME LoopIInv, Execute PROVE LoopIInv'
  OBVIOUS
<1> USE DEF LoopIInv
<1>1. /\ pc = "execute" /\ pc' = "decide"
      /\ cb' = RecordResult(cb, healthy) /\ cb.state \in {"closed", "half_open"}
      /\ stop_reason = "none" /\ stop_reason' = "none" /\ waited' = 0
      /\ total_blocked_steps' = total_blocked_steps
      /\ retry_count' = IF healthy THEN 0 ELSE retry_count + 1
  BY DEF Execute, OneProbePerHalfOpen
<1>2. Sound(cb')
  BY <1>1, RecordSuccessSound, RecordFailureSound DEF RecordResult
<1>3. /\ cb'.total_blocked = cb.total_blocked
      /\ cb'.consecutive_failures = IF healthy THEN 0 ELSE cb.consecutive_failures + 1
      /\ cb'.state \in {"closed", "open"}
      /\ cb'.state = "open" => cb'.cooldown_remaining = cb'.current_cooldown_limit
  <2>1. CASE healthy
    BY <1>1, <2>1 DEF RecordResult, RecordSuccess, Closed, Sound, Breaker
  <2>2. CASE ~healthy
    BY <1>1, <2>2 DEF RecordResult, RecordFailure, OpenFor, Sound, Breaker
  <2>3. QED BY <2>1, <2>2
<1>4. WaitedSoFar'
  BY <1>1, <1>2, <1>3
  DEF WaitedSoFar, ProbeAfterFullCooldown, Sound, Breaker, Consistent
<1>5. QED
  BY <1>1, <1>2, <1>3, <1>4 DEF OneProbePerHalfOpen, FailureCountersAgree

\* Every step of the loop keeps the invariant.
LEMMA LoopIInvInductive == LoopIInv /\ [LoopNext]_loopVars => LoopIInv'
<1> SUFFICES ASSUME LoopIInv, [LoopNext]_loopVars PROVE LoopIInv'
  OBVIOUS
<1> USE DEF LoopIInv, OneProbePerHalfOpen, WaitedSoFar, ProbeAfterFullCooldown,
            FailureCountersAgree
<1>1. CASE UnknownTool
  BY <1>1 DEF UnknownTool
<1>2. CASE Exhausted
  BY <1>2 DEF Exhausted
<1>3. CASE ToolChanges
  BY <1>3 DEF ToolChanges
<1>4. CASE UNCHANGED loopVars
  BY <1>4 DEF loopVars
<1>5. QED
  BY <1>1, <1>2, <1>3, <1>4, BlockedStep, AdmittedStep, ExecuteStep
  DEF LoopNext, Iteration

\* LoopIInv holds in every reachable state of the loop.
LEMMA LoopInvariance == LoopSpec => []LoopIInv
BY LoopIInvInit, LoopIInvInductive, PTL DEF LoopSpec

\* One probe per half-open period, although the class never counts probes.
THEOREM SingleProbe == LoopSpec => []OneProbePerHalfOpen
<1>1. LoopIInv => OneProbePerHalfOpen BY DEF LoopIInv
<1>2. QED BY <1>1, LoopInvariance, PTL

\* A cooldown of k ticks skips exactly k - 1 iterations of the loop.
THEOREM ExactCooldown == LoopSpec => []ProbeAfterFullCooldown
<1>1. LoopIInv => ProbeAfterFullCooldown BY DEF LoopIInv, WaitedSoFar
<1>2. QED BY <1>1, LoopInvariance, PTL

\* The loop's counters and its stop reason agree with the breaker's fields.
THEOREM CountersAgree == LoopSpec => [](SummaryAgreesWithBreaker /\ FailureCountersAgree)
<1>1. LoopIInv => SummaryAgreesWithBreaker /\ FailureCountersAgree
  BY DEF LoopIInv, SummaryAgreesWithBreaker, Sound, Consistent
<1>2. QED BY <1>1, LoopInvariance, PTL

\* An iteration's tick and question are one move of the protocol or none, and so is
\* the result it records.
LEMMA LoopStepImplementsProtocol ==
  LoopIInv /\ [LoopNext]_loopVars => [Protocol!Next]_(Protocol!protocolVars)
<1> SUFFICES ASSUME LoopIInv, [LoopNext]_loopVars
             PROVE  [Protocol!Next]_(Protocol!protocolVars)
  OBVIOUS
<1> USE DEF Protocol!Next, Protocol!protocolVars
<1>1. CASE Blocked \/ Admitted
  <2>1. Sound(cb) /\ cb' = Asked /\ cb.state \in {"closed", "open"}
    BY <1>1 DEF Blocked, Admitted, LoopIInv, OneProbePerHalfOpen
  <2>2. CASE cb.state = "closed"
    <3>1. cb' = cb
      BY <2>1, <2>2, AskedFacts
    <3>2. QED BY <3>1
  <2>3. CASE cb.state = "open" /\ cb.cooldown_remaining = 1
    <3>1. cb'.state = "half_open" /\ cb'.total_blocked = cb.total_blocked
      BY <2>1, <2>3, AskedFacts
    <3>2. QED BY <2>3, <3>1 DEF Protocol!OfferProbe
  <2>4. CASE cb.state = "open" /\ cb.cooldown_remaining # 1
    <3>1. /\ cb'.state \in {"open", "permanently_open"}
          /\ cb'.total_blocked = cb.total_blocked + 1
          /\ Sound(cb')
      BY <2>1, <2>4, AskedFacts
    <3>2. (cb'.state = "permanently_open") <=> (cb'.total_blocked = MaxTotalBlocked)
      BY <3>1 DEF Sound, Consistent
    <3>3. QED BY <2>4, <3>1, <3>2 DEF Protocol!Block, Protocol!Refuse
  <2>5. QED BY <2>1, <2>2, <2>3, <2>4
<1>2. CASE Execute
  <2>1. /\ Sound(cb) /\ cb' = RecordResult(cb, healthy)
        /\ cb.state \in {"closed", "half_open"}
    BY <1>2 DEF Execute, LoopIInv, OneProbePerHalfOpen
  <2>2. cb'.total_blocked = cb.total_blocked /\ cb'.state \in {"closed", "open"}
    <3>1. CASE healthy
      BY <2>1, <3>1 DEF RecordResult, RecordSuccess, Closed, Sound, Breaker
    <3>2. CASE ~healthy
      BY <2>1, <3>2 DEF RecordResult, RecordFailure, OpenFor, Sound, Breaker
    <3>3. QED BY <3>1, <3>2
  <2>3. QED
    BY <2>1, <2>2 DEF Protocol!Trip, Protocol!Recover, Protocol!Reopen
<1>3. CASE UnknownTool \/ Exhausted \/ ToolChanges \/ UNCHANGED loopVars
  BY <1>3 DEF UnknownTool, Exhausted, ToolChanges, loopVars
<1>4. QED BY <1>1, <1>2, <1>3 DEF LoopNext, Iteration

\* Driven by the loop, too, the breaker makes only the moves of the protocol.
THEOREM LoopRefinesProtocol == LoopSpec => ImplementsProtocol
<1>1. LoopInit => Protocol!Init
  BY DEF LoopInit, Init, NewBreaker, Protocol!Init
<1>2. QED
  BY <1>1, LoopInvariance, LoopStepImplementsProtocol, PTL
  DEF LoopSpec, ImplementsProtocol, Protocol!Spec
=============================================================================
