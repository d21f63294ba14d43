---------------------------- MODULE AdaptiveProofs ----------------------------
(***************************************************************************)
(* The invariants of the adaptive breaker for every window, rate, step,    *)
(* cooldown and budget, and that it implements BreakerProtocol.            *)
(***************************************************************************)
EXTENDS AdaptiveLoop, TLAPS

\* The part of the invariant about the fields b of a breaker that relates them.
Consistent(b) ==
  /\ Len(b.window) <= WindowSize
  /\ b.state # "closed" => Len(b.window) = WindowSize
  /\ b.threshold = IF b.state = "closed"
                   THEN InitialFailureRate ELSE Tightened(InitialFailureRate)
  /\ b.state = "open" => b.cooldown_remaining \in 1..b.current_cooldown
  /\ b.state \in {"closed", "half_open"} => b.cooldown_remaining = 0
  /\ (b.state = "permanently_open") <=> (b.total_blocked = MaxTotalBlocked)

Sound(b) == b \in Breaker /\ Consistent(b)

\* Both bounds of the cooldown are below the ceiling, and so is a doubled one.
LEMMA CooldownBounds ==
  /\ Ceiling \in Nat \ {0}
  /\ InitialCooldown \in 1..Ceiling
  /\ \A c \in 1..Ceiling : BackedOff(c) \in 1..Ceiling
BY AdaptiveAssumption DEF Ceiling, BackedOff

\* A sound breaker's ticks are counted in natural numbers.
LEMMA TicksAreNat ==
  ASSUME NEW b, Sound(b)
  PROVE  b.cooldown_remaining \in Nat /\ b.current_cooldown \in Nat
<1>1. b.cooldown_remaining \in 0..Ceiling /\ b.current_cooldown \in 1..Ceiling
  BY DEF Sound, Breaker
<1>2. QED BY <1>1, CooldownBounds

\* A step down from the initial rate is legal, and a step up returns to it.
LEMMA ThresholdRoundTrip ==
  /\ InitialFailureRate \in MinFailureRate..InitialFailureRate
  /\ Tightened(InitialFailureRate) \in MinFailureRate..InitialFailureRate
  /\ Loosened(Tightened(InitialFailureRate)) = InitialFailureRate
BY AdaptiveAssumption DEF Tightened, Loosened

\* Pushing a result keeps the window's type and bound, and keeps it full.
LEMMA PushedFacts ==
  ASSUME NEW w \in Seq(BOOLEAN), NEW s \in BOOLEAN, Len(w) <= WindowSize
  PROVE  /\ Pushed(w, s) \in Seq(BOOLEAN)
         /\ Len(Pushed(w, s)) <= WindowSize
         /\ Len(w) = WindowSize => Len(Pushed(w, s)) = WindowSize
<1>1. CASE Len(w) < WindowSize
  BY <1>1, AdaptiveAssumption DEF Pushed
<1>2. CASE ~(Len(w) < WindowSize)
  <2>1. Len(w) = WindowSize /\ w # << >>
    BY <1>2, AdaptiveAssumption
  <2>2. Tail(w) \in Seq(BOOLEAN) /\ Len(Tail(w)) = WindowSize - 1
    BY <2>1, AdaptiveAssumption
  <2>3. Pushed(w, s) = Append(Tail(w), s)
    BY <1>2 DEF Pushed
  <2>4. QED BY <2>1, <2>2, <2>3, AdaptiveAssumption
<1>3. QED BY <1>1, <1>2

\* A new breaker is sound.
LEMMA NewIsSound == Sound(NewBreaker)
<1>1. NewBreaker \in Breaker
  BY AdaptiveAssumption, CooldownBounds, ThresholdRoundTrip
  DEF NewBreaker, Breaker, BreakerState
<1>2. Consistent(NewBreaker)
  BY AdaptiveAssumption DEF NewBreaker, Consistent
<1>3. QED BY <1>1, <1>2 DEF Sound

\* Refusing a request of a breaker below its budget, with ticks left to wait and
\* the tightened threshold, gives a sound breaker.
LEMMA RefusedSound ==
  ASSUME NEW b \in Breaker,
         Len(b.window) = WindowSize,
         b.threshold = Tightened(InitialFailureRate),
         b.cooldown_remaining \in 1..b.current_cooldown,
         b.total_blocked # MaxTotalBlocked
  PROVE  /\ Sound(Refused(b))
         /\ Refused(b).total_blocked = b.total_blocked + 1
         /\ Refused(b).state = IF b.total_blocked + 1 = MaxTotalBlocked
                               THEN "permanently_open" ELSE "open"
         /\ Refused(b).cooldown_remaining = b.cooldown_remaining
         /\ Refused(b).current_cooldown = b.current_cooldown
<1> DEFINE blocked == b.total_blocked + 1
           st == IF BudgetSpent(blocked) THEN "permanently_open" ELSE "open"
<1>1. blocked \in 0..MaxTotalBlocked /\ st \in BreakerState
  BY AdaptiveAssumption DEF Breaker, BreakerState
<1>2. Refused(b) = [b EXCEPT !.total_blocked = blocked, !.state = st]
  BY DEF Refused
<1>3. st = IF blocked = MaxTotalBlocked THEN "permanently_open" ELSE "open"
  BY <1>1, AdaptiveAssumption DEF BudgetSpent
<1> HIDE DEF blocked, st
<1>4. Refused(b) \in Breaker
  BY <1>1, <1>2 DEF Breaker
<1>5. /\ Refused(b).total_blocked = blocked
      /\ Refused(b).state = st
      /\ Refused(b).window = b.window
      /\ Refused(b).threshold = b.threshold
      /\ Refused(b).cooldown_remaining = b.cooldown_remaining
      /\ Refused(b).current_cooldown = b.current_cooldown
  BY <1>2 DEF Breaker
<1>6. Consistent(Refused(b))
  BY <1>3, <1>5, AdaptiveAssumption DEF Consistent
<1>7. QED BY <1>3, <1>4, <1>5, <1>6 DEF Sound, blocked

\* A trip prepares a legal first cooldown and the tightened threshold.
LEMMA TrippedFacts ==
  ASSUME NEW b, Sound(b), b.state = "closed"
  PROVE  /\ Tripped(b) \in Breaker
         /\ Tripped(b).threshold = Tightened(InitialFailureRate)
         /\ Tripped(b).current_cooldown = InitialCooldown
         /\ Tripped(b).cooldown_remaining = InitialCooldown
         /\ Tripped(b).window = b.window
         /\ Tripped(b).total_blocked = b.total_blocked
<1> DEFINE t == Tightened(b.threshold)
<1>1. t = Tightened(InitialFailureRate) /\ t \in MinFailureRate..InitialFailureRate
  BY ThresholdRoundTrip DEF Sound, Consistent
<1>2. InitialCooldown \in 1..Ceiling /\ InitialCooldown \in 0..Ceiling
  BY CooldownBounds
<1>3. Tripped(b) = [b EXCEPT !.threshold = t, !.current_cooldown = InitialCooldown,
                             !.cooldown_remaining = InitialCooldown]
  BY DEF Tripped
<1> HIDE DEF t
<1> DEFINE c == [b EXCEPT !.threshold = t, !.current_cooldown = InitialCooldown]
<1>4. c \in Breaker
  BY <1>1, <1>2 DEF Sound, Breaker
<1>5. Tripped(b) = [c EXCEPT !.cooldown_remaining = InitialCooldown]
  BY <1>3 DEF Sound, Breaker
<1>6. Tripped(b) \in Breaker
  <2> HIDE DEF c
  <2>1. QED BY <1>2, <1>4, <1>5 DEF Breaker
<1>7. QED BY <1>1, <1>3, <1>6 DEF Sound, Breaker

\* should_execute keeps a breaker sound, and refuses at one unit of the budget.
LEMMA ShouldExecuteSound ==
  ASSUME NEW b, Sound(b)
  PROVE  /\ Sound(ShouldExecute(b))
         /\ \/ ShouldExecute(b) = b /\ b.state # "open"
            \/ /\ b.state \in {"open", "closed"}
               /\ ShouldExecute(b).total_blocked = b.total_blocked + 1
               /\ ShouldExecute(b).state = IF b.total_blocked + 1 = MaxTotalBlocked
                                           THEN "permanently_open" ELSE "open"
               /\ b.state = "open" =>
                    /\ ShouldExecute(b).cooldown_remaining = b.cooldown_remaining
                    /\ ShouldExecute(b).current_cooldown = b.current_cooldown
               /\ b.state = "closed" =>
                    ShouldExecute(b).cooldown_remaining = ShouldExecute(b).current_cooldown
<1>1. CASE b.state = "open"
  <2>1. /\ b \in Breaker /\ Len(b.window) = WindowSize
        /\ b.threshold = Tightened(InitialFailureRate)
        /\ b.cooldown_remaining \in 1..b.current_cooldown
        /\ b.total_blocked # MaxTotalBlocked
    BY <1>1 DEF Sound, Consistent
  <2>2. ShouldExecute(b) = Refused(b)
    BY <1>1 DEF ShouldExecute
  <2>3. QED BY <1>1, <2>1, <2>2, RefusedSound
<1>2. CASE b.state = "closed" /\ Failing(b.window, b.threshold)
  <2> DEFINE t == Tripped(b)
  <2>1. Len(b.window) = WindowSize
    BY <1>2, AdaptiveAssumption DEF Sound, Consistent, Failing, Breaker
  <2>2. b.total_blocked # MaxTotalBlocked
    BY <1>2 DEF Sound, Consistent
  <2>3. /\ t \in Breaker /\ Len(t.window) = WindowSize
        /\ t.threshold = Tightened(InitialFailureRate)
        /\ t.cooldown_remaining \in 1..t.current_cooldown
        /\ t.cooldown_remaining = t.current_cooldown
        /\ t.total_blocked # MaxTotalBlocked
        /\ t.total_blocked = b.total_blocked
    BY <1>2, <2>1, <2>2, TrippedFacts, AdaptiveAssumption
  <2>4. ShouldExecute(b) = Refused(t)
    BY <1>2 DEF ShouldExecute
  <2> HIDE DEF t
  <2>5. QED BY <1>2, <2>3, <2>4, RefusedSound
<1>3. CASE b.state # "open" /\ ~(b.state = "closed" /\ Failing(b.window, b.threshold))
  <2>1. ShouldExecute(b) = b
    BY <1>3 DEF ShouldExecute
  <2>2. QED BY <1>3, <2>1
<1>4. QED BY <1>1, <1>2, <1>3

\* tick keeps a breaker sound and counts one tick down.
LEMMA TickedSound ==
  ASSUME NEW b, Sound(b)
  PROVE  /\ Sound(Ticked(b))
         /\ Ticked(b).total_blocked = b.total_blocked
         /\ Ticked(b).current_cooldown = b.current_cooldown
         /\ b.state # "open" => Ticked(b) = b
         /\ b.state = "open" =>
              /\ Ticked(b).cooldown_remaining = b.cooldown_remaining - 1
              /\ Ticked(b).state = IF b.cooldown_remaining = 1 THEN "half_open" ELSE "open"
<1> DEFINE left == b.cooldown_remaining - 1
<1>1. CASE b.state # "open"
  <2>1. Ticked(b) = b
    BY <1>1 DEF Ticked, CooledDown
  <2> HIDE DEF left
  <2>2. QED BY <1>1, <2>1
<1>2. CASE b.state = "open"
  <2>1. left \in 0..Ceiling /\ left < b.current_cooldown /\ b.cooldown_remaining \in Nat
    BY <1>2, CooldownBounds, SMTT(30) DEF Sound, Breaker, Consistent
  <2>2. 0 \in 0..Ceiling /\ "half_open" \in BreakerState
    BY CooldownBounds DEF BreakerState
  <2>3. CASE left <= 0
    <3>1. Ticked(b) = [b EXCEPT !.cooldown_remaining = 0, !.state = "half_open"]
      BY <1>2, <2>3 DEF Ticked, CooledDown
    <3>2. Ticked(b) \in Breaker
      BY <3>1, <2>2 DEF Sound, Breaker
    <3>3. Consistent(Ticked(b))
      BY <1>2, <3>1 DEF Sound, Breaker, Consistent
    <3>4. left = 0 /\ b.cooldown_remaining = 1
      BY <2>1, <2>3
    <3>5. /\ Ticked(b).cooldown_remaining = 0
          /\ Ticked(b).state = "half_open"
          /\ Ticked(b).total_blocked = b.total_blocked
          /\ Ticked(b).current_cooldown = b.current_cooldown
      BY <3>1 DEF Sound, Breaker
    <3>6. QED BY <1>2, <3>2, <3>3, <3>4, <3>5 DEF Sound
  <2>4. CASE ~(left <= 0)
    <3>1. Ticked(b) = [b EXCEPT !.cooldown_remaining = left]
      BY <1>2, <2>4 DEF Ticked, CooledDown
    <3>2. Ticked(b) \in Breaker
      BY <3>1, <2>1 DEF Sound, Breaker
    <3>3. Consistent(Ticked(b))
      BY <1>2, <2>1, <2>4, <3>1 DEF Sound, Breaker, Consistent
    <3>4. b.cooldown_remaining # 1
      BY <2>1, <2>4
    <3>5. QED BY <1>2, <3>1, <3>2, <3>3, <3>4 DEF Sound, Breaker
  <2>5. QED BY <2>3, <2>4
<1>3. QED BY <1>1, <1>2

\* record_result keeps a breaker sound; only a probing breaker changes state.
LEMMA RecordResultSound ==
  ASSUME NEW b, Sound(b), NEW success \in BOOLEAN
  PROVE  /\ Sound(RecordResult(b, success))
         /\ RecordResult(b, success).total_blocked = b.total_blocked
         /\ b.state = "half_open" =>
              RecordResult(b, success).state = IF success THEN "closed" ELSE "open"
         /\ b.state # "half_open" => RecordResult(b, success).state = b.state
         /\ b.state = "half_open" /\ ~success =>
              RecordResult(b, success).cooldown_remaining
                = RecordResult(b, success).current_cooldown
<1> DEFINE w == Pushed(b.window, success)
           heard == [b EXCEPT !.window = w]
<1>1. /\ w \in Seq(BOOLEAN) /\ Len(w) <= WindowSize
      /\ Len(b.window) = WindowSize => Len(w) = WindowSize
  BY PushedFacts DEF Sound, Breaker, Consistent
<1> HIDE DEF w
<1>2. /\ heard \in Breaker
      /\ heard.window = w /\ heard.state = b.state /\ heard.threshold = b.threshold
      /\ heard.total_blocked = b.total_blocked
      /\ heard.cooldown_remaining = b.cooldown_remaining
      /\ heard.current_cooldown = b.current_cooldown
  BY <1>1 DEF Sound, Breaker
<1>3. RecordResult(b, success) =
        CASE ~Listening(b)         -> b
          [] b.state = "half_open" -> IF success THEN Recovered(heard) ELSE Reopened(heard)
          [] OTHER                 -> heard
  BY DEF RecordResult, w
<1> HIDE DEF heard
<1>4. CASE b.state \notin {"closed", "half_open"}
  BY <1>3, <1>4 DEF Listening
<1>5. CASE b.state = "closed"
  <2>1. RecordResult(b, success) = heard
    BY <1>3, <1>5 DEF Listening
  <2>2. Consistent(heard)
    BY <1>1, <1>2, <1>5 DEF Sound, Consistent
  <2>3. QED BY <1>2, <1>5, <2>1, <2>2 DEF Sound
<1>6. CASE b.state = "half_open" /\ success
  <2> DEFINE t == Loosened(heard.threshold)
             c == [heard EXCEPT !.state = "closed", !.current_cooldown = InitialCooldown]
  <2>1. t = InitialFailureRate /\ t \in MinFailureRate..InitialFailureRate
    BY <1>2, <1>6, ThresholdRoundTrip DEF Sound, Consistent
  <2>2. RecordResult(b, success) = [heard EXCEPT !.state = "closed",
                 !.current_cooldown = InitialCooldown,
                 !.cooldown_remaining = 0, !.threshold = t]
    BY <1>3, <1>6 DEF Listening, Recovered
  <2> HIDE DEF t
  <2>3. "closed" \in BreakerState /\ InitialCooldown \in 1..Ceiling /\ 0 \in 0..Ceiling
    BY CooldownBounds DEF BreakerState
  <2>4. c \in Breaker
    BY <1>2, <2>3 DEF Breaker
  <2>5. RecordResult(b, success) = [c EXCEPT !.cooldown_remaining = 0, !.threshold = t]
    BY <1>2, <2>2 DEF Breaker
  <2>6. RecordResult(b, success) \in Breaker
    <3> HIDE DEF c
    <3>1. QED BY <2>1, <2>3, <2>4, <2>5 DEF Breaker
  <2>7. LET r == RecordResult(b, success)
        IN  /\ r.state = "closed" /\ r.threshold = InitialFailureRate
            /\ r.cooldown_remaining = 0 /\ r.window = w
            /\ r.total_blocked = b.total_blocked
    BY <1>2, <2>1, <2>2 DEF Breaker
  <2>8. b.total_blocked # MaxTotalBlocked
    BY <1>6 DEF Sound, Consistent
  <2>9. Consistent(RecordResult(b, success))
    BY <1>1, <2>7, <2>8 DEF Consistent
  <2>10. QED BY <1>6, <2>6, <2>7, <2>9 DEF Sound
<1>7. CASE b.state = "half_open" /\ ~success
  <2> DEFINE k == BackedOff(heard.current_cooldown)
             c == [heard EXCEPT !.state = "open", !.current_cooldown = k]
  <2>1. k \in 1..Ceiling /\ k \in 0..Ceiling /\ k \in 1..k
    BY <1>2, CooldownBounds DEF Breaker
  <2>2. RecordResult(b, success) = [heard EXCEPT !.state = "open",
                 !.current_cooldown = k, !.cooldown_remaining = k]
    BY <1>3, <1>7 DEF Listening, Reopened
  <2> HIDE DEF k
  <2>3. "open" \in BreakerState
    BY DEF BreakerState
  <2>4. c \in Breaker
    BY <1>2, <2>1, <2>3 DEF Breaker
  <2>5. RecordResult(b, success) = [c EXCEPT !.cooldown_remaining = k]
    BY <1>2, <2>2 DEF Breaker
  <2>6. RecordResult(b, success) \in Breaker
    <3> HIDE DEF c
    <3>1. QED BY <2>1, <2>4, <2>5 DEF Breaker
  <2>7. LET r == RecordResult(b, success)
        IN  /\ r.state = "open" /\ r.threshold = b.threshold
            /\ r.cooldown_remaining = k /\ r.current_cooldown = k /\ r.window = w
            /\ r.total_blocked = b.total_blocked
    BY <1>2, <2>2 DEF Breaker
  <2>8. /\ b.total_blocked # MaxTotalBlocked /\ Len(b.window) = WindowSize
        /\ b.threshold = Tightened(InitialFailureRate)
    BY <1>7 DEF Sound, Consistent
  <2>9. Consistent(RecordResult(b, success))
    BY <1>1, <2>1, <2>7, <2>8 DEF Consistent
  <2>10. QED BY <1>7, <2>6, <2>7, <2>9 DEF Sound
<1>8. QED BY <1>4, <1>5, <1>6, <1>7

\* The reason is one of the four the docstring lists.
LEMMA ReasonType == ASSUME NEW b PROVE ReasonOf(b) \in Reason
BY DEF ReasonOf, Reason

IInv == Sound(acb) /\ reply \in Reason \cup {"none"}

\* Every call keeps the invariant.
LEMMA IInvInductive == IInv /\ [Next]_adaptiveVars => IInv'
<1> SUFFICES ASSUME IInv, [Next]_adaptiveVars PROVE IInv'
  OBVIOUS
<1>0. Sound(acb) /\ reply \in Reason \cup {"none"}
  BY DEF IInv
<1>1. (Sound(acb) /\ reply \in Reason \cup {"none"})' => IInv'
  BY DEF IInv
<1>2. CASE CallShouldExecute
  BY <1>0, <1>1, <1>2, ShouldExecuteSound, ReasonType DEF CallShouldExecute
<1>3. CASE \E success \in BOOLEAN : CallRecordResult(success)
  BY <1>0, <1>1, <1>3, RecordResultSound DEF CallRecordResult
<1>4. CASE CallTick
  BY <1>0, <1>1, <1>4, TickedSound DEF CallTick
<1>5. CASE UNCHANGED adaptiveVars
  BY <1>0, <1>1, <1>5 DEF adaptiveVars
<1>6. QED BY <1>2, <1>3, <1>4, <1>5 DEF Next

\* The invariant holds in every reachable state of the breaker.
LEMMA Invariance == Spec => []IInv
<1>1. Init => IInv
  BY NewIsSound DEF Init, IInv
<1>2. QED BY <1>1, IInvInductive, PTL DEF Spec

\* The fields keep their types and bounds under every order of calls.
THEOREM AdaptiveTypeCorrect == Spec => []TypeOK
<1>1. IInv => TypeOK BY DEF IInv, Sound, Consistent, TypeOK
<1>2. QED BY <1>1, Invariance, PTL

\* State, ticks and blocked count agree, an open breaker holds a full window.
THEOREM AdaptiveSafety == Spec => [](StateIsConsistent /\ OpenRemembersTheOutage)
<1>1. IInv => StateIsConsistent /\ OpenRemembersTheOutage
  BY DEF IInv, Sound, Consistent, StateIsConsistent, OpenRemembersTheOutage
<1>2. QED BY <1>1, Invariance, PTL

\* A closed breaker always judges its window at the initial failure rate: the
\* adaptive threshold never reaches a decision, whatever the configuration.
THEOREM ThresholdNeverAdapts == Spec => []AdaptationIsInert
<1>1. IInv => AdaptationIsInert
  BY DEF IInv, Sound, Consistent, AdaptationIsInert
<1>2. QED BY <1>1, Invariance, PTL

\* A call is a move of the protocol or no move at all.
LEMMA StepImplementsProtocol ==
  IInv /\ [Next]_adaptiveVars => [Protocol!Next]_(Protocol!protocolVars)
<1> SUFFICES ASSUME IInv, [Next]_adaptiveVars
             PROVE  [Protocol!Next]_(Protocol!protocolVars)
  OBVIOUS
<1> USE DEF Protocol!Next, Protocol!protocolVars
<1>0. Sound(acb)
  BY DEF IInv
<1>1. CASE CallShouldExecute
  BY <1>0, <1>1, ShouldExecuteSound
  DEF CallShouldExecute, Protocol!Trip, Protocol!Block, Protocol!Refuse
<1>2. ASSUME NEW success \in BOOLEAN, CallRecordResult(success)
      PROVE  [Protocol!Next]_(Protocol!protocolVars)
  BY <1>0, <1>2, RecordResultSound
  DEF CallRecordResult, Protocol!Recover, Protocol!Reopen
<1>3. CASE CallTick
  BY <1>0, <1>3, TickedSound DEF CallTick, Protocol!OfferProbe
<1>4. CASE UNCHANGED adaptiveVars
  BY <1>4 DEF adaptiveVars
<1>5. QED BY <1>1, <1>2, <1>3, <1>4 DEF Next

\* The adaptive breaker implements the protocol its callers rely on.
THEOREM AdaptiveRefinesProtocol == Spec => ImplementsProtocol
<1>1. Init => Protocol!Init
  BY DEF Init, NewBreaker, Protocol!Init
<1>2. QED
  BY <1>1, Invariance, StepImplementsProtocol, PTL
  DEF Spec, ImplementsProtocol, Protocol!Spec
-----------------------------------------------------------------------------
(* The run.                                                                *)

\* A call that goes through while the breaker is closed follows the call before it;
\* a probe waited for its cooldown, give or take the step of the trip itself: a trip
\* refuses before its first tick, a failed probe does not.
ProbeWaits ==
  pc = "execute" =>
    \/ acb.state = "closed" /\ waited = 0
    \/ acb.state = "half_open" /\ waited \in {acb.current_cooldown - 1, acb.current_cooldown}

\* Ticks still to come and steps skipped make up the cooldown, and the trip's step.
Waiting ==
  pc = "decide" =>
    \/ acb.state = "closed" /\ waited = 0
    \/ /\ acb.state = "open"
       /\ waited + acb.cooldown_remaining \in {acb.current_cooldown, acb.current_cooldown + 1}

LoopIInv ==
  /\ Sound(acb)
  /\ pc \in {"decide", "execute", "stopped"}
  /\ healthy \in BOOLEAN
  /\ waited \in Nat
  /\ Waiting
  /\ ProbeWaits

\* What a tick and a question make of the breaker.
LEMMA AskedFacts ==
  ASSUME Sound(acb), acb.state \in {"closed", "open"}
  PROVE  /\ Sound(Asked)
         /\ acb.state = "closed" =>
              \/ Asked = acb
              \/ /\ Asked.total_blocked = acb.total_blocked + 1
                 /\ Asked.state = IF Asked.total_blocked = MaxTotalBlocked
                                  THEN "permanently_open" ELSE "open"
                 /\ Asked.cooldown_remaining = Asked.current_cooldown
         /\ acb.state = "open" /\ acb.cooldown_remaining = 1 =>
              /\ Asked.state = "half_open"
              /\ Asked.total_blocked = acb.total_blocked
              /\ Asked.current_cooldown = acb.current_cooldown
         /\ acb.state = "open" /\ acb.cooldown_remaining # 1 =>
              /\ Asked.total_blocked = acb.total_blocked + 1
              /\ Asked.state = IF Asked.total_blocked = MaxTotalBlocked
                               THEN "permanently_open" ELSE "open"
              /\ Asked.cooldown_remaining = acb.cooldown_remaining - 1
              /\ Asked.current_cooldown = acb.current_cooldown
<1> DEFINE t == Ticked(acb)
<1>1. /\ Sound(t) /\ t.total_blocked = acb.total_blocked
      /\ t.current_cooldown = acb.current_cooldown
      /\ acb.state # "open" => t = acb
      /\ acb.state = "open" =>
           /\ t.cooldown_remaining = acb.cooldown_remaining - 1
           /\ t.state = IF acb.cooldown_remaining = 1 THEN "half_open" ELSE "open"
  BY TickedSound
<1>2. Asked = ShouldExecute(t)
  BY DEF Asked
<1> HIDE DEF t
<1>3. Sound(Asked)
  BY <1>1, <1>2, ShouldExecuteSound
<1>4. CASE acb.state = "closed"
  BY <1>1, <1>2, <1>3, <1>4, ShouldExecuteSound
<1>5. CASE acb.state = "open" /\ acb.cooldown_remaining = 1
  BY <1>1, <1>2, <1>3, <1>5, ShouldExecuteSound
<1>6. CASE acb.state = "open" /\ acb.cooldown_remaining # 1
  BY <1>1, <1>2, <1>3, <1>6, ShouldExecuteSound
<1>7. QED BY <1>4, <1>5, <1>6

\* The invariant holds initially.
LEMMA LoopIInvInit == LoopInit => LoopIInv
BY NewIsSound DEF LoopInit, Init, LoopIInv, Waiting, ProbeWaits, NewBreaker

\* A refused step moves a tick from the cooldown to the waiting time, or trips.
LEMMA BlockedStep == LoopIInv /\ Blocked => LoopIInv'
<1> SUFFICES ASSUME LoopIInv, Blocked PROVE LoopIInv'
  OBVIOUS
<1>1. /\ pc = "decide" /\ acb' = Asked /\ Sound(acb) /\ waited' = waited + 1 /\ waited \in Nat
      /\ acb.state \in {"closed", "open"}
  BY DEF Blocked, LoopIInv, Waiting
<1>2. Sound(acb') /\ acb'.state \in {"open", "permanently_open"}
  BY <1>1, AskedFacts DEF Blocked, ReasonOf, Allowed, Sound, Breaker, BreakerState
<1>3. pc' = IF acb'.state = "permanently_open" THEN "stopped" ELSE "decide"
  BY <1>1, <1>2 DEF Blocked, ReasonOf
<1>4. \/ acb.state = "closed" /\ waited = 0 /\ acb'.cooldown_remaining = acb'.current_cooldown
      \/ /\ acb.state = "open"
         /\ waited + acb.cooldown_remaining \in {acb.current_cooldown, acb.current_cooldown + 1}
         /\ acb'.cooldown_remaining = acb.cooldown_remaining - 1
         /\ acb'.current_cooldown = acb.current_cooldown
  BY <1>1, <1>2, AskedFacts DEF LoopIInv, Waiting
<1>5. /\ acb.cooldown_remaining \in Nat /\ acb.current_cooldown \in Nat
      /\ acb'.cooldown_remaining \in Nat /\ acb'.current_cooldown \in Nat
  BY <1>1, <1>2, TicksAreNat
<1>6. acb'.state = "open" =>
        waited' + acb'.cooldown_remaining \in {acb'.current_cooldown, acb'.current_cooldown + 1}
  BY <1>1, <1>4, <1>5
<1>7. healthy' \in BOOLEAN
  BY DEF Blocked, LoopIInv
<1>8. QED BY <1>1, <1>2, <1>3, <1>6, <1>7 DEF LoopIInv, Waiting, ProbeWaits

\* An admitted step finds the breaker closed, or its last tick spent.
LEMMA AdmittedStep == LoopIInv /\ Admitted => LoopIInv'
<1> SUFFICES ASSUME LoopIInv, Admitted PROVE LoopIInv'
  OBVIOUS
<1>1. /\ pc = "decide" /\ pc' = "execute" /\ acb' = Asked /\ Sound(acb)
      /\ waited' = waited /\ waited \in Nat /\ acb.state \in {"closed", "open"}
      /\ healthy' \in BOOLEAN
  BY DEF Admitted, LoopIInv, Waiting
<1>2. Sound(acb') /\ acb'.state \in {"closed", "half_open"}
  BY <1>1, AskedFacts DEF Admitted, ReasonOf, Allowed, Sound, Breaker, BreakerState
<1>3. CASE acb.state = "closed"
  <2>1. acb' = acb /\ waited = 0
    BY <1>1, <1>2, <1>3, AskedFacts DEF LoopIInv, Waiting
  <2>2. QED BY <1>1, <1>2, <1>3, <2>1 DEF LoopIInv, Waiting, ProbeWaits
<1>4. CASE acb.state = "open"
  <2>1. /\ acb.cooldown_remaining = 1 /\ acb'.state = "half_open"
        /\ acb'.current_cooldown = acb.current_cooldown
    BY <1>1, <1>2, <1>4, AskedFacts
  <2>2. waited + 1 \in {acb.current_cooldown, acb.current_cooldown + 1}
    BY <1>1, <1>4, <2>1 DEF LoopIInv, Waiting
  <2>3. acb.current_cooldown \in Nat
    BY <1>1, TicksAreNat
  <2>4. waited \in {acb.current_cooldown - 1, acb.current_cooldown}
    BY <1>1, <2>2, <2>3
  <2>5. QED BY <1>1, <1>2, <2>1, <2>4 DEF LoopIInv, Waiting, ProbeWaits
<1>5. QED BY <1>1, <1>3, <1>4

\* Recording a result leaves half_open and starts a new waiting time.
LEMMA ExecuteStep == LoopIInv /\ Execute => LoopIInv'
<1> SUFFICES ASSUME LoopIInv, Execute PROVE LoopIInv'
  OBVIOUS
<1>1. /\ pc = "execute" /\ pc' = "decide" /\ acb' = RecordResult(acb, healthy)
      /\ Sound(acb) /\ waited' = 0 /\ acb.state \in {"closed", "half_open"}
  BY DEF Execute, LoopIInv, ProbeWaits
<1>2. healthy \in BOOLEAN /\ healthy' = healthy
  BY DEF Execute, LoopIInv
<1>3. /\ Sound(acb')
      /\ acb.state = "half_open" => acb'.state = IF healthy THEN "closed" ELSE "open"
      /\ acb.state # "half_open" => acb'.state = acb.state
      /\ acb.state = "half_open" /\ ~healthy => acb'.cooldown_remaining = acb'.current_cooldown
  BY <1>1, <1>2, RecordResultSound
<1>4. acb'.cooldown_remaining \in Nat /\ acb'.current_cooldown \in Nat
  BY <1>3, TicksAreNat
<1>5. Waiting'
  BY <1>1, <1>3, <1>4 DEF Waiting
<1>6. QED BY <1>1, <1>2, <1>3, <1>5 DEF LoopIInv, ProbeWaits

\* Every step of the run keeps the invariant.
LEMMA LoopIInvInductive == LoopIInv /\ [LoopNext]_adaptiveLoopVars => LoopIInv'
<1> SUFFICES ASSUME LoopIInv, [LoopNext]_adaptiveLoopVars PROVE LoopIInv'
  OBVIOUS
<1>1. CASE Exhausted
  BY <1>1 DEF Exhausted, LoopIInv, Waiting, ProbeWaits
<1>2. CASE ApiChanges
  BY <1>2 DEF ApiChanges, LoopIInv, Waiting, ProbeWaits
<1>3. CASE UNCHANGED adaptiveLoopVars
  BY <1>3 DEF adaptiveLoopVars, LoopIInv, Waiting, ProbeWaits
<1>4. QED
  BY <1>1, <1>2, <1>3, BlockedStep, AdmittedStep, ExecuteStep DEF LoopNext, Step

\* The invariant holds in every reachable state of the run.
LEMMA LoopInvariance == LoopSpec => []LoopIInv
BY LoopIInvInit, LoopIInvInductive, PTL DEF LoopSpec

\* In a comparison run, too, the adaptive threshold never reaches a decision.
THEOREM RunNeverAdapts == LoopSpec => []AdaptationIsInert
<1>1. LoopIInv => AdaptationIsInert
  BY DEF LoopIInv, Sound, Consistent, AdaptationIsInert
<1>2. QED BY <1>1, LoopInvariance, PTL

\* No call goes through before the cooldown is over, and none is held back longer
\* than the cooldown and the step of the trip.
THEOREM ProbesWaitTheirTurn == LoopSpec => []ProbeWaits
<1>1. LoopIInv => ProbeWaits BY DEF LoopIInv
<1>2. QED BY <1>1, LoopInvariance, PTL

\* A step of the run is one move of the protocol or none: a tick that ends the
\* cooldown is not followed by a refusal, a refusal not by a second one.
LEMMA LoopStepImplementsProtocol ==
  LoopIInv /\ [LoopNext]_adaptiveLoopVars => [Protocol!Next]_(Protocol!protocolVars)
<1> SUFFICES ASSUME LoopIInv, [LoopNext]_adaptiveLoopVars
             PROVE  [Protocol!Next]_(Protocol!protocolVars)
  OBVIOUS
<1> USE DEF Protocol!Next, Protocol!protocolVars
<1>1. CASE Blocked \/ Admitted
  <2>1. Sound(acb) /\ acb' = Asked /\ acb.state \in {"closed", "open"}
    BY <1>1 DEF Blocked, Admitted, LoopIInv, Waiting
  <2>2. CASE acb.state = "closed"
    BY <2>1, <2>2, AskedFacts DEF Protocol!Trip, Protocol!Refuse
  <2>3. CASE acb.state = "open" /\ acb.cooldown_remaining = 1
    BY <2>1, <2>3, AskedFacts DEF Protocol!OfferProbe
  <2>4. CASE acb.state = "open" /\ acb.cooldown_remaining # 1
    BY <2>1, <2>4, AskedFacts DEF Protocol!Block, Protocol!Refuse
  <2>5. QED BY <2>1, <2>2, <2>3, <2>4
<1>2. CASE Execute
  <2>1. /\ Sound(acb) /\ acb' = RecordResult(acb, healthy) /\ healthy \in BOOLEAN
        /\ acb.state \in {"closed", "half_open"}
    BY <1>2 DEF Execute, LoopIInv, ProbeWaits
  <2>2. QED
    BY <2>1, RecordResultSound DEF Protocol!Recover, Protocol!Reopen
<1>3. CASE Exhausted \/ ApiChanges \/ UNCHANGED adaptiveLoopVars
  BY <1>3 DEF Exhausted, ApiChanges, adaptiveLoopVars
<1>4. QED BY <1>1, <1>2, <1>3 DEF LoopNext, Step

\* Driven by the run, too, the adaptive breaker makes only the moves of the protocol.
THEOREM RunRefinesProtocol == LoopSpec => ImplementsProtocol
<1>1. LoopInit => Protocol!Init
  BY DEF LoopInit, Init, NewBreaker, Protocol!Init
<1>2. QED
  BY <1>1, LoopInvariance, LoopStepImplementsProtocol, PTL
  DEF LoopSpec, ImplementsProtocol, Protocol!Spec
=============================================================================
