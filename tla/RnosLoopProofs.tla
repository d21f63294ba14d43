---------------------------- MODULE RnosLoopProofs ----------------------------
(***************************************************************************)
(* For every policy, latency and step bound: the loop keeps its types and  *)
(* its degrade budget, the call whose depth and repetition alone reach the *)
(* degrading threshold is the last one, and a failed call makes the next   *)
(* decision no more lenient.                                               *)
(***************************************************************************)
EXTENDS RnosLoop, TLAPS, FiniteSetTheorems, SequenceTheorems

Items == [tool : {Tool, OtherTool}, success : BOOLEAN]

Histories == {h \in [recent : Seq(Items), ewma : 0..OneEwma] : Len(h.recent) <= 10}

\* The average's unit is divisible by a thousand.
LEMMA OneEwmaFacts == OneEwma \in Nat /\ OneEwma \div 1000 \in Nat \ {0}
BY SMT DEF OneEwma

\* round returns an integer, and none below zero for a numerator that is not.
LEMMA RoundedFacts ==
  ASSUME NEW n \in Int, NEW d \in Nat \ {0}
  PROVE  /\ Rounded(n, d) \in Int
         /\ n >= 0 => Rounded(n, d) >= 0
<1>1. n \div d \in Int /\ n % d \in Int
  OBVIOUS
<1>2. n >= 0 => n \div d >= 0
  OBVIOUS
<1>3. QED BY <1>1, <1>2 DEF Rounded

\* A count is a natural number.
LEMMA CountIsNat ==
  ASSUME NEW S, NEW items \in Seq(S), NEW success
  PROVE  CountOf(items, success) \in Nat
<1> DEFINE hits == {i \in DOMAIN items : items[i].success = success}
<1>1. IsFiniteSet(1..Len(items))
  BY FS_Interval
<1>2. hits \subseteq 1..Len(items)
  OBVIOUS
<1>3. IsFiniteSet(hits)
  BY <1>1, <1>2, FS_Subset
<1>4. QED BY <1>3, FS_CardinalityType DEF CountOf

\* What the last k elements of a sequence are.
LEMMA LastOfFacts ==
  ASSUME NEW S, NEW s \in Seq(S), NEW k \in Nat \ {0}
  PROVE  /\ LastOf(s, k) \in Seq(S)
         /\ Len(LastOf(s, k)) = Lesser(k, Len(s))
         /\ \A i \in 1..Len(LastOf(s, k)) : \E j \in 1..Len(s) : LastOf(s, k)[i] = s[j]
<1> DEFINE first == Greater(1, Len(s) - k + 1)
<1>1. first \in 1..(Len(s) + 1)
  BY LenProperties DEF Greater
<1>2. /\ LastOf(s, k) \in Seq(S)
      /\ Len(LastOf(s, k)) = IF first <= Len(s) THEN Len(s) - first + 1 ELSE 0
      /\ \A i \in 1..(Len(s) - first + 1) : LastOf(s, k)[i] = s[first + i - 1]
  BY <1>1, SubSeqProperties DEF LastOf
<1>3. Len(LastOf(s, k)) = Lesser(k, Len(s))
  BY <1>2, LenProperties DEF Lesser, Greater
<1>4. ASSUME NEW i \in 1..Len(LastOf(s, k))
      PROVE  \E j \in 1..Len(s) : LastOf(s, k)[i] = s[j]
  <2>1. i \in 1..(Len(s) - first + 1)
    BY <1>1, <1>2, LenProperties
  <2>2. first + i - 1 \in 1..Len(s)
    BY <1>1, <2>1, LenProperties
  <2>3. QED BY <1>2, <2>1, <2>2
<1>5. QED BY <1>2, <1>3, <1>4

\* Recording keeps a history's type and adds one item, up to ten.
LEMMA RecordedFacts ==
  ASSUME NEW h \in Histories, NEW tool \in {Tool, OtherTool}, NEW success \in BOOLEAN
  PROVE  /\ Recorded(h, tool, success) \in Histories
         /\ Len(Recorded(h, tool, success).recent) = Lesser(10, Len(h.recent) + 1)
         /\ (/\ tool = Tool
             /\ \A i \in 1..Len(h.recent) : h.recent[i].tool = Tool)
            => \A i \in 1..Len(Recorded(h, tool, success).recent) :
                 Recorded(h, tool, success).recent[i].tool = Tool
<1> DEFINE longer == Append(h.recent, Item(tool, success))
           kept   == LastOf(longer, 10)
           avg    == Smoothed(h.ewma, success)
<1>1. /\ longer \in Seq(Items) /\ Len(longer) = Len(h.recent) + 1
      /\ \A i \in 1..Len(h.recent) : longer[i] = h.recent[i]
      /\ longer[Len(h.recent) + 1] = Item(tool, success)
  BY AppendProperties DEF Histories, Items, Item
<1>2. avg \in 0..OneEwma
  BY OneEwmaFacts DEF Smoothed, Histories
<1>3. Recorded(h, tool, success) = [recent |-> kept, ewma |-> avg]
  BY DEF Recorded
<1> HIDE DEF avg
<1>4. /\ kept \in Seq(Items) /\ Len(kept) = Lesser(10, Len(h.recent) + 1)
      /\ \A i \in 1..Len(kept) : \E j \in 1..Len(longer) : kept[i] = longer[j]
  <2> HIDE DEF longer
  <2>1. QED BY <1>1, LastOfFacts
<1> HIDE DEF longer, kept
<1>5. Len(kept) <= 10
  BY <1>4, LenProperties DEF Lesser, Histories
<1>6. Recorded(h, tool, success) \in Histories
  BY <1>2, <1>3, <1>4, <1>5 DEF Histories
<1>7. ASSUME tool = Tool, \A i \in 1..Len(h.recent) : h.recent[i].tool = Tool,
             NEW i \in 1..Len(kept)
      PROVE  kept[i].tool = Tool
  <2>1. PICK j \in 1..Len(longer) : kept[i] = longer[j]
    BY <1>4
  <2>2. j \in 1..Len(h.recent) \/ j = Len(h.recent) + 1
    BY <1>1, LenProperties DEF Histories
  <2>3. QED BY <1>1, <1>7, <2>1, <2>2 DEF Item
<1>8. QED BY <1>3, <1>4, <1>6, <1>7

\* No score of an action is negative.
LEMMA ScoresAreNat ==
  ASSUME NEW h \in Histories, NEW c \in Candidates
  PROVE  /\ DepthScore(c.depth) \in Nat /\ RetryScore(c.retry_count) \in Nat
         /\ FailureScore(h) \in Nat /\ RepeatedTool(h, c.tool) \in Nat
         /\ Lesser(c.latency, 2000) \in Nat
         /\ CostScore(h, c.cumulative_calls) \in Nat /\ LongMemoryScore(h) \in Nat
<1>1. /\ h.recent \in Seq(Items) /\ h.ewma \in Nat /\ Len(h.recent) \in Nat
      /\ c.depth \in Nat /\ c.retry_count \in Nat /\ c.latency \in Nat
      /\ c.cumulative_calls \in Nat
  BY OneEwmaFacts, LenProperties DEF Histories, Candidates
<1>2. DepthScore(c.depth) \in Nat
  BY <1>1 DEF DepthScore, Lesser
<1>3. RetryScore(c.retry_count) \in Nat
  BY <1>1 DEF RetryScore, Lesser
<1>4. FailureScore(h) \in Nat
  <2>1. LastOf(h.recent, 5) \in Seq(Items)
    BY <1>1, LastOfFacts
  <2> DEFINE failures == CountOf(LastOf(h.recent, 5), FALSE)
  <2>2. failures \in Nat
    BY <2>1, CountIsNat
  <2>3. FailureScore(h) = Lesser(650 * failures, 3000)
    BY DEF FailureScore
  <2> HIDE DEF failures
  <2>4. QED BY <2>2, <2>3 DEF Lesser
<1>5. RepeatedTool(h, c.tool) \in Nat
  BY <1>1 DEF RepeatedTool
<1>6. Lesser(c.latency, 2000) \in Nat
  BY <1>1 DEF Lesser
<1>7. CostScore(h, c.cumulative_calls) \in Nat
  <2> DEFINE base    == Lesser(25 * c.cumulative_calls, 500)
             n       == Len(h.recent)
             won     == CountOf(h.recent, TRUE)
             outputs == Greater(1, won)
             spread  == Rounded((n - outputs) * 500, outputs)
  <2>1. base \in Nat
    BY <1>1 DEF Lesser
  <2>2. won \in Nat
    BY <1>1, CountIsNat
  <2> HIDE DEF won
  <2>3. outputs \in Nat \ {0}
    BY <2>2 DEF Greater
  <2>4. (n - outputs) * 500 \in Int
    BY <1>1, <2>3
  <2>5. spread \in Int
    BY <2>3, <2>4, RoundedFacts
  <2>6. CostScore(h, c.cumulative_calls) =
          IF n = 0 THEN base ELSE Lesser(base + Greater(0, Lesser(spread, 1500)), 2000)
    BY DEF CostScore, won
  <2> HIDE DEF base, spread, outputs, n
  <2>7. QED BY <2>1, <2>5, <2>6 DEF Lesser, Greater
<1>8. LongMemoryScore(h) \in Nat
  <2>1. 2 * h.ewma \in Int /\ 2 * h.ewma >= 0
    BY <1>1
  <2>2. /\ Rounded(2 * h.ewma, OneEwma \div 1000) \in Int
        /\ Rounded(2 * h.ewma, OneEwma \div 1000) >= 0
    BY <2>1, OneEwmaFacts, RoundedFacts
  <2>3. QED BY <2>2 DEF LongMemoryScore, Lesser
<1>9. QED BY <1>2, <1>3, <1>4, <1>5, <1>6, <1>7, <1>8

\* What is known of a candidate's entropy without its latency, retries or costs:
\* no score is negative, so depth and repetition are a floor.
LEMMA EntropyFloor ==
  ASSUME NEW h \in Histories, NEW c \in Candidates
  PROVE  /\ Entropy(h, c) \in Int
         /\ Entropy(h, c) >= DepthScore(c.depth) + RepeatedTool(h, c.tool)
BY ScoresAreNat DEF Entropy

\* A candidate that is allowed lies below the degrading threshold.
LEMMA AllowedIsBelow ==
  ASSUME NEW h \in Histories, NEW c \in Candidates, Evaluate(h, c) = "ALLOW"
  PROVE  DepthScore(c.depth) + RepeatedTool(h, c.tool) < DegradeEntropy
<1>1. ~(Entropy(h, c) >= DegradeEntropy)
  BY DEF Evaluate, Policy
<1>2. DepthScore(c.depth) \in Int /\ RepeatedTool(h, c.tool) \in Int
  BY DEF Candidates, DepthScore, Lesser, RepeatedTool
<1>3. QED BY <1>1, <1>2, EntropyFloor, PolicyAssumption

\* Every decision is one of the three.
LEMMA DecisionType == ASSUME NEW h, NEW c PROVE Evaluate(h, c) \in Decision
BY DEF Evaluate, Policy, Decision
-----------------------------------------------------------------------------
Heavy(calls) == StructuralFloor(calls) >= DegradeEntropy

\* The floor is a number that grows with the calls.
LEMMA FloorFacts ==
  ASSUME NEW m \in Nat, NEW n \in Nat, m <= n
  PROVE  /\ StructuralFloor(m) \in Int /\ StructuralFloor(n) \in Int
         /\ StructuralFloor(m) <= StructuralFloor(n)
BY DEF StructuralFloor, DepthScore, Lesser

Typed ==
  /\ pc \in {"decide", "execute", "stopped"}
  /\ history \in Histories
  /\ step \in 0..MaxSteps
  /\ action \in Candidates
  /\ decision \in Decision \cup {"none"}
  /\ retry_count \in 0..steps_executed
  /\ steps_executed \in 0..step
  /\ degrade_remaining \in NotDegraded..MaxAdditionalSteps
  /\ executed_in_degrade \in BOOLEAN
  /\ stop_reason \in StopReason
  /\ degraded_calls \in Nat

\* Where the loop is: how many of its steps were executed, and what it remembers.
Placed ==
  /\ pc = "decide" => steps_executed = step
  /\ pc = "execute" => steps_executed = step - 1
  /\ pc = "execute" => action.depth = steps_executed
  /\ pc # "stopped" =>
       /\ Len(history.recent) = Lesser(10, steps_executed)
       /\ \A i \in 1..Len(history.recent) : history.recent[i].tool = Tool

\* What is left of the budget and what was spent of it make up the grant.
Budgeted ==
  /\ degrade_remaining = NotDegraded => degraded_calls = 0
  /\ degrade_remaining # NotDegraded => degrade_remaining + degraded_calls = MaxAdditionalSteps
  /\ pc = "execute" /\ executed_in_degrade => degrade_remaining = 1

\* A call whose floor is heavy runs degraded, so that no call follows it.
LastHeavy ==
  /\ ToolCalls >= 2 => ~Heavy(ToolCalls - 2)
  /\ pc = "decide" /\ steps_executed >= 1 /\ Heavy(steps_executed - 1) =>
       degrade_remaining = 0
  /\ pc = "execute" /\ action.tool = Tool =>
       /\ steps_executed >= 1 => ~Heavy(steps_executed - 1)
       /\ Heavy(steps_executed) => executed_in_degrade

Reasoned ==
  /\ pc = "stopped" <=> stop_reason # "none"
  /\ stop_reason = "unknown_tool" => steps_executed >= 1 /\ steps_executed = step
  /\ stop_reason \in {"refused", "degrade_exhausted"} => steps_executed = step - 1
  /\ stop_reason = "completed" => steps_executed = step /\ step = MaxSteps
  /\ stop_reason = "refused" => decision = "REFUSE"
  /\ stop_reason = "degrade_exhausted" => decision = "DEGRADE" /\ degrade_remaining = 0

IInv == Typed /\ Placed /\ Budgeted /\ LastHeavy /\ Reasoned

\* The first state.
LEMMA InitIInv == Init => IInv
<1> SUFFICES ASSUME Init PROVE IInv
  OBVIOUS
<1>1. history \in Histories /\ Len(history.recent) = 0
  BY OneEwmaFacts, EmptySeq DEF Init, NewHistory, Histories
<1>2. action \in Candidates
  BY DEF Init, Candidates
<1>3. Typed
  <2>1. step \in 0..MaxSteps /\ retry_count \in 0..steps_executed /\ steps_executed \in 0..step
    BY LoopAssumption DEF Init
  <2>2. degrade_remaining \in NotDegraded..MaxAdditionalSteps /\ degraded_calls \in Nat
    BY DEF Init, NotDegraded, MaxAdditionalSteps
  <2>3. /\ pc \in {"decide", "execute", "stopped"} /\ stop_reason \in StopReason
        /\ decision \in Decision \cup {"none"} /\ executed_in_degrade \in BOOLEAN
    BY DEF Init, StopReason
  <2>4. QED BY <1>1, <1>2, <2>1, <2>2, <2>3 DEF Typed
<1>4. Placed
  BY <1>1 DEF Init, Placed, Lesser
<1>5. Budgeted /\ LastHeavy /\ Reasoned
  BY DEF Init, Budgeted, LastHeavy, Reasoned, ToolCalls
<1>6. QED BY <1>3, <1>4, <1>5 DEF IInv

\* What every assessment establishes, whatever is decided.
LEMMA AssessedFacts ==
  ASSUME IInv, NEW tool \in {Tool, OtherTool}, NEW latency \in Latency,
         Assessed(tool, latency)
  PROVE  /\ action' \in Candidates /\ action'.tool = tool
         /\ action'.depth = steps_executed
         /\ decision' \in Decision
         /\ decision' = Evaluate(history, action')
         /\ step' \in 1..MaxSteps /\ step' = steps_executed + 1
         /\ pc = "decide" /\ stop_reason = "none" /\ steps_executed \in Nat
         /\ history' = history /\ retry_count' = retry_count
         /\ steps_executed' = steps_executed
<1>1. /\ pc = "decide" /\ step \in Nat /\ steps_executed = step
      /\ retry_count \in Nat /\ latency \in Nat
  BY LoopAssumption DEF IInv, Typed, Placed, Assessed
<1>2. action' = Candidate(tool, latency)
  BY DEF Assessed
<1>3. action' \in Candidates /\ action'.tool = tool /\ action'.depth = step
  BY <1>1, <1>2 DEF Candidate, Candidates
<1>4. decision' = Evaluate(history, action') /\ decision' \in Decision
  BY DecisionType DEF Assessed
<1>5. step' \in 1..MaxSteps /\ step' = step + 1
  BY <1>1, LoopAssumption DEF Assessed
<1>6. QED BY <1>1, <1>3, <1>4, <1>5 DEF Assessed, IInv, Reasoned

\* Once two calls have run, another call of the tool repeats it.
LEMMA AssessedFloor ==
  ASSUME IInv, pc = "decide", NEW c \in Candidates, c.tool = Tool,
         c.depth = steps_executed, Evaluate(history, c) = "ALLOW"
  PROVE  ~Heavy(steps_executed)
<1>1. /\ history \in Histories /\ steps_executed \in Nat
      /\ Len(history.recent) = Lesser(10, steps_executed)
      /\ \A i \in 1..Len(history.recent) : history.recent[i].tool = Tool
  BY DEF IInv, Typed, Placed
<1>2. steps_executed >= 2 => RepeatedTool(history, c.tool) = 2000
  BY <1>1 DEF RepeatedTool, Lesser
<1>3. RepeatedTool(history, c.tool) \in {0, 1000, 2000}
  BY <1>1 DEF RepeatedTool
<1>4. DepthScore(c.depth) + RepeatedTool(history, c.tool) < DegradeEntropy
  BY <1>1, AllowedIsBelow
<1>5. DepthScore(c.depth) \in Int
  BY <1>1 DEF DepthScore, Lesser
<1>6. QED BY <1>1, <1>2, <1>3, <1>4, <1>5, PolicyAssumption DEF Heavy, StructuralFloor

\* A refusal ends the run where it stands.
LEMMA RefusePreserves ==
  ASSUME IInv, NEW tool \in {Tool, OtherTool}, NEW latency \in Latency,
         Refuse(tool, latency) \/ DegradeExhausted(tool, latency)
  PROVE  IInv'
<1>1. Assessed(tool, latency) /\ pc' = "stopped" /\ executed_in_degrade' = FALSE
  BY DEF Refuse, DegradeExhausted, Stop
<1>2. stop_reason' \in {"refused", "degrade_exhausted"}
  BY DEF Refuse, DegradeExhausted, Stop
<1>3. UNCHANGED <<degrade_remaining, degraded_calls>>
  BY DEF Refuse, DegradeExhausted
<1>4. /\ stop_reason' = "refused" => decision' = "REFUSE"
      /\ stop_reason' = "degrade_exhausted" =>
           decision' = "DEGRADE" /\ degrade_remaining = 0
  BY DEF Refuse, DegradeExhausted, Stop, BudgetExhausted
<1>5. Typed'
  <2>1. step' \in 0..MaxSteps /\ retry_count' \in 0..steps_executed' /\ steps_executed' \in 0..step'
    BY <1>1, AssessedFacts, LoopAssumption DEF IInv, Typed
  <2>2. action' \in Candidates /\ decision' \in Decision \cup {"none"} /\ history' \in Histories
    BY <1>1, AssessedFacts DEF IInv, Typed
  <2>3. stop_reason' \in StopReason
    BY <1>2 DEF StopReason
  <2>4. degrade_remaining' \in NotDegraded..MaxAdditionalSteps /\ degraded_calls' \in Nat
    BY <1>3 DEF IInv, Typed
  <2>5. QED BY <1>1, <2>1, <2>2, <2>3, <2>4 DEF Typed
<1>6. Placed' /\ Budgeted'
  BY <1>1, <1>3 DEF IInv, Placed, Budgeted
<1>7. LastHeavy'
  BY <1>1, <1>2, AssessedFacts DEF IInv, LastHeavy, ToolCalls, Heavy
<1>8. Reasoned'
  BY <1>1, <1>2, <1>3, <1>4, AssessedFacts DEF Reasoned
<1>9. QED BY <1>5, <1>6, <1>7, <1>8 DEF IInv

\* An allowed or degraded candidate goes on to its execution.
LEMMA ProceedPreserves ==
  ASSUME IInv, NEW tool \in {Tool, OtherTool}, NEW latency \in Latency,
         Degrade(tool, latency) \/ Allow(tool, latency)
  PROVE  IInv'
<1>1. Assessed(tool, latency) /\ pc' = "execute" /\ stop_reason' = stop_reason
  BY DEF Degrade, Allow
<1>2. /\ action' \in Candidates /\ action'.tool = tool
      /\ action'.depth = steps_executed
      /\ decision' \in Decision /\ decision' = Evaluate(history, action')
      /\ step' \in 1..MaxSteps /\ step' = steps_executed + 1
      /\ pc = "decide" /\ stop_reason = "none" /\ steps_executed \in Nat
      /\ history' = history /\ retry_count' = retry_count
      /\ steps_executed' = steps_executed
  BY <1>1, AssessedFacts
<1>3. step' \in 1..MaxSteps /\ step' = steps_executed + 1 /\ steps_executed \in Nat
  BY <1>2
<1>4. \/ /\ degrade_remaining' = 1 /\ executed_in_degrade' = TRUE
         /\ degrade_remaining # 0
         /\ degraded_calls' = 0
      \/ /\ degrade_remaining' = NotDegraded /\ executed_in_degrade' = FALSE
         /\ degraded_calls' = 0 /\ decision' = "ALLOW"
  BY DEF Degrade, Allow, BudgetExhausted, IInv, Typed, Budgeted, NotDegraded,
         MaxAdditionalSteps
<1>5. Typed'
  <2>1. step' \in 0..MaxSteps /\ retry_count' \in 0..steps_executed' /\ steps_executed' \in 0..step'
    <3>1. retry_count' = retry_count /\ steps_executed' = steps_executed
      BY <1>2
    <3>2. QED BY <1>3, <3>1, LoopAssumption DEF IInv, Typed
  <2>2. action' \in Candidates /\ decision' \in Decision \cup {"none"} /\ history' \in Histories
    BY <1>2 DEF IInv, Typed
  <2>3. stop_reason' \in StopReason
    BY <1>1 DEF IInv, Typed
  <2>4. degrade_remaining' \in NotDegraded..MaxAdditionalSteps /\ degraded_calls' \in Nat
    BY <1>4 DEF NotDegraded, MaxAdditionalSteps
  <2>5. QED BY <1>1, <1>4, <2>1, <2>2, <2>3, <2>4 DEF Typed
<1>6. Placed'
  BY <1>1, <1>2 DEF IInv, Placed
<1>7. Budgeted'
  BY <1>4 DEF Budgeted, NotDegraded, MaxAdditionalSteps
<1>8. LastHeavy'
  <2>1. ToolCalls' = ToolCalls /\ ToolCalls = steps_executed
    BY <1>1, <1>2 DEF ToolCalls
  <2>2. ToolCalls' >= 2 => ~Heavy(ToolCalls - 2)'
    BY <2>1 DEF IInv, LastHeavy, Heavy
  <2>3. ASSUME tool = Tool, steps_executed >= 1
        PROVE  ~Heavy(steps_executed - 1)
    <3>1. CASE degrade_remaining # 0
      BY <1>2, <2>3, <3>1 DEF IInv, LastHeavy
    <3>2. CASE decision' = "ALLOW"
      <4>1. ~Heavy(steps_executed)
        BY <1>2, <2>3, <3>2, AssessedFloor
      <4>2. /\ StructuralFloor(steps_executed - 1) <= StructuralFloor(steps_executed)
            /\ StructuralFloor(steps_executed - 1) \in Int
            /\ StructuralFloor(steps_executed) \in Int
        <5>1. steps_executed - 1 \in Nat /\ steps_executed - 1 <= steps_executed
          <6>1. steps_executed \in Nat
            BY <1>3
          <6>2. QED BY <2>3, <6>1
        <5>2. QED BY <1>2, <5>1, FloorFacts
      <4>3. QED BY <4>1, <4>2, PolicyAssumption DEF Heavy
    <3>3. QED BY <1>4, <3>1, <3>2
  <2>4. ASSUME tool = Tool, Heavy(steps_executed)
        PROVE  executed_in_degrade'
    BY <1>2, <1>4, <2>4, AssessedFloor
  <2>5. QED BY <1>1, <1>2, <2>2, <2>3, <2>4 DEF LastHeavy, Heavy
<1>9. Reasoned'
  BY <1>1, <1>2 DEF Reasoned
<1>10. QED BY <1>5, <1>6, <1>7, <1>8, <1>9 DEF IInv

\* An executed call is paid for, and a heavy one leaves nothing of the budget.
LEMMA ExecutePreserves ==
  ASSUME IInv, NEW success \in BOOLEAN, Execute(success)
  PROVE  IInv'
<1>1. /\ pc = "execute" /\ pc' = "decide" /\ action.tool = Tool
      /\ stop_reason = "none" /\ stop_reason' = "none"
      /\ steps_executed \in Nat /\ steps_executed' = steps_executed + 1
      /\ steps_executed = step - 1 /\ step' = step /\ step \in 0..MaxSteps
      /\ history' = Recorded(history, Tool, success)
      /\ UNCHANGED <<action, decision, executed_in_degrade>>
  BY LoopAssumption DEF Execute, IInv, Typed, Placed, Reasoned
<1>2. \/ /\ executed_in_degrade /\ degrade_remaining = 1 /\ degrade_remaining' = 0
         /\ degraded_calls' = 1
      \/ /\ ~executed_in_degrade /\ UNCHANGED <<degrade_remaining, degraded_calls>>
  BY <1>1 DEF Execute, IInv, Typed, Budgeted, NotDegraded, MaxAdditionalSteps
<1>3. /\ history' \in Histories
      /\ Len(history'.recent) = Lesser(10, Len(history.recent) + 1)
      /\ \A i \in 1..Len(history'.recent) : history'.recent[i].tool = Tool
  BY <1>1, RecordedFacts DEF IInv, Typed, Placed
<1>4. retry_count' \in 0..steps_executed'
  BY <1>1 DEF Execute, IInv, Typed
<1>5. Typed'
  BY <1>1, <1>2, <1>3, <1>4 DEF IInv, Typed, NotDegraded, MaxAdditionalSteps
<1>6. Placed'
  BY <1>1, <1>3 DEF IInv, Placed, Lesser
<1>7. Budgeted'
  BY <1>1, <1>2 DEF IInv, Budgeted, NotDegraded, MaxAdditionalSteps
<1>8. LastHeavy'
  <2>1. ToolCalls' = steps_executed + 1
    BY <1>1 DEF ToolCalls
  <2>2. ToolCalls' >= 2 => ~Heavy(steps_executed - 1)
    BY <1>1, <2>1 DEF IInv, LastHeavy
  <2>3. Heavy(steps_executed) => degrade_remaining' = 0
    BY <1>1, <1>2 DEF IInv, LastHeavy
  <2>4. steps_executed' - 1 = steps_executed /\ ToolCalls' - 2 = steps_executed - 1
    BY <1>1, <2>1
  <2>5. QED BY <1>1, <2>2, <2>3, <2>4 DEF LastHeavy, Heavy
<1>9. Reasoned'
  BY <1>1 DEF Reasoned
<1>10. QED BY <1>5, <1>6, <1>7, <1>8, <1>9 DEF IInv

\* An unknown tool ends the run without a call.
LEMMA UnknownToolPreserves == ASSUME IInv, UnknownTool PROVE IInv'
<1>1. /\ pc = "execute" /\ pc' = "stopped" /\ stop_reason = "none"
      /\ stop_reason' = "unknown_tool" /\ action.tool \in {Tool, OtherTool}
      /\ steps_executed \in Nat /\ steps_executed' = steps_executed + 1
      /\ steps_executed = step - 1 /\ step \in 0..MaxSteps
      /\ history' = Recorded(history, action.tool, FALSE)
      /\ UNCHANGED <<step, action, decision, retry_count, degrade_remaining,
                     executed_in_degrade, degraded_calls>>
  BY LoopAssumption DEF UnknownTool, Stop, IInv, Typed, Placed, Reasoned, Candidates
<1>2. history' \in Histories
  BY <1>1, RecordedFacts DEF IInv, Typed
<1>3. Typed'
  <2>1. stop_reason' \in StopReason
    BY <1>1 DEF StopReason
  <2>2. retry_count' \in 0..steps_executed' /\ steps_executed' \in 0..step'
    BY <1>1 DEF IInv, Typed
  <2>3. QED BY <1>1, <1>2, <2>1, <2>2 DEF IInv, Typed
<1>4. Placed' /\ Budgeted'
  BY <1>1 DEF IInv, Placed, Budgeted
<1>5. LastHeavy'
  <2>1. ToolCalls' = steps_executed /\ ToolCalls = steps_executed
    BY <1>1 DEF ToolCalls
  <2>2. QED BY <1>1, <2>1 DEF IInv, LastHeavy, Heavy
<1>6. Reasoned'
  BY <1>1 DEF Reasoned
<1>7. QED BY <1>3, <1>4, <1>5, <1>6 DEF IInv

\* The last step is used up.
LEMMA ExhaustedPreserves == ASSUME IInv, Exhausted PROVE IInv'
<1>1. /\ pc = "decide" /\ pc' = "stopped" /\ stop_reason' = "completed"
      /\ stop_reason = "none" /\ steps_executed = step /\ step = MaxSteps
      /\ UNCHANGED <<history, step, action, decision, retry_count, steps_executed,
                     degrade_remaining, executed_in_degrade, degraded_calls>>
  BY LoopAssumption DEF Exhausted, OutOfSteps, Stop, IInv, Typed, Placed, Reasoned
<1>2. Typed'
  BY <1>1 DEF IInv, Typed, StopReason
<1>3. Placed' /\ Budgeted' /\ Reasoned'
  BY <1>1 DEF IInv, Placed, Budgeted, Reasoned
<1>4. ToolCalls' = ToolCalls
  BY <1>1 DEF ToolCalls
<1>5. LastHeavy'
  BY <1>1, <1>4 DEF IInv, LastHeavy, Heavy
<1>6. QED BY <1>2, <1>3, <1>5 DEF IInv

\* Every step of the loop keeps the invariant.
LEMMA IInvInductive == IInv /\ [Next]_loopVars => IInv'
<1> SUFFICES ASSUME IInv, [Next]_loopVars PROVE IInv'
  OBVIOUS
<1>1. ASSUME NEW tool \in {Tool, OtherTool}, NEW latency \in Latency,
             Decide(tool, latency)
      PROVE  IInv'
  BY <1>1, RefusePreserves, ProceedPreserves DEF Decide
<1>2. ASSUME NEW success \in BOOLEAN, Execute(success) PROVE IInv'
  BY <1>2, ExecutePreserves
<1>3. CASE UnknownTool
  BY <1>3, UnknownToolPreserves
<1>4. CASE Exhausted
  BY <1>4, ExhaustedPreserves
<1>5. CASE UNCHANGED loopVars
  BY <1>5 DEF loopVars, IInv, Typed, Placed, Budgeted, LastHeavy, Reasoned, ToolCalls, Heavy
<1>6. QED BY <1>1, <1>2, <1>3, <1>4, <1>5 DEF Next

\* The invariant holds in every reachable state of the loop.
LEMMA Invariance == Spec => []IInv
BY InitIInv, IInvInductive, PTL DEF Spec

\* The loop's state keeps its types and bounds for every policy.
THEOREM RnosLoopTypeCorrect == Spec => []TypeOK
<1>1. IInv => TypeOK
  BY DEF IInv, Typed, TypeOK, Histories, Items
<1>2. QED BY <1>1, Invariance, PTL

\* No caution window runs more degraded calls than DEGRADE grants it.
THEOREM DegradeBudget == Spec => []BudgetIsHonoured
<1>1. IInv => BudgetIsHonoured
  BY DEF IInv, Typed, Budgeted, BudgetIsHonoured, NotDegraded, MaxAdditionalSteps
<1>2. QED BY <1>1, Invariance, PTL

\* The reason a run gives is the one that ended it.
THEOREM ReasonIsTrue == Spec => []ReasonMatchesRun
<1>1. IInv => ReasonMatchesRun
  BY DEF IInv, Typed, Budgeted, Reasoned, ReasonMatchesRun, NotDegraded,
         MaxAdditionalSteps
<1>2. QED BY <1>1, Invariance, PTL

\* For every policy, the first call whose depth and repetition alone reach the
\* degrading threshold is the last call of the run, however it and the calls
\* before it turn out.
THEOREM FloorBindsEveryRun == Spec => []FloorEndsTheRun
<1>1. ASSUME IInv PROVE FloorEndsTheRun
  <2>1. ToolCalls \in Nat
    BY <1>1 DEF IInv, Typed, Reasoned, ToolCalls
  <2>2. ASSUME NEW calls \in 0..(ToolCalls - 2)
        PROVE  StructuralFloor(calls) < DegradeEntropy
    <3>1. ToolCalls - 2 \in Nat /\ calls \in Nat /\ calls <= ToolCalls - 2
      BY <2>1
    <3>2. ~Heavy(ToolCalls - 2)
      BY <1>1, <2>1, <3>1 DEF IInv, LastHeavy
    <3>3. /\ StructuralFloor(calls) \in Int /\ StructuralFloor(ToolCalls - 2) \in Int
          /\ StructuralFloor(calls) <= StructuralFloor(ToolCalls - 2)
      BY <3>1, FloorFacts
    <3>4. QED BY <3>2, <3>3, PolicyAssumption DEF Heavy
  <2>3. QED BY <2>2 DEF FloorEndsTheRun
<1>2. QED BY <1>1, Invariance, PTL

\* Wherever three calls are heavy (3.2 covers the default of 3.0), a run is over
\* by its fourth step, however reliable the tool.
THEOREM DefaultsStopByStepFour ==
  ASSUME DegradeEntropy <= 3200
  PROVE  Spec => []StopsByStepFour
<1>1. ASSUME IInv PROVE StopsByStepFour
  <2>1. Heavy(2) /\ StructuralFloor(2) = 3200
    BY DEF Heavy, StructuralFloor, DepthScore, Lesser
  <2>2. ToolCalls \in Nat /\ step \in Nat
    BY <1>1, LoopAssumption DEF IInv, Typed, Reasoned, ToolCalls
  <2>3. ToolCalls < 4
    <3>1. SUFFICES ASSUME ToolCalls >= 4 PROVE FALSE
      BY <2>2
    <3>2. ToolCalls - 2 \in Nat /\ 2 <= ToolCalls - 2 /\ ~Heavy(ToolCalls - 2)
      BY <1>1, <2>2, <3>1 DEF IInv, LastHeavy
    <3>3. StructuralFloor(2) <= StructuralFloor(ToolCalls - 2)
          /\ StructuralFloor(ToolCalls - 2) \in Int
      BY <3>2, FloorFacts
    <3>4. QED BY <2>1, <3>2, <3>3, PolicyAssumption DEF Heavy
  <2>4. step <= ToolCalls + 1
    <3>1. CASE stop_reason \in {"none", "refused", "degrade_exhausted", "completed"}
      BY <1>1, <2>2, <3>1 DEF IInv, Typed, Placed, Reasoned, ToolCalls
    <3>2. CASE stop_reason = "unknown_tool"
      BY <1>1, <2>2, <3>2 DEF IInv, Typed, Placed, Reasoned, ToolCalls
    <3>3. QED BY <1>1, <3>1, <3>2 DEF IInv, Typed, StopReason
  <2>5. QED BY <2>2, <2>3, <2>4 DEF StopsByStepFour
<1>2. QED BY <1>1, Invariance, PTL

-----------------------------------------------------------------------------
(* Rounding.                                                               *)

\* What a quotient and a remainder are.
LEMMA Division ==
  ASSUME NEW n \in Int, NEW d \in Int, d > 0
  PROVE  /\ n \div d \in Int /\ n % d \in Int
         /\ n = (n \div d) * d + (n % d)
         /\ 0 <= n % d /\ n % d < d
<1>1. n \div d \in Int /\ n % d \in Int
  OBVIOUS
<1>2. 0 <= n % d /\ n % d < d
  OBVIOUS
<1>3. n = (n \div d) * d + (n % d)
  BY Z3
<1>4. QED BY <1>1, <1>2, <1>3

\* Multiplying by a positive number keeps the order, and a difference of one becomes
\* one of at least that number.
LEMMA Products ==
  ASSUME NEW a \in Int, NEW b \in Int, NEW d \in Nat \ {0}
  PROVE  /\ a * d \in Int
         /\ a * d < b * d <=> a < b
         /\ a * d <= b * d <=> a <= b
         /\ a + 1 <= b => a * d + d <= b * d
OBVIOUS

\* round is monotonic: of two quotients the smaller is rounded to the smaller number.
LEMMA RoundedMonotone ==
  ASSUME NEW a \in Int, NEW d \in Nat \ {0}, NEW b \in Int, NEW e \in Nat \ {0},
         a * e <= b * d
  PROVE  Rounded(a, d) <= Rounded(b, e)
<1> DEFINE q == a \div d
           r == a % d
           p == b \div e
           s == b % e
           m == d * e
<1>1. q \in Int /\ r \in Int /\ a = d * q + r /\ 0 <= r /\ r < d
  BY Division
<1>2. p \in Int /\ s \in Int /\ b = e * p + s /\ 0 <= s /\ s < e
  BY Division
<1>3. Rounded(a, d) = IF 2 * r < d \/ (2 * r = d /\ q % 2 = 0) THEN q ELSE q + 1
  BY DEF Rounded
<1>4. Rounded(b, e) = IF 2 * s < e \/ (2 * s = e /\ p % 2 = 0) THEN p ELSE p + 1
  BY DEF Rounded
<1> HIDE DEF q, r, p, s, m
<1>5. a * e = q * m + r * e /\ b * d = p * m + s * d
  BY <1>1, <1>2 DEF m
<1>6. m \in Nat \ {0} /\ r * e \in Int /\ s * d \in Int /\ 0 <= r * e /\ s * d < m
  BY <1>1, <1>2 DEF m
<1>7. q * m + r * e <= p * m + s * d
  BY <1>5
<1>8. q <= p
  <2>1. SUFFICES ASSUME p + 1 <= q PROVE FALSE
    BY <1>1, <1>2
  <2>2. p * m + m <= q * m /\ p * m \in Int /\ q * m \in Int
    BY <1>1, <1>2, <1>6, <2>1, Products
  <2>3. QED BY <1>6, <1>7, <2>2
<1>9. CASE q + 1 <= p
  BY <1>1, <1>2, <1>3, <1>4, <1>9
<1>10. CASE q = p
  <2>1. r * e <= s * d
    <3>1. q * m \in Int
      BY <1>1, <1>6
    <3>2. QED BY <1>6, <1>7, <1>10, <3>1
  <2>2. 2 * r > d => 2 * s > e
    <3>1. SUFFICES ASSUME 2 * r > d PROVE 2 * s > e
      OBVIOUS
    <3>2. d * e < (2 * r) * e
      BY <1>1, <3>1, Products
    <3>3. (2 * r) * e = 2 * (r * e) /\ (2 * s) * d = 2 * (s * d) /\ d * e = e * d
      BY <1>1, <1>2
    <3>4. e * d < (2 * s) * d
      BY <1>6, <2>1, <3>2, <3>3
    <3>5. QED BY <1>2, <3>4, Products
  <2>3. 2 * r >= d => 2 * s >= e
    <3>1. SUFFICES ASSUME 2 * r >= d PROVE 2 * s >= e
      OBVIOUS
    <3>2. d * e <= (2 * r) * e
      BY <1>1, <3>1, Products
    <3>3. (2 * r) * e = 2 * (r * e) /\ (2 * s) * d = 2 * (s * d) /\ d * e = e * d
      BY <1>1, <1>2
    <3>4. e * d <= (2 * s) * d
      BY <1>6, <2>1, <3>2, <3>3
    <3>5. QED BY <1>2, <3>4, Products
  <2>4. QED BY <1>1, <1>2, <1>3, <1>4, <1>10, <2>2, <2>3
<1>11. QED BY <1>1, <1>2, <1>8, <1>9, <1>10

-----------------------------------------------------------------------------
(* One more failure in a window.                                           *)

\* t is s after one more item, a failure: s with it, or the latter end of s with it.
Slid(s, t) ==
  /\ Len(t) >= 1 /\ ~t[Len(t)].success
  /\ \/ Len(t) = Len(s) + 1 /\ \A i \in 1..Len(s) : t[i] = s[i]
     \/ Len(t) = Len(s) /\ \A i \in 1..(Len(t) - 1) : t[i] = s[i + 1]

\* There are no fewer failures in it and no more successes.
LEMMA SlidCounts ==
  ASSUME NEW s \in Seq(Items), NEW t \in Seq(Items), Slid(s, t)
  PROVE  /\ CountOf(s, FALSE) <= CountOf(t, FALSE)
         /\ CountOf(t, TRUE) <= CountOf(s, TRUE)
<1> DEFINE Hits(u, success) == {i \in DOMAIN u : u[i].success = success}
<1>1. /\ DOMAIN s = 1..Len(s) /\ DOMAIN t = 1..Len(t) /\ Len(s) \in Nat /\ Len(t) \in Nat
  BY LenProperties
<1>b. ASSUME NEW u \in Seq(Items), NEW i \in 1..Len(u)
      PROVE  u[i].success = TRUE \/ u[i].success = FALSE
  <2>1. u[i] \in Items
    BY ElementOfSeq
  <2>2. QED BY <2>1 DEF Items
<1>2. ASSUME NEW u \in Seq(Items), NEW success
      PROVE  IsFiniteSet(Hits(u, success)) /\ CountOf(u, success) = Cardinality(Hits(u, success))
  <2>1. IsFiniteSet(1..Len(u))
    BY LenProperties, FS_Interval
  <2>2. Hits(u, success) \subseteq 1..Len(u)
    BY LenProperties
  <2>3. IsFiniteSet(Hits(u, success))
    BY <2>1, <2>2, FS_Subset
  <2>4. QED BY <2>3 DEF CountOf
<1>3. CASE Len(t) = Len(s) + 1 /\ \A i \in 1..Len(s) : t[i] = s[i]
  <2>1. Hits(s, FALSE) \subseteq Hits(t, FALSE)
    BY <1>1, <1>3
  <2>2. Hits(t, TRUE) \subseteq Hits(s, TRUE)
    <3>1. SUFFICES ASSUME NEW i \in Hits(t, TRUE) PROVE i \in Hits(s, TRUE)
      OBVIOUS
    <3>2. i \in 1..Len(t) /\ t[i].success
      BY <1>1
    <3>3. i # Len(t)
      BY <3>2 DEF Slid
    <3>4. i \in 1..Len(s) /\ t[i] = s[i]
      BY <1>1, <1>3, <3>2, <3>3
    <3>5. QED BY <1>1, <3>1, <3>4
  <2> HIDE DEF Hits
  <2>3. Cardinality(Hits(s, FALSE)) <= Cardinality(Hits(t, FALSE))
    BY <1>2, <2>1, FS_Subset
  <2>4. Cardinality(Hits(t, TRUE)) <= Cardinality(Hits(s, TRUE))
    BY <1>2, <2>2, FS_Subset
  <2>5. QED BY <1>2, <2>3, <2>4
<1>4. CASE Len(t) = Len(s) /\ \A i \in 1..(Len(t) - 1) : t[i] = s[i + 1]
  <2> DEFINE down == [i \in Hits(s, FALSE) |-> IF i = 1 THEN Len(t) ELSE i - 1]
             up == [i \in Hits(t, TRUE) |-> i + 1]
  <2>1. down \in Injection(Hits(s, FALSE), Hits(t, FALSE))
    <3>1. ASSUME NEW i \in Hits(s, FALSE) PROVE down[i] \in Hits(t, FALSE)
      <4>1. i \in 1..Len(s) /\ s[i].success = FALSE
        BY <1>1
      <4>2. CASE i = 1
        <5>1. down[i] = Len(t) /\ Len(t) \in 1..Len(t)
          BY <1>1, <1>4, <4>1, <4>2
        <5>2. t[Len(t)].success = FALSE
          BY <1>1, <1>b, <5>1 DEF Slid
        <5>3. QED BY <1>1, <5>1, <5>2
      <4>3. CASE i # 1
        <5>1. down[i] = i - 1 /\ i - 1 \in 1..(Len(t) - 1)
          BY <1>1, <1>4, <4>1, <4>3
        <5>2. t[i - 1] = s[i - 1 + 1] /\ i - 1 + 1 = i
          BY <1>1, <1>4, <4>1, <5>1
        <5>3. QED BY <1>1, <4>1, <5>1, <5>2
      <4>4. QED BY <4>2, <4>3
    <3>2. ASSUME NEW i \in Hits(s, FALSE), NEW j \in Hits(s, FALSE), down[i] = down[j]
          PROVE  i = j
      BY <1>1, <1>4, <3>2
    <3> HIDE DEF Hits
    <3>3. QED BY <3>1, <3>2 DEF Injection, IsInjective
  <2>2. up \in Injection(Hits(t, TRUE), Hits(s, TRUE))
    <3>1. ASSUME NEW i \in Hits(t, TRUE) PROVE up[i] \in Hits(s, TRUE)
      <4>1. i \in 1..Len(t) /\ t[i].success = TRUE
        BY <1>1
      <4>2. i # Len(t)
        BY <4>1 DEF Slid
      <4>3. i + 1 \in 1..Len(s) /\ s[i + 1] = t[i]
        BY <1>1, <1>4, <4>1, <4>2
      <4>4. QED BY <1>1, <4>1, <4>3
    <3>2. ASSUME NEW i \in Hits(t, TRUE), NEW j \in Hits(t, TRUE), up[i] = up[j]
          PROVE  i = j
      BY <1>1, <3>2
    <3> HIDE DEF Hits
    <3>3. QED BY <3>1, <3>2 DEF Injection, IsInjective
  <2> HIDE DEF Hits, down, up
  <2>3. Cardinality(Hits(s, FALSE)) <= Cardinality(Hits(t, FALSE))
    BY <1>2, <2>1, FS_Injection
  <2>4. Cardinality(Hits(t, TRUE)) <= Cardinality(Hits(s, TRUE))
    BY <1>2, <2>2, FS_Injection
  <2>5. QED BY <1>2, <2>3, <2>4
<1>5. QED BY <1>3, <1>4 DEF Slid

\* Where the last k of n items begin.
LEMMA LastBegin ==
  ASSUME NEW n \in Nat, NEW k \in Nat \ {0}
  PROVE  /\ Greater(1, n - k + 1) \in 1..(n + 1)
         /\ Greater(1, n - k + 1) = n - Lesser(k, n) + 1
BY DEF Greater, Lesser

\* The last k items of a sequence, by their places in it.
LEMMA LastOfPlaces ==
  ASSUME NEW w \in Seq(Items), NEW k \in Nat \ {0}
  PROVE  /\ Len(w) \in Nat
         /\ LastOf(w, k) \in Seq(Items)
         /\ Len(LastOf(w, k)) = Lesser(k, Len(w))
         /\ \A i \in 1..Lesser(k, Len(w)) : LastOf(w, k)[i] = w[Len(w) - Lesser(k, Len(w)) + i]
<1> DEFINE first == Greater(1, Len(w) - k + 1)
<1>1. Len(w) \in Nat
  BY LenProperties
<1>2. first \in 1..(Len(w) + 1) /\ first = Len(w) - Lesser(k, Len(w)) + 1 /\ Lesser(k, Len(w)) \in Nat
  BY <1>1, LastBegin DEF Lesser
<1>3. \A i \in 1..(Len(w) - first + 1) : LastOf(w, k)[i] = w[first + i - 1]
  BY <1>2, SubSeqProperties, SMTT(30) DEF LastOf
<1>4. Len(LastOf(w, k)) = Lesser(k, Len(w)) /\ LastOf(w, k) \in Seq(Items)
  BY LastOfFacts
<1>5. ASSUME NEW i \in 1..Lesser(k, Len(w))
      PROVE  LastOf(w, k)[i] = w[Len(w) - Lesser(k, Len(w)) + i]
  <2> DEFINE n == Len(w)
             m == Lesser(k, n)
  <2> HIDE DEF n, m, first
  <2>1. n - first + 1 = m /\ first + i - 1 = n - m + i /\ i \in 1..m
    BY <1>1, <1>2 DEF n, m
  <2>2. i \in 1..(Len(w) - first + 1) /\ first + i - 1 = Len(w) - Lesser(k, Len(w)) + i
    BY <2>1 DEF n, m
  <2>3. QED BY <1>3, <2>2, Zenon
<1>6. QED BY <1>1, <1>4, <1>5

\* The latest items of a window that slid have slid.
LEMMA SlidLastOf ==
  ASSUME NEW s \in Seq(Items), NEW t \in Seq(Items), Slid(s, t), NEW k \in Nat \ {0}
  PROVE  Slid(LastOf(s, k), LastOf(t, k))
<1> DEFINE u == LastOf(s, k)
           v == LastOf(t, k)
           m == Len(s)
           n == Len(t)
           a == Lesser(k, m)
           b == Lesser(k, n)
<1>1. /\ m \in Nat /\ Len(u) = a /\ \A i \in 1..a : u[i] = s[m - a + i]
      /\ n \in Nat /\ Len(v) = b /\ \A i \in 1..b : v[i] = t[n - b + i]
  <2>1. m \in Nat /\ Len(u) = a /\ \A i \in 1..a : u[i] = s[m - a + i]
    BY ONLY s \in Seq(Items), k \in Nat \ {0}, LastOfPlaces DEF u, m, a
  <2>2. n \in Nat /\ Len(v) = b /\ \A i \in 1..b : v[i] = t[n - b + i]
    BY ONLY t \in Seq(Items), k \in Nat \ {0}, LastOfPlaces DEF v, n, b
  <2>3. QED BY ONLY <2>1, <2>2
<1>2. /\ n >= 1 /\ ~t[n].success
      /\ \/ n = m + 1 /\ \A i \in 1..m : t[i] = s[i]
         \/ n = m /\ \A i \in 1..(n - 1) : t[i] = s[i + 1]
  BY DEF Slid
<1> HIDE DEF u, v, m, n
<1>3. /\ a \in Nat /\ a <= m /\ a <= k /\ (m < k => a = m) /\ (m >= k => a = k)
      /\ b \in Nat /\ b <= n /\ b <= k /\ (n < k => b = n) /\ (n >= k => b = k) /\ b >= 1
  BY <1>1, <1>2 DEF Lesser
<1> HIDE DEF a, b
<1>4. v[b] = t[n]
  <2>1. b \in 1..b /\ n - b + b = n
    BY <1>1, <1>3
  <2>2. v[b] = t[n - b + b]
    BY <1>1, <2>1
  <2>3. QED BY <2>1, <2>2
<1>5. ASSUME n = m + 1, \A i \in 1..m : t[i] = s[i], m < k
      PROVE  b = a + 1 /\ \A i \in 1..a : v[i] = u[i]
  <2>1. a = m /\ b = n
    BY <1>1, <1>3, <1>5
  <2>2. ASSUME NEW i \in 1..a PROVE v[i] = u[i]
    <3>1. i \in 1..b /\ n - b + i = i /\ m - a + i = i /\ i \in 1..m
      BY <1>1, <1>3, <1>5, <2>1
    <3>2. v[i] = t[i] /\ u[i] = s[i]
      BY <1>1, <3>1
    <3>3. QED BY <1>5, <3>1, <3>2
  <2>3. QED BY <1>1, <1>5, <2>1, <2>2
<1>6. ASSUME n = m + 1, \A i \in 1..m : t[i] = s[i], ~(m < k)
      PROVE  b = a /\ \A i \in 1..(b - 1) : v[i] = u[i + 1]
  <2>1. a = k /\ b = k
    BY <1>1, <1>3, <1>6
  <2>2. ASSUME NEW i \in 1..(b - 1) PROVE v[i] = u[i + 1]
    <3>1. /\ i \in 1..b /\ i + 1 \in 1..a /\ n - b + i \in 1..m
          /\ m - a + (i + 1) = n - b + i
      BY <1>1, <1>3, <1>6, <2>1
    <3>2. v[i] = t[n - b + i] /\ u[i + 1] = s[m - a + (i + 1)]
      BY <1>1, <3>1
    <3>3. QED BY <1>6, <3>1, <3>2
  <2>3. QED BY <2>1, <2>2
<1>7. ASSUME n = m, \A i \in 1..(n - 1) : t[i] = s[i + 1]
      PROVE  b = a /\ \A i \in 1..(b - 1) : v[i] = u[i + 1]
  <2>1. b = a
    BY <1>7 DEF a, b
  <2>2. ASSUME NEW i \in 1..(b - 1) PROVE v[i] = u[i + 1]
    <3>1. /\ i \in 1..b /\ i + 1 \in 1..a /\ n - b + i \in 1..(n - 1)
          /\ m - a + (i + 1) = (n - b + i) + 1
      BY <1>1, <1>3, <1>7, <2>1
    <3>2. v[i] = t[n - b + i] /\ u[i + 1] = s[m - a + (i + 1)]
      BY <1>1, <3>1
    <3>3. QED BY <1>7, <3>1, <3>2
  <2>3. QED BY <2>1, <2>2
<1>8. /\ b >= 1 /\ ~v[b].success
      /\ \/ b = a + 1 /\ \A i \in 1..a : v[i] = u[i]
         \/ b = a /\ \A i \in 1..(b - 1) : v[i] = u[i + 1]
  BY <1>2, <1>3, <1>4, <1>5, <1>6, <1>7
<1>9. Slid(u, v)
  BY <1>1, <1>8 DEF Slid
<1>10. QED BY <1>9 DEF u, v

\* A tenth of the most that is possible and nine tenths of what is: no less than it was.
LEMMA AverageGrows ==
  ASSUME NEW ewma \in Nat, NEW one \in Nat, ewma <= one
  PROVE  ewma <= (one + 9 * ewma) \div 10
OBVIOUS

\* Recording a failure slides the window and does not lower the average.
LEMMA FailureRecorded ==
  ASSUME NEW h \in Histories, NEW tool \in {Tool, OtherTool}
  PROVE  /\ Slid(h.recent, Recorded(h, tool, FALSE).recent)
         /\ h.ewma <= Recorded(h, tool, FALSE).ewma
<1> DEFINE item == Item(tool, FALSE)
           longer == Append(h.recent, item)
<1>1. /\ h.recent \in Seq(Items) /\ Len(h.recent) \in Nat /\ Len(h.recent) <= 10
      /\ item \in Items /\ ~item.success
  BY LenProperties DEF Histories, Items, Item
<1>2. /\ longer \in Seq(Items) /\ Len(longer) = Len(h.recent) + 1
      /\ \A i \in 1..Len(h.recent) : longer[i] = h.recent[i]
      /\ longer[Len(h.recent) + 1] = item
  <2> HIDE DEF item
  <2>1. QED BY <1>1, AppendProperties
<1> HIDE DEF longer
<1>3. Slid(h.recent, longer)
  <2>1. longer[Len(longer)] = item /\ Len(longer) >= 1
    BY <1>1, <1>2
  <2> HIDE DEF item
  <2>2. QED BY <1>1, <1>2, <2>1 DEF Slid
<1>4. Slid(LastOf(h.recent, 10), LastOf(longer, 10))
  BY <1>1, <1>2, <1>3, SlidLastOf
<1>5. LastOf(h.recent, 10) = h.recent
  <2>1. Greater(1, Len(h.recent) - 10 + 1) = 1
    BY <1>1 DEF Greater
  <2>2. SubSeq(h.recent, 1, Len(h.recent)) = h.recent
    BY <1>1
  <2>3. QED BY <2>1, <2>2 DEF LastOf
<1>6. Recorded(h, tool, FALSE) = [recent |-> LastOf(longer, 10), ewma |-> Smoothed(h.ewma, FALSE)]
  BY DEF Recorded, longer
<1>7. h.ewma <= Smoothed(h.ewma, FALSE)
  <2>1. h.ewma \in Nat /\ OneEwma \in Nat /\ h.ewma <= OneEwma
    BY OneEwmaFacts DEF Histories
  <2>2. Smoothed(h.ewma, FALSE) = (OneEwma + 9 * h.ewma) \div 10
    BY DEF Smoothed
  <2>3. h.ewma <= (OneEwma + 9 * h.ewma) \div 10
    BY ONLY <2>1, AverageGrows
  <2>4. QED BY ONLY <2>2, <2>3
<1>8. Recorded(h, tool, FALSE).recent = LastOf(longer, 10)
      /\ Recorded(h, tool, FALSE).ewma = Smoothed(h.ewma, FALSE)
  BY DEF Recorded, longer
<1>9. Slid(h.recent, Recorded(h, tool, FALSE).recent)
  BY ONLY <1>4, <1>5, <1>8
<1>10. QED BY <1>7, <1>8, <1>9

-----------------------------------------------------------------------------
(* The scores after one more failure.                                      *)

\* The lesser and the greater of two numbers are monotonic.
LEMMA LesserMonotone ==
  ASSUME NEW a \in Int, NEW b \in Int, NEW c \in Int, a <= b
  PROVE  /\ Lesser(a, c) \in Int /\ Lesser(a, c) <= Lesser(b, c)
         /\ Greater(c, a) \in Int /\ Greater(c, a) <= Greater(c, b)
BY DEF Lesser, Greater

\* There are no fewer failures among the latest five.
LEMMA FailuresGrow ==
  ASSUME NEW h \in Histories, NEW g \in Histories, Slid(h.recent, g.recent)
  PROVE  FailureScore(h) <= FailureScore(g)
<1> DEFINE x == CountOf(LastOf(h.recent, 5), FALSE)
           y == CountOf(LastOf(g.recent, 5), FALSE)
<1>1. h.recent \in Seq(Items) /\ g.recent \in Seq(Items)
  BY DEF Histories
<1>2. LastOf(h.recent, 5) \in Seq(Items) /\ LastOf(g.recent, 5) \in Seq(Items)
  BY <1>1, LastOfFacts
<1>3. Slid(LastOf(h.recent, 5), LastOf(g.recent, 5))
  BY <1>1, SlidLastOf
<1>4. x \in Nat /\ y \in Nat /\ x <= y
  BY <1>2, <1>3, SlidCounts, CountIsNat
<1>5. FailureScore(h) = Lesser(650 * x, 3000) /\ FailureScore(g) = Lesser(650 * y, 3000)
  BY DEF FailureScore
<1> HIDE DEF x, y
<1>6. QED BY <1>4, <1>5 DEF Lesser

\* In a history of one tool only, a longer one repeats it no less.
LEMMA RepetitionGrows ==
  ASSUME NEW h \in Histories, NEW g \in Histories, Len(h.recent) <= Len(g.recent),
         \A i \in 1..Len(h.recent) : h.recent[i].tool = Tool,
         \A i \in 1..Len(g.recent) : g.recent[i].tool = Tool
  PROVE  RepeatedTool(h, Tool) <= RepeatedTool(g, Tool)
<1>1. ASSUME NEW f \in Histories, \A i \in 1..Len(f.recent) : f.recent[i].tool = Tool
      PROVE  /\ Len(f.recent) \in Nat
             /\ RepeatedTool(f, Tool) = IF Len(f.recent) >= 2 THEN 2000
                                        ELSE IF Len(f.recent) = 1 THEN 1000 ELSE 0
  <2>1. Len(f.recent) \in Nat
    BY LenProperties DEF Histories
  <2>2. CASE Len(f.recent) >= 2
    BY <1>1, <2>1, <2>2 DEF RepeatedTool
  <2>3. CASE Len(f.recent) = 1
    BY <1>1, <2>1, <2>3 DEF RepeatedTool
  <2>4. CASE Len(f.recent) = 0
    BY <2>1, <2>4 DEF RepeatedTool
  <2> DEFINE n == Len(f.recent)
  <2>5. n \in Nat
    BY <2>1
  <2> HIDE DEF n
  <2>6. n >= 2 \/ n = 1 \/ n = 0
    BY <2>5
  <2>7. QED BY <2>2, <2>3, <2>4, <2>6, Zenon DEF n
<1> DEFINE m == Len(h.recent)
           n == Len(g.recent)
<1>2. /\ m \in Nat /\ n \in Nat /\ m <= n
      /\ RepeatedTool(h, Tool) = IF m >= 2 THEN 2000 ELSE IF m = 1 THEN 1000 ELSE 0
      /\ RepeatedTool(g, Tool) = IF n >= 2 THEN 2000 ELSE IF n = 1 THEN 1000 ELSE 0
  BY <1>1
<1> HIDE DEF m, n
<1>3. QED BY <1>2

\* Twice the average, rounded: no less for a higher one.
LEMMA MemoryGrows ==
  ASSUME NEW h \in Histories, NEW g \in Histories, h.ewma <= g.ewma
  PROVE  LongMemoryScore(h) <= LongMemoryScore(g)
<1> DEFINE d == OneEwma \div 1000
           x == h.ewma
           y == g.ewma
<1>1. d \in Nat \ {0} /\ x \in Nat /\ y \in Nat /\ x <= y
  BY OneEwmaFacts DEF Histories
<1>2. LongMemoryScore(h) = Lesser(Rounded(2 * x, d), 2000)
      /\ LongMemoryScore(g) = Lesser(Rounded(2 * y, d), 2000)
  BY DEF LongMemoryScore
<1> HIDE DEF d, x, y
<1>3. 2 * x \in Int /\ 2 * y \in Int /\ (2 * x) * d <= (2 * y) * d
  BY <1>1, Products
<1>4. Rounded(2 * x, d) <= Rounded(2 * y, d)
  BY <1>1, <1>3, RoundedMonotone
<1>5. Rounded(2 * x, d) \in Int /\ Rounded(2 * y, d) \in Int
  BY <1>1, <1>3, RoundedFacts
<1>6. QED BY <1>2, <1>4, <1>5, LesserMonotone

\* More items for no more successes: no less waste.
LEMMA WasteGrows ==
  ASSUME NEW m \in Nat, NEW n \in Nat, NEW v \in Nat, NEW w \in Nat, m <= n, w <= v
  PROVE  m * w <= n * v
<1>1. m * w <= n * w /\ n * w <= n * v
  OBVIOUS
<1>2. m * w \in Int /\ n * w \in Int /\ n * v \in Int
  OBVIOUS
<1>3. QED BY <1>1, <1>2

\* The costs do not fall either.
LEMMA CostsGrow ==
  ASSUME NEW h \in Histories, NEW g \in Histories, Slid(h.recent, g.recent),
         NEW calls \in Nat
  PROVE  CostScore(h, calls) <= CostScore(g, calls + 1)
<1> DEFINE bh == Lesser(25 * calls, 500)
           bg == Lesser(25 * (calls + 1), 500)
           m  == Len(h.recent)
           n  == Len(g.recent)
           wh == CountOf(h.recent, TRUE)
           wg == CountOf(g.recent, TRUE)
           oh == Greater(1, wh)
           og == Greater(1, wg)
           rh == Rounded((m - oh) * 500, oh)
           rg == Rounded((n - og) * 500, og)
<1>1. h.recent \in Seq(Items) /\ g.recent \in Seq(Items)
  BY DEF Histories
<1>2. m \in Nat /\ n \in Nat /\ m <= n /\ n >= 1
  BY <1>1, LenProperties DEF Slid
<1>3. wh \in Nat /\ wg \in Nat /\ wg <= wh
  BY <1>1, SlidCounts, CountIsNat
<1>4. /\ CostScore(h, calls) =
           IF m = 0 THEN bh ELSE Lesser(bh + Greater(0, Lesser(rh, 1500)), 2000)
      /\ CostScore(g, calls + 1) =
           IF n = 0 THEN bg ELSE Lesser(bg + Greater(0, Lesser(rg, 1500)), 2000)
  BY DEF CostScore
<1>5. bh \in Nat /\ bg \in Nat /\ bh <= bg /\ bh <= 500
  BY DEF Lesser
<1> HIDE DEF m, n, wh, wg, bh, bg
<1>6. oh \in Nat \ {0} /\ og \in Nat \ {0} /\ og <= oh
  BY <1>3 DEF Greater
<1> HIDE DEF oh, og
<1>7. ((m - oh) * 500) * og <= ((n - og) * 500) * oh
  <2>1. m * og <= n * oh
    BY <1>2, <1>6, WasteGrows
  <2>2. ((m - oh) * 500) * og = 500 * (m * og) - 500 * (oh * og)
    BY <1>2, <1>6
  <2>3. ((n - og) * 500) * oh = 500 * (n * oh) - 500 * (oh * og)
    BY <1>2, <1>6
  <2>4. m * og \in Int /\ n * oh \in Int /\ oh * og \in Int
    BY <1>2, <1>6
  <2>5. QED BY <2>1, <2>2, <2>3, <2>4
<1>8. (m - oh) * 500 \in Int /\ (n - og) * 500 \in Int
  BY <1>2, <1>6
<1>9. rh <= rg
  BY <1>6, <1>7, <1>8, RoundedMonotone
<1>10. rh \in Int /\ rg \in Int
  BY <1>6, <1>8, RoundedFacts
<1> HIDE DEF rh, rg
<1>11. QED BY <1>2, <1>4, <1>5, <1>9, <1>10 DEF Lesser, Greater

\* The retries and the depth of the next candidate score no less.
LEMMA NextCandidate ==
  ASSUME NEW n \in Nat
  PROVE  /\ DepthScore(n) \in Nat /\ DepthScore(n) <= DepthScore(n + 1)
         /\ RetryScore(n) \in Nat /\ RetryScore(n) <= RetryScore(n + 1)
BY DEF DepthScore, RetryScore, Lesser

\* The next candidate after a failed call of the tool, as slow as the one that failed.
Follows(c, d) ==
  /\ d.tool = c.tool /\ d.latency = c.latency
  /\ d.depth = c.depth + 1
  /\ d.retry_count = c.retry_count + 1
  /\ d.cumulative_calls = c.cumulative_calls + 1

\* Its entropy is no lower than that of the call that failed.
LEMMA EntropyGrows ==
  ASSUME NEW h \in Histories, \A i \in 1..Len(h.recent) : h.recent[i].tool = Tool,
         NEW c \in Candidates, NEW d \in Candidates, c.tool = Tool, Follows(c, d)
  PROVE  Entropy(h, c) <= Entropy(Recorded(h, Tool, FALSE), d)
<1> DEFINE g == Recorded(h, Tool, FALSE)
<1>1. /\ g \in Histories /\ Len(g.recent) = Lesser(10, Len(h.recent) + 1)
      /\ \A i \in 1..Len(g.recent) : g.recent[i].tool = Tool
  BY RecordedFacts
<1>2. Slid(h.recent, g.recent) /\ h.ewma <= g.ewma
  BY FailureRecorded
<1> HIDE DEF g
<1>3. Len(h.recent) <= Len(g.recent)
  BY <1>1, LenProperties DEF Histories, Lesser
<1>4. /\ c.depth \in Nat /\ c.retry_count \in Nat /\ c.cumulative_calls \in Nat
      /\ d.depth = c.depth + 1 /\ d.retry_count = c.retry_count + 1
      /\ d.cumulative_calls = c.cumulative_calls + 1
      /\ c.tool = Tool /\ d.tool = Tool /\ d.latency = c.latency
  BY DEF Candidates, Follows
<1>5. DepthScore(c.depth) <= DepthScore(d.depth)
  BY <1>4, NextCandidate
<1>6. RetryScore(c.retry_count) <= RetryScore(d.retry_count)
  BY <1>4, NextCandidate
<1>7. FailureScore(h) <= FailureScore(g)
  BY <1>1, <1>2, FailuresGrow
<1>8. RepeatedTool(h, Tool) <= RepeatedTool(g, Tool)
  BY <1>1, <1>3, RepetitionGrows
<1>9. CostScore(h, c.cumulative_calls) <= CostScore(g, d.cumulative_calls)
  BY <1>1, <1>2, <1>4, CostsGrow
<1>10. LongMemoryScore(h) <= LongMemoryScore(g)
  BY <1>1, <1>2, MemoryGrows
<1>11. /\ DepthScore(c.depth) \in Nat /\ DepthScore(d.depth) \in Nat
       /\ RetryScore(c.retry_count) \in Nat /\ RetryScore(d.retry_count) \in Nat
       /\ FailureScore(h) \in Nat /\ FailureScore(g) \in Nat
       /\ RepeatedTool(h, c.tool) \in Nat /\ RepeatedTool(g, d.tool) \in Nat
       /\ Lesser(c.latency, 2000) \in Nat
       /\ CostScore(h, c.cumulative_calls) \in Nat /\ CostScore(g, d.cumulative_calls) \in Nat
       /\ LongMemoryScore(h) \in Nat /\ LongMemoryScore(g) \in Nat
  BY <1>1, ScoresAreNat, SMTT(30)
<1>12. Entropy(h, c) <= Entropy(g, d)
  <2>1. Entropy(h, c) =
          DepthScore(c.depth) + RetryScore(c.retry_count) + FailureScore(h)
            + RepeatedTool(h, Tool) + Lesser(c.latency, 2000)
            + CostScore(h, c.cumulative_calls) + LongMemoryScore(h)
    BY ONLY <1>4 DEF Entropy
  <2>2. Entropy(g, d) =
          DepthScore(d.depth) + RetryScore(d.retry_count) + FailureScore(g)
            + RepeatedTool(g, Tool) + Lesser(c.latency, 2000)
            + CostScore(g, d.cumulative_calls) + LongMemoryScore(g)
    BY ONLY <1>4 DEF Entropy
  <2>3. RepeatedTool(h, Tool) \in Nat /\ RepeatedTool(g, Tool) \in Nat
    BY ONLY <1>4, <1>11
  <2> HIDE DEF g
  <2>4. QED BY ONLY <1>5, <1>6, <1>7, <1>8, <1>9, <1>10, <1>11, <2>1, <2>2, <2>3
<1>13. QED BY <1>12 DEF g

-----------------------------------------------------------------------------
(* Trust and decision after one more failure.                              *)

\* The success rate trust starts from, as a fraction.
RateNum(h) ==
  LET n == Len(h.recent)  won == CountOf(h.recent, TRUE)
  IN  IF n = 0 THEN 13 ELSE IF 10 * won >= 3 * n THEN won ELSE 3
RateDen(h) ==
  LET n == Len(h.recent)  won == CountOf(h.recent, TRUE)
  IN  IF n = 0 THEN 20 ELSE IF 10 * won >= 3 * n THEN n ELSE 10

\* Trust by that fraction.
LEMMA TrustByRate ==
  ASSUME NEW h \in Histories, NEW x
  PROVE  Trust(h, x) =
           Greater(0, Lesser(1000,
             Rounded(12 * (1000 * RateNum(h) + 200 * RateDen(h))
                       - Lesser(x, 8400) * RateDen(h), 12 * RateDen(h))))
<1> DEFINE n == Len(h.recent)
           won == CountOf(h.recent, TRUE)
           num == CASE n = 0 -> 13 [] n > 0 /\ 10 * won >= 3 * n -> won [] OTHER -> 3
           den == CASE n = 0 -> 20 [] n > 0 /\ 10 * won >= 3 * n -> n   [] OTHER -> 10
<1>1. n \in Nat
  BY LenProperties DEF Histories
<1>2. Trust(h, x) =
        Greater(0, Lesser(1000,
          Rounded(12 * (1000 * num + 200 * den) - Lesser(x, 8400) * den, 12 * den)))
  BY DEF Trust
<1>3. /\ RateNum(h) = IF n = 0 THEN 13 ELSE IF 10 * won >= 3 * n THEN won ELSE 3
      /\ RateDen(h) = IF n = 0 THEN 20 ELSE IF 10 * won >= 3 * n THEN n ELSE 10
  BY DEF RateNum, RateDen
<1> HIDE DEF n, won
<1>4. num = RateNum(h) /\ den = RateDen(h)
  BY <1>1, <1>3
<1> HIDE DEF num, den
<1>5. QED BY <1>2, <1>4

\* The rate is a fraction, and a failure does not raise it.
LEMMA RateFalls ==
  ASSUME NEW h \in Histories, NEW g \in Histories, Slid(h.recent, g.recent)
  PROVE  /\ RateNum(h) \in Nat /\ RateDen(h) \in Nat \ {0}
         /\ RateNum(g) \in Nat /\ RateDen(g) \in Nat \ {0}
         /\ RateNum(g) * RateDen(h) <= RateNum(h) * RateDen(g)
<1> DEFINE m == Len(h.recent)
           n == Len(g.recent)
           v == CountOf(h.recent, TRUE)
           w == CountOf(g.recent, TRUE)
<1>1. h.recent \in Seq(Items) /\ g.recent \in Seq(Items)
  BY DEF Histories
<1>2. m \in Nat /\ n \in Nat /\ m <= n /\ n >= 1 /\ n <= m + 1
  BY <1>1, LenProperties DEF Slid
<1>3. v \in Nat /\ w \in Nat /\ w <= v
  BY <1>1, SlidCounts, CountIsNat
<1>4. m = 0 => w = 0
  <2>1. SUFFICES ASSUME m = 0 PROVE w = 0
    OBVIOUS
  <2>2. n = 1 /\ ~g.recent[1].success
    BY <1>2, <2>1 DEF Slid
  <2>3. {i \in DOMAIN g.recent : g.recent[i].success = TRUE} = {}
    BY <1>1, <2>2
  <2>4. QED BY <2>3, FS_EmptySet DEF CountOf
<1>5. /\ RateNum(h) = IF m = 0 THEN 13 ELSE IF 10 * v >= 3 * m THEN v ELSE 3
      /\ RateDen(h) = IF m = 0 THEN 20 ELSE IF 10 * v >= 3 * m THEN m ELSE 10
      /\ RateNum(g) = IF n = 0 THEN 13 ELSE IF 10 * w >= 3 * n THEN w ELSE 3
      /\ RateDen(g) = IF n = 0 THEN 20 ELSE IF 10 * w >= 3 * n THEN n ELSE 10
  BY DEF RateNum, RateDen
<1> HIDE DEF m, n, v, w
<1>6. /\ RateNum(h) \in Nat /\ RateDen(h) \in Nat \ {0}
      /\ RateNum(g) \in Nat /\ RateDen(g) \in Nat \ {0}
  BY <1>2, <1>3, <1>5
<1>7. m * w <= n * v
  BY <1>2, <1>3, WasteGrows
<1>8. RateNum(g) * RateDen(h) <= RateNum(h) * RateDen(g)
  <2>1. CASE m = 0
    BY <1>2, <1>4, <1>5, <2>1
  <2>2. CASE m > 0 /\ 10 * v >= 3 * m /\ 10 * w >= 3 * n
    BY <1>2, <1>3, <1>5, <1>7, <2>2
  <2>3. CASE m > 0 /\ 10 * v >= 3 * m /\ ~(10 * w >= 3 * n)
    BY <1>2, <1>3, <1>5, <2>3
  <2>4. CASE m > 0 /\ ~(10 * v >= 3 * m)
    BY <1>2, <1>3, <1>5, <2>4
  <2>5. QED BY <1>2, <2>1, <2>2, <2>3, <2>4
<1>9. QED BY <1>6, <1>8

\* The fraction less the penalty, over a common denominator.
LEMMA PenaltyGrows ==
  ASSUME NEW a \in Nat, NEW d \in Nat \ {0}, NEW b \in Nat, NEW e \in Nat \ {0},
         NEW p \in Int, NEW q \in Int, b * d <= a * e, p <= q
  PROVE  /\ 12 * (1000 * a + 200 * d) - p * d \in Int
         /\ 12 * (1000 * b + 200 * e) - q * e \in Int
         /\ (12 * (1000 * b + 200 * e) - q * e) * (12 * d)
              <= (12 * (1000 * a + 200 * d) - p * d) * (12 * e)
<1> DEFINE x == a * e
           y == b * d
           z == d * e
           r == p * z
           s == q * z
<1>1. x \in Int /\ y \in Int /\ z \in Nat /\ r \in Int /\ s \in Int /\ r <= s /\ y <= x
  OBVIOUS
<1>2. (12 * (1000 * b + 200 * e) - q * e) * (12 * d) = 144000 * y + 28800 * z - 12 * s
  OBVIOUS
<1>3. (12 * (1000 * a + 200 * d) - p * d) * (12 * e) = 144000 * x + 28800 * z - 12 * r
  OBVIOUS
<1>4. /\ 12 * (1000 * a + 200 * d) - p * d \in Int
      /\ 12 * (1000 * b + 200 * e) - q * e \in Int
  OBVIOUS
<1> HIDE DEF x, y, z, r, s
<1>5. 144000 * y + 28800 * z - 12 * s <= 144000 * x + 28800 * z - 12 * r
  BY <1>1
<1>6. QED BY <1>2, <1>3, <1>4, <1>5

\* After a failure, and at no lower an entropy, trust is no higher.
LEMMA TrustShrinks ==
  ASSUME NEW h \in Histories, NEW g \in Histories, Slid(h.recent, g.recent),
         NEW x \in Int, NEW y \in Int, x <= y
  PROVE  /\ Trust(h, x) \in Int /\ Trust(g, y) \in Int
         /\ Trust(g, y) <= Trust(h, x)
<1> DEFINE a == RateNum(h)
           d == RateDen(h)
           b == RateNum(g)
           e == RateDen(g)
           p == Lesser(x, 8400)
           q == Lesser(y, 8400)
           A == 12 * (1000 * a + 200 * d) - p * d
           B == 12 * (1000 * b + 200 * e) - q * e
           R == Rounded(A, 12 * d)
           S == Rounded(B, 12 * e)
<1>1. a \in Nat /\ d \in Nat \ {0} /\ b \in Nat /\ e \in Nat \ {0} /\ b * d <= a * e
  BY RateFalls
<1>2. p \in Int /\ q \in Int /\ p <= q
  BY DEF Lesser
<1>3. Trust(h, x) = Greater(0, Lesser(1000, R)) /\ Trust(g, y) = Greater(0, Lesser(1000, S))
  BY TrustByRate
<1> HIDE DEF a, d, b, e, p, q
<1>4. A \in Int /\ B \in Int /\ B * (12 * d) <= A * (12 * e)
  BY ONLY <1>1, <1>2, PenaltyGrows
<1>5. 12 * d \in Nat \ {0} /\ 12 * e \in Nat \ {0}
  BY <1>1
<1> HIDE DEF A, B
<1>6. S <= R /\ R \in Int /\ S \in Int
  BY ONLY <1>4, <1>5, RoundedMonotone, RoundedFacts
<1> HIDE DEF R, S
<1>7. QED BY <1>3, <1>6 DEF Lesser, Greater

\* A higher entropy and a lower trust are judged no more leniently.
LEMMA PolicyMonotone ==
  ASSUME NEW x \in Int, NEW y \in Int, x <= y, NEW t \in Int, NEW u \in Int, u <= t
  PROVE  Strictness(Policy(x, t)) <= Strictness(Policy(y, u))
BY PolicyAssumption DEF Policy, Strictness

\* The decision on the next candidate is no more lenient than the one on the call
\* that failed.
LEMMA DecisionHolds ==
  ASSUME NEW h \in Histories, \A i \in 1..Len(h.recent) : h.recent[i].tool = Tool,
         NEW c \in Candidates, NEW d \in Candidates, c.tool = Tool, Follows(c, d)
  PROVE  Strictness(Evaluate(h, c)) <= Strictness(Evaluate(Recorded(h, Tool, FALSE), d))
<1> DEFINE g == Recorded(h, Tool, FALSE)
           x == Entropy(h, c)
           y == Entropy(g, d)
           t == Trust(h, x)
           u == Trust(g, y)
<1>1. g \in Histories /\ Slid(h.recent, g.recent)
  BY RecordedFacts, FailureRecorded
<1>2. x <= y
  BY EntropyGrows
<1> HIDE DEF g
<1>3. x \in Int /\ y \in Int
  BY <1>1, EntropyFloor
<1> HIDE DEF x, y
<1>4. t \in Int /\ u \in Int /\ u <= t
  BY <1>1, <1>2, <1>3, TrustShrinks
<1> HIDE DEF t, u
<1>5. Strictness(Policy(x, t)) <= Strictness(Policy(y, u))
  BY <1>2, <1>3, <1>4, PolicyMonotone
<1>6. Evaluate(h, c) = Policy(x, t) /\ Evaluate(g, d) = Policy(y, u)
  BY DEF Evaluate, x, y, t, u
<1>7. QED BY <1>5, <1>6 DEF g

-----------------------------------------------------------------------------
(* What the decision of the last call was made of.                         *)

\* The last item recorded is the outcome.
LEMMA RecordedLast ==
  ASSUME NEW h \in Histories, NEW tool \in {Tool, OtherTool}, NEW success \in BOOLEAN,
         NEW g, g = Recorded(h, tool, success)
  PROVE  g.recent[Len(g.recent)].success = success
<1> DEFINE w == Append(h.recent, Item(tool, success))
           b == Lesser(10, Len(w))
<1>1. w \in Seq(Items) /\ Len(w) \in Nat /\ Len(w) >= 1 /\ w[Len(w)] = Item(tool, success)
  BY AppendProperties, LenProperties DEF Histories, Items, Item
<1>2. g.recent = LastOf(w, 10)
  <2>1. Recorded(h, tool, success) = [recent |-> LastOf(w, 10), ewma |-> Smoothed(h.ewma, success)]
    BY DEF Recorded
  <2> HIDE DEF w
  <2>2. QED BY <2>1
<1> HIDE DEF w
<1>3. /\ Len(LastOf(w, 10)) = b
      /\ \A i \in 1..b : LastOf(w, 10)[i] = w[Len(w) - b + i]
  <2> DEFINE k == 10
  <2>1. w \in Seq(Items) /\ k \in Nat \ {0} /\ b = Lesser(k, Len(w))
    BY <1>1
  <2> HIDE DEF k, b
  <2>2. /\ Len(LastOf(w, k)) = b
        /\ \A i \in 1..b : LastOf(w, k)[i] = w[Len(w) - b + i]
    BY ONLY <2>1, LastOfPlaces
  <2>3. QED BY <2>2 DEF k
<1>4. b \in 1..b /\ Len(w) - b + b = Len(w)
  BY <1>1 DEF Lesser
<1> HIDE DEF b
<1>5. g.recent[Len(g.recent)] = w[Len(w) - b + b]
  BY <1>2, <1>3, <1>4
<1>6. g.recent[Len(g.recent)] = Item(tool, success)
  BY <1>1, <1>4, <1>5
<1>7. Item(tool, success).success = success
  BY DEF Item
<1>8. QED BY <1>6, <1>7

\* The call h was recorded before was decided upon from h, and the counters have
\* moved on by one since.
JudgedFrom(h, success) ==
  /\ \A i \in 1..Len(h.recent) : h.recent[i].tool = Tool
  /\ history = Recorded(h, Tool, success)
  /\ decision = Evaluate(h, action)
  /\ action.tool = Tool
  /\ step = action.depth + 1
  /\ steps_executed = action.cumulative_calls + 1
  /\ ~success => retry_count = action.retry_count + 1

Judged ==
  /\ pc = "execute" =>
       /\ decision = Evaluate(history, action)
       /\ action.retry_count = retry_count
       /\ action.cumulative_calls = steps_executed
  /\ pc = "decide" /\ step > 0 =>
       \E h \in Histories, success \in BOOLEAN : JudgedFrom(h, success)

\* The first call has no call before it.
LEMMA InitJudged == Init => Judged
BY DEF Init, Judged

\* A decision is made from the history and the counters of its moment, and the
\* outcome is recorded over that history.
LEMMA JudgedInductive == IInv /\ Judged /\ [Next]_loopVars => Judged'
<1> SUFFICES ASSUME IInv, Judged, [Next]_loopVars PROVE Judged'
  OBVIOUS
<1>1. ASSUME NEW tool \in {Tool, OtherTool}, NEW latency \in Latency,
             Decide(tool, latency)
      PROVE  Judged'
  <2>1. Assessed(tool, latency) /\ pc' \in {"execute", "stopped"}
    BY <1>1 DEF Decide, Refuse, DegradeExhausted, Degrade, Allow, Stop
  <2>2. /\ decision' = Evaluate(history', action')
        /\ action'.retry_count = retry_count' /\ action'.cumulative_calls = steps_executed'
    BY <2>1 DEF Assessed, Candidate
  <2>3. QED BY <2>1, <2>2 DEF Judged
<1>2. ASSUME NEW success \in BOOLEAN, Execute(success) PROVE Judged'
  <2>1. /\ pc = "execute" /\ pc' = "decide" /\ action.tool = Tool
        /\ history' = Recorded(history, Tool, success)
        /\ steps_executed' = steps_executed + 1
        /\ retry_count' = IF success THEN 0 ELSE retry_count + 1
        /\ step' = step /\ action' = action /\ decision' = decision
    BY <1>2 DEF Execute
  <2>2. /\ history \in Histories /\ \A i \in 1..Len(history.recent) : history.recent[i].tool = Tool
        /\ steps_executed \in Nat /\ step \in Nat /\ steps_executed = step - 1
        /\ action.depth = steps_executed
    BY <2>1, LoopAssumption DEF IInv, Typed, Placed
  <2>3. /\ decision = Evaluate(history, action)
        /\ action.retry_count = retry_count /\ action.cumulative_calls = steps_executed
    BY <2>1 DEF Judged
  <2>4. PICK g \in Histories : g = history
    BY <2>2
  <2>5. JudgedFrom(g, success)'
    BY <2>1, <2>2, <2>3, <2>4 DEF JudgedFrom
  <2>6. QED BY <2>1, <2>5 DEF Judged
<1>3. CASE UnknownTool
  BY <1>3 DEF UnknownTool, Stop, Judged
<1>4. CASE Exhausted
  BY <1>4 DEF Exhausted, Stop, Judged
<1>5. CASE UNCHANGED loopVars
  BY <1>5 DEF loopVars, Judged, JudgedFrom
<1>6. QED BY <1>1, <1>2, <1>3, <1>4, <1>5 DEF Next

\* The invariant together with the last call's decision.
LEMMA JudgedInvariance == Spec => [](IInv /\ Judged)
<1>1. Init => IInv /\ Judged
  BY InitIInv, InitJudged
<1>2. (IInv /\ Judged) /\ [Next]_loopVars => (IInv /\ Judged)'
  BY IInvInductive, JudgedInductive
<1>3. QED BY <1>1, <1>2, PTL DEF Spec

\* For every policy: after a failed call, and before a planner no quicker to please,
\* RNOS decides no more leniently than it did on the call that failed.
THEOREM FailureIsNeverRewarded == Spec => FailureNeverLoosens
<1> DEFINE Again == pc = "decide" /\ step' = step + 1 /\ step > 0
                      /\ ~history.recent[Len(history.recent)].success
                      /\ action'.latency = action.latency /\ action'.tool = action.tool
           Step == Again => Strictness(decision') >= Strictness(decision)
<1>1. ASSUME IInv, Judged, Next, Again PROVE Strictness(decision') >= Strictness(decision)
  <2>1. /\ step \in Nat /\ step' = step + 1 /\ step > 0 /\ pc = "decide"
        /\ steps_executed = step /\ action \in Candidates
    BY <1>1, LoopAssumption DEF IInv, Typed, Placed
  <2>2. PICK tool \in {Tool, OtherTool}, latency \in Latency : Assessed(tool, latency)
    <3>1. ~(\E success \in BOOLEAN : Execute(success)) /\ ~UnknownTool
      BY <2>1 DEF Execute, UnknownTool
    <3>2. ~Exhausted
      BY <2>1 DEF Exhausted
    <3>3. PICK tool \in {Tool, OtherTool}, latency \in Latency : Decide(tool, latency)
      BY <1>1, <3>1, <3>2 DEF Next
    <3>4. QED BY <3>3 DEF Decide, Refuse, DegradeExhausted, Degrade, Allow
  <2>3. PICK h \in Histories, success \in BOOLEAN : JudgedFrom(h, success)
    BY <1>1, <2>1 DEF Judged
  <2>4. success = FALSE
    <3>1. history = Recorded(h, Tool, success)
      BY <2>3 DEF JudgedFrom
    <3>2. history.recent[Len(history.recent)].success = success
      BY <3>1, RecordedLast
    <3>3. QED BY <1>1, <3>2
  <2>5. /\ decision = Evaluate(h, action) /\ action.tool = Tool
        /\ history = Recorded(h, Tool, FALSE)
        /\ \A i \in 1..Len(h.recent) : h.recent[i].tool = Tool
        /\ step = action.depth + 1 /\ steps_executed = action.cumulative_calls + 1
        /\ retry_count = action.retry_count + 1
    BY <2>3, <2>4 DEF JudgedFrom
  <2>6. action' \in Candidates /\ decision' = Evaluate(history, action')
    BY <1>1, <2>2, AssessedFacts
  <2>7. Follows(action, action')
    <3>1. /\ action'.depth = step /\ action'.retry_count = retry_count
          /\ action'.cumulative_calls = steps_executed
      BY <2>2 DEF Assessed, Candidate
    <3>2. QED BY <1>1, <2>5, <3>1 DEF Follows
  <2>8. Strictness(Evaluate(h, action)) <= Strictness(Evaluate(Recorded(h, Tool, FALSE), action'))
    BY <2>1, <2>5, <2>6, <2>7, DecisionHolds
  <2>9. Strictness(decision) <= Strictness(decision')
    BY <2>5, <2>6, <2>8
  <2>10. Strictness(decision) \in Int /\ Strictness(decision') \in Int
    <3>1. decision \in Decision /\ decision' \in Decision
      BY <2>5, <2>6, DecisionType
    <3>2. QED BY <3>1 DEF Decision, Strictness
  <2>11. QED BY <2>9, <2>10
<1>2. IInv /\ Judged /\ [Next]_loopVars => [Step]_loopVars
  BY <1>1
<1>3. QED BY <1>2, JudgedInvariance, PTL DEF Spec, FailureNeverLoosens
=============================================================================
