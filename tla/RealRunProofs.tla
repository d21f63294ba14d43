---------------------------- MODULE RealRunProofs ----------------------------
(***************************************************************************)
(* For any set of plans, any sandbox and any number of steps: the editing  *)
(* loop keeps its types, stops the second failing step in a row, lets no   *)
(* dangerous patch through, and is rolled back however it ends.  For any   *)
(* files, patches and targets: an unsafe patch writes nothing, a patch     *)
(* writes no files but those it names, and one made for the file as it is  *)
(* does to it exactly what it means, however many hunks it has.            *)
(***************************************************************************)
EXTENDS RealRun, Patcher, TLAPS, FiniteSetTheorems, SequenceTheorems,
        WellFoundedInduction

\* round returns an integer, and none below the quotient.
LEMMA RoundedFacts ==
  ASSUME NEW n \in Int, NEW d \in Nat \ {0}
  PROVE  Rounded(n, d) \in Int /\ Rounded(n, d) >= n \div d
<1>1. n \div d \in Int /\ n % d \in Int
  OBVIOUS
<1>2. QED BY <1>1 DEF Rounded

\* A quotient grows with its numerator.
LEMMA QuotientGrows ==
  ASSUME NEW m \in Nat, NEW n \in Nat, m >= n
  PROVE  m \div 100 \in Int /\ n \div 100 \in Int /\ m \div 100 >= n \div 100
OBVIOUS

\* How often a plan was executed is a natural number.
LEMMA RepeatsAreNat ==
  ASSUME NEW S, NEW texts \in Seq(S), NEW plan
  PROVE  Cardinality({i \in DOMAIN texts : texts[i] = plan}) \in Nat
<1> DEFINE repeats == {i \in DOMAIN texts : texts[i] = plan}
<1>1. IsFiniteSet(1..Len(texts))
  BY FS_Interval
<1>2. repeats \subseteq 1..Len(texts)
  OBVIOUS
<1>3. QED BY <1>1, <1>2, FS_Subset, FS_CardinalityType

\* What the last k elements of a sequence are.
LEMMA LastOfFacts ==
  ASSUME NEW S, NEW s \in Seq(S), NEW k \in Nat \ {0}
  PROVE  LastOf(s, k) \in Seq(S) /\ Len(LastOf(s, k)) = Lesser(k, Len(s))
<1> DEFINE first == Greater(1, Len(s) - k + 1)
<1>1. first \in 1..(Len(s) + 1)
  BY LenProperties DEF Greater
<1>2. /\ LastOf(s, k) \in Seq(S)
      /\ Len(LastOf(s, k)) = IF first <= Len(s) THEN Len(s) - first + 1 ELSE 0
  BY <1>1, SubSeqProperties DEF LastOf
<1>3. Len(s) \in Nat
  BY LenProperties
<1>4. ASSUME NEW n \in Nat
      PROVE  LET f == Greater(1, n - k + 1)
             IN  (IF f <= n THEN n - f + 1 ELSE 0) = Lesser(k, n)
  BY SMT DEF Lesser, Greater
<1>5. QED BY <1>2, <1>3, <1>4

\* The last three scores, after one more.
LEMMA ScoresSlide ==
  ASSUME NEW S, NEW scores \in Seq(S), NEW risk \in S
  PROVE  /\ LastOf(Append(scores, risk), 3) \in Seq(S)
         /\ Len(LastOf(Append(scores, risk), 3)) = Lesser(3, Len(scores) + 1)
<1> DEFINE longer == Append(scores, risk)
<1>1. longer \in Seq(S) /\ Len(longer) = Len(scores) + 1
  BY AppendProperties
<1> HIDE DEF longer
<1>2. LastOf(longer, 3) \in Seq(S) /\ Len(LastOf(longer, 3)) = Lesser(3, Len(longer))
  BY <1>1, LastOfFacts, SMTT(30)
<1>3. QED BY <1>1, <1>2 DEF longer
-----------------------------------------------------------------------------
\* A plan as the loop sees it.
PlanRecord == [ action : STRING, target : STRING, files : Nat, lines : Nat,
                destructive : BOOLEAN, failure_type : STRING ]

\* The state the gate's context is built from.
ContextTyped ==
  /\ plan_texts \in Seq(Plans)
  /\ retry_count \in Nat
  /\ validation_failures \in Nat
  /\ previous_failures \in Nat \cup {None}
  /\ previous_entropy \in Int \cup {None}

\* A tool risk is a score.
LEMMA ToolRiskType ==
  ASSUME NEW plan, NEW report, report.lines \in Nat
  PROVE  ToolRisk(plan, report) \in Score /\ ToolRisk(plan, report) \in Nat
<1> DEFINE changed == Lesser(50 * report.lines, 2500)
           spread  == If(MultiFile(report), 2000)
           large   == If(Large(report), 2500)
           removed == If(report.destructive, 3000)
<1>1. changed \in Nat
  BY DEF Lesser
<1>2. spread \in Nat /\ large \in Nat /\ removed \in Nat
  BY DEF If
<1>3. ToolRisk(plan, report) =
        IF plan.action \in Edits
        THEN Lesser(10000, 3000 + changed + spread + large + removed)
        ELSE IF plan.action = "read_file" THEN 1000 ELSE 2000
  BY DEF ToolRisk
<1> HIDE DEF changed, spread, large, removed
<1> DEFINE score == IF plan.action \in Edits
                    THEN Lesser(10000, 3000 + changed + spread + large + removed)
                    ELSE IF plan.action = "read_file" THEN 1000 ELSE 2000
<1>4. score \in Score /\ score \in Nat
  BY <1>1, <1>2 DEF Lesser, Score
<1>5. ToolRisk(plan, report) = score
  BY <1>3
<1> HIDE DEF score
<1>6. QED BY <1>4, <1>5

\* The drift never exceeds what the classifier calls drift.
LEMMA DriftIsSmall ==
  ASSUME NEW plan
  PROVE  Drift(plan) \in Nat /\ Drift(plan) <= 4500
<1> DEFINE moved == If(Last(plan_texts) # plan, TextDrift)
           stray == If(/\ plan.target # "" /\ Targets # << >>
                       /\ plan.target \notin ToSet(LastOf(Targets, 2)), 2500)
<1>1. moved \in 0..2000 /\ stray \in 0..2500
  BY RealRunAssumption DEF If
<1>2. Drift(plan) = IF plan_texts = << >> THEN 0 ELSE moved + stray
  BY DEF Drift
<1> HIDE DEF moved, stray
<1> DEFINE score == IF plan_texts = << >> THEN 0 ELSE moved + stray
<1>3. score \in Nat /\ score <= 4500
  <2>1. moved + stray \in Nat /\ moved + stray <= 4500
    BY ONLY <1>1
  <2>2. 0 \in Nat /\ 0 <= 4500
    OBVIOUS
  <2> DEFINE sum == moved + stray
  <2> HIDE DEF sum
  <2>3. QED BY <2>1, <2>2 DEF sum
<1> HIDE DEF score
<1>4. Drift(plan) = score
  BY <1>2 DEF score
<1>5. QED BY <1>3, <1>4

\* The scores of a context.
Scored(c) ==
  /\ c.entropy \in Nat
  /\ c.tool_risk \in Nat
  /\ c.drift_score \in Nat /\ c.drift_score <= 4500
  /\ c.retry_count \in Nat
  /\ c.validation_failures \in Nat
  /\ c.retry_limit = 2

\* What the loop says of a plan are scores, and the patch adds to the entropy.
LEMMA ContextFacts ==
  ASSUME ContextTyped, NEW plan \in PlanRecord
  PROVE  /\ Scored(Context(plan))
         /\ ContextEntropy(plan) >= Lesser(3000 * plan.lines, 180000)
                                      + Lesser(12 * BlastRadius(plan), 120000)
         /\ plan.destructive => Destructive(plan)
<1>1. /\ plan.lines \in Nat /\ plan.files \in Nat
      /\ plan.destructive => Destructive(plan)
  BY DEF PlanRecord, Destructive
<1>2. ToolRisk(plan, plan) \in Nat
  BY <1>1, ToolRiskType
<1>3. /\ ContextEntropy(plan) \in Nat
      /\ ContextEntropy(plan) >= Lesser(3000 * plan.lines, 180000)
                                   + Lesser(12 * BlastRadius(plan), 120000)
  <2> DEFINE repeated == Cardinality({i \in DOMAIN plan_texts : plan_texts[i] = plan})
  <2>1. repeated \in Nat
    BY RepeatsAreNat DEF ContextTyped
  <2> HIDE DEF repeated
  <2>2. BlastRadius(plan) \in Nat
    BY <1>1 DEF BlastRadius, Lesser
  <2>3. /\ Lesser(250000 * repeated, 750000) \in Nat
        /\ Lesser(35000 * plan.files, 140000) \in Nat
        /\ Lesser(3000 * plan.lines, 180000) \in Nat
        /\ Lesser(12 * BlastRadius(plan), 120000) \in Nat
    BY <1>1, <2>1, <2>2 DEF Lesser
  <2>4. ContextEntropy(plan)
          = Lesser(250000 * repeated, 750000) + Lesser(35000 * plan.files, 140000)
              + Lesser(3000 * plan.lines, 180000) + Lesser(12 * BlastRadius(plan), 120000)
    BY DEF ContextEntropy, repeated
  <2>5. QED BY <2>3, <2>4
<1>4. retry_count \in Nat /\ validation_failures \in Nat
  BY DEF ContextTyped
<1>5. Drift(plan) \in Nat /\ Drift(plan) <= 4500 /\ ToolRisk(plan, plan) \in Nat
  BY <1>2, DriftIsSmall
<1>6. Scored(Context(plan))
  BY <1>3, <1>4, <1>5 DEF Scored, Context, RetryLimit
<1>7. QED BY <1>1, <1>3, <1>6

\* The composed entropy is an integer, and the tool risk's share and what the context
\* brings in are a lower bound for it.
LEMMA ComposedFacts ==
  ASSUME NEW c, Scored(c)
  PROVE  /\ Composed(c) \in Int
         /\ Composed(c) >= Lesser(10000, (c.entropy + 55 * c.tool_risk) \div 100)
<1> DEFINE retries  == Lesser(900 * c.retry_count, 2700)
           failures == Lesser(1300 * c.validation_failures, 3900)
           stuck    == If(c.retry_count >= 2 /\ c.validation_failures >= 2, 1700)
           rising   == If(c.risk_escalation, 800)
           low      == c.entropy + 55 * c.tool_risk
           sum      == c.entropy + 55 * c.tool_risk + 35 * c.drift_score
                         + 100 * (retries + failures + stuck + rising)
<1>1. retries \in Nat /\ failures \in Nat
  BY DEF Scored, Lesser
<1>2. stuck \in Nat /\ rising \in Nat
  BY DEF If
<1>3. Composed(c) = Lesser(10000, Rounded(sum, 100))
  BY DEF Composed
<1>4. low \in Nat /\ sum \in Nat /\ sum >= low
  <2> HIDE DEF retries, failures, stuck, rising
  <2>1. QED BY SMT, <1>1, <1>2 DEF Scored
<1> HIDE DEF sum, low
<1>5. Rounded(sum, 100) \in Int /\ Rounded(sum, 100) >= sum \div 100
  BY <1>4, RoundedFacts
<1>6. sum \div 100 \in Int /\ low \div 100 \in Int /\ sum \div 100 >= low \div 100
  BY <1>4, QuotientGrows
<1>7. Lesser(10000, Rounded(sum, 100)) \in Int
      /\ Lesser(10000, Rounded(sum, 100)) >= Lesser(10000, low \div 100)
  BY <1>5, <1>6 DEF Lesser
<1>8. QED BY <1>3, <1>7 DEF low
-----------------------------------------------------------------------------
\* The gate answers with one of its four actions and a number.
LEMMA GateAnswers ==
  ASSUME NEW c, Scored(c)
  PROVE  Gate(c).action \in GateAction /\ Gate(c).entropy \in Int
<1>1. Composed(c) \in Int
  BY ComposedFacts
<1>2. RefuseEntropy \in Int
  BY PolicyAssumption
<1>3. \A trust : Policy(Composed(c), trust) \in GateAction
  BY DEF Policy, GateAction
<1>4. Gate(c).action \in GateAction
  BY <1>3 DEF Gate, Answer, GateAction
<1>5. Gate(c).entropy \in {Composed(c), Greater(Composed(c), 9000), Greater(Composed(c), RefuseEntropy)}
  BY DEF Gate, Answer
<1>6. Gate(c).entropy \in Int
  BY <1>1, <1>2, <1>5 DEF Greater
<1>7. QED BY <1>4, <1>6

\* After two failing steps in a row every plan is refused: a drift is never large enough
\* for the classifier to call the failure a drift, the one type that is not recovered.
LEMMA StuckIsRefused ==
  ASSUME NEW c, Scored(c), c.retry_count >= 2
  PROVE  Gate(c).action = "REFUSE"
<1>1. c.retry_count >= c.retry_limit /\ c.retry_count > 0
  BY DEF Scored
<1>2. ~(c.drift_score > 4500)
  BY SMT DEF Scored
<1>3. FailureType(c) \in Recoverable \cup {"fatal_risk"}
  BY <1>2 DEF FailureType, Recoverable
<1>4. Fatal(c) \/ InRecovery(c)
  BY <1>1, <1>3 DEF Fatal, InRecovery, FailureSignal
<1>5. GivenUp(c, Composed(c))
  BY <1>1 DEF GivenUp
<1>6. QED BY <1>4, <1>5 DEF Gate, Answer

\* The policy degrades from 4.9 on, or earlier.  The bridge's threshold is 4.5.
DegradesInTime == DegradeEntropy <= 4900

\* What the gate allows as it is, an edit that is neither large nor destructive.
LEMMA AllowedIsHarmless ==
  ASSUME ContextTyped, DegradesInTime, NEW plan \in PlanRecord,
         plan.action \in Edits, Gate(Context(plan)).action = "ALLOW"
  PROVE  ~Large(plan) /\ ~plan.destructive
<1> DEFINE c == Context(plan)
<1>1. Gate(c).action = "ALLOW"
  OBVIOUS
<1>2. /\ c.entropy = ContextEntropy(plan)
      /\ c.tool_risk = ToolRisk(plan, plan)
      /\ c.destructive_action = Destructive(plan)
  BY DEF Context
<1>3. Scored(c)
  BY ContextFacts
<1> HIDE DEF c
<1>9. /\ Composed(c) \in Int
      /\ Composed(c) >= Lesser(10000, (c.entropy + 55 * c.tool_risk) \div 100)
  BY <1>3, ComposedFacts
<1>4. ~Fatal(c) /\ Policy(Composed(c), Rounded(10000 - Composed(c), 10)) = "ALLOW"
  BY <1>1 DEF Gate, Answer
<1>5. ~plan.destructive
  BY <1>2, <1>4, ContextFacts DEF Fatal, FailureType
<1>6. Composed(c) < DegradeEntropy
  BY <1>9, <1>4, PolicyAssumption DEF Policy
<1>7. ASSUME Large(plan) PROVE FALSE
  <2>1. plan.lines \in Nat /\ plan.files \in Nat /\ plan.lines > 30
    BY <1>7 DEF Large, PlanRecord
  <2>2. Lesser(3000 * plan.lines, 180000) >= 93000
    BY <2>1 DEF Lesser
  <2>3. Lesser(12 * BlastRadius(plan), 120000) >= 12000
    BY <2>1 DEF Lesser, BlastRadius
  <2>4. ToolRisk(plan, plan) >= 7050
    <3> DEFINE changed == Lesser(50 * plan.lines, 2500)
               spread  == If(MultiFile(plan), 2000)
               large   == If(Large(plan), 2500)
               removed == If(plan.destructive, 3000)
    <3>1. changed >= 1550 /\ changed \in Nat
      BY <2>1 DEF Lesser
    <3>2. spread \in Nat /\ removed \in Nat
      BY DEF If
    <3>3. large = 2500
      BY <1>7 DEF If
    <3>4. ToolRisk(plan, plan) = Lesser(10000, 3000 + changed + spread + large + removed)
      BY DEF ToolRisk
    <3> HIDE DEF changed, spread, large, removed
    <3>5. QED BY <3>1, <3>2, <3>3, <3>4 DEF Lesser
  <2> DEFINE low == c.entropy + 55 * c.tool_risk
  <2>5. low \in Nat /\ low >= 490000
    <3>1. /\ ContextEntropy(plan) >= Lesser(3000 * plan.lines, 180000)
                                        + Lesser(12 * BlastRadius(plan), 120000)
      BY ContextFacts
    <3>2. ContextEntropy(plan) \in Nat /\ ToolRisk(plan, plan) \in Nat
      BY <1>2, <1>3 DEF Scored
    <3>3. /\ Lesser(3000 * plan.lines, 180000) \in Int
          /\ Lesser(12 * BlastRadius(plan), 120000) \in Int
      BY <2>1 DEF Lesser, BlastRadius
    <3>4. QED BY SMT, <1>2, <2>2, <2>3, <2>4, <3>1, <3>2, <3>3
  <2> HIDE DEF low
  <2>6. low \div 100 \in Int /\ low \div 100 >= 490000 \div 100
    BY <2>5, QuotientGrows
  <2>7. 490000 \div 100 = 4900
    BY SMT
  <2>8. Lesser(10000, low \div 100) >= 4900
    BY <2>6, <2>7 DEF Lesser
  <2>9. Composed(c) >= 4900
    BY SMT, <1>9, <2>6, <2>8 DEF low, Lesser
  <2>10. QED BY SMT, <1>9, <1>6, <2>9, PolicyAssumption DEF DegradesInTime
<1>8. QED BY <1>5, <1>7

\* An edit that is executed under the gate is neither large nor destructive.
LEMMA ExecutedIsHarmless ==
  ASSUME ContextTyped, DegradesInTime, NEW plan \in PlanRecord, mode = "rnos",
         RefusalOf(plan, Gate(Context(plan))) = "none",
         Executable(plan, Gate(Context(plan)).action).action \in Edits
  PROVE  LET executed == Executable(plan, Gate(Context(plan)).action)
         IN  ~Large(executed) /\ ~executed.destructive
<1> DEFINE answer == Gate(Context(plan))
<1>1. answer.action \in {"ALLOW", "DEGRADE", "RECOVER"}
  <2>1. answer.action \in GateAction
    BY ContextFacts, GateAnswers
  <2>2. answer.action # "REFUSE"
    BY DEF RefusalOf
  <2>3. QED BY <2>1, <2>2 DEF GateAction
<1>2. CASE answer.action = "ALLOW"
  BY <1>2, AllowedIsHarmless DEF Executable
<1>3. CASE answer.action = "DEGRADE"
  <2>1. Executable(plan, answer.action) = Constrained(plan)
    BY <1>3 DEF Executable
  <2>2. Constrained(plan).action \notin Edits
    BY DEF Constrained, Inspection, Edits
  <2>3. QED BY <2>1, <2>2
<1>4. CASE answer.action = "RECOVER"
  <2>1. Executable(plan, answer.action) = Recovered(plan)
    BY <1>4 DEF Executable
  <2>2. Recovered(plan).action \in Edits => Recovered(plan) = plan /\ ~Risky(plan)
    <3>1. \A path : Inspection(path).action \notin Edits
      BY DEF Inspection, Edits
    <3> DEFINE looks == \/ Risky(plan)
                        \/ OriginalTarget(plan) # "" /\ plan.target # OriginalTarget(plan)
    <3>2. Recovered(plan) = IF plan.action \notin Edits THEN plan
                            ELSE IF looks THEN Inspection(OriginalTarget(plan)) ELSE plan
      BY DEF Recovered
    <3>3. ~looks => ~Risky(plan)
      OBVIOUS
    <3> HIDE DEF looks
    <3>4. QED BY <3>1, <3>2, <3>3
  <2>3. ~Risky(plan) => ~Large(plan) /\ ~plan.destructive
    BY Zenon DEF Risky
  <2>4. Recovered(plan).action \in Edits
    BY <2>1
  <2>5. QED BY Zenon, <2>1, <2>2, <2>3, <2>4
<1>5. QED BY <1>1, <1>2, <1>3, <1>4
-----------------------------------------------------------------------------
\* The assumption about the plans, by the name used here.
LEMMA PlansAreRecords == Plans \subseteq PlanRecord
BY PlanAssumption DEF PlanRecord

\* The types of the state are those the context needs.
LEMMA TypedContext == ASSUME GateTypeOK PROVE ContextTyped
<1>1. Len(plan_texts) \in Nat
  BY LenProperties DEF GateTypeOK
<1>2. validation_failures \in Nat
  BY <1>1 DEF GateTypeOK
<1>3. QED BY <1>2 DEF GateTypeOK, ContextTyped

\* Recording a step keeps the types.
LEMMA UpdateKeepsTypes ==
  ASSUME GateTypeOK, Len(plan_texts) < MaxSteps,
         NEW plan \in Plans, NEW report, report.lines \in Nat,
         NEW failures \in 0..MaxFailures, NEW answer, answer.entropy \in Int,
         UpdateState(plan, report, failures, answer)
  PROVE  GateTypeOK'
<1> DEFINE n == Len(plan_texts)
<1>1. n \in Nat /\ MaxSteps \in Nat /\ MaxFailures \in Nat
  BY LenProperties, RealRunAssumption DEF GateTypeOK
<1>2. plan_texts' \in Seq(Plans) /\ Len(plan_texts') = n + 1
  BY AppendProperties DEF GateTypeOK, UpdateState
<1>3. /\ validation_failures \in 0..n /\ retry_count \in 0..validation_failures
      /\ n < MaxSteps
  BY DEF GateTypeOK
<1>4. /\ validation_failures' = validation_failures + (IF failures > 0 THEN 1 ELSE 0)
      /\ retry_count' = IF failures = 0 THEN 0 ELSE retry_count + 1
      /\ previous_failures' = validation_failures
      /\ previous_entropy' = answer.entropy
  BY DEF UpdateState, Retried, If
<1> HIDE DEF n
<1>5. /\ validation_failures' \in 0..(n + 1)
      /\ retry_count' \in 0..validation_failures'
      /\ previous_failures' \in (0..validation_failures') \cup {None}
      /\ n + 1 <= MaxSteps
  BY <1>1, <1>3, <1>4
<1>6. previous_entropy' \in Int \cup {None}
  BY <1>4
<1>7. prev_failures' \in (0..MaxFailures) \cup {None}
  BY DEF UpdateState
<1>8. retry_budget' \in Int
  <2>1. retry_budget \in Int
    BY DEF GateTypeOK
  <2>2. retry_budget' = BudgetAfter(failures, answer.failure_type)
    BY DEF UpdateState
  <2>3. BudgetAfter(failures, answer.failure_type)
          \in {RetryLimit, retry_budget, retry_budget + 1, retry_budget - 1, 0}
    BY DEF BudgetAfter
  <2>4. QED BY <2>1, <2>2, <2>3 DEF RetryLimit
<1>9. /\ risk_scores' \in Seq(Score)
      /\ Len(risk_scores') = Lesser(3, n + 1)
  <2>1. risk_scores \in Seq(Score) /\ Len(risk_scores) = Lesser(3, n)
    BY DEF GateTypeOK, n
  <2>2. ToolRisk(plan, report) \in Score
    BY ToolRiskType
  <2>3. risk_scores' = LastOf(Append(risk_scores, ToolRisk(plan, report)), 3)
    BY DEF UpdateState
  <2>4. /\ risk_scores' \in Seq(Score)
        /\ Len(risk_scores') = Lesser(3, Len(risk_scores) + 1)
    BY <2>1, <2>2, <2>3, ScoresSlide
  <2>5. Lesser(3, Lesser(3, n) + 1) = Lesser(3, n + 1)
    BY <1>1 DEF Lesser
  <2>6. QED BY <2>1, <2>4, <2>5
<1>10. QED BY <1>2, <1>5, <1>6, <1>7, <1>8, <1>9 DEF GateTypeOK
-----------------------------------------------------------------------------
\* The conjuncts that an executed step can disturb hold together with the types.
RealInv ==
  /\ RealTypeOK
  /\ EndsRolledBack
  /\ RunawayRetriesStopped
  /\ DegradesInTime => DangerousEditsStopped

\* The run starts within the invariant.
LEMMA InitEstablishes == ASSUME RealInit PROVE RealInv
<1>1. GateTypeOK
  <2>1. << >> \in Seq(Plans) /\ << >> \in Seq(Score) /\ Len(<< >>) = 0
    BY EmptySeq
  <2>2. MaxSteps \in Nat /\ Lesser(3, 0) = 0
    BY RealRunAssumption DEF Lesser
  <2>3. QED BY <2>1, <2>2 DEF RealInit, GateTypeOK, RetryLimit
<1>2. RealTypeOK
  BY <1>1 DEF RealInit, RealTypeOK
<1>3. QED BY <1>2 DEF RealInit, RealInv, EndsRolledBack, RunawayRetriesStopped, DangerousEditsStopped
-----------------------------------------------------------------------------
\* What is executed for a plan is a plan, or a look with an empty report.
LEMMA ExecutableType ==
  ASSUME NEW plan \in PlanRecord, NEW action
  PROVE  Executable(plan, action).lines \in Nat
<1>1. plan.lines \in Nat
  BY DEF PlanRecord
<1>2. \A path : Inspection(path).lines \in Nat
  BY DEF Inspection
<1>3. Constrained(plan).lines \in Nat
  BY <1>1, <1>2 DEF Constrained
<1>4. Recovered(plan).lines \in Nat
  BY <1>1, <1>2 DEF Recovered
<1>5. QED BY <1>1, <1>3, <1>4 DEF Executable

\* An executed step keeps the invariant.
LEMMA ExecutePreserves ==
  ASSUME RealInv, NEW plan \in Plans, Execute(plan)
  PROVE  RealInv'
<1> DEFINE answer     == Gate(Context(plan))
           executable == Executable(plan, answer.action)
<1>1. /\ plan \in PlanRecord /\ ContextTyped /\ RealTypeOK /\ GateTypeOK
      /\ Scored(Context(plan))
  BY PlansAreRecords, TypedContext, ContextFacts DEF RealInv, RealTypeOK
<1>2. /\ answer.action \in GateAction /\ answer.entropy \in Int
      /\ executable.lines \in Nat
  BY <1>1, GateAnswers, ExecutableType
<1>3. /\ Len(plan_texts) < MaxSteps
      /\ pc = "plan"
      /\ RefusalOf(plan, answer) = "none"
      /\ decision' = answer.action
      /\ pc' = pc /\ mode' = mode /\ raising' = raising /\ logged' = logged
      /\ \/ executable.action \in Edits /\ Applied(plan, executable, answer)
         \/ executable.action \in Edits /\ Rejected(plan, executable, answer)
         \/ executable.action \notin Edits /\ Looked(plan, answer)
  BY DEF Execute
<1> HIDE DEF answer, executable
<1>4. /\ \E report, failures :
           /\ report.lines \in Nat /\ failures \in 0..MaxFailures
           /\ UpdateState(plan, report, failures, answer)
      /\ failing' \in 0..MaxFailures
      /\ dirty' \in BOOLEAN /\ danger_applied' \in BOOLEAN
  <2>1. /\ failing \in 0..MaxFailures /\ dirty \in BOOLEAN /\ danger_applied \in BOOLEAN
        /\ NoReport.lines \in Nat /\ Report(1, 1).lines \in Nat
        /\ 1 \in 0..MaxFailures
    BY <1>1, RealRunAssumption DEF RealTypeOK, NoReport, Report
  <2>2. CASE Looked(plan, answer)
    BY <2>1, <2>2 DEF Looked, repoVars
  <2>3. CASE Rejected(plan, executable, answer)
    BY <2>1, <2>3 DEF Rejected
  <2>4. CASE Applied(plan, executable, answer)
    <3>1. PICK report \in {executable, Report(1, 1)} :
            /\ failing' \in 0..MaxFailures
            /\ dirty' = TRUE
            /\ danger_applied' = (danger_applied \/ Large(report) \/ report.destructive)
            /\ UpdateState(plan, report, failing', answer)
      BY <2>4 DEF Applied
    <3>2. report.lines \in Nat
      BY <1>2, <2>1, <3>1
    <3>3. QED BY <3>1, <3>2
  <2>5. QED BY <1>3, <2>2, <2>3, <2>4
<1>5. GateTypeOK'
  <2>1. PICK report, failures :
          /\ report.lines \in Nat /\ failures \in 0..MaxFailures
          /\ UpdateState(plan, report, failures, answer)
    BY <1>4
  <2>2. QED BY <1>1, <1>2, <1>3, <2>1, UpdateKeepsTypes
<1>6. RealTypeOK'
  BY <1>1, <1>2, <1>3, <1>4, <1>5 DEF RealTypeOK
<1>7. EndsRolledBack'
  BY <1>3 DEF EndsRolledBack
<1>8. RunawayRetriesStopped'
  <2>1. SUFFICES ASSUME mode = "rnos" PROVE retry_count' <= 2
    BY <1>3 DEF RunawayRetriesStopped
  <2>2. answer.action # "REFUSE"
    BY <1>3, <2>1 DEF RefusalOf
  <2>3. ~(retry_count >= 2)
    BY <1>1, <2>2, StuckIsRefused DEF answer, Context
  <2>4. retry_count' \in {0, retry_count + 1}
    BY <1>4 DEF UpdateState, Retried
  <2>5. retry_count \in Nat
    BY <1>1 DEF ContextTyped
  <2>6. QED BY <2>3, <2>4, <2>5
<1>9. DegradesInTime => DangerousEditsStopped'
  <2>1. SUFFICES ASSUME DegradesInTime, mode = "rnos", ~danger_applied
                 PROVE  ~danger_applied'
    BY <1>3 DEF RealInv, DangerousEditsStopped, DegradesInTime
  <2>2. CASE Looked(plan, answer)
    BY <2>1, <2>2 DEF Looked, repoVars
  <2>3. CASE Rejected(plan, executable, answer)
    BY <2>1, <2>3 DEF Rejected
  <2>4. CASE executable.action \in Edits /\ Applied(plan, executable, answer)
    <3>1. ~Large(executable) /\ ~executable.destructive
      BY <1>1, <1>3, <2>1, <2>4, ExecutedIsHarmless DEF executable, answer
    <3>2. ~Large(Report(1, 1)) /\ ~Report(1, 1).destructive
      BY DEF Large, Report
    <3>3. PICK report \in {executable, Report(1, 1)} :
            danger_applied' = (danger_applied \/ Large(report) \/ report.destructive)
      BY <2>4 DEF Applied
    <3>4. CASE report = executable
      BY Zenon, <2>1, <3>1, <3>3, <3>4
    <3>5. CASE report = Report(1, 1)
      BY Zenon, <2>1, <3>2, <3>3, <3>5
    <3>6. QED BY <3>3, <3>4, <3>5
  <2>5. QED BY <1>3, <2>2, <2>3, <2>4
<1>10. QED BY <1>6, <1>7, <1>8, <1>9 DEF RealInv, DegradesInTime

\* The rest of the steps leave the gate's state and the applied patches alone.
LEMMA OtherStepsPreserve ==
  ASSUME RealInv,
         \/ \E plan \in Plans : ReadRaises(plan) \/ Refuse(plan)
         \/ PlannerFails \/ Finish \/ Finally
  PROVE  RealInv'
<1>1. RealTypeOK /\ GateTypeOK /\ EndsRolledBack /\ RunawayRetriesStopped
  BY DEF RealInv, RealTypeOK
<1>2. UNCHANGED <<mode, plan_texts, gateVars, failing, danger_applied>>
  BY DEF ReadRaises, Refuse, PlannerFails, Finish, Finally, repoVars, gateVars
<1>3. GateTypeOK'
  BY <1>1, <1>2 DEF GateTypeOK, gateVars
<1>4. /\ pc' \in {"plan", "finally", "returned", "raised"}
      /\ decision' \in GateAction \cup {"none"}
      /\ raising' \in BOOLEAN /\ logged' \in BOOLEAN /\ dirty' \in BOOLEAN
      /\ pc' \in {"returned", "raised"} => ~dirty'
  <2>1. /\ decision \in GateAction \cup {"none"} /\ "REFUSE" \in GateAction
        /\ raising \in BOOLEAN /\ logged \in BOOLEAN /\ dirty \in BOOLEAN
    BY <1>1 DEF RealTypeOK, GateAction
  <2>2. ASSUME NEW plan \in Plans, ReadRaises(plan)
        PROVE  /\ pc' = "finally" /\ raising' = TRUE /\ logged' = logged
               /\ decision' \in GateAction /\ dirty' \in BOOLEAN
    <3>1. Gate(Context(plan)).action \in GateAction
      BY <1>1, PlansAreRecords, TypedContext, ContextFacts, GateAnswers
    <3>2. QED BY <2>1, <2>2, <3>1 DEF ReadRaises
  <2>3. ASSUME NEW plan \in Plans, Refuse(plan)
        PROVE  /\ pc' = "finally" /\ raising' = raising /\ logged' = logged
               /\ decision' = "REFUSE" /\ dirty' = dirty
    BY <2>3 DEF Refuse, repoVars
  <2>4. CASE PlannerFails
    BY <2>1, <2>4 DEF PlannerFails, repoVars
  <2>5. CASE Finish
    BY <2>1, <2>5 DEF Finish, repoVars
  <2>6. CASE Finally
    BY <2>1, <2>6 DEF Finally, Rollback
  <2>7. QED BY <2>1, <2>2, <2>3, <2>4, <2>5, <2>6
<1>5. RealTypeOK'
  BY <1>1, <1>2, <1>3, <1>4 DEF RealTypeOK
<1>6. EndsRolledBack'
  BY <1>4 DEF EndsRolledBack
<1>7. RunawayRetriesStopped'
  BY <1>1, <1>2 DEF RunawayRetriesStopped, gateVars
<1>8. (DegradesInTime => DangerousEditsStopped)'
  BY <1>2 DEF RealInv, DegradesInTime, DangerousEditsStopped
<1>9. QED BY <1>5, <1>6, <1>7, <1>8 DEF RealInv

\* The invariant holds in every state.
LEMMA RealInvariant == RealSpec => []RealInv
<1>1. RealInit => RealInv
  BY InitEstablishes
<1>2. RealInv /\ [RealNext]_realVars => RealInv'
  <2> SUFFICES ASSUME RealInv, [RealNext]_realVars PROVE RealInv'
    OBVIOUS
  <2>1. ASSUME NEW plan \in Plans, Execute(plan) PROVE RealInv'
    BY <2>1, ExecutePreserves
  <2>2. CASE UNCHANGED realVars
    BY <2>2 DEF RealInv, RealTypeOK, GateTypeOK, EndsRolledBack, RunawayRetriesStopped,
                DegradesInTime, DangerousEditsStopped, realVars, gateVars, repoVars
  <2>3. QED BY <2>1, <2>2, OtherStepsPreserve DEF RealNext
<1>3. QED BY <1>1, <1>2, PTL DEF RealSpec
-----------------------------------------------------------------------------
\* The types of the loop, for any set of plans and any sandbox.
THEOREM RealTypeCorrect == RealSpec => []RealTypeOK
<1>1. RealInv => RealTypeOK
  BY DEF RealInv
<1>2. QED BY <1>1, RealInvariant, PTL

\* Two failing steps in a row end the run, whatever the agent plans and whatever the
\* thresholds: the limit does not depend on the policy.
THEOREM RetriesStop == RealSpec => []RunawayRetriesStopped
<1>1. RealInv => RunawayRetriesStopped
  BY DEF RealInv
<1>2. QED BY <1>1, RealInvariant, PTL

\* With a policy that degrades from 4.9 on, no large and no destructive patch is ever
\* applied: the score of a large edit alone reaches that, in every state of the run.
THEOREM DangerStops ==
  ASSUME DegradesInTime
  PROVE  RealSpec => []DangerousEditsStopped
<1>1. RealInv => DangerousEditsStopped
  BY DEF RealInv
<1>2. QED BY <1>1, RealInvariant, PTL

\* Every end of the run, an exception's too, finds the sandbox rolled back.
THEOREM RollsBack == RealSpec => []EndsRolledBack
<1>1. RealInv => EndsRolledBack
  BY DEF RealInv
<1>2. QED BY <1>1, RealInvariant, PTL

-----------------------------------------------------------------------------
(* The patcher.                                                            *)

\* The patch was looked at before it was written, in the sandbox as it came.
Safe ==
  \A i \in DOMAIN patch : patch[i].path \in Files /\ before[patch[i].path] # Binary

\* The file patches written so far, and the fallback's edit of the target.
Named ==
  {patch[i].path : i \in 1 .. written}
    \cup (IF outcome = "fallback" THEN {target} ELSE {})

\* Only a safe patch gets as far as being written; any other leaves the sandbox as it
\* came, and it changes nowhere else.
PatcherInv ==
  /\ written \in Nat
  /\ phase \in {"applying", "mismatch"} => Safe
  /\ phase # "ended" => Safe \/ repo = before
  /\ phase # "ended" => \A f \in Files : repo[f] # before[f] => f \in Named
  /\ phase # "idle" /\ phase # "ended" => outcome = "none"
  /\ outcome = "fallback" => Len(patch) = 1 /\ patch[1].path = target

\* The sandbox starts as it is.
LEMMA PatcherInitInv == PatcherInit => PatcherInv
<1> SUFFICES ASSUME PatcherInit PROVE PatcherInv
  OBVIOUS
<1>1. /\ written = 0 /\ phase = "idle" /\ outcome = "none"
      /\ repo = baseline /\ before = baseline
  BY DEF PatcherInit
<1>2. QED BY <1>1 DEF PatcherInv

\* An edit of the target is of the one file of the patch.
LEMMA FallbackIsTheTarget ==
  ASSUME Fallbacks(patch) # {}
  PROVE  Len(patch) = 1 /\ patch[1].path = target
<1>1. patch[1].path = target /\ LineEdited(repo[target], patch) # {}
  BY DEF Fallbacks
<1>2. OneHunk(patch)
  BY <1>1 DEF LineEdited
<1>3. QED BY <1>1, <1>2 DEF OneHunk

\* Every step keeps it.
LEMMA PatcherStepInv == PatcherInv /\ [PatcherNext]_patchVars => PatcherInv'
<1> SUFFICES ASSUME PatcherInv, [PatcherNext]_patchVars PROVE PatcherInv'
  OBVIOUS
<1>1. ASSUME NEW p \in Patches, NEW t \in PlanTargets, Submit(p, t) PROVE PatcherInv'
  <2>1. /\ repo' = repo /\ before' = repo /\ patch' = p /\ written' = 0
        /\ phase' \in {"applying", "idle"} /\ outcome' \in {"none", "rejected"}
        /\ phase' = "applying" => Reportable(p) /\ outcome' = "none"
        /\ baseline' = baseline
    BY <1>1 DEF Submit
  <2>2. phase' = "applying" => Safe'
    BY <2>1 DEF Safe, Reportable
  <2>3. QED BY <2>1, <2>2 DEF PatcherInv
<1>2. CASE ApplyFile
  <2> DEFINE file == patch[written + 1].path
  <2>1. /\ UNCHANGED <<baseline, patch, target, before>>
        /\ phase = "applying" /\ written' = written + 1
        /\ phase' \in {"idle", "applying"} /\ outcome' \in {"none", "applied"}
        /\ phase' = "applying" => outcome' = "none"
    BY <1>2 DEF ApplyFile
  <2>2. PICK content : repo' = [repo EXCEPT ![file] = content]
    BY <1>2 DEF ApplyFile
  <2>3. Safe'
    BY <2>1 DEF PatcherInv, Safe
  <2>4. outcome = "none" /\ written \in Nat
    BY <2>1 DEF PatcherInv
  <2>5. \A f \in Files : repo'[f] # before'[f] => f \in Named'
    <3>1. ASSUME NEW f \in Files, repo'[f] # before'[f] PROVE f \in Named'
      <4>1. CASE f = file
        <5>1. written + 1 \in 1 .. written'
          BY <2>1, <2>4
        <5>2. QED BY <2>1, <4>1, <5>1 DEF Named
      <4>2. CASE f # file
        <5>1. repo'[f] = repo[f]
          BY <2>2, <4>2
        <5>2. f \in Named
          BY <2>1, <3>1, <5>1 DEF PatcherInv
        <5>3. PICK i \in 1 .. written : f = patch[i].path
          BY <2>4, <5>2 DEF Named
        <5>4. i \in 1 .. written'
          BY <2>1, <2>4
        <5>5. QED BY <2>1, <5>3, <5>4 DEF Named
      <4>3. QED BY <4>1, <4>2
    <3>2. QED BY <3>1
  <2>6. QED BY <2>1, <2>3, <2>4, <2>5 DEF PatcherInv
<1>3. CASE Mismatch
  <2>1. /\ UNCHANGED <<repo, baseline, patch, target, written, before, outcome>>
        /\ phase = "applying" /\ phase' = "mismatch"
    BY <1>3 DEF Mismatch
  <2>2. QED BY <2>1 DEF PatcherInv, Safe, Named
<1>4. CASE FallbackRaises
  <2>1. /\ UNCHANGED <<repo, baseline, patch, target, written, before>>
        /\ phase = "mismatch" /\ phase' = "idle" /\ outcome' = "raised"
    BY <1>4 DEF FallbackRaises
  <2>2. QED BY <2>1 DEF PatcherInv, Safe, Named
<1>5. CASE Fallback
  <2>1. /\ UNCHANGED <<baseline, patch, target, written, before>>
        /\ phase = "mismatch" /\ phase' = "idle"
    BY <1>5 DEF Fallback
  <2>2. Safe' /\ Safe /\ outcome = "none"
    BY <2>1 DEF PatcherInv, Safe
  <2>3. CASE Fallbacks(patch) = {}
    <3>1. outcome' = "rejected" /\ repo' = repo
      BY <1>5, <2>3 DEF Fallback
    <3>2. QED BY <2>1, <2>2, <3>1 DEF PatcherInv, Named
  <2>4. CASE Fallbacks(patch) # {}
    <3>1. PICK content : outcome' = "fallback" /\ repo' = [repo EXCEPT ![target] = content]
      BY <1>5, <2>4 DEF Fallback
    <3>2. Len(patch) = 1 /\ patch[1].path = target
      BY <2>4, FallbackIsTheTarget
    <3>3. \A f \in Files : repo'[f] # before'[f] => f \in Named'
      <4>1. ASSUME NEW f \in Files, repo'[f] # before'[f] PROVE f \in Named'
        <5>1. CASE f = target
          BY <2>1, <3>1, <5>1 DEF Named
        <5>2. CASE f # target
          <6>1. repo'[f] = repo[f]
            BY <3>1, <5>2
          <6>2. f \in Named
            BY <2>1, <4>1, <6>1 DEF PatcherInv
          <6>3. QED BY <2>1, <2>2, <6>2 DEF Named
        <5>3. QED BY <5>1, <5>2
      <4>2. QED BY <4>1
    <3>4. QED BY <2>1, <2>2, <3>1, <3>2, <3>3 DEF PatcherInv
  <2>5. QED BY <2>3, <2>4
<1>6. CASE RollBack
  <2>1. /\ UNCHANGED <<baseline, patch, target, written, outcome>>
        /\ repo' = baseline /\ phase' = "ended"
    BY <1>6 DEF RollBack, Restored
  <2>2. QED BY <2>1 DEF PatcherInv
<1>7. CASE UNCHANGED patchVars
  BY <1>7 DEF PatcherInv, Safe, Named, patchVars
<1>8. QED
  BY <1>1, <1>2, <1>3, <1>4, <1>5, <1>6, <1>7 DEF PatcherNext

\* A path outside the sandbox or a binary file anywhere in a patch keeps all of it from
\* being written, though it is written file by file: UnsafePatchWritesNothing is invariant.
THEOREM UnsafePatchIsRefused == PatcherSpec => []UnsafePatchWritesNothing
<1>1. PatcherInv => UnsafePatchWritesNothing
  BY DEF PatcherInv, Safe, UnsafePatchWritesNothing, Touched
<1>2. QED
  BY <1>1, PatcherInitInv, PatcherStepInv, PTL DEF PatcherSpec

\* Whatever becomes of a patch, also one that stops halfway, the sandbox differs from how
\* the patch found it in the file patches it got to and nowhere else, the fallback's edit
\* being in the one file of its patch.
OnlyNamedFilesChange ==
  phase # "ended" =>
    Touched \subseteq {patch[i].path : i \in 1 .. written}
                        \cup (IF outcome = "fallback" THEN {patch[1].path} ELSE {})

\* It holds of any number of patches.
THEOREM OnlyNamedFilesAreWritten ==
  PatcherSpec => []OnlyNamedFilesChange
<1>1. PatcherInv => OnlyNamedFilesChange
  BY DEF PatcherInv, OnlyNamedFilesChange, Named, Touched
<1>2. QED
  BY <1>1, PatcherInitInv, PatcherStepInv, PTL DEF PatcherSpec

-----------------------------------------------------------------------------
(* What a patch makes of a file, hunk by hunk.                             *)

\* What holds of zero and of the successor of each number it holds of holds of all.
LEMMA Counting ==
  ASSUME NEW S \in SUBSET Nat, 0 \in S, \A n \in S : n + 1 \in S
  PROVE  S = Nat
<1> DEFINE T == Nat \ S
           R == OpToRel(<, Nat)
<1>1. SUFFICES ASSUME T # {} PROVE FALSE
  OBVIOUS
<1>2. IsWellFoundedOn(R, Nat)
  BY NatLessThanWellFounded
<1>3. T \subseteq Nat
  OBVIOUS
<1>4. PICK x \in T : \A y \in T : ~(<<y, x>> \in R)
  <2> HIDE DEF T, R
  <2> QED BY <1>1, <1>2, <1>3, WFMin
<1>5. x \in Nat /\ x \notin S /\ x # 0
  OBVIOUS
<1>6. x - 1 \in Nat /\ (x - 1) + 1 = x /\ x - 1 < x
  BY <1>5
<1>7. x - 1 \in T
  BY <1>5, <1>6
<1>8. <<x - 1, x>> \in R
  BY <1>5, <1>6 DEF OpToRel
<1> QED BY <1>4, <1>7, <1>8

\* The largest element of a set of positions is one of them, the last of its range if
\* the last is in it.
LEMMA LargestPosition ==
  ASSUME NEW k \in Nat, NEW s \in SUBSET (1 .. (k + 1))
  PROVE  /\ k + 1 \in s => Max(s) = k + 1
         /\ k + 1 \notin s => s \subseteq 1 .. k
<1>1. \A x \in s : x \in Nat /\ x <= k + 1
  OBVIOUS
<1>2. ASSUME k + 1 \in s PROVE Max(s) = k + 1
  <2>1. \A y \in s : k + 1 >= y
    BY <1>1
  <2>2. \A x \in s : (\A y \in s : x >= y) => x = k + 1
    BY <1>1, <1>2
  <2>3. QED BY <1>2, <2>1, <2>2 DEF Max
<1>3. k + 1 \notin s => s \subseteq 1 .. k
  BY <1>1
<1>4. QED BY <1>2, <1>3

\* Folding to the left goes through the positions from the first to the last.
LEMMA FoldsLeft ==
  ASSUME NEW V, NEW base \in V, NEW n \in Nat, NEW op \in [V \X (1 .. n) -> V]
  PROVE  \E iter \in [SUBSET (1 .. n) -> V] :
           /\ iter = [s \in SUBSET (1 .. n) |->
                        IF s = {} THEN base ELSE op[<<iter[s \ {Max(s)}], Max(s)>>]]
           /\ \A s \in SUBSET (1 .. n) : s # {} => Max(s) \in s
<1> DEFINE Holds(k) ==
             k <= n =>
               \E iter \in [SUBSET (1 .. k) -> V] :
                 /\ iter = [s \in SUBSET (1 .. k) |->
                              IF s = {} THEN base ELSE op[<<iter[s \ {Max(s)}], Max(s)>>]]
                 /\ \A s \in SUBSET (1 .. k) : s # {} => Max(s) \in s
           S == {k \in Nat : Holds(k)}
<1>1. Holds(0)
  <2>1. SUBSET (1 .. 0) = {{}}
    OBVIOUS
  <2> DEFINE f == [s \in SUBSET (1 .. 0) |-> base]
  <2>2. f \in [SUBSET (1 .. 0) -> V]
    OBVIOUS
  <2>3. f = [s \in SUBSET (1 .. 0) |->
               IF s = {} THEN base ELSE op[<<f[s \ {Max(s)}], Max(s)>>]]
    <3>1. \A s \in SUBSET (1 .. 0) : s = {}
      BY <2>1
    <3>2. f = [s \in SUBSET (1 .. 0) |-> base]
      OBVIOUS
    <3> DEFINE Rest(s) == op[<<f[s \ {Max(s)}], Max(s)>>]
    <3> HIDE DEF f, Rest
    <3>3. f = [s \in SUBSET (1 .. 0) |-> IF s = {} THEN base ELSE Rest(s)]
      BY <3>1, <3>2
    <3>4. QED BY <3>3 DEF Rest
  <2>4. \A s \in SUBSET (1 .. 0) : s # {} => Max(s) \in s
    BY <2>1
  <2> HIDE DEF f
  <2>5. QED BY <2>2, <2>3, <2>4
<1>2. ASSUME NEW k \in Nat, Holds(k), k + 1 <= n PROVE Holds(k + 1)
  <2>1. PICK g \in [SUBSET (1 .. k) -> V] :
          /\ g = [s \in SUBSET (1 .. k) |->
                    IF s = {} THEN base ELSE op[<<g[s \ {Max(s)}], Max(s)>>]]
          /\ \A s \in SUBSET (1 .. k) : s # {} => Max(s) \in s
    <3>1. k <= n
      BY <1>2
    <3>2. QED BY <1>2, <3>1
  <2> DEFINE f == [s \in SUBSET (1 .. (k + 1)) |->
                     IF s = {} THEN base ELSE op[<<g[s \ {Max(s)}], Max(s)>>]]
  <2>2. \A s \in SUBSET (1 .. (k + 1)) :
          s # {} => Max(s) \in s /\ s \ {Max(s)} \in SUBSET (1 .. k)
    <3>1. SUFFICES ASSUME NEW s \in SUBSET (1 .. (k + 1)), s # {}
                   PROVE  Max(s) \in s /\ s \ {Max(s)} \in SUBSET (1 .. k)
      OBVIOUS
    <3>2. CASE k + 1 \in s
      <4>1. Max(s) = k + 1
        BY <3>2, LargestPosition
      <4>2. QED BY <3>2, <4>1
    <3>3. CASE k + 1 \notin s
      <4>1. s \in SUBSET (1 .. k)
        BY <3>3, LargestPosition
      <4>2. QED BY <2>1, <3>1, <4>1
    <3>4. QED BY <3>2, <3>3
  <2>3. \A s \in SUBSET (1 .. (k + 1)) : s # {} => Max(s) \in 1 .. n
    <3>1. \A s \in SUBSET (1 .. (k + 1)) : \A m \in s : m \in 1 .. n
      BY <1>2
    <3>2. QED BY <2>2, <3>1
  <2>4. f \in [SUBSET (1 .. (k + 1)) -> V]
    <3>1. ASSUME NEW s \in SUBSET (1 .. (k + 1)), s # {}
          PROVE  op[<<g[s \ {Max(s)}], Max(s)>>] \in V
      BY <2>1, <2>2, <2>3, <3>1
    <3>2. QED BY <3>1
  <2>5. \A t \in SUBSET (1 .. k) : f[t] = g[t]
    <3>1. \A t \in SUBSET (1 .. k) : t \in SUBSET (1 .. (k + 1))
      OBVIOUS
    <3>2. \A t \in SUBSET (1 .. k) :
            g[t] = IF t = {} THEN base ELSE op[<<g[t \ {Max(t)}], Max(t)>>]
      BY <2>1
    <3>3. QED BY <3>1, <3>2
  <2>6. \A s \in SUBSET (1 .. (k + 1)) :
          f[s] = IF s = {} THEN base ELSE op[<<f[s \ {Max(s)}], Max(s)>>]
    BY <2>2, <2>5
  <2>7. f = [s \in SUBSET (1 .. (k + 1)) |->
               IF s = {} THEN base ELSE op[<<f[s \ {Max(s)}], Max(s)>>]]
    BY <2>6
  <2> HIDE DEF f
  <2>8. QED BY <2>2, <2>4, <2>7
<1>3. S = Nat
  <2>1. S \in SUBSET Nat /\ 0 \in S
    BY <1>1
  <2>2. \A k \in S : k + 1 \in S
    <3>1. SUFFICES ASSUME NEW k \in S PROVE k + 1 \in S
      OBVIOUS
    <3>2. k \in Nat /\ Holds(k)
      OBVIOUS
    <3>3. k + 1 <= n => Holds(k + 1)
      BY <1>2, <3>2
    <3>4. Holds(k + 1)
      BY <3>3
    <3> HIDE DEF Holds
    <3>5. QED BY <3>2, <3>4
  <2> HIDE DEF S
  <2>3. QED BY <2>1, <2>2, Counting
<1>4. n \in S
  <2> HIDE DEF S
  <2>1. QED BY <1>3
<1>5. Holds(n)
  BY <1>4
<1>6. n <= n
  OBVIOUS
<1>7. QED BY <1>5, <1>6

\* The smallest element of a set of positions, likewise.
LEMMA SmallestPosition ==
  ASSUME NEW n \in Nat, NEW k \in Nat, k + 1 <= n, NEW s \in SUBSET ((n - k) .. n)
  PROVE  /\ n - k \in s => Min(s) = n - k
         /\ n - k \notin s => s \subseteq (n + 1 - k) .. n
<1>1. \A x \in s : x \in Nat /\ n - k <= x /\ x <= n
  OBVIOUS
<1>2. ASSUME n - k \in s PROVE Min(s) = n - k
  <2>1. \A y \in s : n - k <= y
    BY <1>1
  <2>2. \A x \in s : (\A y \in s : x <= y) => x = n - k
    BY <1>1, <1>2
  <2>3. QED BY <1>2, <2>1, <2>2 DEF Min
<1>3. n - k \notin s => s \subseteq (n + 1 - k) .. n
  BY <1>1
<1>4. QED BY <1>2, <1>3

\* Folding to the right goes through them from the last to the first.
LEMMA FoldsRight ==
  ASSUME NEW V, NEW base \in V, NEW n \in Nat, NEW op \in [V \X (1 .. n) -> V]
  PROVE  \E iter \in [SUBSET (1 .. n) -> V] :
           /\ iter = [s \in SUBSET (1 .. n) |->
                        IF s = {} THEN base ELSE op[<<iter[s \ {Min(s)}], Min(s)>>]]
           /\ \A s \in SUBSET (1 .. n) : s # {} => Min(s) \in s
<1> DEFINE Holds(k) ==
             k <= n =>
               \E iter \in [SUBSET ((n + 1 - k) .. n) -> V] :
                 /\ iter = [s \in SUBSET ((n + 1 - k) .. n) |->
                              IF s = {} THEN base ELSE op[<<iter[s \ {Min(s)}], Min(s)>>]]
                 /\ \A s \in SUBSET ((n + 1 - k) .. n) : s # {} => Min(s) \in s
           S == {k \in Nat : Holds(k)}
<1>1. Holds(0)
  <2>1. SUBSET ((n + 1 - 0) .. n) = {{}}
    OBVIOUS
  <2> DEFINE f == [s \in SUBSET ((n + 1 - 0) .. n) |-> base]
  <2>2. f \in [SUBSET ((n + 1 - 0) .. n) -> V]
    OBVIOUS
  <2>3. f = [s \in SUBSET ((n + 1 - 0) .. n) |->
               IF s = {} THEN base ELSE op[<<f[s \ {Min(s)}], Min(s)>>]]
    <3>1. \A s \in SUBSET ((n + 1 - 0) .. n) : s = {}
      BY <2>1
    <3>2. f = [s \in SUBSET ((n + 1 - 0) .. n) |-> base]
      OBVIOUS
    <3> DEFINE Rest(s) == op[<<f[s \ {Min(s)}], Min(s)>>]
    <3> HIDE DEF f, Rest
    <3>3. f = [s \in SUBSET ((n + 1 - 0) .. n) |-> IF s = {} THEN base ELSE Rest(s)]
      BY <3>1, <3>2
    <3>4. QED BY <3>3 DEF Rest
  <2>4. \A s \in SUBSET ((n + 1 - 0) .. n) : s # {} => Min(s) \in s
    BY <2>1
  <2> HIDE DEF f
  <2>5. QED BY <2>2, <2>3, <2>4
<1>2. ASSUME NEW k \in Nat, Holds(k), k + 1 <= n PROVE Holds(k + 1)
  <2>1. PICK g \in [SUBSET ((n + 1 - k) .. n) -> V] :
          /\ g = [s \in SUBSET ((n + 1 - k) .. n) |->
                    IF s = {} THEN base ELSE op[<<g[s \ {Min(s)}], Min(s)>>]]
          /\ \A s \in SUBSET ((n + 1 - k) .. n) : s # {} => Min(s) \in s
    <3>1. k <= n
      BY <1>2
    <3>2. QED BY <1>2, <3>1
  <2> DEFINE f == [s \in SUBSET ((n - k) .. n) |->
                     IF s = {} THEN base ELSE op[<<g[s \ {Min(s)}], Min(s)>>]]
  <2>2. \A s \in SUBSET ((n - k) .. n) :
          s # {} => Min(s) \in s /\ s \ {Min(s)} \in SUBSET ((n + 1 - k) .. n)
    <3>1. SUFFICES ASSUME NEW s \in SUBSET ((n - k) .. n), s # {}
                   PROVE  Min(s) \in s /\ s \ {Min(s)} \in SUBSET ((n + 1 - k) .. n)
      OBVIOUS
    <3>2. CASE n - k \in s
      <4>1. Min(s) = n - k
        BY <1>2, <3>2, SmallestPosition
      <4>2. QED BY <3>2, <4>1
    <3>3. CASE n - k \notin s
      <4>1. s \in SUBSET ((n + 1 - k) .. n)
        BY <1>2, <3>3, SmallestPosition
      <4>2. QED BY <2>1, <3>1, <4>1
    <3>4. QED BY <3>2, <3>3
  <2>3. \A s \in SUBSET ((n - k) .. n) : s # {} => Min(s) \in 1 .. n
    <3>1. \A s \in SUBSET ((n - k) .. n) : \A m \in s : m \in 1 .. n
      BY <1>2
    <3>2. QED BY <2>2, <3>1
  <2>4. f \in [SUBSET ((n - k) .. n) -> V]
    <3>1. ASSUME NEW s \in SUBSET ((n - k) .. n), s # {}
          PROVE  op[<<g[s \ {Min(s)}], Min(s)>>] \in V
      BY <2>1, <2>2, <2>3, <3>1
    <3>2. QED BY <3>1
  <2>5. \A t \in SUBSET ((n + 1 - k) .. n) : f[t] = g[t]
    <3>1. \A t \in SUBSET ((n + 1 - k) .. n) : t \in SUBSET ((n - k) .. n)
      OBVIOUS
    <3>2. \A t \in SUBSET ((n + 1 - k) .. n) :
            g[t] = IF t = {} THEN base ELSE op[<<g[t \ {Min(t)}], Min(t)>>]
      BY <2>1
    <3>3. QED BY <3>1, <3>2
  <2>6. \A s \in SUBSET ((n - k) .. n) :
          f[s] = IF s = {} THEN base ELSE op[<<f[s \ {Min(s)}], Min(s)>>]
    BY <2>2, <2>5
  <2>7. f = [s \in SUBSET ((n - k) .. n) |->
               IF s = {} THEN base ELSE op[<<f[s \ {Min(s)}], Min(s)>>]]
    BY <2>6
  <2> HIDE DEF f
  <2>8. n + 1 - (k + 1) = n - k
    OBVIOUS
  <2>9. QED BY <2>2, <2>4, <2>7, <2>8
<1>3. S = Nat
  <2>1. S \in SUBSET Nat /\ 0 \in S
    BY <1>1
  <2>2. \A k \in S : k + 1 \in S
    <3>1. SUFFICES ASSUME NEW k \in S PROVE k + 1 \in S
      OBVIOUS
    <3>2. k \in Nat /\ Holds(k)
      OBVIOUS
    <3>3. k + 1 <= n => Holds(k + 1)
      BY <1>2, <3>2
    <3>4. Holds(k + 1)
      BY <3>3
    <3> HIDE DEF Holds
    <3>5. QED BY <3>2, <3>4
  <2> HIDE DEF S
  <2>3. QED BY <2>1, <2>2, Counting
<1>4. n \in S
  <2> HIDE DEF S
  <2>1. QED BY <1>3
<1>5. Holds(n)
  BY <1>4
<1>6. n <= n /\ n + 1 - n = 1
  OBVIOUS
<1>7. QED BY <1>5, <1>6

\* The positions up to k, without the last of them.
LEMMA PrefixPositions ==
  ASSUME NEW n \in Nat, NEW k \in 1 .. n
  PROVE  /\ 1 .. k \in SUBSET (1 .. n) /\ 1 .. k # {}
         /\ Max(1 .. k) = k /\ (1 .. k) \ {k} = 1 .. (k - 1)
<1>1. k \in Nat /\ k - 1 \in Nat /\ k \in 1 .. k /\ (k - 1) + 1 = k
  OBVIOUS
<1>2. Max(1 .. k) = k
  <2>1. \A s \in SUBSET (1 .. ((k - 1) + 1)) : (k - 1) + 1 \in s => Max(s) = (k - 1) + 1
    BY <1>1, LargestPosition
  <2>2. QED BY <1>1, <2>1
<1>3. QED BY <1>1, <1>2

\* The positions from k on, without the first of them.
LEMMA SuffixPositions ==
  ASSUME NEW n \in Nat, NEW k \in 1 .. n
  PROVE  /\ k .. n \in SUBSET (1 .. n) /\ k .. n # {}
         /\ Min(k .. n) = k /\ (k .. n) \ {k} = (k + 1) .. n
<1>1. k \in Nat /\ k \in k .. n /\ n - (n - k) = k /\ n - k \in Nat
  OBVIOUS
<1>2. Min(k .. n) = k
  <2>1. \A x \in k .. n : x \in Nat /\ k <= x
    OBVIOUS
  <2>2. \A x \in k .. n : (\A y \in k .. n : x <= y) => x = k
    BY <1>1, <2>1
  <2>3. QED BY <1>1, <2>1, <2>2 DEF Min
<1>3. QED BY <1>1, <1>2

HunkLine == [op : STRING, text : STRING]

\* A line, or the mark of a file that is not there.
LineText == STRING \cup {"absent"}

\* The lines of a hunk that are looked at are a sequence of lines.
LEMMA TextsAreLines ==
  ASSUME NEW lines \in Seq(HunkLine), NEW ops
  PROVE  Texts(lines, ops) \in Seq(LineText)
<1> DEFINE V == Seq(LineText)
           n == Len(lines)
           Kept(kept, line) == IF line.op \in ops THEN Append(kept, line.text) ELSE kept
           op == [p \in V \X (1 .. n) |-> Kept(p[1], lines[p[2]])]
           Step(f) == [s \in SUBSET (1 .. n) |->
                         IF s = {} THEN << >> ELSE Kept(f[s \ {Max(s)}], lines[Max(s)])]
           kept == CHOOSE f : f = Step(f)
           Good(k) == k <= n => kept[1 .. k] \in V
           S == {k \in Nat : Good(k)}
<1>1. n \in Nat /\ DOMAIN lines = 1 .. n
  OBVIOUS
<1>2. Texts(lines, ops) = kept[1 .. n]
  BY <1>1 DEF Texts, FoldLeft, MapThenFoldSet
<1>3. \A acc \in V : \A i \in 1 .. n : Kept(acc, lines[i]) \in V
  <2>1. \A i \in 1 .. n : lines[i] \in HunkLine
    OBVIOUS
  <2>2. \A i \in 1 .. n : lines[i].text \in LineText
    BY <2>1 DEF HunkLine, LineText
  <2>3. \A acc \in V : \A text \in LineText : Append(acc, text) \in V
    BY AppendProperties
  <2>4. QED BY <2>2, <2>3
<1> HIDE DEF V, n, Kept
<1>4. op \in [V \X (1 .. n) -> V]
  BY <1>3
<1>5. << >> \in V
  BY DEF V
<1>6. PICK f \in [SUBSET (1 .. n) -> V] :
        /\ f = [s \in SUBSET (1 .. n) |->
                  IF s = {} THEN << >> ELSE op[<<f[s \ {Max(s)}], Max(s)>>]]
        /\ \A s \in SUBSET (1 .. n) : s # {} => Max(s) \in s
  <2> HIDE DEF op
  <2>1. QED BY <1>1, <1>4, <1>5, FoldsLeft
<1>7. f = Step(f)
  <2>1. \A s \in SUBSET (1 .. n) : s # {} => s \ {Max(s)} \in SUBSET (1 .. n) /\ Max(s) \in 1 .. n
    BY <1>6
  <2>2. \A s \in SUBSET (1 .. n) : s # {} =>
          op[<<f[s \ {Max(s)}], Max(s)>>] = Kept(f[s \ {Max(s)}], lines[Max(s)])
    BY <1>6, <2>1
  <2> HIDE DEF op
  <2>3. QED BY <1>6, <2>2
<1>8. kept = Step(kept)
  <2> HIDE DEF Step
  <2>1. QED BY <1>7
<1>9. \A k \in 1 .. n : kept[1 .. k] = Kept(kept[1 .. (k - 1)], lines[k])
  <2> HIDE DEF kept
  <2>1. SUFFICES ASSUME NEW k \in 1 .. n
                 PROVE  kept[1 .. k] = Kept(kept[1 .. (k - 1)], lines[k])
    OBVIOUS
  <2>2. /\ 1 .. k \in SUBSET (1 .. n) /\ 1 .. k # {}
        /\ Max(1 .. k) = k /\ (1 .. k) \ {k} = 1 .. (k - 1)
    BY <1>1, PrefixPositions
  <2>3. QED BY <1>8, <2>2
<1> HIDE DEF kept
<1>10. Good(0)
  <2>1. 1 .. 0 = {} /\ {} \in SUBSET (1 .. n)
    OBVIOUS
  <2>2. kept[{}] = << >>
    BY <1>8, <2>1
  <2>3. QED BY <1>5, <2>1, <2>2
<1>11. ASSUME NEW k \in Nat, Good(k) PROVE Good(k + 1)
  <2>1. SUFFICES ASSUME k + 1 <= n PROVE kept[1 .. (k + 1)] \in V
    OBVIOUS
  <2>2. k + 1 \in 1 .. n /\ k <= n /\ (k + 1) - 1 = k
    BY <1>1, <2>1
  <2>3. kept[1 .. k] \in V
    BY <1>11, <2>2
  <2>4. QED BY <1>3, <1>9, <2>2, <2>3
<1>12. S = Nat
  <2> HIDE DEF Good
  <2>1. S \in SUBSET Nat /\ 0 \in S /\ \A k \in S : k + 1 \in S
    BY <1>10, <1>11
  <2> HIDE DEF S
  <2>2. QED BY <2>1, Counting
<1>13. Good(n)
  BY <1>1, <1>12
<1>14. QED BY <1>1, <1>2, <1>13 DEF V

\* A slice of a file is a sequence of lines, and within the file it is the one asked for.
LEMMA SliceFacts ==
  ASSUME NEW lines \in Seq(LineText), NEW from \in Nat, NEW to \in Nat
  PROVE  /\ Slice(lines, from, to) \in Seq(LineText)
         /\ to <= Len(lines) => Slice(lines, from, to) = SubSeq(lines, from + 1, to)
<1> DEFINE n == Len(lines)
           last == Min({to, n})
<1>1. n \in Nat /\ DOMAIN lines = 1 .. n
  OBVIOUS
<1>2. \A i \in 1 .. n : lines[i] \in LineText
  OBVIOUS
<1> HIDE DEF n
<1>3. last = IF to <= n THEN to ELSE n
  <2>1. CASE to <= n
    <3>1. to \in {to, n} /\ \A y \in {to, n} : to <= y
      BY <1>1, <2>1
    <3>2. \A x \in {to, n} : (\A y \in {to, n} : x <= y) => x = to
      BY <1>1, <2>1
    <3>3. QED BY <2>1, <3>1, <3>2 DEF Min
  <2>2. CASE ~(to <= n)
    <3>1. n \in {to, n} /\ \A y \in {to, n} : n <= y
      BY <1>1, <2>2
    <3>2. \A x \in {to, n} : (\A y \in {to, n} : x <= y) => x = n
      BY <1>1, <2>2
    <3>3. QED BY <2>2, <3>1, <3>2 DEF Min
  <2>3. QED BY <2>1, <2>2
<1>4. Slice(lines, from, to) = SubSeq(lines, from + 1, last)
  BY DEF Slice, n
<1> HIDE DEF last
<1>5. last \in Nat /\ last <= n /\ from + 1 \in Int /\ last \in Int
  BY <1>1, <1>3
<1>6. \A i \in (from + 1) .. last : lines[i] \in LineText
  <2>1. \A i \in (from + 1) .. last : i \in 1 .. n
    BY <1>1, <1>5
  <2>2. QED BY <1>2, <2>1
<1>7. SubSeq(lines, from + 1, last) \in Seq(LineText)
  BY <1>5, <1>6, SubSeqProperties
<1>8. to <= n => last = to
  BY <1>3
<1>9. QED BY <1>4, <1>7, <1>8 DEF n

\* The larger of a header's position and zero.
LEMMA PreferredStart ==
  ASSUME NEW n \in Nat
  PROVE  Max({n - 1, 0}) \in Nat /\ (n >= 1 => Max({n - 1, 0}) = n - 1)
<1>1. CASE n >= 1
  <2>1. n - 1 \in {n - 1, 0} /\ \A y \in {n - 1, 0} : n - 1 >= y
    BY <1>1
  <2>2. \A x \in {n - 1, 0} : (\A y \in {n - 1, 0} : x >= y) => x = n - 1
    BY <1>1
  <2>3. Max({n - 1, 0}) = n - 1
    BY <2>1, <2>2 DEF Max
  <2>4. QED BY <1>1, <2>3
<1>2. CASE ~(n >= 1)
  <2>1. 0 \in {n - 1, 0} /\ \A y \in {n - 1, 0} : 0 >= y
    BY <1>2
  <2>2. \A x \in {n - 1, 0} : (\A y \in {n - 1, 0} : x >= y) => x = 0
    BY <1>2
  <2>3. Max({n - 1, 0}) = 0
    BY <2>1, <2>2 DEF Max
  <2>4. QED BY <1>2, <2>3
<1>3. QED BY <1>1, <1>2

\* The lines of a hunk before and after it.
LEMMA HunkTexts ==
  ASSUME NEW hunk \in PatchHunk
  PROVE  /\ hunk.start \in Nat
         /\ OldLines(hunk) \in Seq(LineText) /\ NewLines(hunk) \in Seq(LineText)
         /\ Removed(hunk) \in Seq(LineText) /\ Added(hunk) \in Seq(LineText)
<1>1. hunk.start \in Nat /\ hunk.lines \in Seq(HunkLine)
  BY DEF PatchHunk, HunkLine
<1>2. \A ops : Texts(hunk.lines, ops) \in Seq(LineText)
  BY <1>1, TextsAreLines
<1>3. QED BY <1>1, <1>2 DEF OldLines, NewLines, Removed, Added

\* What is done of a patch after some of its hunks.
Done == [fits : BOOLEAN, out : Seq(LineText), source : Nat]

\* A hunk is applied at a position of the file, if it is.
LEMMA StartsArePositions ==
  ASSUME NEW lines \in Seq(LineText), NEW minimum \in Nat, NEW hunk \in PatchHunk
  PROVE  HunkStarts(lines, hunk, minimum) \subseteq Nat
<1>1. Max({hunk.start - 1, 0}) \in Nat
  BY HunkTexts, PreferredStart
<1>2. \A at \in minimum .. Len(lines) : at \in Nat
  OBVIOUS
<1>3. QED BY <1>1, <1>2 DEF HunkStarts

\* One hunk more keeps the type.
LEMMA AppliedHunkType ==
  ASSUME NEW lines \in Seq(LineText), NEW done \in Done, NEW hunk \in PatchHunk
  PROVE  AppliedHunk(lines, done, hunk) \in Done
<1> DEFINE starts == HunkStarts(lines, hunk, done.source)
           start == CHOOSE at \in starts : TRUE
<1>1. done.fits \in BOOLEAN /\ done.out \in Seq(LineText) /\ done.source \in Nat
  BY DEF Done
<1>2. starts \subseteq Nat
  BY <1>1, StartsArePositions
<1> HIDE DEF starts
<1>3. CASE ~done.fits \/ starts = {}
  <2>1. AppliedHunk(lines, done, hunk) = [done EXCEPT !.fits = FALSE]
    BY <1>3 DEF AppliedHunk, starts
  <2>2. QED BY <2>1 DEF Done
<1>4. CASE ~(~done.fits \/ starts = {})
  <2>1. AppliedHunk(lines, done, hunk) =
          [ fits   |-> TRUE,
            out    |-> done.out \o Slice(lines, done.source, start) \o NewLines(hunk),
            source |-> start + Consumed(hunk) ]
    BY <1>4 DEF AppliedHunk, starts
  <2>2. start \in Nat
    BY <1>2, <1>4
  <2> HIDE DEF start
  <2>3. Slice(lines, done.source, start) \in Seq(LineText) /\ NewLines(hunk) \in Seq(LineText)
    BY <1>1, <2>2, SliceFacts, HunkTexts
  <2>4. done.out \o Slice(lines, done.source, start) \o NewLines(hunk) \in Seq(LineText)
    BY <1>1, <2>3, ConcatProperties
  <2>5. start + Consumed(hunk) \in Nat
    <3>1. OldLines(hunk) \in Seq(LineText)
      BY HunkTexts
    <3>2. Len(OldLines(hunk)) \in Nat
      BY <3>1
    <3>3. QED BY <2>2, <3>2 DEF Consumed
  <2>6. QED BY <2>1, <2>4, <2>5 DEF Done
<1>5. QED BY <1>3, <1>4

\* The hunks before the first.
NothingDone == [fits |-> TRUE, out |-> << >>, source |-> 0]

\* A patch is applied hunk by hunk, from the first to the last.
LEMMA PatchedByHunks ==
  ASSUME NEW lines \in Seq(LineText), NEW hunks \in Seq(PatchHunk)
  PROVE  \E acc :
           /\ acc[0] = NothingDone
           /\ \A k \in 0 .. Len(hunks) : acc[k] \in Done
           /\ \A k \in 1 .. Len(hunks) : acc[k] = AppliedHunk(lines, acc[k - 1], hunks[k])
           /\ LET done == acc[Len(hunks)]
              IN  Patched(lines, hunks) =
                    [done EXCEPT !.out = @ \o Slice(lines, done.source, Len(lines))]
<1> DEFINE n == Len(hunks)
           op == [p \in Done \X (1 .. n) |-> AppliedHunk(lines, p[1], hunks[p[2]])]
           Step(f) == [s \in SUBSET (1 .. n) |->
                         IF s = {} THEN NothingDone
                         ELSE AppliedHunk(lines, f[s \ {Max(s)}], hunks[Max(s)])]
           fold == CHOOSE f : f = Step(f)
           Good(k) == k <= n => fold[1 .. k] \in Done
           S == {k \in Nat : Good(k)}
           acc == [k \in 0 .. n |-> fold[1 .. k]]
<1>1. n \in Nat /\ DOMAIN hunks = 1 .. n /\ \A i \in 1 .. n : hunks[i] \in PatchHunk
  OBVIOUS
<1>2. LET done == fold[1 .. n]
      IN  Patched(lines, hunks) =
            [done EXCEPT !.out = @ \o Slice(lines, done.source, Len(lines))]
  BY <1>1 DEF Patched, FoldLeft, MapThenFoldSet, NothingDone
<1> HIDE DEF n
<1>3. \A done \in Done : \A i \in 1 .. n : AppliedHunk(lines, done, hunks[i]) \in Done
  BY <1>1, AppliedHunkType
<1>4. op \in [Done \X (1 .. n) -> Done]
  BY <1>3
<1>5. NothingDone \in Done
  BY DEF NothingDone, Done
<1>6. PICK f \in [SUBSET (1 .. n) -> Done] :
        /\ f = [s \in SUBSET (1 .. n) |->
                  IF s = {} THEN NothingDone ELSE op[<<f[s \ {Max(s)}], Max(s)>>]]
        /\ \A s \in SUBSET (1 .. n) : s # {} => Max(s) \in s
  <2> HIDE DEF op
  <2>1. QED BY <1>1, <1>4, <1>5, FoldsLeft
<1>7. f = Step(f)
  <2>1. \A s \in SUBSET (1 .. n) : s # {} => s \ {Max(s)} \in SUBSET (1 .. n) /\ Max(s) \in 1 .. n
    BY <1>6
  <2>2. \A s \in SUBSET (1 .. n) : s # {} =>
          op[<<f[s \ {Max(s)}], Max(s)>>] = AppliedHunk(lines, f[s \ {Max(s)}], hunks[Max(s)])
    BY <1>6, <2>1
  <2> HIDE DEF op
  <2>3. QED BY <1>6, <2>2
<1>8. fold = Step(fold)
  <2> HIDE DEF Step
  <2>1. QED BY <1>7
<1> HIDE DEF fold
<1>9. \A k \in 1 .. n : fold[1 .. k] = AppliedHunk(lines, fold[1 .. (k - 1)], hunks[k])
  <2>1. SUFFICES ASSUME NEW k \in 1 .. n
                 PROVE  fold[1 .. k] = AppliedHunk(lines, fold[1 .. (k - 1)], hunks[k])
    OBVIOUS
  <2>2. /\ 1 .. k \in SUBSET (1 .. n) /\ 1 .. k # {}
        /\ Max(1 .. k) = k /\ (1 .. k) \ {k} = 1 .. (k - 1)
    BY <1>1, PrefixPositions
  <2>3. QED BY <1>8, <2>2
<1>10. fold[1 .. 0] = NothingDone
  <2>1. 1 .. 0 = {} /\ {} \in SUBSET (1 .. n)
    OBVIOUS
  <2>2. fold[{}] = NothingDone
    BY <1>8, <2>1
  <2>3. QED BY <2>1, <2>2
<1>11. ASSUME NEW k \in Nat, Good(k) PROVE Good(k + 1)
  <2>1. SUFFICES ASSUME k + 1 <= n PROVE fold[1 .. (k + 1)] \in Done
    OBVIOUS
  <2>2. k + 1 \in 1 .. n /\ k <= n /\ (k + 1) - 1 = k
    BY <1>1, <2>1
  <2>3. fold[1 .. k] \in Done
    BY <1>11, <2>2
  <2>4. QED BY <1>3, <1>9, <2>2, <2>3
<1>12. S = Nat
  <2>1. Good(0)
    BY <1>5, <1>10
  <2> HIDE DEF Good
  <2>2. S \in SUBSET Nat /\ 0 \in S /\ \A k \in S : k + 1 \in S
    BY <2>1, <1>11
  <2> HIDE DEF S
  <2>3. QED BY <2>2, Counting
<1>13. \A k \in 0 .. n : fold[1 .. k] \in Done
  <2>1. \A k \in 0 .. n : k \in Nat /\ k <= n
    BY <1>1
  <2>2. QED BY <1>12, <2>1
<1>14. \A k \in 0 .. n : acc[k] = fold[1 .. k]
  OBVIOUS
<1>15. 0 \in 0 .. n /\ n \in 0 .. n /\ \A k \in 1 .. n : k \in 0 .. n /\ k - 1 \in 0 .. n
  BY <1>1
<1> HIDE DEF acc
<1>16. /\ acc[0] = NothingDone
       /\ \A k \in 0 .. n : acc[k] \in Done
       /\ \A k \in 1 .. n : acc[k] = AppliedHunk(lines, acc[k - 1], hunks[k])
  BY <1>9, <1>10, <1>13, <1>14, <1>15
<1>17. LET done == acc[n]
       IN  Patched(lines, hunks) =
             [done EXCEPT !.out = @ \o Slice(lines, done.source, Len(lines))]
  BY <1>2, <1>14, <1>15
<1>18. QED BY <1>16, <1>17 DEF n

\* One hunk put in the place of its old lines.
SplicedHunk(hunk, acc) ==
  Slice(acc, 0, hunk.start - 1) \o NewLines(hunk)
    \o Slice(acc, hunk.start - 1 + Len(OldLines(hunk)), Len(acc))

\* A sequence of lines again.
LEMMA SplicedType ==
  ASSUME NEW acc \in Seq(LineText), NEW hunk \in PatchHunk, hunk.start >= 1
  PROVE  SplicedHunk(hunk, acc) \in Seq(LineText)
<1>1. OldLines(hunk) \in Seq(LineText) /\ NewLines(hunk) \in Seq(LineText) /\ hunk.start \in Nat
  BY HunkTexts
<1>2. Len(OldLines(hunk)) \in Nat /\ Len(acc) \in Nat
  BY <1>1
<1>3. hunk.start - 1 \in Nat /\ hunk.start - 1 + Len(OldLines(hunk)) \in Nat
  BY <1>1, <1>2
<1>4. /\ Slice(acc, 0, hunk.start - 1) \in Seq(LineText)
      /\ Slice(acc, hunk.start - 1 + Len(OldLines(hunk)), Len(acc)) \in Seq(LineText)
  BY <1>2, <1>3, SliceFacts
<1>5. QED BY <1>1, <1>4, ConcatProperties DEF SplicedHunk

\* What a diff means is put together from the last hunk to the first.
LEMMA MeantByHunks ==
  ASSUME NEW lines \in Seq(LineText), NEW hunks \in Seq(PatchHunk),
         \A i \in DOMAIN hunks : hunks[i].start >= 1
  PROVE  \E rest :
           /\ rest[Len(hunks) + 1] = lines
           /\ \A k \in 1 .. (Len(hunks) + 1) : rest[k] \in Seq(LineText)
           /\ \A k \in 1 .. Len(hunks) : rest[k] = SplicedHunk(hunks[k], rest[k + 1])
           /\ Meant(lines, hunks) = rest[1]
<1> DEFINE n == Len(hunks)
           V == Seq(LineText)
           op == [p \in V \X (1 .. n) |-> SplicedHunk(hunks[p[2]], p[1])]
           Step(f) == [s \in SUBSET (1 .. n) |->
                         IF s = {} THEN lines
                         ELSE SplicedHunk(hunks[Min(s)], f[s \ {Min(s)}])]
           fold == CHOOSE f : f = Step(f)
           Good(k) == k <= n => fold[(n + 1 - k) .. n] \in V
           S == {k \in Nat : Good(k)}
           rest == [k \in 1 .. (n + 1) |-> fold[k .. n]]
<1>1. /\ n \in Nat /\ DOMAIN hunks = 1 .. n
      /\ \A i \in 1 .. n : hunks[i] \in PatchHunk /\ hunks[i].start >= 1
  OBVIOUS
<1>2. Meant(lines, hunks) = fold[1 .. n]
  BY <1>1 DEF Meant, FoldRight, MapThenFoldSet, SplicedHunk
<1> HIDE DEF n, V
<1>3. \A acc \in V : \A i \in 1 .. n : SplicedHunk(hunks[i], acc) \in V
  BY <1>1, SplicedType DEF V
<1>4. op \in [V \X (1 .. n) -> V]
  BY <1>3
<1>5. lines \in V
  BY DEF V
<1>6. PICK f \in [SUBSET (1 .. n) -> V] :
        /\ f = [s \in SUBSET (1 .. n) |->
                  IF s = {} THEN lines ELSE op[<<f[s \ {Min(s)}], Min(s)>>]]
        /\ \A s \in SUBSET (1 .. n) : s # {} => Min(s) \in s
  <2> HIDE DEF op
  <2>1. QED BY <1>1, <1>4, <1>5, FoldsRight
<1>7. f = Step(f)
  <2>1. \A s \in SUBSET (1 .. n) : s # {} => s \ {Min(s)} \in SUBSET (1 .. n) /\ Min(s) \in 1 .. n
    BY <1>6
  <2>2. \A s \in SUBSET (1 .. n) : s # {} =>
          op[<<f[s \ {Min(s)}], Min(s)>>] = SplicedHunk(hunks[Min(s)], f[s \ {Min(s)}])
    BY <1>6, <2>1
  <2> HIDE DEF op
  <2>3. QED BY <1>6, <2>2
<1>8. fold = Step(fold)
  <2> HIDE DEF Step
  <2>1. QED BY <1>7
<1> HIDE DEF fold
<1>9. \A k \in 1 .. n : fold[k .. n] = SplicedHunk(hunks[k], fold[(k + 1) .. n])
  <2>1. SUFFICES ASSUME NEW k \in 1 .. n
                 PROVE  fold[k .. n] = SplicedHunk(hunks[k], fold[(k + 1) .. n])
    OBVIOUS
  <2>2. /\ k .. n \in SUBSET (1 .. n) /\ k .. n # {}
        /\ Min(k .. n) = k /\ (k .. n) \ {k} = (k + 1) .. n
    BY <1>1, SuffixPositions
  <2>3. QED BY <1>8, <2>2
<1>10. fold[(n + 1) .. n] = lines
  <2>1. (n + 1) .. n = {} /\ {} \in SUBSET (1 .. n)
    BY <1>1
  <2>2. fold[{}] = lines
    BY <1>8, <2>1
  <2>3. QED BY <2>1, <2>2
<1>11. ASSUME NEW k \in Nat, Good(k) PROVE Good(k + 1)
  <2>1. SUFFICES ASSUME k + 1 <= n PROVE fold[(n + 1 - (k + 1)) .. n] \in V
    OBVIOUS
  <2>2. n - k \in 1 .. n /\ k <= n /\ n + 1 - (k + 1) = n - k /\ (n - k) + 1 = n + 1 - k
    BY <1>1, <2>1
  <2>3. fold[((n - k) + 1) .. n] \in V
    BY <1>11, <2>2
  <2>4. QED BY <1>3, <1>9, <2>2, <2>3
<1>12. S = Nat
  <2>1. Good(0)
    <3>1. n + 1 - 0 = n + 1
      BY <1>1
    <3>2. QED BY <1>5, <1>10, <3>1
  <2> HIDE DEF Good
  <2>2. S \in SUBSET Nat /\ 0 \in S /\ \A k \in S : k + 1 \in S
    BY <2>1, <1>11
  <2> HIDE DEF S
  <2>3. QED BY <2>2, Counting
<1>13. \A k \in 1 .. (n + 1) : fold[k .. n] \in V
  <2>1. SUFFICES ASSUME NEW k \in 1 .. (n + 1) PROVE fold[k .. n] \in V
    OBVIOUS
  <2>2. n + 1 - k \in Nat /\ n + 1 - k <= n /\ n + 1 - (n + 1 - k) = k
    BY <1>1
  <2>3. Good(n + 1 - k)
    BY <1>12, <2>2
  <2>4. QED BY <2>2, <2>3
<1>14. \A k \in 1 .. (n + 1) : rest[k] = fold[k .. n]
  OBVIOUS
<1>15. /\ 1 \in 1 .. (n + 1) /\ n + 1 \in 1 .. (n + 1)
       /\ \A k \in 1 .. n : k \in 1 .. (n + 1) /\ k + 1 \in 1 .. (n + 1)
  BY <1>1
<1> HIDE DEF rest
<1>16. /\ rest[n + 1] = lines
       /\ \A k \in 1 .. (n + 1) : rest[k] \in V
       /\ \A k \in 1 .. n : rest[k] = SplicedHunk(hunks[k], rest[k + 1])
       /\ Meant(lines, hunks) = rest[1]
  BY <1>2, <1>9, <1>10, <1>13, <1>14, <1>15
<1>17. QED BY <1>16 DEF n, V

\* The lines of a slice within the file.
LEMMA SliceLines ==
  ASSUME NEW lines \in Seq(LineText), NEW from \in Nat, NEW to \in Nat,
         from <= to, to <= Len(lines)
  PROVE  LET part == Slice(lines, from, to)
         IN  /\ part \in Seq(LineText) /\ Len(part) = to - from
             /\ \A i \in 1 .. (to - from) : part[i] = lines[from + i]
<1> DEFINE part == Slice(lines, from, to)
           n == Len(lines)
           first == from + 1
<1>1. n \in Nat /\ \A i \in 1 .. n : lines[i] \in LineText
  OBVIOUS
<1>2. part = SubSeq(lines, first, to) /\ to <= n
  BY SliceFacts
<1> HIDE DEF n
<1>3. \A i \in first .. to : i \in 1 .. n
  BY <1>1, <1>2
<1>4. \A i \in first .. to : lines[i] \in LineText
  BY <1>1, <1>3
<1>5. first \in Int /\ to \in Int /\ to - first + 1 = to - from
  OBVIOUS
<1>6. (IF first <= to THEN to - first + 1 ELSE 0) = to - from
  OBVIOUS
<1>7. \A i \in 1 .. (to - from) : first + i - 1 = from + i
  OBVIOUS
<1> HIDE DEF part, first
<1>8. /\ SubSeq(lines, first, to) \in Seq(LineText)
      /\ Len(SubSeq(lines, first, to)) = IF first <= to THEN to - first + 1 ELSE 0
      /\ \A i \in 1 .. (to - first + 1) : SubSeq(lines, first, to)[i] = lines[first + i - 1]
  BY <1>4, <1>5, SubSeqProperties
<1>9. part \in Seq(LineText) /\ Len(part) = to - from
  BY <1>2, <1>6, <1>8
<1>10. \A i \in 1 .. (to - from) : part[i] = lines[from + i]
  BY <1>2, <1>5, <1>7, <1>8
<1>11. QED BY <1>9, <1>10 DEF part

\* A file is its front and what follows it.
LEMMA SlicesAdjoin ==
  ASSUME NEW lines \in Seq(LineText), NEW from \in Nat, NEW to \in Nat,
         from <= to, to <= Len(lines)
  PROVE  Slice(lines, 0, from) \o Slice(lines, from, to) = Slice(lines, 0, to)
<1> DEFINE n == Len(lines)
<1>1. n \in Nat /\ from <= n /\ 0 \in Nat /\ 0 + 1 = 1
  OBVIOUS
<1>2. /\ Slice(lines, 0, from) = SubSeq(lines, 0 + 1, from)
      /\ Slice(lines, 0, to) = SubSeq(lines, 0 + 1, to)
      /\ Slice(lines, from, to) = SubSeq(lines, from + 1, to)
  <2> DEFINE none == 0
  <2>1. none \in Nat
    OBVIOUS
  <2> HIDE DEF none
  <2>2. /\ Slice(lines, none, from) = SubSeq(lines, none + 1, from)
        /\ Slice(lines, none, to) = SubSeq(lines, none + 1, to)
        /\ Slice(lines, from, to) = SubSeq(lines, from + 1, to)
    BY <1>1, <2>1, SliceFacts DEF n
  <2>3. QED BY <2>2 DEF none
<1>3. 1 \in 1 .. (n + 1) /\ from \in (1 - 1) .. n /\ to \in from .. n
  BY <1>1
<1>4. SubSeq(lines, 1, from) \o SubSeq(lines, from + 1, to) = SubSeq(lines, 1, to)
  BY <1>3, ConcatAdjacentSubSeq DEF n
<1>5. QED BY <1>1, <1>2, <1>4

\* What follows the front part of a sequence.
LEMMA AfterTheFront ==
  ASSUME NEW front \in Seq(LineText), NEW back \in Seq(LineText)
  PROVE  Slice(front \o back, Len(front), Len(front \o back)) = back
<1> DEFINE both == front \o back
           f == Len(front)
           b == Len(back)
           to == Len(both)
           part == Slice(both, f, to)
<1>1. /\ both \in Seq(LineText) /\ Len(both) = f + b
      /\ \A i \in 1 .. (f + b) : both[i] = IF i <= f THEN front[i] ELSE back[i - f]
  BY ConcatProperties
<1>2. f \in Nat /\ b \in Nat
  OBVIOUS
<1> HIDE DEF f, b
<1>3. to = f + b /\ to \in Nat /\ f <= to /\ to <= Len(both) /\ to - f = b
  BY <1>1, <1>2
<1> HIDE DEF both, to
<1>4. /\ part \in Seq(LineText) /\ Len(part) = to - f
      /\ \A i \in 1 .. (to - f) : part[i] = both[f + i]
  BY <1>1, <1>2, <1>3, SliceLines
<1> HIDE DEF part
<1>5. \A i \in 1 .. b : part[i] = back[i]
  <2>1. SUFFICES ASSUME NEW i \in 1 .. b PROVE part[i] = back[i]
    OBVIOUS
  <2> DEFINE j == f + i
  <2>2. j \in 1 .. (f + b) /\ ~(j <= f) /\ j - f = i
    BY <1>2
  <2>3. part[i] = both[j]
    BY <1>3, <1>4
  <2> HIDE DEF j
  <2>4. both[j] = IF j <= f THEN front[j] ELSE back[j - f]
    BY ONLY <1>1, <2>2
  <2>5. QED BY ONLY <2>2, <2>3, <2>4
<1>6. part = back
  <2>1. \A i \in 1 .. Len(part) : part[i] = back[i]
    BY <1>3, <1>4, <1>5
  <2>2. Len(part) = Len(back)
    BY <1>3, <1>4 DEF b
  <2>3. QED BY <1>4, <2>1, <2>2, SeqEqual
<1>7. QED BY <1>6 DEF part, both, f, to

\* Files are joined in any order.
LEMMA LinesJoin ==
  ASSUME NEW r \in Seq(LineText), NEW s \in Seq(LineText), NEW t \in Seq(LineText)
  PROVE  (r \o s) \o t = r \o (s \o t)
BY ConcatAssociative

\* A hunk that stands where its header says is applied there.
LEMMA AppliedInPlace ==
  ASSUME NEW lines \in Seq(LineText), NEW done \in Done, done.fits = TRUE,
         NEW hunk \in PatchHunk, hunk.start >= 1, hunk.start <= Len(lines) + 1,
         StandsAt(lines, hunk.start - 1, OldLines(hunk))
  PROVE  /\ AppliedHunk(lines, done, hunk) =
              [ fits   |-> TRUE,
                out    |-> done.out \o Slice(lines, done.source, hunk.start - 1) \o NewLines(hunk),
                source |-> hunk.start - 1 + Len(OldLines(hunk)) ]
         /\ hunk.start - 1 + Len(OldLines(hunk)) <= Len(lines)
<1> DEFINE starts == HunkStarts(lines, hunk, done.source)
           old == OldLines(hunk)
<1>1. hunk.start \in Nat /\ old \in Seq(LineText) /\ Len(lines) \in Nat
  BY HunkTexts
<1>2. Max({hunk.start - 1, 0}) = hunk.start - 1
  BY <1>1, PreferredStart
<1>3. starts = {hunk.start - 1}
  BY <1>2 DEF HunkStarts
<1> HIDE DEF starts
<1>4. (CHOOSE at \in starts : TRUE) = hunk.start - 1
  BY <1>3
<1>5. ~(~done.fits \/ starts = {})
  BY <1>3
<1>6. AppliedHunk(lines, done, hunk) =
        [ fits   |-> TRUE,
          out    |-> done.out \o Slice(lines, done.source, hunk.start - 1) \o NewLines(hunk),
          source |-> hunk.start - 1 + Len(OldLines(hunk)) ]
  BY <1>4, <1>5 DEF AppliedHunk, Consumed, starts
<1>7. hunk.start - 1 + Len(OldLines(hunk)) <= Len(lines)
  <2>1. old = << >> => Len(old) = 0
    OBVIOUS
  <2>2. old = << >> \/ hunk.start - 1 + Len(old) <= Len(lines)
    BY DEF StandsAt
  <2> HIDE DEF old
  <2>3. QED BY <1>1, <2>1, <2>2 DEF old
<1>8. QED BY <1>6, <1>7

\* The first k lines are those of the file.
Agrees(acc, lines, k) == k <= Len(acc) /\ \A i \in 1 .. k : acc[i] = lines[i]

\* A hunk from one position to another, with an earlier one.
Placed(hunk, from, s, end) ==
  /\ from \in Nat /\ s \in Nat /\ end \in Nat
  /\ s = hunk.start - 1 /\ end = s + Len(OldLines(hunk))
  /\ from <= s /\ s <= end

\* A hunk spliced into lines that are the file's as far as the hunk goes: they still are
\* up to the hunk, and after any earlier position come the file's lines, the hunk's, and
\* what was behind it.
LEMMA SplicedInPlace ==
  ASSUME NEW lines \in Seq(LineText), NEW acc \in Seq(LineText), NEW hunk \in PatchHunk,
         NEW from, NEW s, NEW end, Placed(hunk, from, s, end),
         end <= Len(lines), Agrees(acc, lines, end)
  PROVE  LET meant == SplicedHunk(hunk, acc)
         IN  /\ Agrees(meant, lines, s)
             /\ Slice(meant, from, Len(meant)) =
                  Slice(lines, from, s) \o NewLines(hunk) \o Slice(acc, end, Len(acc))
<1> DEFINE new == NewLines(hunk)
           n == Len(lines)
           m == Len(acc)
           zero == 0
           front == Slice(lines, zero, from)
           gap == Slice(lines, from, s)
           upto == Slice(lines, zero, s)
           other == Slice(acc, zero, s)
           rest == Slice(acc, end, m)
           meant == SplicedHunk(hunk, acc)
           back == gap \o new \o rest
           tail == new \o rest
<1>1. lines \in Seq(LineText) /\ acc \in Seq(LineText) /\ s \in Nat /\ from \in Nat
      /\ from <= s /\ s <= end /\ end \in Nat
  BY DEF Placed
<1>2. new \in Seq(LineText) /\ n \in Nat /\ m \in Nat /\ zero \in Nat
  BY HunkTexts
<1>3. meant = other \o new \o rest
  BY DEF SplicedHunk, Placed
<1>4. end <= n /\ end <= m /\ zero = 0 /\ \A i \in 1 .. end : acc[i] = lines[i]
  BY DEF Agrees
<1> HIDE DEF new, n, m, zero
<1>5. s <= n /\ s <= m /\ zero <= from /\ zero <= s /\ from <= n /\ m <= m
  BY <1>1, <1>2, <1>4
<1>6. /\ upto \in Seq(LineText) /\ Len(upto) = s - zero
      /\ \A i \in 1 .. (s - zero) : upto[i] = lines[zero + i]
  <2>1. zero <= s /\ s <= Len(lines)
    BY <1>5 DEF n
  <2>2. zero \in Nat
    BY <1>2
  <2>3. QED BY ONLY <1>1, <2>1, <2>2, SliceLines
<1>7. /\ other \in Seq(LineText) /\ Len(other) = s - zero
      /\ \A i \in 1 .. (s - zero) : other[i] = acc[zero + i]
  <2>1. zero <= s /\ s <= Len(acc)
    BY <1>5 DEF m
  <2>2. zero \in Nat
    BY <1>2
  <2>3. QED BY ONLY <1>1, <2>1, <2>2, SliceLines
<1>8. front \in Seq(LineText) /\ Len(front) = from - zero
  BY <1>1, <1>2, <1>5, SliceLines DEF n
<1>9. gap \in Seq(LineText) /\ rest \in Seq(LineText)
  <2>1. gap \in Seq(LineText)
    BY <1>1, SliceFacts
  <2>2. rest \in Seq(LineText)
    BY <1>1, <1>2, SliceFacts
  <2>3. QED BY <2>1, <2>2
<1>10. front \o gap = upto
  BY <1>1, <1>5, SlicesAdjoin DEF n, zero
<1> HIDE DEF front, gap, upto, other, rest, meant
<1>11. /\ s - zero = s /\ from - zero = from
       /\ \A i \in 1 .. s : zero + i = i /\ i \in 1 .. end
  BY <1>1, <1>4
<1>12. /\ Len(upto) = s /\ \A i \in 1 .. s : upto[i] = lines[i]
  BY <1>6, <1>11
<1>13. other = upto
  <2>1. \A i \in 1 .. s : other[i] = upto[i]
    BY <1>4, <1>7, <1>11, <1>12
  <2>2. Len(other) = s
    BY <1>7, <1>11
  <2>3. QED BY <1>6, <1>7, <1>12, <2>1, <2>2, SeqEqual
<1>14. back \in Seq(LineText) /\ tail \in Seq(LineText) /\ gap \o new \in Seq(LineText)
  BY <1>2, <1>9, ConcatProperties
<1>15. meant = front \o back
  <2>1. (front \o gap) \o new = front \o (gap \o new)
    BY <1>2, <1>8, <1>9, LinesJoin
  <2>2. (front \o (gap \o new)) \o rest = front \o ((gap \o new) \o rest)
    BY <1>8, <1>9, <1>14, LinesJoin
  <2>3. QED BY <1>3, <1>10, <1>13, <2>1, <2>2
<1>16. Slice(meant, from, Len(meant)) = back
  <2> HIDE DEF back
  <2>1. Len(front) = from
    BY <1>8, <1>11
  <2>2. QED BY <1>8, <1>14, <1>15, <2>1, AfterTheFront
<1>17. Agrees(meant, lines, s)
  <2>1. meant = upto \o tail
    <3>1. (upto \o new) \o rest = upto \o (new \o rest)
      <4>1. upto \in Seq(LineText) /\ new \in Seq(LineText) /\ rest \in Seq(LineText)
        BY <1>2, <1>6, <1>9
      <4>2. QED BY ONLY <4>1, LinesJoin
    <3>2. QED BY <1>3, <1>13, <3>1
  <2> HIDE DEF tail
  <2>2. /\ Len(meant) = s + Len(tail)
        /\ \A i \in 1 .. (s + Len(tail)) :
             meant[i] = IF i <= s THEN upto[i] ELSE tail[i - s]
    <3>1. upto \in Seq(LineText) /\ tail \in Seq(LineText)
      BY <1>6, <1>14
    <3>2. /\ Len(upto \o tail) = Len(upto) + Len(tail)
          /\ \A i \in 1 .. Len(upto) + Len(tail) :
               (upto \o tail)[i] = IF i <= Len(upto) THEN upto[i] ELSE tail[i - Len(upto)]
      BY <3>1, ConcatProperties
    <3>3. QED BY <1>12, <2>1, <3>2
  <2>3. Len(tail) \in Nat
    BY <1>14
  <2>4. \A i \in 1 .. s : i \in 1 .. (s + Len(tail)) /\ i <= s
    BY <1>1, <2>3
  <2>5. QED BY <1>1, <1>12, <2>2, <2>3, <2>4 DEF Agrees
<1>18. QED BY <1>16, <1>17 DEF new, meant, gap, rest, m

\* Where a hunk ends in the file.
EndOf(hunks, k) == IF k = 0 THEN 0 ELSE hunks[k].start - 1 + Len(OldLines(hunks[k]))

\* A hunk in its place, and behind the one before.
LEMMA HunkInPlace ==
  ASSUME NEW lines \in Seq(LineText), NEW hunks \in Seq(PatchHunk),
         InOrder(hunks), InPlace(lines, hunks), NEW k \in 1 .. Len(hunks)
  PROVE  /\ hunks[k] \in PatchHunk /\ hunks[k].start >= 1 /\ hunks[k].start <= Len(lines) + 1
         /\ StandsAt(lines, hunks[k].start - 1, OldLines(hunks[k]))
         /\ hunks[k].start - 1 \in Nat /\ EndOf(hunks, k) \in Nat /\ EndOf(hunks, k - 1) \in Nat
         /\ EndOf(hunks, k) = hunks[k].start - 1 + Len(OldLines(hunks[k]))
         /\ EndOf(hunks, k - 1) <= hunks[k].start - 1
         /\ hunks[k].start - 1 <= EndOf(hunks, k)
<1>1. DOMAIN hunks = 1 .. Len(hunks) /\ k \in Nat /\ k # 0
  OBVIOUS
<1>2. \A i \in 1 .. Len(hunks) : hunks[i] \in PatchHunk /\ hunks[i].start >= 1
  BY <1>1 DEF InOrder
<1>3. \A i \in 1 .. Len(hunks) : hunks[i].start \in Nat /\ Len(OldLines(hunks[i])) \in Nat
  <2>1. SUFFICES ASSUME NEW i \in 1 .. Len(hunks)
                 PROVE  hunks[i].start \in Nat /\ Len(OldLines(hunks[i])) \in Nat
    OBVIOUS
  <2>2. hunks[i].start \in Nat /\ OldLines(hunks[i]) \in Seq(LineText)
    BY <1>2, HunkTexts
  <2>3. QED BY <2>2
<1>4. /\ hunks[k].start <= Len(lines) + 1
      /\ StandsAt(lines, hunks[k].start - 1, OldLines(hunks[k]))
  BY <1>1 DEF InPlace
<1>5. EndOf(hunks, k) = hunks[k].start - 1 + Len(OldLines(hunks[k]))
  BY <1>1 DEF EndOf
<1>6. /\ hunks[k].start - 1 \in Nat /\ EndOf(hunks, k) \in Nat
      /\ hunks[k].start - 1 <= EndOf(hunks, k)
  BY <1>2, <1>3, <1>5
<1>7. EndOf(hunks, k - 1) \in Nat /\ EndOf(hunks, k - 1) <= hunks[k].start - 1
  <2>1. CASE k = 1
    <3>1. k - 1 = 0
      BY <2>1
    <3>2. EndOf(hunks, k - 1) = 0
      BY <3>1 DEF EndOf
    <3>3. QED BY <1>6, <3>2
  <2>2. CASE k # 1
    <3>1. k - 1 \in 1 .. Len(hunks) /\ k - 1 # 0 /\ k \in DOMAIN hunks \ {1}
      BY <1>1, <2>2
    <3>2. hunks[k].start >= hunks[k - 1].start + Len(OldLines(hunks[k - 1]))
      BY <3>1 DEF InOrder
    <3>3. EndOf(hunks, k - 1) = hunks[k - 1].start - 1 + Len(OldLines(hunks[k - 1]))
      BY <3>1 DEF EndOf
    <3> DEFINE a == hunks[k - 1].start
               b == Len(OldLines(hunks[k - 1]))
               c == hunks[k].start
    <3>4. a \in Nat /\ b \in Nat /\ c \in Nat /\ a >= 1
      BY <1>2, <1>3, <3>1
    <3>5. c >= a + b /\ EndOf(hunks, k - 1) = a - 1 + b
      BY <3>2, <3>3
    <3> HIDE DEF a, b, c
    <3>6. EndOf(hunks, k - 1) \in Nat /\ EndOf(hunks, k - 1) <= c - 1
      BY <3>4, <3>5
    <3>7. QED BY <3>6 DEF c
  <2>3. QED BY <2>1, <2>2
<1>8. QED BY <1>2, <1>4, <1>5, <1>6, <1>7

\* A patch made for a file makes of it what the patch means.
LEMMA FittingPatchMeans ==
  ASSUME NEW lines \in Seq(LineText), NEW hunks \in Seq(PatchHunk),
         InOrder(hunks), InPlace(lines, hunks)
  PROVE  Patched(lines, hunks).out = Meant(lines, hunks) /\ Patched(lines, hunks).fits
<1> DEFINE n == Len(hunks)
           End(k) == EndOf(hunks, k)
           Start(k) == hunks[k].start - 1
<1>1. PICK acc :
        /\ acc[0] = NothingDone
        /\ \A k \in 0 .. n : acc[k] \in Done
        /\ \A k \in 1 .. n : acc[k] = AppliedHunk(lines, acc[k - 1], hunks[k])
        /\ LET done == acc[n]
           IN  Patched(lines, hunks) =
                 [done EXCEPT !.out = @ \o Slice(lines, done.source, Len(lines))]
  BY PatchedByHunks
<1>2. \A i \in DOMAIN hunks : hunks[i].start >= 1
  BY DEF InOrder
<1>3. PICK rest :
        /\ rest[n + 1] = lines
        /\ \A k \in 1 .. (n + 1) : rest[k] \in Seq(LineText)
        /\ \A k \in 1 .. n : rest[k] = SplicedHunk(hunks[k], rest[k + 1])
        /\ Meant(lines, hunks) = rest[1]
  BY <1>2, MeantByHunks
<1>4. n \in Nat
  OBVIOUS
<1>5. \A k \in 1 .. n :
        /\ hunks[k] \in PatchHunk /\ hunks[k].start >= 1 /\ hunks[k].start <= Len(lines) + 1
        /\ StandsAt(lines, Start(k), OldLines(hunks[k]))
        /\ Start(k) \in Nat /\ End(k) \in Nat /\ End(k - 1) \in Nat
        /\ End(k) = Start(k) + Len(OldLines(hunks[k]))
        /\ End(k - 1) <= Start(k) /\ Start(k) <= End(k)
  BY HunkInPlace
<1>6. \A k \in 1 .. n : End(k) <= Len(lines)
  <2>1. SUFFICES ASSUME NEW k \in 1 .. n PROVE End(k) <= Len(lines)
    OBVIOUS
  <2>2. NothingDone \in Done /\ NothingDone.fits = TRUE
    BY DEF NothingDone, Done
  <2>3. hunks[k].start - 1 + Len(OldLines(hunks[k])) <= Len(lines)
    BY <1>5, <2>2, AppliedInPlace
  <2>4. QED BY <1>5, <2>3
<1>7. End(0) = 0
  BY DEF EndOf
<1> HIDE DEF n, End
<1> DEFINE Agree(k) == Agrees(rest[k + 1], lines, End(k))
<1>8. ASSUME NEW k \in 1 .. n, Agree(k)
      PROVE  /\ Agree(k - 1)
             /\ Slice(rest[k], End(k - 1), Len(rest[k])) =
                  Slice(lines, End(k - 1), Start(k)) \o NewLines(hunks[k])
                    \o Slice(rest[k + 1], End(k), Len(rest[k + 1]))
  <2> DEFINE s == Start(k)
             behind == rest[k + 1]
             meant == SplicedHunk(hunks[k], behind)
             from == End(k - 1)
             end == End(k)
  <2>1. k \in 1 .. (n + 1) /\ k + 1 \in 1 .. (n + 1) /\ (k - 1) + 1 = k
    BY <1>4
  <2>2. behind \in Seq(LineText) /\ rest[k] = meant /\ rest[k] \in Seq(LineText)
    BY <1>3, <2>1
  <2>3. /\ hunks[k] \in PatchHunk /\ end <= Len(lines)
        /\ Placed(hunks[k], from, s, end)
    BY <1>5, <1>6 DEF Placed
  <2>4. Agrees(behind, lines, end)
    BY <1>8
  <2> HIDE DEF s, behind, from, end
  <2>5. /\ Agrees(meant, lines, s)
        /\ Slice(meant, from, Len(meant)) =
             Slice(lines, from, s) \o NewLines(hunks[k]) \o Slice(behind, end, Len(behind))
    <3>1. lines \in Seq(LineText)
      OBVIOUS
    <3>2. QED BY ONLY <2>2, <2>3, <2>4, <3>1, SplicedInPlace
  <2> HIDE DEF meant
  <2>6. Len(meant) \in Nat
    BY <2>2
  <2>7. from <= Len(meant) /\ \A i \in 1 .. from : i \in 1 .. s
    BY <2>3, <2>5, <2>6 DEF Agrees, Placed
  <2>8. Agree(k - 1)
    BY <2>1, <2>2, <2>5, <2>7 DEF from, Agrees
  <2>9. QED BY <2>2, <2>5, <2>8 DEF s, behind, from, end
<1>9. \A k \in 0 .. n : Agree(k)
  <2> DEFINE Good(j) == j <= n => Agree(n - j)
             S == {j \in Nat : Good(j)}
  <2>1. Good(0)
    <3>1. Agree(n)
      <4>1. n = 0 \/ n \in 1 .. n
        BY <1>4
      <4>2. End(n) <= Len(lines)
        <5>1. Len(lines) \in Nat
          OBVIOUS
        <5>2. QED BY <1>6, <1>7, <4>1, <5>1
      <4>3. QED BY <1>3, <4>2 DEF Agrees
    <3>2. n - 0 = n
      BY <1>4
    <3> HIDE DEF Agree
    <3>3. QED BY <3>1, <3>2
  <2>2. ASSUME NEW j \in Nat, Good(j) PROVE Good(j + 1)
    <3>1. SUFFICES ASSUME j + 1 <= n PROVE Agree(n - (j + 1))
      OBVIOUS
    <3>2. n - j \in 1 .. n /\ j <= n /\ (n - j) - 1 = n - (j + 1)
      BY <1>4, <3>1
    <3>3. Agree(n - j)
      BY <2>2, <3>2
    <3> HIDE DEF Agree
    <3>4. Agree((n - j) - 1)
      BY <1>8, <3>2, <3>3
    <3>5. QED BY <3>2, <3>4
  <2>3. S = Nat
    <3> HIDE DEF Good
    <3>1. S \in SUBSET Nat /\ 0 \in S /\ \A j \in S : j + 1 \in S
      BY <2>1, <2>2
    <3> HIDE DEF S
    <3>2. QED BY <3>1, Counting
  <2>4. SUFFICES ASSUME NEW k \in 0 .. n PROVE Agree(k)
    OBVIOUS
  <2>5. n - k \in Nat /\ n - k <= n /\ n - (n - k) = k
    BY <1>4
  <2>6. Good(n - k)
    <3> HIDE DEF Good
    <3>1. QED BY <2>3, <2>5
  <2> HIDE DEF Agree
  <2>7. QED BY <2>5, <2>6
<1> HIDE DEF Agree
<1> DEFINE Exact(k) ==
             /\ acc[k].fits = TRUE /\ acc[k].source = End(k)
             /\ acc[k].out \o Slice(rest[k + 1], End(k), Len(rest[k + 1])) = rest[1]
<1>10. Exact(0)
  <2>1. acc[0].fits = TRUE /\ acc[0].source = 0 /\ acc[0].out = << >>
    BY <1>1 DEF NothingDone
  <2>2. rest[1] \in Seq(LineText) /\ 0 + 1 = 1
    BY <1>3, <1>4
  <2>3. Slice(rest[1], 0, Len(rest[1])) = rest[1]
    <3> DEFINE none == 0
               m == Len(rest[1])
    <3>1. none \in Nat /\ m \in Nat /\ m <= m
      BY <2>2
    <3> HIDE DEF none
    <3>2. Slice(rest[1], none, m) = SubSeq(rest[1], none + 1, m)
      BY <2>2, <3>1, SliceFacts
    <3>3. Slice(rest[1], 0, m) = SubSeq(rest[1], 0 + 1, m)
      BY <3>2 DEF none
    <3>4. SubSeq(rest[1], 1, m) = rest[1]
      BY <2>2, SubSeqFull
    <3>5. QED BY <2>2, <3>3, <3>4
  <2>4. << >> \o rest[1] = rest[1]
    BY <2>2, ConcatEmptySeq
  <2>5. QED BY <1>7, <2>1, <2>2, <2>3, <2>4
<1>11. ASSUME NEW k \in 1 .. n, Exact(k - 1) PROVE Exact(k)
  <2> DEFINE done == acc[k - 1]
             o == done.out
             g == Slice(lines, End(k - 1), Start(k))
             w == NewLines(hunks[k])
             t == Slice(rest[k + 1], End(k), Len(rest[k + 1]))
  <2>1. k - 1 \in 0 .. n /\ k \in 0 .. n /\ (k - 1) + 1 = k /\ k + 1 \in 1 .. (n + 1)
    BY <1>4
  <2>2. done \in Done /\ done.fits = TRUE /\ done.source = End(k - 1)
    BY <1>1, <1>11, <2>1
  <2>3. o \o Slice(rest[k], End(k - 1), Len(rest[k])) = rest[1]
    BY <1>11, <2>1
  <2>4. Slice(rest[k], End(k - 1), Len(rest[k])) = (g \o w) \o t
    BY <1>8, <1>9, <2>1
  <2>5. /\ o \in Seq(LineText) /\ g \in Seq(LineText) /\ w \in Seq(LineText) /\ t \in Seq(LineText)
    <3>1. o \in Seq(LineText)
      BY <2>2 DEF Done
    <3>2. g \in Seq(LineText) /\ w \in Seq(LineText)
      BY <1>5, SliceFacts, HunkTexts
    <3>3. rest[k + 1] \in Seq(LineText) /\ End(k) \in Nat
      BY <1>3, <1>5, <2>1
    <3>4. Len(rest[k + 1]) \in Nat
      BY <3>3
    <3>5. t \in Seq(LineText)
      BY <3>3, <3>4, SliceFacts
    <3>6. QED BY <3>1, <3>2, <3>5
  <2>6. acc[k] = [ fits |-> TRUE, out |-> (o \o g) \o w, source |-> End(k) ]
    <3>1. acc[k] = AppliedHunk(lines, done, hunks[k])
      BY <1>1
    <3>2. AppliedHunk(lines, done, hunks[k]) =
            [ fits   |-> TRUE,
              out    |-> done.out \o Slice(lines, done.source, hunks[k].start - 1) \o NewLines(hunks[k]),
              source |-> hunks[k].start - 1 + Len(OldLines(hunks[k])) ]
      <4> HIDE DEF done
      <4>1. QED BY <1>5, <2>2, AppliedInPlace
    <3>3. QED BY <1>5, <2>2, <3>1, <3>2
  <2> HIDE DEF done, o, g, w, t
  <2>7. ((o \o g) \o w) \o t = o \o ((g \o w) \o t)
    <3>1. (o \o g) \o w = o \o (g \o w)
      BY ONLY <2>5, LinesJoin
    <3>0. g \o w \in Seq(LineText)
      BY ONLY <2>5, ConcatProperties
    <3>2. (o \o (g \o w)) \o t = o \o ((g \o w) \o t)
      BY ONLY <2>5, <3>0, LinesJoin
    <3>3. QED BY <3>1, <3>2
  <2>8. acc[k].fits = TRUE /\ acc[k].source = End(k) /\ acc[k].out = (o \o g) \o w
    BY <2>6
  <2>9. acc[k].out \o t = rest[1]
    BY <2>3, <2>4, <2>7, <2>8
  <2>10. QED BY <2>8, <2>9 DEF t
<1>12. Exact(n)
  <2> DEFINE Good(k) == k <= n => Exact(k)
             S == {k \in Nat : Good(k)}
  <2> HIDE DEF Exact
  <2>1. Good(0)
    BY <1>10
  <2>2. ASSUME NEW k \in Nat, Good(k) PROVE Good(k + 1)
    <3>1. SUFFICES ASSUME k + 1 <= n PROVE Exact(k + 1)
      OBVIOUS
    <3>2. k + 1 \in 1 .. n /\ k <= n /\ (k + 1) - 1 = k
      BY <1>4, <3>1
    <3>3. Exact(k)
      BY <2>2, <3>2
    <3>4. Exact((k + 1) - 1)
      BY <3>2, <3>3
    <3>5. QED BY <1>11, <3>2, <3>4
  <2>3. S = Nat
    <3> HIDE DEF Good
    <3>1. S \in SUBSET Nat /\ 0 \in S /\ \A j \in S : j + 1 \in S
      BY <2>1, <2>2
    <3> HIDE DEF S
    <3>2. QED BY <3>1, Counting
  <2>4. Good(n)
    <3> HIDE DEF Good
    <3>1. QED BY <1>4, <2>3
  <2>5. n <= n
    BY <1>4
  <2>6. QED BY <2>4, <2>5
<1>13. /\ Patched(lines, hunks).out = acc[n].out \o Slice(lines, acc[n].source, Len(lines))
       /\ Patched(lines, hunks).fits = acc[n].fits
  <2>1. acc[n] \in Done
    BY <1>1, <1>4
  <2>2. QED BY <1>1, <2>1 DEF Done
<1>14. QED BY <1>3, <1>12, <1>13

\* The lines of a file, and the hunks for it.
LEMMA FileFacts ==
  /\ Absent \in Seq(LineText)
  /\ \A content \in Seq(LineText) : Lines(content) \in Seq(LineText)
  /\ \A file_patch \in PatchFile : file_patch.hunks \in Seq(PatchHunk)
<1>1. \A text \in LineText : <<text>> \in Seq(LineText)
  OBVIOUS
<1>2. "absent" \in LineText
  BY DEF LineText
<1>3. Absent \in Seq(LineText)
  BY <1>1, <1>2 DEF Absent
<1>4. << >> \in Seq(LineText)
  OBVIOUS
<1>5. \A content \in Seq(LineText) : Lines(content) \in Seq(LineText)
  BY <1>4 DEF Lines
<1>6. \A file_patch \in PatchFile : file_patch.hunks \in Seq(PatchHunk)
  BY DEF PatchFile
<1>7. QED BY <1>3, <1>5, <1>6

\* What a file patch makes of a file is lines again.
LEMMA OutcomesAreLines ==
  ASSUME NEW content \in Seq(LineText), NEW file_patch \in PatchFile
  PROVE  Outcomes(content, file_patch) \subseteq Seq(LineText)
<1> DEFINE lines == Lines(content)
           hunks == file_patch.hunks
<1>1. lines \in Seq(LineText) /\ hunks \in Seq(PatchHunk)
  BY FileFacts
<1>2. Absent \in Seq(LineText)
  BY FileFacts
<1> HIDE DEF lines, hunks
<1>3. PICK acc :
        /\ \A k \in 0 .. Len(hunks) : acc[k] \in Done
        /\ LET done == acc[Len(hunks)]
           IN  Patched(lines, hunks) =
                 [done EXCEPT !.out = @ \o Slice(lines, done.source, Len(lines))]
  BY <1>1, PatchedByHunks
<1> DEFINE done == acc[Len(hunks)]
<1>4. Len(hunks) \in Nat /\ Len(lines) \in Nat
  BY <1>1
<1>5. done \in Done
  BY <1>3, <1>4
<1>6. Patched(lines, hunks).out = done.out \o Slice(lines, done.source, Len(lines))
  BY <1>3, <1>5 DEF Done
<1>7. done.out \in Seq(LineText) /\ done.source \in Nat
  BY <1>5 DEF Done
<1> HIDE DEF done
<1>8. Slice(lines, done.source, Len(lines)) \in Seq(LineText)
  BY <1>1, <1>4, <1>7, SliceFacts
<1>9. Patched(lines, hunks).out \in Seq(LineText)
  BY <1>6, <1>7, <1>8, ConcatProperties
<1>10. QED BY <1>2, <1>9 DEF Outcomes, lines, hunks

\* So is what the fallback makes of the target.
LEMMA FallbacksAreLines ==
  ASSUME repo \in [Files -> Seq(LineText)], patch \in Seq(PatchFile)
  PROVE  Fallbacks(patch) \subseteq Seq(LineText)
<1> SUFFICES ASSUME NEW content \in Fallbacks(patch) PROVE content \in Seq(LineText)
  OBVIOUS
<1> DEFINE lines == repo[target]
           hunk == patch[1].hunks[1]
           added == Added(hunk)
<1>1. lines \in Seq(LineText) /\ content \in LineEdited(lines, patch)
  BY DEF Fallbacks
<1>2. OneHunk(patch)
  BY <1>1 DEF LineEdited
<1>3. hunk \in PatchHunk
  <2>1. patch[1] \in PatchFile
    <3>1. 1 \in 1 .. Len(patch)
      BY <1>2 DEF OneHunk
    <3>2. QED BY <3>1, ElementOfSeq
  <2>2. patch[1].hunks \in Seq(PatchHunk)
    BY <2>1, FileFacts
  <2>3. 1 \in 1 .. Len(patch[1].hunks)
    BY <1>2 DEF OneHunk
  <2>4. QED BY <2>2, <2>3, ElementOfSeq
<1>4. added \in Seq(LineText)
  BY <1>3, HunkTexts
<1> HIDE DEF lines
<1>5. \E at \in Nat, n \in Nat : content = Spliced(lines, at, n, added)
  <2>1. \A at \in Found(lines, Removed(hunk)) : at \in Nat
    <3> DEFINE m == Len(lines) - Len(Removed(hunk))
    <3>1. Len(lines) \in Nat
      BY <1>1
    <3>2. Len(Removed(hunk)) \in Nat
      BY <1>3, HunkTexts
    <3>3. m \in Int
      BY <3>1, <3>2
    <3> HIDE DEF m, hunk
    <3>4. \A at \in 0 .. m : at \in Nat
      BY <3>3
    <3>5. QED BY <3>4 DEF Found, m
  <2>2. \A at \in InsertionLines(lines, hunk) : at \in Nat
    <3>1. \A at \in DOMAIN lines : at \in Nat
      BY <1>1
    <3>2. QED BY <3>1 DEF InsertionLines
  <2>3. Len(added) \in Nat /\ 1 \in Nat
    BY <1>4
  <2> HIDE DEF hunk, added
  <2>4. \/ \E at \in Found(lines, Removed(hunk)) : content = Spliced(lines, at, Len(added), added)
        \/ \E at \in InsertionLines(lines, hunk) : content = Spliced(lines, at, 1, added)
    BY <1>1 DEF LineEdited, hunk, added
  <2>5. QED BY <2>1, <2>2, <2>3, <2>4
<1>6. PICK at \in Nat, n \in Nat : content = Spliced(lines, at, n, added)
  BY <1>5
<1> HIDE DEF added
<1>7. Slice(lines, 0, at) \in Seq(LineText) /\ Slice(lines, at + n, Len(lines)) \in Seq(LineText)
  <2> DEFINE none == 0
             m == Len(lines)
             to == at + n
  <2>1. none \in Nat /\ m \in Nat /\ to \in Nat
    BY <1>1
  <2> HIDE DEF none, m, to
  <2>2. Slice(lines, none, at) \in Seq(LineText) /\ Slice(lines, to, m) \in Seq(LineText)
    BY <1>1, <2>1, SliceFacts
  <2>3. QED BY <2>2 DEF none, m, to
<1>8. QED BY <1>4, <1>6, <1>7, ConcatProperties DEF Spliced

\* Files are lines, and the one file of a patch that was applied is what the patch made
\* of the file it was made for.
FilesInv ==
  /\ baseline \in [Files -> Seq(LineText)]
  /\ repo \in [Files -> Seq(LineText)]
  /\ before \in [Files -> Seq(LineText)]
  /\ patch \in Seq(PatchFile)
  /\ phase = "applying" /\ written = 0 => repo = before
  /\ outcome = "applied" /\ phase # "ended" /\ Len(patch) = 1 =>
       /\ Safe
       /\ repo[patch[1].path] \in Outcomes(before[patch[1].path], patch[1])

\* The snapshot is one of the sandboxes.
LEMMA FilesInit == PatcherInit => FilesInv
<1> SUFFICES ASSUME PatcherInit PROVE FilesInv
  OBVIOUS
<1>1. baseline \in [Files -> Seq(LineText)]
  <2>1. Seq(STRING) \subseteq Seq(LineText)
    <3>1. STRING \subseteq LineText
      BY DEF LineText
    <3>2. QED BY <3>1, SeqMonotonic
  <2>2. baseline \in [Files -> Seq(STRING)]
    BY BaselineAssumption DEF PatcherInit
  <2>3. QED BY <2>1, <2>2
<1>2. /\ repo = baseline /\ before = baseline /\ patch = << >>
      /\ phase = "idle" /\ outcome = "none"
  BY DEF PatcherInit
<1>3. << >> \in Seq(PatchFile)
  OBVIOUS
<1>4. QED BY <1>1, <1>2, <1>3 DEF FilesInv

\* Every step keeps it.
LEMMA FilesStep ==
  PatcherInv /\ FilesInv /\ [PatcherNext]_patchVars => FilesInv'
<1> SUFFICES ASSUME PatcherInv, FilesInv, [PatcherNext]_patchVars PROVE FilesInv'
  OBVIOUS
<1>1. ASSUME NEW p \in Patches, NEW t \in PlanTargets, Submit(p, t) PROVE FilesInv'
  <2>1. /\ repo' = repo /\ before' = repo /\ patch' = p /\ baseline' = baseline
        /\ outcome' \in {"none", "rejected"}
    BY <1>1 DEF Submit
  <2>2. p \in Seq(PatchFile)
    BY PatchAssumption
  <2>3. QED BY <2>1, <2>2 DEF FilesInv
<1>2. CASE ApplyFile
  <2> DEFINE at == written + 1
             file == patch[at].path
  <2>1. /\ UNCHANGED <<baseline, patch, before>>
        /\ phase = "applying" /\ written < Len(patch) /\ written' = at
        /\ outcome' = (IF written' = Len(patch) THEN "applied" ELSE "none")
    BY <1>2 DEF ApplyFile
  <2>2. PICK content \in Outcomes(repo[file], patch[at]) :
          repo' = [repo EXCEPT ![file] = content]
    BY <1>2 DEF ApplyFile
  <2>3. written \in Nat /\ at \in DOMAIN patch /\ at # 0 /\ patch[at] \in PatchFile
    <3>1. written \in Nat /\ patch \in Seq(PatchFile)
      BY DEF PatcherInv, FilesInv
    <3>2. QED BY <2>1, <3>1
  <2>4. file \in Files
    BY <2>1, <2>3 DEF PatcherInv, Safe
  <2>5. content \in Seq(LineText)
    <3>1. repo[file] \in Seq(LineText)
      BY <2>4 DEF FilesInv
    <3>2. QED BY <2>2, <2>3, <3>1, OutcomesAreLines
  <2>6. repo' \in [Files -> Seq(LineText)] /\ repo'[file] = content
    BY <2>2, <2>4, <2>5 DEF FilesInv
  <2>7. ASSUME outcome' = "applied", Len(patch) = 1
        PROVE  repo'[patch[1].path] \in Outcomes(before[patch[1].path], patch[1])
    <3>1. written = 0 /\ at = 1
      BY <2>1, <2>3, <2>7
    <3>2. repo = before
      BY <2>1, <3>1 DEF FilesInv
    <3>3. QED BY <2>2, <2>4, <2>6, <3>1, <3>2
  <2> HIDE DEF at, file
  <2>8. ~(written' = 0)
    BY <2>1, <2>3
  <2>9. Safe /\ Safe'
    BY <2>1 DEF PatcherInv, Safe
  <2>10. QED BY <2>1, <2>6, <2>7, <2>8, <2>9 DEF FilesInv
<1>3. CASE Mismatch
  <2>1. /\ UNCHANGED <<repo, baseline, patch, before, outcome>>
        /\ phase = "applying" /\ phase' = "mismatch"
    BY <1>3 DEF Mismatch
  <2>2. outcome = "none"
    BY <2>1 DEF PatcherInv
  <2>3. QED BY <2>1, <2>2 DEF FilesInv
<1>4. CASE FallbackRaises
  <2>1. /\ UNCHANGED <<repo, baseline, patch, before>>
        /\ phase' = "idle" /\ outcome' = "raised"
    BY <1>4 DEF FallbackRaises
  <2>2. QED BY <2>1 DEF FilesInv
<1>5. CASE Fallback
  <2>1. /\ UNCHANGED <<baseline, patch, before>> /\ phase' = "idle"
    BY <1>5 DEF Fallback
  <2>2. CASE Fallbacks(patch) = {}
    <3>1. outcome' = "rejected" /\ repo' = repo
      BY <1>5, <2>2 DEF Fallback
    <3>2. QED BY <2>1, <3>1 DEF FilesInv
  <2>3. CASE Fallbacks(patch) # {}
    <3>1. PICK content \in Fallbacks(patch) :
            outcome' = "fallback" /\ repo' = [repo EXCEPT ![target] = content]
      BY <1>5, <2>3 DEF Fallback
    <3>2. content \in Seq(LineText)
      BY <3>1, FallbacksAreLines DEF FilesInv
    <3>3. repo' \in [Files -> Seq(LineText)]
      BY <3>1, <3>2 DEF FilesInv
    <3>4. QED BY <2>1, <3>1, <3>3 DEF FilesInv
  <2>4. QED BY <2>2, <2>3
<1>6. CASE RollBack
  <2>1. /\ UNCHANGED <<baseline, patch, before>>
        /\ repo' = baseline /\ phase' = "ended"
    BY <1>6 DEF RollBack, Restored
  <2>2. QED BY <2>1 DEF FilesInv
<1>7. CASE UNCHANGED patchVars
  BY <1>7 DEF FilesInv, Safe, patchVars
<1>8. QED
  BY <1>1, <1>2, <1>3, <1>4, <1>5, <1>6, <1>7 DEF PatcherNext

\* It holds whatever is submitted.
LEMMA FilesInvariant == PatcherSpec => [](PatcherInv /\ FilesInv)
<1>1. PatcherInit => PatcherInv /\ FilesInv
  BY PatcherInitInv, FilesInit
<1>2. PatcherInv /\ FilesInv /\ [PatcherNext]_patchVars => (PatcherInv /\ FilesInv)'
  BY PatcherStepInv, FilesStep
<1>3. QED BY <1>1, <1>2, PTL DEF PatcherSpec

\* A patch of one file of the sandbox that was made for it as it is.
Fitting ==
  /\ Safe /\ Len(patch) = 1 /\ ~patch[1].delete
  /\ InOrder(patch[1].hunks)
  /\ InPlace(Lines(before[patch[1].path]), patch[1].hunks)

\* Its one file patch comes out, as what it means.
LEMMA FittingComesOut ==
  ASSUME FilesInv, Fitting
  PROVE  Outcomes(before[patch[1].path], patch[1])
           = {Meant(Lines(before[patch[1].path]), patch[1].hunks)}
<1> DEFINE file == patch[1].path
           hunks == patch[1].hunks
           lines == Lines(before[file])
<1>1. patch \in Seq(PatchFile) /\ 1 \in DOMAIN patch /\ 1 \in 1 .. Len(patch)
  BY DEF FilesInv, Fitting
<1>2. file \in Files
  BY <1>1 DEF Fitting, Safe
<1>3. before[file] \in Seq(LineText)
  BY <1>2 DEF FilesInv
<1>4. patch[1] \in PatchFile
  BY <1>1, ElementOfSeq
<1>5. hunks \in Seq(PatchHunk) /\ lines \in Seq(LineText)
  BY <1>3, <1>4, FileFacts
<1>6. InOrder(hunks) /\ InPlace(lines, hunks) /\ ~patch[1].delete
  BY DEF Fitting
<1>7. Outcomes(before[file], patch[1]) =
        LET done == Patched(lines, hunks) IN {out \in {done.out} : done.fits}
  BY <1>6 DEF Outcomes
<1> HIDE DEF lines, hunks
<1>8. Patched(lines, hunks).out = Meant(lines, hunks) /\ Patched(lines, hunks).fits
  BY <1>5, <1>6, FittingPatchMeans
<1>9. Outcomes(before[file], patch[1]) = {Meant(lines, hunks)}
  BY <1>7, <1>8
<1>10. QED BY <1>9 DEF lines, hunks

\* A patch made for the file as it is, with any number of hunks, does to it exactly what
\* the diff means, and nothing else: FittingPatchIsExact is invariant.
THEOREM FittingPatches == PatcherSpec => []FittingPatchIsExact
<1>1. FilesInv /\ PatcherInv => FittingPatchIsExact
  <2> SUFFICES ASSUME FilesInv, PatcherInv, AppliedToOneFile, InOrder(patch[1].hunks),
                      InPlace(Lines(before[patch[1].path]), patch[1].hunks)
               PROVE  repo[patch[1].path] = Meant(Lines(before[patch[1].path]), patch[1].hunks)
    BY DEF FittingPatchIsExact
  <2>1. repo[patch[1].path] \in Outcomes(before[patch[1].path], patch[1])
    BY DEF FilesInv, AppliedToOneFile
  <2>2. Fitting
    BY DEF FilesInv, AppliedToOneFile, Fitting
  <2>3. QED BY <2>1, <2>2, FittingComesOut
<1>2. PatcherSpec => [](PatcherInv /\ FilesInv)
  BY FilesInvariant
<1>3. QED BY <1>1, <1>2, PTL

\* Nor is it ever anything but applied: a patch that fits is neither rejected nor left
\* to the fallback, which reads the target and may raise.
FittingPatchIsTaken == Fitting => phase # "mismatch" /\ outcome \in {"none", "applied"}

\* A mismatch would need a file patch that comes to nothing.
LEMMA TakenStep ==
  PatcherInv /\ FilesInv /\ FittingPatchIsTaken /\ [PatcherNext]_patchVars => FittingPatchIsTaken'
<1> SUFFICES ASSUME PatcherInv, FilesInv, FittingPatchIsTaken, [PatcherNext]_patchVars
             PROVE  FittingPatchIsTaken'
  OBVIOUS
<1>1. ASSUME NEW p \in Patches, NEW t \in PlanTargets, Submit(p, t) PROVE FittingPatchIsTaken'
  <2>1. /\ repo' = repo /\ before' = repo /\ patch' = p
        /\ phase' # "mismatch"
        /\ outcome' = "none" \/ ~Reportable(p)
    BY <1>1 DEF Submit
  <2>2. Safe' => Reportable(p)
    BY <2>1 DEF Safe, Reportable
  <2>3. QED BY <2>1, <2>2 DEF FittingPatchIsTaken, Fitting
<1>2. CASE ApplyFile
  <2>1. /\ UNCHANGED <<patch, before>>
        /\ phase' # "mismatch" /\ outcome' \in {"none", "applied"}
    BY <1>2 DEF ApplyFile
  <2>2. QED BY <2>1 DEF FittingPatchIsTaken
<1>3. CASE Mismatch
  <2> SUFFICES ASSUME Fitting' PROVE FALSE
    BY DEF FittingPatchIsTaken
  <2>1. /\ UNCHANGED <<patch, before>> /\ phase = "applying" /\ written < Len(patch)
        /\ Outcomes(repo[patch[written + 1].path], patch[written + 1]) = {}
    BY <1>3 DEF Mismatch
  <2>2. Fitting
    BY <2>1 DEF Fitting, Safe
  <2>3. written = 0 /\ written + 1 = 1
    BY <2>1, <2>2 DEF PatcherInv, Fitting
  <2>4. repo = before
    BY <2>1, <2>3 DEF FilesInv
  <2>5. Outcomes(before[patch[1].path], patch[1]) = {}
    BY <2>1, <2>3, <2>4
  <2>6. QED BY <2>2, <2>5, FittingComesOut
<1>4. CASE FallbackRaises
  <2>1. UNCHANGED <<patch, before>> /\ phase = "mismatch"
    BY <1>4 DEF FallbackRaises
  <2>2. QED BY <2>1 DEF FittingPatchIsTaken, Fitting, Safe
<1>5. CASE Fallback
  <2>1. UNCHANGED <<patch, before>> /\ phase = "mismatch"
    BY <1>5 DEF Fallback
  <2>2. QED BY <2>1 DEF FittingPatchIsTaken, Fitting, Safe
<1>6. CASE RollBack
  <2>1. UNCHANGED <<patch, before, outcome>> /\ phase' = "ended"
    BY <1>6 DEF RollBack
  <2>2. QED BY <2>1 DEF FittingPatchIsTaken, Fitting, Safe
<1>7. CASE UNCHANGED patchVars
  BY <1>7 DEF FittingPatchIsTaken, Fitting, Safe, patchVars
<1>8. QED
  BY <1>1, <1>2, <1>3, <1>4, <1>5, <1>6, <1>7 DEF PatcherNext

\* It holds of any number of patches and of any number of hunks.
THEOREM FittingPatchesAreTaken == PatcherSpec => []FittingPatchIsTaken
<1>1. PatcherInit => FittingPatchIsTaken
  BY DEF PatcherInit, FittingPatchIsTaken
<1>2. PatcherSpec => [](PatcherInv /\ FilesInv)
  BY FilesInvariant
<1>3. QED BY <1>1, <1>2, TakenStep, PTL DEF PatcherSpec
=============================================================================
