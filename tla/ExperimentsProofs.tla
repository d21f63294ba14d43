-------------------------- MODULE ExperimentsProofs --------------------------
(***************************************************************************)
(* For any API, any thresholds and any number of steps: the merged         *)
(* controller of rnos/hybrid.py ends a run no later than its parts, and    *)
(* with a policy that refuses at 10 or below an outage is refused, and     *)
(* with the experiments' own, noise is forgiven.  For any targets and any  *)
(* number of turns: when the adversary showcases report a trip, what they  *)
(* execute after it, how many steps they refuse in a row, and which        *)
(* variants of the audits nobody can tell apart.  For any calls in any     *)
(* order: a monitor's reference of actions is set once.  For any trace:    *)
(* what the coherence analysis can report of it.                           *)
(***************************************************************************)
EXTENDS Experiments, Showcases, TLAPS, SequenceTheorems, FiniteSetTheorems,
        WellFoundedInduction

Fates == {"pending", "success", "failure"}
StepRecords == [allowed : BOOLEAN, outcome : Fates]

\* Records as a controller leaves them: of a refused step no outcome is known.
Honest(records) ==
  /\ records \in Seq(StepRecords)
  /\ \A i \in DOMAIN records : records[i].outcome # "pending" => records[i].allowed

\* The latest record, if there is one, is of a permitted step.
Admitting(records) == records # << >> => records[Len(records)].allowed

-----------------------------------------------------------------------------
(* The coherence proxy.                                                    *)

\* A quotient of at least 450 is not rounded below it.
LEMMA RoundedFloor ==
  ASSUME NEW n \in Nat, NEW d \in Nat \ {0}, n >= 450 * d
  PROVE  Rounded(n, d) >= 450
<1>1. n \div d \in Int /\ n % d \in Int
  OBVIOUS
<1>2. n \div d >= 450
  OBVIOUS
<1>3. QED BY <1>1, <1>2 DEF Rounded

\* Copies are counted in natural numbers.
LEMMA CopiesAreNat ==
  ASSUME NEW S, NEW records \in Seq(S), NEW record
  PROVE  CopiesOf(record, records) \in Nat
<1> DEFINE found == {i \in DOMAIN records : records[i] = record}
<1>1. IsFiniteSet(1..Len(records))
  BY FS_Interval
<1>2. found \subseteq 1..Len(records)
  OBVIOUS
<1>3. IsFiniteSet(found)
  BY <1>1, <1>2, FS_Subset
<1>4. QED BY <1>3, FS_CardinalityType DEF CopiesOf

\* While no refused step's outcome is known the proxy is at least 0.45, however
\* many of the permitted steps failed.
LEMMA ProxyIsHealthy ==
  ASSUME NEW records, Honest(records)
  PROVE  CoherenceSeverity(Lambda(records)) = 0
<1> DEFINE Kind(allowed, outcome) == [allowed |-> allowed, outcome |-> outcome]
           Count(allowed, outcome) == CopiesOf(Kind(allowed, outcome), records)
           won == Count(TRUE, "success")
           lost == Count(TRUE, "failure")
           share == 1000 * (won * 720 + lost * 400 + 0 * 432 + 0 * 225)
           whole == 720 * (won + lost + 0 + 0)
<1>1. won \in Nat /\ lost \in Nat
  BY CopiesAreNat DEF Honest
<1>2. ASSUME NEW outcome \in {"success", "failure"}
      PROVE  Count(FALSE, outcome) = 0
  <2>1. {i \in DOMAIN records : records[i] = Kind(FALSE, outcome)} = {}
    BY DEF Honest
  <2>2. QED BY <2>1, FS_EmptySet DEF CopiesOf
<1>3. Lambda(records) = IF won + lost + 0 + 0 < 2 THEN 1000 ELSE Rounded(share, whole)
  <2>1. /\ StepLambda(Kind(TRUE, "success")) = 720
        /\ StepLambda(Kind(TRUE, "failure")) = 400
        /\ StepLambda(Kind(FALSE, "success")) = 432
        /\ StepLambda(Kind(FALSE, "failure")) = 225
    BY DEF StepLambda
  <2>2. Count(FALSE, "success") = 0 /\ Count(FALSE, "failure") = 0
    BY <1>2
  <2> DEFINE Share(allowed, outcome) == Count(allowed, outcome) * StepLambda(Kind(allowed, outcome))
             known == Count(TRUE, "success") + Count(TRUE, "failure")
                        + Count(FALSE, "success") + Count(FALSE, "failure")
             total == Share(TRUE, "success") + Share(TRUE, "failure")
                        + Share(FALSE, "success") + Share(FALSE, "failure")
  <2>3. Lambda(records) = IF known < 2 THEN 1000 ELSE Rounded(1000 * total, 720 * known)
    BY DEF Lambda
  <2>4. known = won + lost + 0 + 0
    BY <2>2, Zenon
  <2>5. total = won * 720 + lost * 400 + 0 * 432 + 0 * 225
    BY <2>1, <2>2, Zenon
  <2> HIDE DEF known, total
  <2>6. QED BY <2>3, <2>4, <2>5 DEF share, whole
<1> HIDE DEF won, lost
<1>4. CASE won + lost < 2
  <2>1. Lambda(records) = 1000
    BY <1>1, <1>3, <1>4
  <2>2. QED BY <2>1 DEF CoherenceSeverity
<1>5. CASE ~(won + lost < 2)
  <2>1. share \in Nat /\ whole \in Nat \ {0} /\ share >= 450 * whole
    BY <1>1, <1>5
  <2>2. Lambda(records) = Rounded(share, whole)
    BY <1>1, <1>3, <1>5
  <2> HIDE DEF share, whole
  <2>3. Lambda(records) >= 450
    BY <2>1, <2>2, RoundedFloor
  <2>4. Lambda(records) \in Int
    BY <2>1, <2>2 DEF Rounded
  <2>5. QED BY <2>3, <2>4 DEF CoherenceSeverity
<1>6. QED BY <1>4, <1>5

\* The records stay honest when a decision is noted, which is the latest of them.
LEMMA NotedFacts ==
  ASSUME NEW records, Honest(records), NEW decision \in Decision
  PROVE  /\ Honest(Noted(records, decision))
         /\ decision # "REFUSE" => Admitting(Noted(records, decision))
<1> DEFINE noted == Pending(decision \in {"ALLOW", "DEGRADE"})
           all == Append(records, noted)
           first == Greater(1, Len(all) - CoherenceWindow + 1)
           window == SubSeq(all, first, Len(all))
<1>1. /\ noted \in StepRecords /\ noted.outcome = "pending"
      /\ decision # "REFUSE" => noted.allowed
  <2>1. ASSUME NEW b \in BOOLEAN
        PROVE  Pending(b) \in StepRecords /\ Pending(b).outcome = "pending" /\ Pending(b).allowed = b
    BY DEF Pending, StepRecords, Fates
  <2>2. (decision \in {"ALLOW", "DEGRADE"}) \in BOOLEAN
    OBVIOUS
  <2>3. decision # "REFUSE" => (decision \in {"ALLOW", "DEGRADE"}) = TRUE
    BY DEF Decision
  <2>4. QED BY <2>1, <2>2, <2>3, Zenon
<1>2. /\ all \in Seq(StepRecords) /\ Len(all) = Len(records) + 1 /\ Len(records) \in Nat
      /\ \A j \in 1..Len(records) : all[j] = records[j]
      /\ all[Len(all)] = noted
  BY <1>1, AppendProperties, LenProperties DEF Honest
<1>3. first \in 1..Len(all)
  BY <1>2 DEF Greater, CoherenceWindow
<1>4. /\ window \in Seq(StepRecords) /\ Len(window) = Len(all) - first + 1
      /\ \A i \in 1..Len(window) : window[i] = all[first + i - 1]
  BY <1>2, <1>3, SubSeqProperties
<1> HIDE DEF noted, all, first, window
<1>5. DOMAIN window = 1..Len(window) /\ DOMAIN records = 1..Len(records)
  BY <1>4, LenProperties DEF Honest
<1>6. ASSUME NEW i \in DOMAIN window, window[i].outcome # "pending"
      PROVE  window[i].allowed
  <2>1. window[i] = all[first + i - 1] /\ first + i - 1 \in 1..Len(all)
    <3> DEFINE a == Len(all)
               w == Len(window)
    <3>1. a \in Nat /\ first \in 1..a /\ w = a - first + 1 /\ i \in 1..w
      BY <1>2, <1>3, <1>4, <1>5
    <3>2. window[i] = all[first + i - 1]
      BY ONLY <1>4, <3>1
    <3> HIDE DEF a, w
    <3>3. first + i - 1 \in 1..a
      BY ONLY <3>1
    <3>4. QED BY ONLY <3>2, <3>3 DEF a
  <2>2. first + i - 1 # Len(all)
    BY <1>1, <1>2, <1>6, <2>1
  <2>3. first + i - 1 \in 1..Len(records)
    BY <1>2, <2>1, <2>2
  <2>4. QED BY <1>2, <1>5, <1>6, <2>1, <2>3 DEF Honest
<1>7. window[Len(window)] = noted
  BY <1>2, <1>3, <1>4
<1>8. Noted(records, decision) = window
  BY DEF Noted, LastOf, window, first, all, noted
<1>9. QED BY <1>1, <1>4, <1>6, <1>7, <1>8 DEF Honest, Admitting

\* The outcome of a permitted step is filled in.
LEMMA FilledFacts ==
  ASSUME NEW records, Honest(records), Admitting(records), NEW success
  PROVE  Honest(Filled(records, success))
<1>1. CASE records = << >>
  BY <1>1 DEF Filled
<1>2. CASE records # << >>
  <2> DEFINE n == Len(records)
             told == [records[n] EXCEPT !.outcome = IF success THEN "success" ELSE "failure"]
             filled == [records EXCEPT ![n] = told]
  <2>1. n \in 1..Len(records) /\ records[n] \in StepRecords /\ DOMAIN records = 1..Len(records)
    BY <1>2, EmptySeq, LenProperties, ElementOfSeq DEF Honest
  <2>2. told \in StepRecords /\ told.allowed = records[n].allowed
    BY <2>1 DEF StepRecords, Fates
  <2>3. Filled(records, success) = filled
    BY <1>2 DEF Filled
  <2>4. records[n].allowed
    BY <1>2 DEF Admitting
  <2> HIDE DEF told, n
  <2>5. filled \in Seq(StepRecords) /\ DOMAIN filled = DOMAIN records
    BY <2>1, <2>2, ExceptSeq DEF Honest
  <2>6. ASSUME NEW i \in DOMAIN records, filled[i].outcome # "pending"
        PROVE  filled[i].allowed
    BY <2>1, <2>2, <2>4, <2>6 DEF Honest
  <2>7. QED BY <2>3, <2>5, <2>6 DEF Honest
<1>3. QED BY <1>1, <1>2
-----------------------------------------------------------------------------
(* The merge.                                                              *)

\* A merge refuses what RNOS or an open breaker refuses.
LEMMA MergeIsAsSevere ==
  ASSUME NEW decision \in Decision, NEW entropy, NEW reason, NEW rate, NEW lambda
  PROVE  LET merged == Merge(decision, entropy, reason, rate, lambda)
         IN  /\ merged.decision \in Decision
             /\ merged.lambda = lambda
             /\ decision = "REFUSE" \/ reason = "open_blocked" => merged.decision = "REFUSE"
<1> DEFINE coherence == CoherenceSeverity(lambda)
           breaker == BreakerSeverity(reason)
           lowered == LoweredSeverity(entropy, rate, coherence)
           rnos == Greater(SeverityOf(decision), lowered)
           worst == Greater(rnos, Greater(breaker, coherence))
           merged == Merge(decision, entropy, reason, rate, lambda)
<1>1. coherence \in 0..2 /\ breaker \in 0..2 /\ lowered \in 0..2 /\ SeverityOf(decision) \in 0..2
  BY DEF CoherenceSeverity, BreakerSeverity, LoweredSeverity, SeverityOf
<1>2. /\ decision = "REFUSE" => SeverityOf(decision) = 2
      /\ reason = "open_blocked" => breaker = 2
  BY DEF SeverityOf, BreakerSeverity
<1> HIDE DEF coherence, breaker, lowered
<1>3. decision = "REFUSE" \/ reason = "open_blocked" => worst = 2
  BY <1>1, <1>2 DEF Greater
<1> HIDE DEF worst, rnos
<1>4. /\ merged.lambda = lambda
      /\ \/ merged.decision = "REFUSE"
         \/ worst # 2 /\ merged.decision \in Decision
  BY DEF Merge, Decision, worst, rnos, coherence, breaker, lowered
<1>5. QED BY <1>3, <1>4 DEF Decision

-----------------------------------------------------------------------------
(* The breaker, up to its first block.                                     *)

\* A breaker that has not blocked anything.
Untripped(cb) ==
  /\ DOMAIN cb = {"state", "window", "threshold", "total_blocked", "cooldown_remaining",
                  "current_cooldown"}
  /\ cb.state = "closed"
  /\ cb.total_blocked = 0

\* Such a breaker ticks to no effect, and its next answer is its first block or nothing new.
LEMMA FirstBlock ==
  ASSUME NEW cb, Untripped(cb)
  PROVE  LET asked == Large!ShouldExecute(Large!Ticked(cb))
         IN  \/ asked = cb /\ Large!ReasonOf(asked) = "closed"
             \/ /\ asked.state = "open" /\ asked.total_blocked = 1
                /\ Large!ReasonOf(asked) = "open_blocked"
<1>1. Large!Ticked(cb) = cb
  BY DEF Large!Ticked, Untripped
<1>2. CASE ~Large!Failing(cb.window, cb.threshold)
  BY <1>1, <1>2 DEF Large!ShouldExecute, Large!ReasonOf, Untripped
<1>3. CASE Large!Failing(cb.window, cb.threshold)
  <2>1. Large!ShouldExecute(cb) = Large!Refused(Large!Tripped(cb))
    BY <1>3 DEF Large!ShouldExecute, Untripped
  <2> DEFINE tripped == Large!Tripped(cb)
  <2>2. /\ DOMAIN tripped = DOMAIN cb
        /\ tripped.total_blocked = 0
    BY DEF Large!Tripped, Untripped
  <2> HIDE DEF tripped
  <2>3. Large!Refused(tripped).state = "open" /\ Large!Refused(tripped).total_blocked = 1
    BY <2>2 DEF Large!Refused, Large!BudgetSpent, Untripped
  <2>4. QED BY <1>1, <2>1, <2>3 DEF Large!ReasonOf, tripped
<1>4. QED BY <1>2, <1>3

\* A result does not trip it: that waits for the next question.
LEMMA ResultsTripNothing ==
  ASSUME NEW cb, Untripped(cb), NEW success
  PROVE  Untripped(Large!RecordResult(cb, success))
BY DEF Large!RecordResult, Large!Listening, Untripped
-----------------------------------------------------------------------------
(* One step of each strategy.                                              *)

RunFields ==
  {"step", "steps_executed", "total_failures", "retry_count", "prev_latency",
   "first_intervention_step", "first_intervention_type", "final_state", "step_log",
   "entropy_trajectory", "history", "cb", "records", "trigger", "lambda"}

IsRun(r) == DOMAIN r = RunFields /\ r.step \in Nat /\ r.first_intervention_step \in Nat

\* The call was made, and RNOS heard of it.
Continued(n, r, success, latency) ==
  /\ n.steps_executed = r.steps_executed + 1
  /\ n.retry_count = IF success THEN 0 ELSE r.retry_count + 1
  /\ n.prev_latency = latency
  /\ n.history = Recorded(r.history, Tool, success)

\* RNOS alone goes on exactly while it does not refuse.
LEMMA RnosGoesOn ==
  ASSUME NEW r, IsRun(r), ~Over(r), NEW success, NEW latency,
         NEW n, n = RnosStep(r, success, latency) \/ n = RnosStep5(r, success, latency)
  PROVE  /\ IsRun(n) /\ n.step = r.step + 1
         /\ Evaluate(r.history, ActionOf(r)) # "REFUSE" =>
              ~Over(n) /\ Continued(n, r, success, latency)
<1> DEFINE m == RnosStep(r, success, latency)
           decision == Evaluate(r.history, ActionOf(r))
<1>1. /\ IsRun(m) /\ m.step = r.step + 1
      /\ decision # "REFUSE" => ~Over(m) /\ Continued(m, r, success, latency)
      /\ decision = "REFUSE" => Over(m)
  BY DEF RnosStep, Intervened, Called, Over, IsRun, RunFields, Continued
<1>2. CASE n = m
  BY <1>1, <1>2
<1>3. CASE n = RnosStep5(r, success, latency)
  <2>1. \/ n = m /\ ~Over(m)
        \/ Over(m) /\ n = [m EXCEPT !.step_log = Append(@, Entry(m, FALSE, FALSE, 0))]
    BY <1>3 DEF RnosStep5
  <2> HIDE DEF m
  <2>2. Over(m) => IsRun(n) /\ n.step = m.step
    BY <1>1, <2>1 DEF IsRun, RunFields
  <2>3. QED BY <1>1, <2>1, <2>2
<1>4. QED BY <1>2, <1>3

\* A breaker alone intervenes at its latest step if at all, and before its first block
\* the run goes on.
LEMMA BreakerGoesOn ==
  ASSUME NEW r, IsRun(r), ~Over(r), NEW success, NEW latency,
         NEW n, n = BreakerStep5(r, success, latency) \/ n = ComparedBreakerStep(r, success, latency)
  PROVE  LET asked == Large!ShouldExecute(Large!Ticked(r.cb))
         IN  /\ IsRun(n) /\ n.step = r.step + 1
             /\ n.first_intervention_step \in {r.first_intervention_step, n.step}
             /\ Large!ReasonOf(asked) = "closed" =>
                  /\ ~Over(n)
                  /\ n.first_intervention_step = r.first_intervention_step
                  /\ n.steps_executed = r.steps_executed + 1
                  /\ n.cb = Large!RecordResult(asked, success)
<1> DEFINE cb == Large!ShouldExecute(Large!Ticked(r.cb))
           reason == Large!ReasonOf(cb)
<1>1. CASE n = BreakerStep5(r, success, latency)
  BY <1>1 DEF BreakerStep5, Intervened, Called, Over, IsRun, RunFields, Large!Allowed
<1>2. CASE n = ComparedBreakerStep(r, success, latency)
  BY <1>2 DEF ComparedBreakerStep, Intervened, Called, Over, IsRun, RunFields, Large!Allowed
<1>3. QED BY <1>1, <1>2
\* The merged run goes on only if neither RNOS nor the breaker would have ended it.
LEMMA HybridGoesOn ==
  ASSUME NEW r, IsRun(r), ~Over(r), Untripped(r.cb), Honest(r.records),
         NEW success, NEW latency
  PROVE  LET n == HybridStep(r, success, latency)
             asked == Large!ShouldExecute(Large!Ticked(r.cb))
         IN  /\ IsRun(n) /\ n.step = r.step + 1
             /\ CoherenceSeverity(n.lambda) = 0
             /\ \/ Over(n) /\ (n.cb.state # "closed" => n.cb.total_blocked = 1)
                \/ /\ ~Over(n)
                   /\ Evaluate(r.history, ActionOf(r)) # "REFUSE"
                   /\ asked = r.cb /\ Large!ReasonOf(asked) = "closed"
                   /\ n.cb = Large!RecordResult(asked, success)
                   /\ Honest(n.records)
                   /\ Continued(n, r, success, latency)
<1> DEFINE asked == Large!ShouldExecute(Large!Ticked(r.cb))
           rnos == Evaluate(r.history, ActionOf(r))
           records == Noted(r.records, rnos)
           answer == HybridAnswer(r)
           merged == answer.merged
           n == HybridStep(r, success, latency)
<1>1. rnos \in Decision
  BY DEF Evaluate, Policy, Decision
<1>2. /\ answer.cb = asked /\ answer.records = records
      /\ merged = Merge(rnos, Entropy(r.history, ActionOf(r)), Large!ReasonOf(asked),
                        BreakerRate(asked), Lambda(records))
  BY DEF HybridAnswer
<1>3. /\ merged.decision \in Decision /\ merged.lambda = Lambda(records)
      /\ rnos = "REFUSE" \/ Large!ReasonOf(asked) = "open_blocked" => merged.decision = "REFUSE"
  BY <1>1, <1>2, MergeIsAsSevere
<1>4. CoherenceSeverity(Lambda(records)) = 0
  BY <1>1, NotedFacts, ProxyIsHealthy
<1>5. \/ asked = r.cb /\ Large!ReasonOf(asked) = "closed"
      \/ /\ asked.state = "open" /\ asked.total_blocked = 1
         /\ Large!ReasonOf(asked) = "open_blocked"
  BY FirstBlock
<1>6. rnos # "REFUSE" => Honest(Filled(records, success))
  BY <1>1, NotedFacts, FilledFacts
<1> HIDE DEF asked, rnos, records, answer
<1>7. CASE merged.decision = "REFUSE"
  <2>1. IsRun(n) /\ n.step = r.step + 1 /\ n.lambda = merged.lambda /\ n.cb = asked /\ Over(n)
    BY <1>2, <1>7 DEF HybridStep, Intervened, Over, IsRun, RunFields, answer
  <2>2. asked.state # "closed" => asked.total_blocked = 1
    BY <1>5 DEF Untripped
  <2>3. QED BY <1>3, <1>4, <2>1, <2>2
<1>8. CASE merged.decision # "REFUSE"
  <2> DEFINE noted == [r EXCEPT !.step = @ + 1, !.cb = asked, !.records = records,
                                !.lambda = merged.lambda]
             first == [Intervened(noted, merged.decision) EXCEPT
                         !.trigger = IF r.first_intervention_step = 0 THEN merged.trigger ELSE @]
             seen == IF merged.decision = "ALLOW" THEN noted ELSE first
  <2>1. n = [Called(seen, success, latency) EXCEPT
               !.history = Recorded(r.history, Tool, success),
               !.cb = Large!RecordResult(asked, success),
               !.records = Filled(records, success),
               !.step_log = Append(@, Entry(seen, TRUE, success, latency))]
    BY <1>2, <1>8 DEF HybridStep, answer
  <2>2. /\ DOMAIN seen = RunFields
        /\ seen.step = r.step + 1 /\ seen.lambda = merged.lambda
        /\ seen.final_state = r.final_state
        /\ seen.steps_executed = r.steps_executed /\ seen.retry_count = r.retry_count
        /\ seen.first_intervention_step \in Nat
    BY DEF Intervened, IsRun, RunFields
  <2> HIDE DEF seen
  <2>3. /\ IsRun(n) /\ n.step = r.step + 1 /\ n.lambda = merged.lambda /\ ~Over(n)
        /\ n.cb = Large!RecordResult(asked, success)
        /\ n.records = Filled(records, success)
        /\ Continued(n, r, success, latency)
    <3> HIDE DEF merged
    <3>1. QED BY <2>1, <2>2 DEF Called, Over, IsRun, RunFields, Continued
  <2>4. QED BY <1>3, <1>4, <1>5, <1>6, <1>8, <2>3 DEF rnos, asked
<1>9. QED BY <1>7, <1>8

-----------------------------------------------------------------------------
(* The three runs side by side.                                            *)

\* Until the merged run ends, its parts are the lone RNOS and the lone breaker.
Together(hybrid, rnos, cb) ==
  /\ ~Over(hybrid) /\ ~Over(rnos) /\ ~Over(cb)
  /\ rnos.step = hybrid.step /\ cb.step = hybrid.step
  /\ rnos.steps_executed = hybrid.steps_executed /\ cb.steps_executed = hybrid.steps_executed
  /\ rnos.history = hybrid.history
  /\ rnos.retry_count = hybrid.retry_count /\ rnos.prev_latency = hybrid.prev_latency
  /\ cb.cb = hybrid.cb /\ Untripped(hybrid.cb)
  /\ cb.first_intervention_step = 0
  /\ Honest(hybrid.records)

\* After its end the others are at least as far.
Outlived(hybrid, rnos, cb) ==
  /\ Over(hybrid)
  /\ hybrid.step <= rnos.step /\ hybrid.step <= cb.step
  /\ cb.first_intervention_step # 0 => hybrid.step <= cb.first_intervention_step
  /\ hybrid.cb.state # "closed" => hybrid.cb.total_blocked = 1

\* The inductive invariant.
SideBySide ==
  experiment \in Merging =>
    /\ DOMAIN runs = Strategies(experiment)
    /\ \A s \in {"hybrid", "rnos", "adaptive_cb"} : IsRun(runs[s])
    /\ CoherenceSeverity(runs["hybrid"].lambda) = 0
    /\ \/ Together(runs["hybrid"], runs["rnos"], runs["adaptive_cb"])
       \/ Outlived(runs["hybrid"], runs["rnos"], runs["adaptive_cb"])

\* It says what the property says.
LEMMA SideBySideImplies == SideBySide => HybridNeverLater
BY DEF SideBySide, HybridNeverLater, Together, Outlived, Untripped

\* Fresh runs are together.
LEMMA FreshTogether ==
  ASSUME experiment \in Merging, runs = Fresh(experiment)
  PROVE  SideBySide
<1> DEFINE r == NewRun5
<1>1. /\ IsRun(r) /\ ~Over(r) /\ r.first_intervention_step = 0 /\ r.lambda = 1000
      /\ r.records = << >> /\ Untripped(r.cb)
  BY DEF NewRun5, IsRun, RunFields, Over, Untripped, Large!NewBreaker
<1>2. /\ DOMAIN runs = Strategies(experiment)
      /\ \A s \in {"hybrid", "rnos", "adaptive_cb"} : runs[s] = r
  BY DEF Fresh, Strategies
<1> HIDE DEF r
<1>3. CoherenceSeverity(1000) = 0
  BY DEF CoherenceSeverity
<1>4. Honest(r.records)
  BY <1>1, EmptySeq DEF Honest
<1>5. runs["hybrid"] = r /\ runs["rnos"] = r /\ runs["adaptive_cb"] = r
  BY <1>2
<1>6. Together(r, r, r)
  BY <1>1, <1>4 DEF Together
<1>7. CoherenceSeverity(r.lambda) = 0
  BY <1>1, <1>3
<1>8. QED BY <1>1, <1>2, <1>5, <1>6, <1>7 DEF SideBySide

\* An iteration keeps the runs together or is the one that ends the merged run.
LEMMA SideBySideStep ==
  ASSUME SideBySide, NEW success \in BOOLEAN, Iterate(success), experiment \in Merging
  PROVE  SideBySide'
<1> DEFINE hybrid == runs["hybrid"]
           rnos == runs["rnos"]
           cb == runs["adaptive_cb"]
           outcome(s) == outcomes'[CallOf(runs[s])]
           latency(s) == LatencyOf(Api, CallOf(runs[s]))
           next(s) == StepOf(experiment, s, Api, runs[s], outcome(s), latency(s))
           asked == Large!ShouldExecute(Large!Ticked(hybrid.cb))
<1>1. /\ experiment' = experiment
      /\ DOMAIN runs' = DOMAIN runs
      /\ \A s \in DOMAIN runs : runs'[s] = IF Over(runs[s]) THEN runs[s] ELSE next(s)
  BY DEF Iterate
<1>2. {"hybrid", "rnos", "adaptive_cb"} \subseteq DOMAIN runs /\ DOMAIN runs = Strategies(experiment)
  BY DEF SideBySide, Strategies
<1>3. /\ IsRun(hybrid) /\ IsRun(rnos) /\ IsRun(cb)
      /\ CoherenceSeverity(hybrid.lambda) = 0
      /\ Together(hybrid, rnos, cb) \/ Outlived(hybrid, rnos, cb)
  BY DEF SideBySide
<1>4. /\ next("hybrid") = HybridStep(hybrid, outcome("hybrid"), latency("hybrid"))
      /\ \/ next("rnos") = RnosStep(rnos, outcome("rnos"), latency("rnos"))
         \/ next("rnos") = RnosStep5(rnos, outcome("rnos"), latency("rnos"))
      /\ \/ next("adaptive_cb") = ComparedBreakerStep(cb, outcome("adaptive_cb"), latency("adaptive_cb"))
         \/ next("adaptive_cb") = BreakerStep5(cb, outcome("adaptive_cb"), latency("adaptive_cb"))
  BY DEF StepOf, OneModeStep, Merging
<1>5. /\ ~Over(rnos) => IsRun(next("rnos")) /\ next("rnos").step = rnos.step + 1
      /\ ~Over(cb) => /\ IsRun(next("adaptive_cb")) /\ next("adaptive_cb").step = cb.step + 1
                      /\ next("adaptive_cb").first_intervention_step
                           \in {cb.first_intervention_step, next("adaptive_cb").step}
  BY <1>3, <1>4, RnosGoesOn, BreakerGoesOn
<1>6. /\ runs'["hybrid"] = IF Over(hybrid) THEN hybrid ELSE next("hybrid")
      /\ runs'["rnos"] = IF Over(rnos) THEN rnos ELSE next("rnos")
      /\ runs'["adaptive_cb"] = IF Over(cb) THEN cb ELSE next("adaptive_cb")
  BY <1>1, <1>2
<1> HIDE DEF next, outcome, latency
<1>7. CASE Outlived(hybrid, rnos, cb)
  <2>1. runs'["hybrid"] = hybrid
    BY <1>6, <1>7 DEF Outlived
  <2>2. /\ IsRun(runs'["rnos"]) /\ runs'["rnos"].step >= rnos.step
        /\ IsRun(runs'["adaptive_cb"]) /\ runs'["adaptive_cb"].step >= cb.step
        /\ runs'["adaptive_cb"].first_intervention_step
             \in {cb.first_intervention_step, runs'["adaptive_cb"].step}
    BY <1>3, <1>5, <1>6 DEF IsRun
  <2>3. Outlived(runs'["hybrid"], runs'["rnos"], runs'["adaptive_cb"])
    BY <1>3, <1>7, <2>1, <2>2 DEF Outlived, IsRun
  <2>4. QED BY <1>1, <1>2, <1>3, <2>1, <2>2, <2>3 DEF SideBySide
<1>8. CASE Together(hybrid, rnos, cb)
  <2>1. /\ outcome("rnos") = outcome("hybrid") /\ outcome("adaptive_cb") = outcome("hybrid")
        /\ latency("rnos") = latency("hybrid") /\ latency("adaptive_cb") = latency("hybrid")
    BY <1>8 DEF Together, CallOf, outcome, latency
  <2>2. runs'["hybrid"] = next("hybrid") /\ runs'["rnos"] = next("rnos")
        /\ runs'["adaptive_cb"] = next("adaptive_cb")
    BY <1>6, <1>8 DEF Together
  <2>3. /\ IsRun(next("hybrid")) /\ next("hybrid").step = hybrid.step + 1
        /\ CoherenceSeverity(next("hybrid").lambda) = 0
    BY <1>3, <1>4, <1>8, HybridGoesOn DEF Together
  <2>4. ActionOf(rnos) = ActionOf(hybrid)
    BY <1>8 DEF Together, ActionOf
  <2>5. CASE Over(next("hybrid"))
    <3>1. next("hybrid").cb.state # "closed" => next("hybrid").cb.total_blocked = 1
      BY <1>3, <1>4, <1>8, <2>5, HybridGoesOn DEF Together
    <3>2. /\ next("rnos").step = hybrid.step + 1 /\ next("adaptive_cb").step = hybrid.step + 1
          /\ next("adaptive_cb").first_intervention_step \in {0, hybrid.step + 1}
          /\ IsRun(next("rnos")) /\ IsRun(next("adaptive_cb"))
      BY <1>5, <1>8 DEF Together
    <3>3. Outlived(next("hybrid"), next("rnos"), next("adaptive_cb"))
      BY <1>3, <2>3, <2>5, <3>1, <3>2 DEF Outlived, IsRun
    <3>4. QED BY <1>1, <1>2, <2>2, <2>3, <3>2, <3>3 DEF SideBySide
  <2>6. CASE ~Over(next("hybrid"))
    <3>1. /\ Evaluate(hybrid.history, ActionOf(hybrid)) # "REFUSE"
          /\ asked = hybrid.cb /\ Large!ReasonOf(asked) = "closed"
          /\ next("hybrid").cb = Large!RecordResult(asked, outcome("hybrid"))
          /\ Honest(next("hybrid").records)
          /\ Continued(next("hybrid"), hybrid, outcome("hybrid"), latency("hybrid"))
      BY <1>3, <1>4, <1>8, <2>6, HybridGoesOn DEF Together
    <3>2. /\ ~Over(next("rnos"))
          /\ Continued(next("rnos"), rnos, outcome("hybrid"), latency("hybrid"))
      BY <1>3, <1>4, <1>8, <2>1, <2>4, <3>1, RnosGoesOn DEF Together
    <3>3. /\ ~Over(next("adaptive_cb"))
          /\ next("adaptive_cb").first_intervention_step = 0
          /\ next("adaptive_cb").steps_executed = cb.steps_executed + 1
          /\ next("adaptive_cb").cb = Large!RecordResult(asked, outcome("hybrid"))
      BY <1>3, <1>4, <1>8, <2>1, <3>1, BreakerGoesOn DEF Together
    <3>4. Untripped(next("hybrid").cb)
      BY <1>8, <3>1, ResultsTripNothing DEF Together
    <3>5. Together(next("hybrid"), next("rnos"), next("adaptive_cb"))
      BY <1>5, <1>8, <2>3, <2>6, <3>1, <3>2, <3>3, <3>4 DEF Together, Continued
    <3>6. QED BY <1>1, <1>2, <1>5, <1>8, <2>2, <2>3, <3>5 DEF SideBySide, Together
  <2>7. QED BY <2>5, <2>6
<1>9. QED BY <1>3, <1>7, <1>8

\* SideBySide holds in every reachable state.
LEMMA SideBySideInvariance == Spec => []SideBySide
<1>1. Init => SideBySide
  BY FreshTogether DEF Init, SideBySide
<1>2. SideBySide /\ [Next]_vars => SideBySide'
  <2> SUFFICES ASSUME SideBySide, [Next]_vars PROVE SideBySide'
    OBVIOUS
  <2>1. CASE UNCHANGED vars
    BY <2>1 DEF SideBySide, vars
  <2>2. CASE Finish
    <3>1. experiment' = experiment /\ runs' = Fresh(experiment)
      BY <2>2 DEF Finish
    <3>2. CASE experiment \in Merging
      <4>1. (experiment \in Merging /\ runs = Fresh(experiment))'
        BY <3>1, <3>2
      <4>2. (experiment \in Merging /\ runs = Fresh(experiment) => SideBySide)'
        BY FreshTogether, PTL
      <4>3. QED BY <4>1, <4>2
    <3>3. QED BY <3>1, <3>2 DEF SideBySide
  <2>3. CASE \E success \in BOOLEAN : Iterate(success)
    <3>1. PICK success \in BOOLEAN : Iterate(success)
      BY <2>3
    <3>2. experiment' = experiment
      BY <3>1 DEF Iterate
    <3>3. QED BY <3>1, <3>2, SideBySideStep DEF SideBySide
  <2>4. QED BY <2>1, <2>2, <2>3 DEF Next
<1>3. QED BY <1>1, <1>2, PTL DEF Spec

\* The merged controller never ends a run later than RNOS alone or than the first block of
\* the breaker alone, whatever the thresholds, the API and the number of steps; its breaker
\* never gets as far as a probe, and its coherence proxy never leaves the healthy band.
THEOREM MergedIsEarliest == Spec => []HybridNeverLater
BY SideBySideInvariance, SideBySideImplies, PTL
-----------------------------------------------------------------------------
(* Outages: what a streak of failures leaves in the history.               *)

\* The experiments call one tool.
Items == [tool : {Tool}, success : BOOLEAN]

IsCalls(h) == h.recent \in Seq(Items) /\ Len(h.recent) <= 10 /\ h.ewma \in Nat

\* The latest so many calls have failed.
FailedLast(h, n) ==
  /\ n \in Nat /\ n <= Len(h.recent)
  /\ \A i \in DOMAIN h.recent : i > Len(h.recent) - n => ~h.recent[i].success

\* A hundredth of the average's unit.
Percent == OneEwma \div 100

\* A call is appended, and of more than ten the first is dropped.
LEMMA CallRecorded ==
  ASSUME NEW h, IsCalls(h), NEW success \in BOOLEAN
  PROVE  LET g == Recorded(h, Tool, success)
             n == Len(h.recent)
         IN  /\ IsCalls(g) /\ n \in 0..10
             /\ DOMAIN h.recent = 1..n /\ DOMAIN g.recent = 1..Len(g.recent)
             /\ g.ewma = Smoothed(h.ewma, success)
             /\ IF n < 10
                THEN /\ Len(g.recent) = n + 1
                     /\ \A i \in 1..n : g.recent[i] = h.recent[i]
                     /\ g.recent[n + 1].success = success
                ELSE /\ Len(g.recent) = 10
                     /\ \A i \in 1..9 : g.recent[i] = h.recent[i + 1]
                     /\ g.recent[10].success = success
<1> DEFINE n == Len(h.recent)
           x == Item(Tool, success)
           all == Append(h.recent, x)
           first == Greater(1, Len(all) - 10 + 1)
           s == SubSeq(all, first, Len(all))
           g == Recorded(h, Tool, success)
<1>1. n \in 0..10 /\ h.recent \in Seq(Items) /\ DOMAIN h.recent = 1..n
  <2>1. h.recent \in Seq(Items) /\ n <= 10
    BY DEF IsCalls
  <2>2. n \in Nat /\ DOMAIN h.recent = 1..n
    BY <2>1, LenProperties
  <2> HIDE DEF n
  <2>3. QED BY <2>1, <2>2
<1>2. x \in Items /\ x.success = success
  BY DEF Item, Items
<1>3. /\ all \in Seq(Items) /\ Len(all) = n + 1
      /\ \A i \in 1..n : all[i] = h.recent[i]
      /\ all[n + 1] = x
  <2> HIDE DEF x
  <2>1. QED BY <1>1, <1>2, AppendProperties
<1>4. g.recent = s /\ g.ewma = Smoothed(h.ewma, success)
  BY DEF Recorded, LastOf
<1>5. first = IF n < 10 THEN 1 ELSE 2
  <2>1. first = Greater(1, (n + 1) - 10 + 1)
    BY <1>3
  <2> HIDE DEF n, first
  <2>2. QED BY <1>1, <2>1 DEF Greater
<1> HIDE DEF x, all, first, g
<1>6. Smoothed(h.ewma, success) \in Nat
  <2>1. ASSUME NEW e \in Nat, NEW one \in Nat
        PROVE  (one + 9 * e) \div 10 \in Nat
    BY <2>1
  <2>2. (IF success THEN 0 ELSE OneEwma) \in Nat
    BY DEF OneEwma
  <2>3. QED BY <2>1, <2>2 DEF Smoothed, IsCalls
<1>7. CASE n < 10
  <2>1. first = 1
    BY <1>5, <1>7
  <2>2. /\ s \in Seq(Items) /\ Len(s) = n + 1
        /\ \A i \in 1..(n + 1) : s[i] = all[i]
    BY <1>1, <1>3, <2>1, SubSeqProperties
  <2> HIDE DEF s, n
  <2>3. /\ \A i \in 1..n : s[i] = h.recent[i]
        /\ s[n + 1].success = success
    BY <1>1, <1>2, <1>3, <2>2
  <2>4. DOMAIN s = 1..Len(s) /\ Len(s) <= 10
    <3>1. DOMAIN s = 1..Len(s)
      BY <2>2, LenProperties
    <3>2. QED BY <1>1, <1>7, <2>2, <3>1
  <2>5. QED BY <1>1, <1>4, <1>6, <1>7, <2>2, <2>3, <2>4 DEF n, g, IsCalls
<1>8. CASE ~(n < 10)
  <2> HIDE DEF n
  <2>1. first = 2 /\ n = 10
    BY <1>1, <1>5, <1>8
  <2>2. /\ s \in Seq(Items) /\ Len(s) = n
        /\ \A i \in 1..n : s[i] = all[i + 1]
    <3>1. /\ SubSeq(all, 2, Len(all)) \in Seq(Items)
          /\ Len(SubSeq(all, 2, Len(all))) = n
          /\ \A i \in 1..n : SubSeq(all, 2, Len(all))[i] = all[i + 1]
      <4> DEFINE two == 2
                 m == Len(all)
                 part == SubSeq(all, two, m)
      <4>1. /\ two \in Int /\ m \in Int /\ two <= m /\ m - two + 1 = n
            /\ \A i \in 1..n : two + i - 1 = i + 1
        BY <1>3, <2>1
      <4>2. \A i \in two..m : all[i] \in Items
        BY <1>3
      <4> HIDE DEF two, m
      <4>3. /\ part \in Seq(Items)
            /\ Len(part) = IF two <= m THEN m - two + 1 ELSE 0
            /\ \A i \in 1..(m - two + 1) : part[i] = all[two + i - 1]
        BY <4>1, <4>2, SubSeqProperties
      <4> HIDE DEF part
      <4>4. /\ part \in Seq(Items) /\ Len(part) = n
            /\ \A i \in 1..n : part[i] = all[i + 1]
        BY <4>1, <4>3
      <4>5. QED BY <4>4 DEF part, two, m
    <3>2. QED BY <2>1, <3>1
  <2> HIDE DEF s
  <2>3. /\ \A i \in 1..9 : s[i] = h.recent[i + 1]
        /\ s[10].success = success
    BY <1>2, <1>3, <2>1, <2>2
  <2>4. DOMAIN s = 1..Len(s) /\ Len(s) <= 10
    <3>1. DOMAIN s = 1..Len(s)
      BY <2>2, LenProperties
    <3>2. QED BY <2>1, <2>2, <3>1
  <2>5. QED BY <1>1, <1>4, <1>6, <1>8, <2>1, <2>2, <2>3, <2>4 DEF n, g, IsCalls
<1>9. QED BY <1>7, <1>8 DEF g

\* A failure makes one more failed call in a row, a success makes none.
LEMMA StreakRecorded ==
  ASSUME NEW h, IsCalls(h), NEW success \in BOOLEAN, NEW n \in 0..4
  PROVE  LET g == Recorded(h, Tool, success)
         IN  /\ FailedLast(g, 0)
             /\ success => ~FailedLast(g, n + 1)
             /\ ~success => (FailedLast(g, n + 1) <=> FailedLast(h, n))
<1> DEFINE g == Recorded(h, Tool, success)
           len == Len(h.recent)
           kept == Len(g.recent)
<1>1. /\ len \in 0..10 /\ DOMAIN h.recent = 1..len /\ DOMAIN g.recent = 1..kept
      /\ IF len < 10
         THEN /\ kept = len + 1
              /\ \A i \in 1..len : g.recent[i] = h.recent[i]
              /\ g.recent[len + 1].success = success
         ELSE /\ kept = 10
              /\ \A i \in 1..9 : g.recent[i] = h.recent[i + 1]
              /\ g.recent[10].success = success
  BY CallRecorded
<1> HIDE DEF g, len, kept
<1>2. kept \in 1..10 /\ g.recent[kept].success = success
  BY <1>1
<1>3. FailedLast(g, 0)
  BY <1>1, <1>2 DEF FailedLast, kept
<1>4. ASSUME success
      PROVE  ~FailedLast(g, n + 1)
  <2>1. kept \in 1..kept /\ kept > kept - (n + 1)
    BY <1>2
  <2>2. QED BY <1>1, <1>2, <1>4, <2>1 DEF FailedLast, kept
<1>5. ASSUME ~success, FailedLast(h, n)
      PROVE  FailedLast(g, n + 1)
  <2>1. n <= len /\ \A i \in 1..len : i > len - n => ~h.recent[i].success
    BY <1>1, <1>5 DEF FailedLast, len
  <2>2. n + 1 <= kept
    BY <1>1, <2>1
  <2>3. ASSUME NEW i \in 1..kept, i > kept - (n + 1)
        PROVE  ~g.recent[i].success
    <3>1. CASE i = kept
      BY <1>2, <1>5, <3>1
    <3>2. CASE i # kept /\ len < 10
      <4>1. i \in 1..len /\ i > len - n
        BY <1>1, <2>3, <3>2
      <4>2. QED BY <1>1, <2>1, <3>2, <4>1
    <3>3. CASE i # kept /\ ~(len < 10)
      <4>1. i \in 1..9 /\ i + 1 \in 1..len /\ i + 1 > len - n
        BY <1>1, <2>3, <3>3
      <4>2. g.recent[i] = h.recent[i + 1]
        BY <1>1, <3>3, <4>1
      <4>3. ~h.recent[i + 1].success
        BY <2>1, <4>1
      <4>4. QED BY <4>2, <4>3
    <3>4. QED BY <3>1, <3>2, <3>3
  <2>4. n + 1 \in Nat /\ n + 1 <= kept
        /\ \A i \in DOMAIN g.recent : i > kept - (n + 1) => ~g.recent[i].success
    <3>1. DOMAIN g.recent = 1..kept
      BY <1>1
    <3>2. n + 1 \in Nat
      OBVIOUS
    <3>3. QED BY ONLY <2>2, <2>3, <3>1, <3>2
  <2>5. QED BY ONLY <2>4 DEF FailedLast, kept
<1>6. ASSUME ~success, FailedLast(g, n + 1)
      PROVE  FailedLast(h, n)
  <2>1. n + 1 <= kept /\ \A i \in 1..kept : i > kept - (n + 1) => ~g.recent[i].success
    BY <1>1, <1>6 DEF FailedLast, kept
  <2>2. n <= len
    BY <1>1, <2>1
  <2>3. ASSUME NEW i \in 1..len, i > len - n
        PROVE  ~h.recent[i].success
    <3>1. CASE len < 10
      <4>1. i \in 1..kept /\ i > kept - (n + 1)
        BY <1>1, <2>3, <3>1
      <4>2. QED BY <1>1, <2>1, <2>3, <3>1, <4>1
    <3>2. CASE ~(len < 10)
      <4>1. i - 1 \in 1..9 /\ i - 1 \in 1..kept /\ i - 1 > kept - (n + 1)
        BY <1>1, <2>3, <3>2
      <4>2. g.recent[i - 1] = h.recent[(i - 1) + 1]
        BY <1>1, <3>2, <4>1
      <4>3. (i - 1) + 1 = i
        BY <2>3
      <4>4. ~g.recent[i - 1].success
        BY <2>1, <4>1
      <4>5. QED BY <4>2, <4>3, <4>4
    <3>3. QED BY <3>1, <3>2
  <2>4. QED BY <1>1, <2>2, <2>3 DEF FailedLast, len
<1>7. QED BY <1>3, <1>4, <1>5, <1>6 DEF g

\* One failure brings the average to a tenth at least, a second one to 0.19.
LEMMA AverageRises ==
  ASSUME NEW e \in Nat
  PROVE  /\ Smoothed(e, FALSE) >= 10 * Percent
         /\ e >= 10 * Percent => Smoothed(e, FALSE) >= 19 * Percent
<1>1. ASSUME NEW cent \in Nat
      PROVE  /\ (100 * cent + 9 * e) \div 10 >= 10 * cent
             /\ e >= 10 * cent => (100 * cent + 9 * e) \div 10 >= 19 * cent
  BY <1>1
<1>2. Percent \in Nat /\ OneEwma = 100 * Percent
  BY DEF Percent, OneEwma
<1>3. Smoothed(e, FALSE) = (OneEwma + 9 * e) \div 10
  BY DEF Smoothed
<1>4. Smoothed(e, FALSE) = (100 * Percent + 9 * e) \div 10
  BY <1>2, <1>3, Zenon
<1> DEFINE cent == Percent
<1> HIDE DEF cent
<1>5. cent \in Nat
  BY <1>2 DEF cent
<1>6. Smoothed(e, FALSE) = (100 * cent + 9 * e) \div 10
  BY <1>4 DEF cent
<1>7. QED BY <1>1, <1>5, <1>6 DEF cent
-----------------------------------------------------------------------------
(* Outages: what a gate makes of a streak of failures.                     *)

\* A quotient of at least k is not rounded below it.
LEMMA RoundedAtLeast ==
  ASSUME NEW n \in Nat, NEW d \in Nat \ {0}, NEW k \in Nat, n >= k * d
  PROVE  Rounded(n, d) \in Nat /\ Rounded(n, d) >= k
<1>1. n \div d \in Nat /\ n % d \in Int
  OBVIOUS
<1>2. n \div d >= k
  <2>1. n = (n \div d) * d + (n % d) /\ n % d < d
    BY Z3
  <2>2. n \div d + 1 <= k => (n \div d) * d + d <= k * d
    BY <1>1, Z3
  <2>3. k * d \in Nat /\ (n \div d) * d \in Nat
    BY <1>1
  <2>4. QED BY <1>1, <2>1, <2>2, <2>3
<1>3. QED BY <1>1, <1>2 DEF Rounded

\* The failures among the last five: as many as are known to be there, at least.
LEMMA FailuresFound ==
  ASSUME NEW s \in Seq(Items), NEW S \in SUBSET DOMAIN s, NEW k \in Nat, Cardinality(S) >= k,
         \A i \in S : ~s[i].success
  PROVE  CountOf(s, FALSE) \in Nat /\ CountOf(s, FALSE) >= k
<1> DEFINE found == {i \in DOMAIN s : s[i].success = FALSE}
<1>1. DOMAIN s = 1..Len(s) /\ Len(s) \in Nat /\ \A i \in 1..Len(s) : s[i] \in Items
  BY LenProperties, ElementOfSeq
<1>2. IsFiniteSet(1..Len(s)) /\ found \subseteq 1..Len(s)
  BY <1>1, FS_Interval
<1>3. IsFiniteSet(found)
  BY <1>2, FS_Subset
<1>4. S \subseteq found
  BY <1>1 DEF Items
<1>5. Cardinality(S) <= Cardinality(found) /\ Cardinality(S) \in Nat /\ Cardinality(found) \in Nat
  BY <1>3, <1>4, FS_Subset, FS_CardinalityType
<1> HIDE DEF found
<1>6. Cardinality(found) >= k
  BY <1>5
<1>7. QED BY <1>5, <1>6 DEF CountOf, found

\* The successes are at most what is not known to have failed.
LEMMA SuccessesFound ==
  ASSUME NEW s \in Seq(Items), NEW S \in SUBSET DOMAIN s, NEW k \in Nat, Cardinality(S) <= k,
         \A i \in DOMAIN s \ S : ~s[i].success
  PROVE  CountOf(s, TRUE) \in Nat /\ CountOf(s, TRUE) <= k
<1> DEFINE found == {i \in DOMAIN s : s[i].success = TRUE}
<1>1. DOMAIN s = 1..Len(s) /\ Len(s) \in Nat
  BY LenProperties
<1>2. IsFiniteSet(1..Len(s)) /\ S \subseteq 1..Len(s) /\ found \subseteq S
  <2>1. IsFiniteSet(1..Len(s))
    BY <1>1, FS_Interval
  <2>2. S \subseteq 1..Len(s)
    BY <1>1
  <2>3. ASSUME NEW i \in found
        PROVE  i \in S
    <3>1. i \in DOMAIN s /\ s[i].success = TRUE
      OBVIOUS
    <3>2. QED BY <3>1
  <2> HIDE DEF found
  <2>4. QED BY <2>1, <2>2, <2>3
<1>3. IsFiniteSet(S)
  BY <1>2, FS_Subset
<1>4. Cardinality(found) <= Cardinality(S) /\ Cardinality(S) \in Nat
      /\ Cardinality(found) \in Nat
  BY <1>2, <1>3, FS_Subset, FS_CardinalityType
<1> HIDE DEF found
<1>5. Cardinality(found) <= k
  BY <1>4
<1>6. QED BY <1>4, <1>5 DEF CountOf, found

\* The first of the latest five of n calls.
LatestFrom(n) == IF n < 5 THEN 1 ELSE n - 4

\* What so many failures among them score.
FailurePart(failures) == Lesser(650 * failures, 3000)

\* The latest five calls, or all there are.
LEMMA LatestCalls ==
  ASSUME NEW h, IsCalls(h), Len(h.recent) \in 1..10
  PROVE  LET n      == Len(h.recent)
             first  == LatestFrom(n)
             latest == LastOf(h.recent, 5)
         IN  /\ first \in 1..n /\ n - first + 1 \in 1..5
             /\ latest \in Seq(Items) /\ Len(latest) = n - first + 1
             /\ DOMAIN latest = 1..(n - first + 1)
             /\ \A i \in 1..(n - first + 1) : latest[i] = h.recent[first + i - 1]
<1> DEFINE n == Len(h.recent)
           first == LatestFrom(n)
           latest == LastOf(h.recent, 5)
           len == n - first + 1
<1> n \in 1..10
  OBVIOUS
<1> HIDE DEF n
<1> first = LatestFrom(n)
  OBVIOUS
<1> HIDE DEF first
<1>1. first \in 1..n /\ n \in 1..n /\ len \in 1..5
  BY ONLY n \in 1..10, first = LatestFrom(n) DEF LatestFrom
<1>2. latest = SubSeq(h.recent, first, n)
  <2>1. Greater(1, n - 5 + 1) = first
    BY ONLY n \in 1..10, first = LatestFrom(n) DEF LatestFrom, Greater
  <2>2. QED BY <2>1 DEF LastOf, n
<1>3. /\ latest \in Seq(Items) /\ Len(latest) = len /\ DOMAIN latest = 1..len
      /\ \A i \in 1..len : latest[i] = h.recent[first + i - 1]
  <2>1. h.recent \in Seq(Items)
    BY DEF IsCalls
  <2>2. /\ SubSeq(h.recent, first, n) \in Seq(Items)
        /\ Len(SubSeq(h.recent, first, n)) = n - first + 1
        /\ \A i \in 1..(n - first + 1) : SubSeq(h.recent, first, n)[i] = h.recent[first + i - 1]
    <3> DEFINE calls == h.recent
    <3>1. calls \in Seq(Items) /\ n = Len(calls)
      BY <2>1 DEF n
    <3> HIDE DEF calls
    <3>2. first \in 1..Len(calls) /\ n \in first..Len(calls)
      BY ONLY <1>1, <3>1
    <3>3. /\ SubSeq(calls, first, n) \in Seq(Items)
          /\ Len(SubSeq(calls, first, n)) = IF first <= n THEN n - first + 1 ELSE 0
          /\ \A i \in 1..(n - first + 1) : SubSeq(calls, first, n)[i] = calls[first + i - 1]
      BY ONLY <1>1, <3>1, <3>2, SubSeqProperties
    <3>4. first <= n
      BY ONLY <1>1
    <3>5. QED BY <3>3, <3>4 DEF calls
  <2>3. latest \in Seq(Items) /\ Len(latest) = len
    BY <1>2, <2>2
  <2>4. DOMAIN latest = 1..len
    BY <2>3, LenProperties
  <2>5. QED BY <1>2, <2>2, <2>3, <2>4
<1> HIDE DEF latest, len
<1>4. QED BY ONLY <1>1, <1>3, Zenon DEF n, first, latest, len

\* The failure score of a history whose failures among the last five are known.
LEMMA FailuresScore ==
  ASSUME NEW h, IsCalls(h), NEW n, n = Len(h.recent), n \in 1..10,
         NEW first, first = LatestFrom(n), NEW k \in Nat, k <= 5,
         NEW S \in SUBSET (first..n), Cardinality(S) >= k,
         \A i \in S : ~h.recent[i].success
  PROVE  FailureScore(h) >= FailurePart(k) /\ FailureScore(h) \in Nat
<1> DEFINE latest == LastOf(h.recent, 5)
           len == n - first + 1
           T == {i - (first - 1) : i \in S}
           U == {j + (first - 1) : j \in T}
<1>1. first \in 1..n /\ n \in 1..n /\ len \in 1..5
  BY ONLY n \in 1..10, first = LatestFrom(n) DEF LatestFrom
<1>3. /\ latest \in Seq(Items) /\ Len(latest) = len /\ DOMAIN latest = 1..len
      /\ \A i \in 1..len : latest[i] = h.recent[first + i - 1]
  BY LatestCalls, Zenon
<1> HIDE DEF latest
<1>4. S \subseteq 1..n /\ first \in Int /\ n \in Int /\ IsFiniteSet(S)
  <2>1. first \in Int /\ n \in Int /\ \A i \in first..n : i \in 1..n
    BY ONLY <1>1, n \in 1..10
  <2>2. IsFiniteSet(first..n)
    BY ONLY <2>1, FS_Interval
  <2>3. IsFiniteSet(S)
    BY <2>2, FS_Subset
  <2>4. QED BY <2>1, <2>3
<1>5. T \subseteq 1..len
  <2>1. ASSUME NEW i \in T
        PROVE  i \in 1..len
    <3>1. PICK j \in S : i = j - (first - 1)
      OBVIOUS
    <3>2. j \in first..n
      OBVIOUS
    <3>3. QED BY ONLY <1>1, <3>1, <3>2
  <2>2. QED BY <2>1
<1>6. S \subseteq U
  <2>1. ASSUME NEW i \in S
        PROVE  i \in U
    <3>1. i - (first - 1) \in T
      OBVIOUS
    <3>2. i = (i - (first - 1)) + (first - 1)
      BY <1>4
    <3>3. QED BY <3>1, <3>2
  <2>2. QED BY <2>1
<1>7. IsFiniteSet(T)
  <2>1. 1 \in Int /\ len \in Int
    BY <1>1
  <2>2. IsFiniteSet(1..len)
    BY ONLY <2>1, FS_Interval
  <2>3. QED BY <1>5, <2>2, FS_Subset
<1>8. IsFiniteSet(U) /\ Cardinality(U) <= Cardinality(T)
  <2> DEFINE f == [j \in T |-> j + (first - 1)]
  <2>1. f \in Surjection(T, U)
    BY DEF Surjection
  <2>2. QED BY <1>7, <2>1, FS_Surjection
<1>9. \A i \in T : ~latest[i].success
  <2>1. ASSUME NEW i \in T
        PROVE  ~latest[i].success
    <3>1. PICK j \in S : i = j - (first - 1)
      OBVIOUS
    <3>2. i \in 1..len
      BY <1>5
    <3>3. first + i - 1 = j
      BY <1>4, <3>1
    <3>4. QED BY <1>3, <3>2, <3>3
  <2>2. QED BY <2>1
<1> HIDE DEF T, U
<1>10. Cardinality(T) >= k
  <2>1. Cardinality(S) <= Cardinality(U)
    BY <1>6, <1>8, FS_Subset
  <2>2. Cardinality(S) \in Nat /\ Cardinality(T) \in Nat /\ Cardinality(U) \in Nat
    BY <1>4, <1>7, <1>8, FS_CardinalityType
  <2>3. QED BY ONLY <1>8, <2>1, <2>2, k \in Nat, Cardinality(S) >= k
<1>11. T \subseteq DOMAIN latest
  BY <1>3, <1>5
<1> DEFINE failures == CountOf(latest, FALSE)
<1>12. failures \in Nat /\ failures >= k
  BY <1>3, <1>9, <1>10, <1>11, FailuresFound
<1>13. FailureScore(h) = Lesser(650 * failures, 3000)
  BY DEF FailureScore, latest
<1> HIDE DEF failures
<1>14. QED BY ONLY <1>12, <1>13, k \in Nat DEF Lesser, FailurePart

\* Of n calls so many succeeded that k is wasted on each of them.
Wasted(n, won, k) == (n - Greater(1, won)) * 500 >= k * Greater(1, won)

\* The numbers a cost is made of.
Sizes(calls, n, won, k) ==
  calls \in Nat /\ n \in 1..10 /\ calls >= n /\ won \in Nat /\ k \in Nat /\ k <= 1500

\* They are those of the latest calls.
Counts(h, n, won) == n = Len(h.recent) /\ won = CountOf(h.recent, TRUE)

\* The history is of such calls.
Wasting(h, calls, n, won, k) ==
  Sizes(calls, n, won, k) /\ Counts(h, n, won) /\ Wasted(n, won, k)

\* The cost of a history of few successes.
LEMMA CostFloor ==
  ASSUME NEW h, NEW calls, NEW n, NEW won, NEW k, Wasting(h, calls, n, won, k)
  PROVE  CostScore(h, calls) \in Nat /\ CostScore(h, calls) >= 25 * n + k
<1> DEFINE outputs == Greater(1, won)
           base == Lesser(25 * calls, 500)
           rest == (n - outputs) * 500
           floor == k * outputs
           share == Rounded(rest, outputs)
           waste == Lesser(share, 1500)
<1>0. calls \in Nat /\ n \in 1..10 /\ calls >= n /\ won \in Nat /\ k \in Nat /\ k <= 1500
  <2>1. Sizes(calls, n, won, k)
    BY Zenon DEF Wasting
  <2>2. QED BY ONLY <2>1, Zenon DEF Sizes
<1>1. rest >= floor
  <2>1. Wasted(n, won, k)
    BY Zenon DEF Wasting
  <2>2. QED BY ONLY <2>1, Zenon DEF Wasted
<1>2. base \in Nat /\ base >= 25 * n /\ base <= 500 /\ 25 * n <= 250
  <2>1. calls \in Nat /\ n \in 1..10 /\ calls >= n
    BY ONLY <1>0
  <2>2. QED BY ONLY <2>1 DEF Lesser
<1>3. outputs \in Nat \ {0}
  <2>1. won \in Nat
    BY ONLY <1>0
  <2>2. QED BY ONLY <2>1 DEF Greater
<1> HIDE DEF outputs, base
<1>4. share \in Nat /\ share >= k
  <2>1. rest \in Int
    BY ONLY <1>0, <1>3
  <2>2. floor \in Nat
    BY ONLY <1>0, <1>3
  <2>3. rest \in Nat
    <3> HIDE DEF rest, floor
    <3>1. QED BY ONLY <1>1, <2>1, <2>2
  <2> HIDE DEF rest, share
  <2>4. rest >= k * outputs
    BY ONLY <1>1
  <2>5. k \in Nat
    BY ONLY <1>0
  <2>6. Rounded(rest, outputs) \in Nat /\ Rounded(rest, outputs) >= k
    BY ONLY <1>3, <2>3, <2>4, <2>5, RoundedAtLeast, Zenon
  <2>7. QED BY ONLY <2>6 DEF share
<1> HIDE DEF share
<1>5. waste \in Nat /\ waste >= k /\ waste <= 1500
  BY ONLY <1>0, <1>4 DEF Lesser
<1> HIDE DEF waste
<1>6. CostScore(h, calls) = Lesser(base + Greater(0, waste), 2000)
  <2> DEFINE won1 == Greater(1, CountOf(h.recent, TRUE))
             len == Len(h.recent)
             raw == Rounded((len - won1) * 500, won1)
  <2>1. len # 0 /\ len = n /\ won1 = outputs
    <3>1. n # 0
      BY ONLY <1>0
    <3>0. Counts(h, n, won)
      BY Zenon DEF Wasting
    <3>2. len = n
      BY ONLY <3>0, Zenon DEF Counts
    <3>3. won1 = outputs
      <4>1. won = CountOf(h.recent, TRUE)
        BY ONLY <3>0, Zenon DEF Counts
      <4>2. QED BY ONLY <4>1, Zenon DEF outputs
    <3> HIDE DEF len, won1
    <3>4. QED BY ONLY <3>1, <3>2, <3>3, Zenon
  <2>2. raw = share
    <3> HIDE DEF len, won1
    <3>1. QED BY ONLY <2>1, Zenon DEF share, rest
  <2>3. CostScore(h, calls) =
          IF len = 0 THEN base ELSE Lesser(base + Greater(0, Lesser(raw, 1500)), 2000)
    BY ONLY Zenon DEF CostScore, base
  <2>4. Lesser(raw, 1500) = waste
    <3> HIDE DEF raw
    <3>1. QED BY ONLY <2>2 DEF waste, Lesser
  <2> DEFINE capped == Lesser(base + Greater(0, Lesser(raw, 1500)), 2000)
  <2>5. CostScore(h, calls) = capped
    <3> HIDE DEF raw, len, capped
    <3>1. CostScore(h, calls) = IF len = 0 THEN base ELSE capped
      BY <2>3, Zenon DEF capped
    <3>2. QED BY ONLY <2>1, <3>1, Zenon
  <2> HIDE DEF raw
  <2>6. CostScore(h, calls) = Lesser(base + Greater(0, Lesser(raw, 1500)), 2000)
    BY ONLY <2>5
  <2>7. QED BY ONLY <2>4, <2>6
<1>7. QED BY ONLY <1>0, <1>2, <1>5, <1>6 DEF Lesser, Greater

\* A call of the tool that made the last two calls repeats it.
LEMMA RepeatedScore ==
  ASSUME NEW h, IsCalls(h), Len(h.recent) \in 2..10
  PROVE  RepeatedTool(h, Tool) = 2000
<1> DEFINE n == Len(h.recent)
<1>1. h.recent \in Seq(Items)
  BY DEF IsCalls
<1>2. n \in 1..n /\ n - 1 \in 1..n /\ n >= 2
  <2>1. n \in 2..10
    OBVIOUS
  <2> HIDE DEF n
  <2>2. QED BY ONLY <2>1
<1>3. h.recent[n] \in Items /\ h.recent[n - 1] \in Items
  BY <1>1, <1>2, ElementOfSeq
<1>4. h.recent[n].tool = Tool /\ h.recent[n - 1].tool = Tool
  BY <1>3 DEF Items
<1>5. QED BY <1>2, <1>4 DEF RepeatedTool

\* The score of a long memory of failures.
LEMMA MemoryScore ==
  ASSUME NEW h, h.ewma \in Nat, NEW k \in Nat, h.ewma >= k * Percent
  PROVE  LongMemoryScore(h) \in Nat /\ LongMemoryScore(h) >= Lesser(20 * k, 2000)
<1> DEFINE unit == OneEwma \div 1000
           share == Rounded(2 * h.ewma, unit)
<1>1. Percent = 10 * unit /\ unit \in Nat \ {0} /\ Percent \in Nat
  BY DEF Percent, OneEwma
<1> HIDE DEF unit
<1> DEFINE e == h.ewma
<1>2. e \in Nat /\ e >= k * Percent
  OBVIOUS
<1> HIDE DEF e
<1>3. k * Percent = k * (10 * unit)
  BY <1>1
<1>4. 2 * (k * (10 * unit)) = (20 * k) * unit
  BY ONLY <1>1, k \in Nat
<1>5. k * (10 * unit) \in Nat /\ (20 * k) * unit \in Nat
  BY ONLY <1>1, k \in Nat
<1>6. 2 * e >= (20 * k) * unit /\ 2 * e \in Nat /\ 20 * k \in Nat
  <2> DEFINE p == k * (10 * unit)
             q == (20 * k) * unit
  <2>1. p \in Nat /\ q \in Nat /\ 2 * p = q /\ e >= p
    BY <1>2, <1>3, <1>4, <1>5
  <2> HIDE DEF p, q
  <2>2. 2 * e >= q /\ 2 * e \in Nat
    BY <1>2, <2>1
  <2>3. QED BY <2>2 DEF q
<1>7. Rounded(2 * e, unit) \in Nat /\ Rounded(2 * e, unit) >= 20 * k
  BY <1>1, <1>6, RoundedAtLeast
<1>8. share \in Nat /\ share >= 20 * k
  BY <1>7 DEF e
<1>9. LongMemoryScore(h) = Lesser(share, 2000)
  BY DEF LongMemoryScore, unit
<1> HIDE DEF share
<1>10. QED BY ONLY <1>8, <1>9, k \in Nat DEF Lesser

\* At most so many successes among n calls cost this much at least.
Wasteful(n, most, waste) ==
  waste \in Nat /\ waste <= 1500 /\ (n - most) * 500 >= waste * most

\* The average is this many hundredths at least.
Remembered(h, e) == e \in 0..100 /\ h.ewma >= e * Percent

\* What is known to add up.
KnownEntropy(retry, failed, n, waste, e) ==
  Lesser(1000 * retry, 4000) + FailurePart(failed) + 2000 + (25 * n + waste) + 20 * e

\* The entropy, from the streak, the failures among the last five, the most successes
\* there can be, and the average.
LEMMA EntropyFloor ==
  ASSUME NEW r, r.retry_count \in Nat, r.prev_latency \in Nat, r.steps_executed \in Nat,
         NEW h, IsCalls(h), NEW n, n = Len(h.recent), n \in 4..10, r.steps_executed >= n,
         NEW first, first = LatestFrom(n), NEW failed \in 0..5,
         NEW S \in SUBSET (first..n), Cardinality(S) >= failed, \A i \in S : ~h.recent[i].success,
         NEW W \in SUBSET (1..n), NEW most \in 1..10, Cardinality(W) <= most,
         \A i \in (1..n) \ W : ~h.recent[i].success,
         NEW waste, Wasteful(n, most, waste), NEW e, Remembered(h, e)
  PROVE  /\ Entropy(h, ActionOf(r)) \in Nat
         /\ Entropy(h, ActionOf(r)) >= KnownEntropy(r.retry_count, failed, n, waste, e)
<1> DEFINE c == ActionOf(r)
           won == CountOf(h.recent, TRUE)
           outputs == Greater(1, won)
           depth == DepthScore(c.depth)
           retry == RetryScore(c.retry_count)
           failure == FailureScore(h)
           repeated == RepeatedTool(h, c.tool)
           late == Lesser(c.latency, 2000)
           cost == CostScore(h, c.cumulative_calls)
           memory == LongMemoryScore(h)
<1>0. /\ waste \in Nat /\ waste <= 1500 /\ (n - most) * 500 >= waste * most
      /\ e \in 0..100 /\ h.ewma >= e * Percent
  BY DEF Wasteful, Remembered
<1>1. /\ c.tool = Tool /\ c.depth = 0 /\ c.retry_count = r.retry_count
      /\ c.latency = r.prev_latency \div 2 /\ c.cumulative_calls = r.steps_executed
  BY DEF ActionOf
<1>2. n \in 1..10 /\ n \in 2..10 /\ failed \in Nat /\ failed <= 5 /\ e \in Nat
  BY ONLY <1>0, n \in 4..10, failed \in 0..5
<1>3. failure \in Nat /\ failure >= FailurePart(failed)
  <2>1. Cardinality(S) >= failed /\ \A i \in S : ~h.recent[i].success
    OBVIOUS
  <2>2. n = Len(h.recent) /\ first = LatestFrom(n)
    OBVIOUS
  <2>3. QED BY ONLY <1>2, <2>1, <2>2, IsCalls(h), S \in SUBSET (first..n), FailuresScore, Zenon
<1>4. repeated = 2000
  <2>1. Len(h.recent) \in 2..10
    BY ONLY <1>2, n = Len(h.recent)
  <2>2. RepeatedTool(h, Tool) = 2000
    BY ONLY <2>1, IsCalls(h), RepeatedScore
  <2>3. c.tool = Tool
    BY <1>1
  <2> HIDE DEF c
  <2>4. QED BY <2>2, <2>3
<1>5. won \in Nat /\ won <= most
  <2>1. h.recent \in Seq(Items)
    BY DEF IsCalls
  <2>2. DOMAIN h.recent = 1..n
    BY <2>1, LenProperties
  <2>3. most \in Nat
    BY ONLY most \in 1..10
  <2>4. QED BY <2>1, <2>2, <2>3, SuccessesFound
<1>6. outputs \in 1..10 /\ outputs <= most
  <2> HIDE DEF won
  <2>1. QED BY ONLY <1>5, most \in 1..10 DEF Greater
<1>7. (n - outputs) * 500 >= waste * outputs
  <2> HIDE DEF outputs
  <2>1. waste * outputs <= waste * most
    BY ONLY <1>6, <1>0, most \in 1..10
  <2>2. (n - outputs) * 500 >= (n - most) * 500
    BY ONLY <1>6, n \in 4..10, most \in 1..10
  <2>3. waste * outputs \in Int /\ waste * most \in Int
    BY ONLY <1>6, <1>0, most \in 1..10
  <2> DEFINE p == waste * outputs
             q == waste * most
  <2>4. p <= q /\ p \in Int /\ q \in Int /\ (n - most) * 500 >= q
    BY <1>0, <2>1, <2>3
  <2> HIDE DEF p, q
  <2>5. (n - outputs) * 500 >= p
    BY ONLY <1>6, <2>2, <2>4, n \in 4..10, most \in 1..10
  <2>6. QED BY <2>5 DEF p
<1>8. cost \in Nat /\ cost >= 25 * n + waste
  <2>1. /\ CostScore(h, r.steps_executed) \in Nat
        /\ CostScore(h, r.steps_executed) >= 25 * n + waste
    <3>1. Wasted(n, won, waste)
      BY ONLY <1>7 DEF Wasted
    <3>2. r.steps_executed \in Nat /\ r.steps_executed >= n
      OBVIOUS
    <3>6. Counts(h, n, won)
      BY Zenon DEF Counts
    <3> HIDE DEF won
    <3>3. waste \in Nat /\ waste <= 1500 /\ n \in 1..10 /\ won \in Nat
      <4>1. waste \in Nat /\ waste <= 1500
        BY ONLY <1>0
      <4>2. QED BY ONLY <4>1, <1>2, <1>5
    <3>4. Wasting(h, r.steps_executed, n, won, waste)
      <4>1. Sizes(r.steps_executed, n, won, waste)
        BY ONLY <3>2, <3>3, SMT DEF Sizes
      <4>2. QED BY ONLY <3>1, <3>6, <4>1, Zenon DEF Wasting
    <3>5. QED BY ONLY <3>4, CostFloor
  <2>2. QED BY <1>1, <2>1
<1>9. memory \in Nat /\ memory >= 20 * e
  <2>1. memory \in Nat /\ memory >= Lesser(20 * e, 2000)
    BY <1>0, <1>2, MemoryScore DEF IsCalls
  <2> HIDE DEF memory
  <2>2. QED BY ONLY <1>0, <2>1 DEF Lesser
<1>10. depth = 0 /\ retry = Lesser(1000 * r.retry_count, 4000) /\ retry \in Nat
  <2>1. depth = DepthScore(0) /\ retry = RetryScore(r.retry_count)
    BY ONLY <1>1
  <2> HIDE DEF depth, retry
  <2>2. depth = 0 /\ retry = Lesser(1000 * r.retry_count, 4000)
    BY ONLY <2>1 DEF DepthScore, RetryScore, Lesser
  <2>3. Lesser(1000 * r.retry_count, 4000) \in Nat
    BY ONLY r.retry_count \in Nat DEF Lesser
  <2>4. QED BY <2>2, <2>3
<1>11. late \in Nat
  <2> DEFINE latency == c.latency
  <2>1. latency = r.prev_latency \div 2
    BY <1>1
  <2> HIDE DEF latency
  <2>2. latency \in Nat
    BY ONLY <2>1, r.prev_latency \in Nat
  <2>3. Lesser(latency, 2000) \in Nat
    BY ONLY <2>2 DEF Lesser
  <2>4. QED BY <2>3 DEF latency
<1>12. Entropy(h, c) = depth + retry + failure + repeated + late + cost + memory
  BY ONLY Zenon DEF Entropy
<1>13. FailurePart(failed) \in Nat
  BY ONLY <1>2 DEF FailurePart, Lesser
<1> HIDE DEF c, depth, retry, failure, repeated, late, cost, memory
<1> DEFINE base == Lesser(1000 * r.retry_count, 4000)
           share == FailurePart(failed)
<1>14. retry = base /\ failure >= share /\ share \in Nat
  BY <1>3, <1>10, <1>13
<1> HIDE DEF base, share
<1>15. /\ Entropy(h, c) \in Nat
       /\ Entropy(h, c) >= base + share + 2000 + (25 * n + waste) + 20 * e
  BY ONLY <1>2, <1>3, <1>4, <1>8, <1>9, <1>10, <1>11, <1>12, <1>14, <1>0
<1>16. QED BY <1>15 DEF c, base, share, KnownEntropy

\* What a runner of any experiment knows.
LoopFields ==
  {"step", "steps_executed", "total_failures", "retry_count", "prev_latency",
   "first_intervention_step", "first_intervention_type", "final_state", "step_log",
   "entropy_trajectory", "history"}

\* The streak counted is the one in the history.
Streak(h, streak) == streak \in Nat /\ \A n \in 0..5 : FailedLast(h, n) <=> streak >= n

\* A run in which every call is heard of.
Attentive(r) ==
  /\ LoopFields \subseteq DOMAIN r
  /\ r.steps_executed \in Nat /\ r.prev_latency \in Nat
  /\ IsCalls(r.history) /\ Len(r.history.recent) <= r.steps_executed
  /\ Streak(r.history, r.retry_count)
  /\ r.retry_count >= 1 => r.history.ewma >= 10 * Percent
  /\ r.retry_count >= 2 => r.history.ewma >= 19 * Percent

\* Five failures in a row bring the entropy to 10, four to 9.1.
LEMMA StreakEntropy ==
  ASSUME NEW r, Attentive(r), NEW k \in 4..5, r.retry_count >= k
  PROVE  /\ Entropy(r.history, ActionOf(r)) \in Nat
         /\ Entropy(r.history, ActionOf(r)) >= IF k = 5 THEN 10000 ELSE 9100
<1> DEFINE h == r.history
           n == Len(h.recent)
           retry == r.retry_count
           first == LatestFrom(n)
           S == (n - k + 1)..n
           W == 1..(n - k)
           most == Greater(1, n - k)
           waste == IF k = 5 THEN 500 ELSE 333
           e == IF k = 5 THEN 19 ELSE 10
<1>1. retry \in Nat /\ retry >= k /\ k \in 0..5
  BY DEF Attentive, Streak
<1>2. FailedLast(h, k)
  BY <1>1 DEF Attentive, Streak
<1>3. n \in k..10 /\ DOMAIN h.recent = 1..n
  <2>1. h.recent \in Seq(Items) /\ n <= 10 /\ n >= k
    BY <1>2 DEF Attentive, IsCalls, FailedLast
  <2>2. n \in Nat /\ DOMAIN h.recent = 1..n
    BY <2>1, LenProperties
  <2> HIDE DEF n, retry
  <2>3. QED BY <1>1, <2>1, <2>2
<1>4. \A i \in 1..n : i > n - k => ~h.recent[i].success
  BY <1>2, <1>3 DEF FailedLast
<1>5. /\ r.steps_executed >= n /\ r.steps_executed \in Nat /\ r.prev_latency \in Nat
      /\ IsCalls(h)
  <2>1. /\ r.steps_executed \in Nat /\ r.prev_latency \in Nat
        /\ IsCalls(h) /\ n <= r.steps_executed
    BY DEF Attentive
  <2> HIDE DEF n
  <2>2. QED BY <1>3, <2>1
<1>6. Remembered(h, e)
  <2>1. retry >= 1 /\ retry >= 2
    <3> HIDE DEF retry
    <3>1. QED BY ONLY <1>1, k \in 4..5
  <2>2. h.ewma >= 10 * Percent /\ h.ewma >= 19 * Percent
    BY <2>1 DEF Attentive
  <2>3. e \in 0..100 /\ (e = 10 \/ e = 19)
    BY ONLY k \in 4..5
  <2> HIDE DEF e, h
  <2>4. QED BY ONLY <2>2, <2>3 DEF Remembered
<1> HIDE DEF n, retry, e
<1>7. first \in 1..n /\ S \subseteq first..n /\ W \subseteq 1..n /\ most \in 1..10 /\ n \in 4..10
  <2>1. n \in 4..10 /\ n - k \in 0..6
    BY ONLY <1>3, k \in 4..5
  <2>2. first \in 1..n /\ first <= n - k + 1
    BY ONLY <1>3, k \in 4..5 DEF LatestFrom
  <2>3. most \in 1..10
    BY ONLY <2>1 DEF Greater
  <2> HIDE DEF first
  <2>4. S \subseteq first..n
    BY ONLY <1>3, <2>2, k \in 4..5
  <2>5. W \subseteq 1..n
    BY ONLY <1>3, k \in 4..5
  <2>6. QED BY <2>1, <2>2, <2>3, <2>4, <2>5
<1>8. Cardinality(S) = k /\ Cardinality(W) <= most
  <2>1. n - k + 1 \in Int /\ n \in Int /\ 1 \in Int /\ n - k \in Int
    BY ONLY <1>3, k \in 4..5
  <2>2. Cardinality(S) = IF n - k + 1 > n THEN 0 ELSE n - (n - k + 1) + 1
    BY ONLY <2>1, FS_Interval
  <2>3. Cardinality(W) = IF 1 > n - k THEN 0 ELSE (n - k) - 1 + 1
    BY ONLY <2>1, FS_Interval
  <2> HIDE DEF S, W
  <2>4. Cardinality(S) = k
    BY ONLY <1>3, <2>2, k \in 4..5
  <2>5. Cardinality(W) <= most
    BY ONLY <1>3, <2>3, k \in 4..5 DEF Greater
  <2>6. QED BY <2>4, <2>5
<1>9. /\ \A i \in S : ~h.recent[i].success
      /\ \A i \in (1..n) \ W : ~h.recent[i].success
  <2>1. \A i \in S : i \in 1..n /\ i > n - k
    BY ONLY <1>3, k \in 4..5
  <2>2. \A i \in (1..n) \ W : i > n - k
    BY ONLY <1>3, k \in 4..5
  <2> HIDE DEF S, W
  <2>3. QED BY <1>4, <2>1, <2>2
<1>10. Wasteful(n, most, waste)
  <2>1. n - k \in 0..(10 - k) /\ n >= k
    BY ONLY <1>3, k \in 4..5
  <2>2. CASE k = 5
    BY ONLY <1>3, <2>2 DEF Wasteful, Greater
  <2>3. CASE k = 4
    BY ONLY <1>3, <2>3 DEF Wasteful, Greater
  <2>4. QED BY ONLY <2>2, <2>3, k \in 4..5
<1> HIDE DEF S, W, most, waste, first
<1>11. Cardinality(S) >= k /\ first = LatestFrom(n) /\ n = Len(h.recent)
       /\ retry \in Nat /\ retry = r.retry_count
  <2>1. Cardinality(S) >= k
    BY ONLY <1>8, k \in 4..5
  <2>2. QED BY <1>1, <2>1 DEF first, n, retry
<1>12. /\ Entropy(h, ActionOf(r)) \in Nat
       /\ Entropy(h, ActionOf(r)) >= KnownEntropy(retry, k, n, waste, e)
  <2> HIDE DEF h
  <2>1. \A i \in S : ~h.recent[i].success
    BY <1>9
  <2>2. \A i \in (1..n) \ W : ~h.recent[i].success
    BY <1>9
  <2>3. r.retry_count \in Nat
    BY <1>1 DEF retry
  <2>4. /\ Entropy(h, ActionOf(r)) \in Nat
        /\ Entropy(h, ActionOf(r)) >= KnownEntropy(r.retry_count, k, n, waste, e)
    BY ONLY <1>1, <1>5, <1>6, <1>7, <1>8, <1>10, <1>11, <2>1, <2>2, <2>3, EntropyFloor, Zenon
  <2>5. QED BY ONLY <2>4, <1>11, Zenon
<1>13. KnownEntropy(retry, k, n, waste, e) >= IF k = 5 THEN 10000 ELSE 9100
  <2>1. CASE k = 5
    BY ONLY <1>1, <1>3, <2>1 DEF KnownEntropy, FailurePart, Lesser, waste, e
  <2>2. CASE k = 4
    BY ONLY <1>1, <1>3, <2>2 DEF KnownEntropy, FailurePart, Lesser, waste, e
  <2>3. QED BY ONLY <2>1, <2>2, k \in 4..5
<1>14. KnownEntropy(retry, k, n, waste, e) \in Int
  <2>1. waste \in Nat /\ e \in Nat
    BY DEF waste, e
  <2> HIDE DEF waste, e
  <2>2. QED BY ONLY <1>1, <1>3, <2>1, k \in 4..5 DEF KnownEntropy, FailurePart, Lesser
<1> DEFINE known == KnownEntropy(retry, k, n, waste, e)
           entropy == Entropy(h, ActionOf(r))
<1> HIDE DEF known, entropy
<1>15. entropy \in Nat /\ entropy >= known /\ known >= (IF k = 5 THEN 10000 ELSE 9100) /\ known \in Int
  BY <1>12, <1>13, <1>14 DEF known, entropy
<1>16. entropy \in Nat /\ entropy >= (IF k = 5 THEN 10000 ELSE 9100)
  BY ONLY <1>15
<1>17. QED BY <1>16 DEF entropy

\* Seven failures among nine calls, the ninth among them and four of the latest five,
\* bring it to 7.3.
LEMMA ScatteredEntropy ==
  ASSUME NEW r, Attentive(r), Len(r.history.recent) = 9, r.retry_count >= 1,
         NEW a \in 1..4, NEW b \in 5..8,
         \A i \in (1..9) \ {a, b} : ~r.history.recent[i].success
  PROVE  /\ Entropy(r.history, ActionOf(r)) \in Nat
         /\ Entropy(r.history, ActionOf(r)) >= 7300
<1> DEFINE h == r.history
           retry == r.retry_count
           S == (5..9) \ {b}
           W == {a, b}
           waste == 1500
<1>1. /\ retry \in Nat /\ retry >= 1 /\ IsCalls(h) /\ Len(h.recent) = 9
      /\ r.steps_executed \in Nat /\ r.prev_latency \in Nat /\ 9 <= r.steps_executed
      /\ h.ewma \in Nat /\ h.ewma >= 10 * Percent
  BY DEF Attentive, Streak, IsCalls
<1> HIDE DEF h, retry
<1>2. /\ S \subseteq 5..9 /\ W \subseteq 1..9
      /\ \A i \in S : i \in (1..9) \ W
  OBVIOUS
<1>3. Cardinality(S) = 4
  <2>1. 5 \in Int /\ 9 \in Int /\ b \in 5..9 /\ ~(5 > 9) /\ 9 - 5 + 1 = 5
    OBVIOUS
  <2>2. IsFiniteSet(5..9) /\ Cardinality(5..9) = 5
    BY ONLY <2>1, FS_Interval
  <2>3. Cardinality((5..9) \ {b}) = Cardinality(5..9) - 1
    BY ONLY <2>1, <2>2, FS_RemoveElement
  <2>4. QED BY ONLY <2>2, <2>3
<1>4. Cardinality(W) <= 2
  <2>1. W = {a} \cup {b}
    OBVIOUS
  <2>2. IsFiniteSet({a}) /\ Cardinality({a}) = 1
    BY FS_Singleton
  <2>3. Cardinality({a} \cup {b}) = IF b \in {a} THEN Cardinality({a}) ELSE Cardinality({a}) + 1
    BY ONLY <2>2, FS_AddElement
  <2> HIDE DEF W
  <2>4. QED BY ONLY <2>1, <2>2, <2>3
<1>5. /\ \A i \in S : ~h.recent[i].success
      /\ \A i \in (1..9) \ W : ~h.recent[i].success
  BY <1>2 DEF h
<1>6. Wasteful(9, 2, waste)
  BY DEF Wasteful
<1>7. Remembered(h, 10)
  BY ONLY <1>1 DEF Remembered
<1> HIDE DEF S, W, waste
<1>8. 9 \in 4..10 /\ 5 = LatestFrom(9) /\ 4 \in 0..5 /\ 2 \in 1..10
  BY DEF LatestFrom
<1> DEFINE n == 9
           first == 5
           failed == 4
           most == 2
           e == 10
<1>9. /\ n = Len(h.recent) /\ n \in 4..10 /\ r.steps_executed >= n /\ first = LatestFrom(n)
      /\ failed \in 0..5 /\ S \in SUBSET (first..n) /\ W \in SUBSET (1..n) /\ most \in 1..10
      /\ Cardinality(W) <= most /\ Wasteful(n, most, waste) /\ Remembered(h, e)
      /\ Cardinality(S) >= failed
      /\ \A i \in (1..n) \ W : ~h.recent[i].success
  <2>1. Cardinality(S) >= 4 /\ r.steps_executed >= 9
    BY ONLY <1>1, <1>3
  <2>2. QED BY <1>1, <1>2, <1>4, <1>5, <1>6, <1>7, <1>8, <2>1
<1> HIDE DEF n, first, failed, most, e
<1>10. r.retry_count \in Nat
  BY <1>1 DEF retry
<1>11. /\ Entropy(h, ActionOf(r)) \in Nat
       /\ Entropy(h, ActionOf(r)) >= KnownEntropy(r.retry_count, failed, n, waste, e)
  BY ONLY <1>1, <1>5, <1>9, <1>10, EntropyFloor, Zenon
<1>12. KnownEntropy(retry, failed, n, waste, e) >= 7300 /\ KnownEntropy(retry, failed, n, waste, e) \in Int
  BY ONLY <1>1 DEF KnownEntropy, FailurePart, Lesser, waste, e, n, failed
<1> DEFINE known == KnownEntropy(retry, failed, n, waste, e)
           entropy == Entropy(h, ActionOf(r))
<1> HIDE DEF known, entropy
<1>13. entropy \in Nat /\ entropy >= known /\ known >= 7300 /\ known \in Int
  BY <1>11, <1>12 DEF known, entropy, retry
<1>14. entropy \in Nat /\ entropy >= 7300
  BY ONLY <1>13
<1>15. QED BY <1>14 DEF entropy, h

-----------------------------------------------------------------------------
(* Outages: what the merged controller makes of them.                      *)

\* No four failures in a row with a call after them.
NoFourBefore(h) ==
  \A i \in 1..6 : i + 4 <= Len(h.recent) => \E j \in i..(i + 3) : h.recent[j].success

\* A merged run: its breaker's window is what RNOS remembers, too.
Mirrored(r) ==
  /\ Attentive(r)
  /\ Untripped(r.cb) /\ r.cb.threshold = 60 /\ r.cb.window \in Seq(BOOLEAN)
  /\ Len(r.cb.window) = Len(r.history.recent)
  /\ \A i \in 1..Len(r.cb.window) : r.cb.window[i] = r.history.recent[i].success
  /\ NoFourBefore(r.history)

\* The breaker counts with the same numbers.
LEMMA LargeCounts ==
  ASSUME NEW S
  PROVE  Large!Cardinality(S) = Cardinality(S)
BY DEF Large!Cardinality, Cardinality

\* The failures of a window, and the rate in tenths.
LEMMA RateInTenths ==
  ASSUME NEW cb, cb.window \in Seq(BOOLEAN), Len(cb.window) <= 10
  PROVE  LET found == {i \in 1..Len(cb.window) : ~cb.window[i]}
             failures == Large!Failures(cb.window)
         IN  /\ failures = Cardinality(found) /\ failures \in Nat
             /\ BreakerRate(cb) = 100 * failures
<1> DEFINE found == {i \in 1..Len(cb.window) : ~cb.window[i]}
           failures == Large!Failures(cb.window)
<1>1. DOMAIN cb.window = 1..Len(cb.window) /\ Len(cb.window) \in Nat
  BY LenProperties
<1>2. failures = Large!Cardinality(found)
  BY <1>1 DEF Large!Failures
<1>3. Large!Cardinality(found) = Cardinality(found)
  BY LargeCounts
<1>4. IsFiniteSet(found)
  <2>1. IsFiniteSet(1..Len(cb.window)) /\ found \subseteq 1..Len(cb.window)
    BY <1>1, FS_Interval
  <2>2. QED BY <2>1, FS_Subset
<1>5. failures = Cardinality(found) /\ failures \in Nat
  BY <1>2, <1>3, <1>4, FS_CardinalityType
<1>6. BreakerRate(cb) = Rounded(1000 * failures, 10)
  BY DEF BreakerRate
<1> HIDE DEF failures
<1>7. Rounded(1000 * failures, 10) = 100 * failures
  BY <1>5 DEF Rounded
<1>8. QED BY <1>5, <1>6, <1>7 DEF failures

\* A product grows with its factor.
LEMMA Scales ==
  ASSUME NEW a \in Int, NEW b \in Int, a <= b, NEW d \in Nat
  PROVE  a * d \in Int /\ a * d <= b * d
OBVIOUS

\* From a rate of 0.4 on an entropy of 9.1 is refused, from 0.7 on one of 7.3.
LEMMA LoweredRefuses ==
  ASSUME RefuseEntropy <= 10000, NEW entropy \in Nat, NEW rate \in Nat, NEW coherence,
         \/ rate >= 400 /\ entropy >= 9100
         \/ rate >= 700 /\ entropy >= 7300
  PROVE  LoweredSeverity(entropy, rate, coherence) = 2
<1> DEFINE pressure == RatePressure(rate)
           discount == 3 * pressure + (IF coherence >= 1 THEN 1500 ELSE 0)
           rest == 10000 - discount
<1>1. pressure \in 0..1000 /\ (rate >= 400 => pressure >= 300) /\ (rate >= 700 => pressure >= 900)
  BY DEF RatePressure, Greater, Lesser
<1> HIDE DEF pressure
<1>2. discount \in 0..4500 /\ discount >= 3 * pressure
  BY ONLY <1>1
<1> HIDE DEF discount
<1>3. rest \in Nat /\ entropy >= rest
  BY <1>1, <1>2
<1> HIDE DEF rest
<1>4. RefuseEntropy \in Int
  BY PolicyAssumption
<1>5. RefuseEntropy * rest \in Int /\ RefuseEntropy * rest <= 10000 * rest
  <2> DEFINE limit == 10000
  <2>1. limit \in Int /\ RefuseEntropy <= limit
    OBVIOUS
  <2> HIDE DEF limit
  <2>2. RefuseEntropy * rest \in Int /\ RefuseEntropy * rest <= limit * rest
    BY ONLY <1>3, <1>4, <2>1, Scales
  <2>3. QED BY <2>2 DEF limit
<1> DEFINE product == RefuseEntropy * rest
<1>6. product \in Int /\ product <= 10000 * rest
  BY <1>5
<1> HIDE DEF product
<1>7. 10000 * entropy >= product
  BY ONLY <1>3, <1>6, entropy \in Nat
<1>8. 10000 * entropy >= RefuseEntropy * (10000 - discount)
  BY <1>7 DEF product, rest
<1>9. QED BY <1>8 DEF LoweredSeverity, discount, pressure

\* A merge refuses what the lowered threshold refuses.
LEMMA MergeListens ==
  ASSUME NEW decision, NEW entropy, NEW reason, NEW rate, NEW lambda,
         LoweredSeverity(entropy, rate, CoherenceSeverity(lambda)) = 2
  PROVE  Merge(decision, entropy, reason, rate, lambda).decision = "REFUSE"
<1> DEFINE coherence == CoherenceSeverity(lambda)
           breaker == BreakerSeverity(reason)
           lowered == LoweredSeverity(entropy, rate, coherence)
           rnos == Greater(SeverityOf(decision), lowered)
           worst == Greater(rnos, Greater(breaker, coherence))
<1>1. coherence \in 0..2 /\ breaker \in 0..2 /\ SeverityOf(decision) \in 0..2
  BY DEF CoherenceSeverity, BreakerSeverity, SeverityOf
<1>2. lowered = 2
  OBVIOUS
<1> HIDE DEF coherence, breaker, lowered
<1>3. worst = 2
  BY <1>1, <1>2 DEF Greater
<1> HIDE DEF worst, rnos
<1>4. QED BY <1>3 DEF Merge, worst, rnos, coherence, breaker, lowered

\* If the others are as many as can be, they are all the others.
LEMMA AllTheOthers ==
  ASSUME NEW n \in Nat, NEW found \in SUBSET (1..n), NEW A \in SUBSET (1..n),
         A \cap found = {}, Cardinality(found) >= n - Cardinality(A)
  PROVE  found = (1..n) \ A
<1> DEFINE all == 1..n
           rest == all \ A
<1>1. IsFiniteSet(all) /\ Cardinality(all) = n
  <2>1. 1 \in Int /\ n \in Int
    OBVIOUS
  <2>2. IsFiniteSet(all) /\ Cardinality(all) = IF 1 > n THEN 0 ELSE n - 1 + 1
    BY ONLY <2>1, FS_Interval
  <2> HIDE DEF all
  <2>3. QED BY ONLY <2>2, n \in Nat
<1>2. all \cap A = A /\ found \subseteq rest
  OBVIOUS
<1> HIDE DEF all
<1>3. IsFiniteSet(rest) /\ Cardinality(rest) = n - Cardinality(A)
  BY ONLY <1>1, <1>2, FS_Difference
<1> HIDE DEF rest
<1>4. Cardinality(found) <= Cardinality(rest) /\ IsFiniteSet(found)
  BY ONLY <1>2, <1>3, FS_Subset
<1>5. Cardinality(found) \in Nat /\ Cardinality(rest) \in Nat
  BY ONLY <1>3, <1>4, FS_CardinalityType
<1>6. Cardinality(rest) = Cardinality(found)
  BY <1>3, <1>4, <1>5
<1>7. QED BY <1>2, <1>3, <1>6, FS_Subset DEF rest, all

\* Seven failures in a window that does not trip its breaker: the latest four calls
\* failed, or there are nine, and two successes among them kept the streaks short.
LEMMA ScatteredFailures ==
  ASSUME NEW r, Mirrored(r), Large!Failures(r.cb.window) > 6,
         ~Large!Failing(r.cb.window, r.cb.threshold)
  PROVE  \/ FailedLast(r.history, 4)
         \/ /\ Len(r.history.recent) = 9 /\ FailedLast(r.history, 1)
            /\ \E a \in 1..4, b \in 5..8 :
                 \A i \in (1..9) \ {a, b} : ~r.history.recent[i].success
<1> DEFINE h == r.history
           w == r.cb.window
           n == Len(h.recent)
           found == {i \in 1..n : ~h.recent[i].success}
           failures == Large!Failures(w)
<1>1. /\ IsCalls(h) /\ w \in Seq(BOOLEAN) /\ Len(w) = n
      /\ \A i \in 1..n : w[i] = h.recent[i].success
      /\ NoFourBefore(h) /\ r.cb.threshold = 60 /\ failures > 6
  BY DEF Mirrored, Attentive
<1>2. n \in Nat /\ n <= 10 /\ DOMAIN h.recent = 1..n
  <2>1. h.recent \in Seq(Items) /\ n <= 10
    BY <1>1 DEF IsCalls
  <2>2. QED BY <2>1, LenProperties
<1>3. failures = Cardinality(found) /\ failures \in Nat
  <2>1. /\ failures = Cardinality({i \in 1..Len(w) : ~w[i]})
        /\ failures \in Nat
    BY <1>1, <1>2, RateInTenths
  <2>2. {i \in 1..Len(w) : ~w[i]} = found
    BY <1>1
  <2>3. QED BY <2>1, <2>2
<1>4. n < 10
  <2>1. Large!Failing(w, 60) <=> Len(w) >= 10 /\ failures * 100 > 60 * 10
    BY DEF Large!Failing
  <2>2. ~Large!Failing(w, 60)
    BY <1>1
  <2> HIDE DEF w, failures, n
  <2>3. Len(w) = n
    BY <1>1
  <2>4. failures * 100 > 60 * 10
    BY ONLY <1>1, <1>3
  <2>5. QED BY <1>2, <2>1, <2>2, <2>3, <2>4
<1> HIDE DEF failures, w
<1>5. found \subseteq 1..n /\ IsFiniteSet(1..n) /\ Cardinality(1..n) = n
  <2>1. found \subseteq 1..n
    OBVIOUS
  <2> HIDE DEF n
  <2>2. 1 \in Int /\ n \in Int /\ (1 > n => n = 0)
    BY <1>2
  <2>3. IsFiniteSet(1..n) /\ Cardinality(1..n) = IF 1 > n THEN 0 ELSE n - 1 + 1
    BY ONLY <2>2, FS_Interval
  <2>4. QED BY <2>1, <2>2, <2>3
<1>6. n \in 7..9
  <2>1. Cardinality(found) <= Cardinality(1..n)
    BY <1>5, FS_Subset
  <2> HIDE DEF n, found
  <2>2. QED BY ONLY <1>1, <1>2, <1>3, <1>4, <1>5, <2>1
<1>7. \A i \in 1..n : i \in found <=> ~h.recent[i].success
  OBVIOUS
<1>8. \A i \in 1..6 : i + 4 <= n => \E j \in i..(i + 3) : h.recent[j].success
  BY <1>1 DEF NoFourBefore
<1>9. Cardinality(found) >= 7
  BY ONLY <1>1, <1>3
<1> HIDE DEF n, found
<1>10. ASSUME NEW k \in 0..5, k <= n, \A i \in 1..n : i > n - k => i \in found
       PROVE  FailedLast(h, k)
  BY <1>2, <1>7, <1>10 DEF FailedLast, n
<1>11. CASE n = 7
  <2> DEFINE none == {}
  <2>1. Cardinality(none) = 0 /\ none \in SUBSET (1..n) /\ none \cap found = {}
    BY FS_EmptySet
  <2> HIDE DEF none
  <2>2. Cardinality(found) >= n - Cardinality(none)
    BY ONLY <1>9, <1>11, <2>1
  <2>3. found = (1..n) \ none
    <3>1. n \in Nat /\ found \in SUBSET (1..n)
      BY ONLY <1>2, <1>5
    <3>2. QED BY ONLY <2>1, <2>2, <3>1, AllTheOthers
  <2>4. FailedLast(h, 4)
    BY <1>10, <1>11, <2>3 DEF none
  <2>5. QED BY <2>4
<1>12. CASE n = 8
  <2>1. PICK j \in 4..7 : h.recent[j].success
    <3>1. 4 \in 1..6 /\ 4 + 4 <= n /\ 4 + 3 = 7
      BY ONLY <1>12
    <3>2. QED BY <1>8, <3>1
  <2>2. PICK l \in 1..4 : h.recent[l].success
    <3>1. 1 \in 1..6 /\ 1 + 4 <= n /\ 1 + 3 = 4
      BY ONLY <1>12
    <3>2. QED BY <1>8, <3>1
  <2>3. Cardinality({j}) = 1 /\ {j} \in SUBSET (1..n) /\ {j} \cap found = {} /\ l \in 1..n /\ l \notin found
    <3>1. Cardinality({j}) = 1
      BY FS_Singleton
    <3>2. j \in 1..n /\ l \in 1..n
      BY ONLY <1>12, j \in 4..7, l \in 1..4
    <3>3. QED BY <1>7, <2>1, <2>2, <3>1, <3>2
  <2>4. Cardinality(found) >= n - Cardinality({j})
    BY ONLY <1>9, <1>12, <2>3
  <2>5. found = (1..n) \ {j}
    <3>1. n \in Nat /\ found \in SUBSET (1..n)
      BY ONLY <1>2, <1>5
    <3>2. QED BY ONLY <2>3, <2>4, <3>1, AllTheOthers
  <2>6. l = j /\ j = 4
    BY ONLY <2>3, <2>5, j \in 4..7, l \in 1..4
  <2>7. FailedLast(h, 4)
    BY <1>10, <1>12, <2>5, <2>6
  <2>8. QED BY <2>7
<1>13. CASE n = 9
  <2>1. PICK a \in 1..4 : h.recent[a].success
    <3>1. 1 \in 1..6 /\ 1 + 4 <= n /\ 1 + 3 = 4
      BY ONLY <1>13
    <3>2. QED BY <1>8, <3>1
  <2>2. PICK b \in 5..8 : h.recent[b].success
    <3>1. 5 \in 1..6 /\ 5 + 4 <= n /\ 5 + 3 = 8
      BY ONLY <1>13
    <3>2. QED BY <1>8, <3>1
  <2>3. {a, b} \in SUBSET (1..n) /\ {a, b} \cap found = {}
    BY <1>7, <1>13, <2>1, <2>2
  <2>4. Cardinality({a, b}) = 2
    <3>1. IsFiniteSet({a}) /\ Cardinality({a}) = 1
      BY FS_Singleton
    <3>2. Cardinality({a} \cup {b}) = IF b \in {a} THEN Cardinality({a}) ELSE Cardinality({a}) + 1
      BY ONLY <3>1, FS_AddElement
    <3>3. b \notin {a} /\ {a, b} = {a} \cup {b}
      BY ONLY a \in 1..4, b \in 5..8
    <3>4. QED BY ONLY <3>1, <3>2, <3>3
  <2>5. Cardinality(found) >= n - Cardinality({a, b})
    BY ONLY <1>9, <1>13, <2>4
  <2>6. found = (1..n) \ {a, b}
    <3>1. n \in Nat /\ found \in SUBSET (1..n)
      BY ONLY <1>2, <1>5
    <3>2. QED BY ONLY <2>3, <2>5, <3>1, AllTheOthers
  <2>7. FailedLast(h, 1)
    <3>1. \A i \in 1..n : i > n - 1 => i \in found
      BY ONLY <1>13, <2>6, a \in 1..4, b \in 5..8
    <3>2. QED BY <1>10, <1>13, <3>1
  <2>8. \A i \in (1..9) \ {a, b} : ~h.recent[i].success
    BY <1>7, <1>13, <2>6
  <2>9. QED BY <1>13, <2>7, <2>8 DEF n
<1>14. QED BY ONLY <1>6, <1>11, <1>12, <1>13

\* Four failures in a row, or seven among the last ten, are refused.
LEMMA OutageIsRefused ==
  ASSUME RefuseEntropy <= 10000, NEW r, Mirrored(r),
         r.retry_count >= 4 \/ Large!Failures(r.cb.window) > 6
  PROVE  HybridNext(r) = "REFUSE"
<1> DEFINE asked == Large!ShouldExecute(Large!Ticked(r.cb))
           rnos == Evaluate(r.history, ActionOf(r))
           entropy == Entropy(r.history, ActionOf(r))
           rate == BreakerRate(asked)
           reason == Large!ReasonOf(asked)
           lambda == Lambda(Noted(r.records, rnos))
           failures == Large!Failures(r.cb.window)
<1>1. HybridNext(r) = Merge(rnos, entropy, reason, rate, lambda).decision
  BY DEF HybridNext, HybridAnswer
<1>2. rnos \in Decision
  BY DEF Evaluate, Policy, Decision
<1>3. Attentive(r) /\ Untripped(r.cb)
  BY DEF Mirrored
<1>4. asked = r.cb \/ reason = "open_blocked"
  BY <1>3, FirstBlock
<1>5. CASE reason = "open_blocked"
  BY <1>1, <1>2, <1>5, MergeIsAsSevere
<1>6. CASE asked = r.cb /\ reason # "open_blocked"
  <2>1. failures \in Nat /\ rate = 100 * failures
    <3>1. r.cb.window \in Seq(BOOLEAN) /\ Len(r.cb.window) <= 10
      BY DEF Mirrored, Attentive, IsCalls
    <3> DEFINE cb == r.cb
               lost == Large!Failures(cb.window)
    <3>2. cb.window \in Seq(BOOLEAN) /\ Len(cb.window) <= 10
      BY <3>1
    <3> HIDE DEF cb
    <3>3. lost \in Nat /\ BreakerRate(cb) = 100 * lost
      BY ONLY <3>2, RateInTenths
    <3>4. QED BY <1>6, <3>3 DEF cb
  <2>2. CASE r.retry_count >= 4
    <3>1. entropy \in Nat /\ entropy >= 9100
      <4>1. 4 \in 4..5 /\ 4 # 5
        OBVIOUS
      <4>2. /\ Entropy(r.history, ActionOf(r)) \in Nat
            /\ Entropy(r.history, ActionOf(r)) >= IF 4 = 5 THEN 10000 ELSE 9100
        BY ONLY <1>3, <2>2, <4>1, StreakEntropy
      <4>3. QED BY <4>2
    <3>2. failures >= 4
      <4>1. /\ IsCalls(r.history) /\ FailedLast(r.history, 4)
            /\ r.cb.window \in Seq(BOOLEAN) /\ Len(r.cb.window) = Len(r.history.recent)
            /\ \A i \in 1..Len(r.cb.window) : r.cb.window[i] = r.history.recent[i].success
        BY <1>3, <2>2 DEF Mirrored, Attentive, Streak
      <4> DEFINE n == Len(r.cb.window)
                 found == {i \in 1..n : ~r.cb.window[i]}
                 S == (n - 3)..n
      <4>2. DOMAIN r.history.recent = 1..n /\ n \in Nat /\ n <= 10
        <5>1. r.history.recent \in Seq(Items) /\ n <= 10
          BY <4>1 DEF IsCalls
        <5>2. QED BY <4>1, <5>1, LenProperties
      <4>3. n >= 4 /\ \A i \in 1..n : i > n - 4 => ~r.cb.window[i]
        BY <4>1, <4>2 DEF FailedLast
      <4>4. failures = Cardinality(found)
        <5> DEFINE cb == r.cb
        <5>1. cb.window \in Seq(BOOLEAN) /\ Len(cb.window) <= 10
          BY <4>1, <4>2
        <5> HIDE DEF cb
        <5>2. Large!Failures(cb.window) = Cardinality({i \in 1..Len(cb.window) : ~cb.window[i]})
          BY ONLY <5>1, RateInTenths
        <5>3. QED BY <5>2 DEF cb
      <4>5. S \subseteq found
        <5>1. ASSUME NEW i \in S
              PROVE  i \in 1..n /\ i > n - 4
          <6> HIDE DEF n
          <6>1. QED BY <4>2, <4>3
        <5>2. QED BY <4>3, <5>1
      <4>6. IsFiniteSet(found)
        <5>1. found \subseteq 1..n
          OBVIOUS
        <5> HIDE DEF n, found
        <5>2. n \in Int /\ 1 \in Int
          BY <4>2
        <5>3. IsFiniteSet(1..n)
          BY ONLY <5>2, FS_Interval
        <5>4. QED BY ONLY <5>1, <5>3, FS_Subset
      <4>7. Cardinality(S) = 4
        <5> HIDE DEF n
        <5>1. n - 3 \in Int /\ n \in Int /\ ~(n - 3 > n) /\ n - (n - 3) + 1 = 4
          BY <4>2
        <5>2. QED BY ONLY <5>1, FS_Interval
      <4>8. Cardinality(S) <= Cardinality(found)
        BY <4>5, <4>6, FS_Subset
      <4> HIDE DEF failures, found, S
      <4>9. QED BY ONLY <2>1, <4>4, <4>7, <4>8
    <3> HIDE DEF failures, rate, entropy
    <3>3. rate \in Nat /\ rate >= 400
      BY ONLY <2>1, <3>2
    <3>4. LoweredSeverity(entropy, rate, CoherenceSeverity(lambda)) = 2
      BY <3>1, <3>3, LoweredRefuses
    <3>5. QED BY <1>1, <3>4, MergeListens DEF entropy, rate
  <2>3. CASE ~(r.retry_count >= 4)
    <3>1. failures > 6
      BY <2>3
    <3>2. ~Large!Failing(r.cb.window, r.cb.threshold)
      <4>1. SUFFICES ASSUME Large!Failing(r.cb.window, r.cb.threshold) PROVE FALSE
        OBVIOUS
      <4>2. asked = Large!Refused(Large!Tripped(r.cb))
        BY <1>3, <4>1 DEF Large!ShouldExecute, Large!Ticked, Untripped
      <4>3. asked.state # "closed"
        BY <4>2 DEF Large!Refused, Large!Tripped, Large!BudgetSpent
      <4>4. QED BY <1>3, <1>6, <4>3 DEF Untripped
    <3>3. ~FailedLast(r.history, 4)
      BY <1>3, <2>3 DEF Attentive, Streak
    <3>4. /\ Len(r.history.recent) = 9 /\ FailedLast(r.history, 1)
          /\ \E a \in 1..4, b \in 5..8 :
               \A i \in (1..9) \ {a, b} : ~r.history.recent[i].success
      BY <3>1, <3>2, <3>3, ScatteredFailures
    <3>5. r.retry_count >= 1
      BY <1>3, <3>4 DEF Attentive, Streak
    <3>6. PICK a \in 1..4, b \in 5..8 : \A i \in (1..9) \ {a, b} : ~r.history.recent[i].success
      BY <3>4
    <3>7. entropy \in Nat /\ entropy >= 7300
      BY ONLY <1>3, <3>4, <3>5, <3>6, ScatteredEntropy
    <3> HIDE DEF failures, rate, entropy
    <3>8. rate \in Nat /\ rate >= 700
      BY ONLY <2>1, <3>1
    <3>9. LoweredSeverity(entropy, rate, CoherenceSeverity(lambda)) = 2
      BY <3>7, <3>8, LoweredRefuses
    <3>10. QED BY <1>1, <3>9, MergeListens DEF entropy, rate
  <2>4. QED BY <2>2, <2>3
<1>7. QED BY <1>4, <1>5, <1>6

-----------------------------------------------------------------------------
(* Outages: the runs.                                                      *)

\* A run that hears of its call stays attentive.
LEMMA AttentiveStep ==
  ASSUME NEW r, Attentive(r), NEW success \in BOOLEAN, NEW latency \in Nat,
         NEW n, LoopFields \subseteq DOMAIN n, Continued(n, r, success, latency)
  PROVE  Attentive(n)
<1> DEFINE h == r.history
           g == Recorded(h, Tool, success)
           streak == r.retry_count
           next == n.retry_count
<1>1. /\ n.steps_executed = r.steps_executed + 1 /\ next = (IF success THEN 0 ELSE streak + 1)
      /\ n.prev_latency = latency /\ n.history = g
  BY DEF Continued
<1>2. /\ r.steps_executed \in Nat /\ IsCalls(h) /\ Len(h.recent) <= r.steps_executed
      /\ streak \in Nat /\ \A k \in 0..5 : FailedLast(h, k) <=> streak >= k
  BY DEF Attentive, Streak
<1>3. IsCalls(g) /\ g.ewma = Smoothed(h.ewma, success) /\ Len(g.recent) <= r.steps_executed + 1
  <2>1. /\ IsCalls(g) /\ g.ewma = Smoothed(h.ewma, success) /\ Len(h.recent) \in 0..10
        /\ Len(g.recent) = (IF Len(h.recent) < 10 THEN Len(h.recent) + 1 ELSE 10)
    BY <1>2, CallRecorded
  <2> DEFINE m == Len(h.recent)
             k == Len(g.recent)
             steps == r.steps_executed
  <2>2. m \in 0..10 /\ k = (IF m < 10 THEN m + 1 ELSE 10) /\ m <= steps /\ steps \in Nat
    BY <1>2, <2>1
  <2> HIDE DEF m, k, steps
  <2>3. k <= steps + 1
    BY ONLY <2>2
  <2>4. QED BY <2>1, <2>3 DEF k, steps
<1>4. Streak(g, next)
  <2>1. next \in Nat
    BY <1>1, <1>2
  <2>2. ASSUME NEW k \in 0..5
        PROVE  FailedLast(g, k) <=> next >= k
    <3>1. CASE k = 0
      <4>1. FailedLast(g, 0)
        <5>1. 0 \in 0..4
          OBVIOUS
        <5>2. QED BY ONLY <1>2, <5>1, success \in BOOLEAN, StreakRecorded
      <4>2. QED BY <2>1, <3>1, <4>1
    <3>2. CASE k # 0
      <4> DEFINE m == k - 1
      <4>1. m \in 0..4 /\ m \in 0..5 /\ m + 1 = k
        BY ONLY <3>2, k \in 0..5
      <4> HIDE DEF m, g
      <4>2. /\ success => ~FailedLast(g, m + 1)
            /\ ~success => (FailedLast(g, m + 1) <=> FailedLast(h, m))
        BY ONLY <1>2, <4>1, success \in BOOLEAN, StreakRecorded DEF g
      <4>3. FailedLast(h, m) <=> streak >= m
        BY <1>2, <4>1
      <4> HIDE DEF next, streak, h
      <4>4. CASE success
        <5>1. next = 0 /\ ~FailedLast(g, k)
          BY <1>1, <4>1, <4>2, <4>4
        <5>2. QED BY <3>2, <5>1
      <4>5. CASE ~success
        <5>1. next = streak + 1 /\ (FailedLast(g, k) <=> streak >= m)
          BY <1>1, <4>1, <4>2, <4>3, <4>5
        <5>2. streak >= m <=> streak + 1 >= k
          BY ONLY <1>2, <4>1
        <5>3. QED BY <5>1, <5>2
      <4>6. QED BY <4>4, <4>5
    <3>3. QED BY <3>1, <3>2
  <2>3. QED BY <2>1, <2>2 DEF Streak
<1>5. /\ next >= 1 => g.ewma >= 10 * Percent
      /\ next >= 2 => g.ewma >= 19 * Percent
  <2>1. CASE success
    <3>1. next = 0
      BY <1>1, <2>1
    <3> HIDE DEF next
    <3>2. QED BY <3>1
  <2>2. CASE ~success
    <3>1. success = FALSE /\ h.ewma \in Nat /\ next = streak + 1
      BY <1>1, <1>2, <2>2 DEF IsCalls
    <3>2. /\ g.ewma >= 10 * Percent
          /\ h.ewma >= 10 * Percent => g.ewma >= 19 * Percent
      BY <1>3, <3>1, AverageRises
    <3>3. streak >= 1 => h.ewma >= 10 * Percent
      BY DEF Attentive
    <3>4. next >= 2 => streak >= 1
      BY <1>2, <3>1
    <3> HIDE DEF next, streak, h, g
    <3>5. QED BY <3>2, <3>3, <3>4
  <2>3. QED BY <2>1, <2>2
<1> HIDE DEF g, h, next, streak
<1>6. QED BY <1>1, <1>2, <1>3, <1>4, <1>5 DEF Attentive, next

\* A window takes in what the history takes in, and drops what it drops.
LEMMA WindowRecorded ==
  ASSUME NEW w \in Seq(BOOLEAN), Len(w) <= 10, NEW success \in BOOLEAN
  PROVE  LET slid == Large!Pushed(w, success)
             n == Len(w)
         IN  /\ slid \in Seq(BOOLEAN) /\ n \in 0..10
             /\ IF n < 10
                THEN /\ Len(slid) = n + 1
                     /\ \A i \in 1..n : slid[i] = w[i]
                     /\ slid[n + 1] = success
                ELSE /\ Len(slid) = 10
                     /\ \A i \in 1..9 : slid[i] = w[i + 1]
                     /\ slid[10] = success
<1> DEFINE n == Len(w)
           slid == Large!Pushed(w, success)
<1>1. n \in 0..10
  <2>1. n \in Nat /\ n <= 10
    BY LenProperties
  <2> HIDE DEF n
  <2>2. QED BY <2>1
<1>2. CASE n < 10
  <2>1. slid = Append(w, success)
    BY <1>2 DEF Large!Pushed
  <2>2. /\ slid \in Seq(BOOLEAN) /\ Len(slid) = n + 1
        /\ \A i \in 1..n : slid[i] = w[i]
        /\ slid[n + 1] = success
    BY <2>1, AppendProperties
  <2>3. QED BY <1>1, <1>2, <2>2
<1>3. CASE ~(n < 10)
  <2> DEFINE rest == Tail(w)
  <2>1. slid = Append(rest, success)
    BY <1>3 DEF Large!Pushed
  <2>2. n = 10 /\ w # << >>
    <3>1. n = 10
      <4> HIDE DEF n
      <4>1. QED BY <1>1, <1>3
    <3>2. ASSUME w = << >> PROVE FALSE
      <4>1. n = Len(<< >>)
        BY <3>2
      <4>2. Len(<< >>) = 0
        BY EmptySeq
      <4> HIDE DEF n
      <4>3. QED BY <3>1, <4>1, <4>2
    <3>3. QED BY <3>1, <3>2
  <2>3. rest \in Seq(BOOLEAN) /\ Len(rest) = 9 /\ \A i \in 1..9 : rest[i] = w[i + 1]
    <3>1. /\ rest \in Seq(BOOLEAN) /\ Len(rest) = n - 1
          /\ \A i \in 1..Len(rest) : rest[i] = w[i + 1]
      BY <2>2, HeadTailProperties
    <3>2. Len(rest) = 9
      BY <2>2, <3>1
    <3>3. QED BY <3>1, <3>2
  <2> HIDE DEF rest
  <2>4. /\ slid \in Seq(BOOLEAN) /\ Len(slid) = Len(rest) + 1
        /\ \A i \in 1..Len(rest) : slid[i] = rest[i]
        /\ slid[Len(rest) + 1] = success
    <3> DEFINE appended == Append(rest, success)
    <3>1. /\ appended \in Seq(BOOLEAN) /\ Len(appended) = Len(rest) + 1
          /\ \A i \in 1..Len(rest) : appended[i] = rest[i]
          /\ appended[Len(rest) + 1] = success
      <4>1. rest \in Seq(BOOLEAN)
        BY <2>3
      <4>2. QED BY ONLY <4>1, success \in BOOLEAN, AppendProperties
    <3> HIDE DEF slid, appended
    <3>2. slid = appended
      BY <2>1 DEF appended
    <3>3. QED BY <3>1, <3>2
  <2>5. /\ Len(slid) = 10 /\ slid[10] = success
        /\ \A i \in 1..9 : slid[i] = w[i + 1]
    BY <2>3, <2>4
  <2>6. QED BY <1>1, <1>3, <2>4, <2>5
<1>4. QED BY <1>2, <1>3

\* A merged run that hears of its call stays mirrored, unless its streak is over three
\* already.
LEMMA MirroredStep ==
  ASSUME NEW r, Mirrored(r), ~(r.retry_count >= 4),
         NEW success \in BOOLEAN, NEW latency \in Nat,
         NEW n, LoopFields \subseteq DOMAIN n, Continued(n, r, success, latency),
         n.cb = Large!RecordResult(r.cb, success)
  PROVE  Mirrored(n)
<1> DEFINE h == r.history
           g == Recorded(h, Tool, success)
           w == r.cb.window
           v == Large!Pushed(w, success)
           m == Len(h.recent)
<1>1. Attentive(n)
  BY AttentiveStep DEF Mirrored
<1>2. n.history = g
  BY DEF Continued
<1>3. /\ Attentive(r) /\ Untripped(r.cb) /\ r.cb.threshold = 60 /\ w \in Seq(BOOLEAN)
      /\ Len(w) = m /\ (\A i \in 1..Len(w) : w[i] = h.recent[i].success)
      /\ NoFourBefore(h)
  BY DEF Mirrored
<1>4. /\ IsCalls(h) /\ ~FailedLast(h, 4)
  BY <1>3 DEF Attentive, Streak
<1>5. /\ m \in 0..10 /\ DOMAIN h.recent = 1..m
      /\ IF m < 10
         THEN /\ Len(g.recent) = m + 1
              /\ \A i \in 1..m : g.recent[i] = h.recent[i]
              /\ g.recent[m + 1].success = success
         ELSE /\ Len(g.recent) = 10
              /\ \A i \in 1..9 : g.recent[i] = h.recent[i + 1]
              /\ g.recent[10].success = success
  BY <1>4, CallRecorded
<1>6. /\ v \in Seq(BOOLEAN)
      /\ IF m < 10
         THEN /\ Len(v) = m + 1
              /\ \A i \in 1..m : v[i] = w[i]
              /\ v[m + 1] = success
         ELSE /\ Len(v) = 10
              /\ \A i \in 1..9 : v[i] = w[i + 1]
              /\ v[10] = success
  <2>1. Len(w) <= 10
    BY <1>3, <1>4 DEF IsCalls
  <2> DEFINE len == Len(w)
  <2>2. /\ v \in Seq(BOOLEAN)
        /\ IF len < 10
           THEN /\ Len(v) = len + 1
                /\ \A i \in 1..len : v[i] = w[i]
                /\ v[len + 1] = success
           ELSE /\ Len(v) = 10
                /\ \A i \in 1..9 : v[i] = w[i + 1]
                /\ v[10] = success
    <3> HIDE DEF w
    <3>1. QED BY <1>3, <2>1, WindowRecorded
  <2>3. len = m
    BY <1>3
  <2> HIDE DEF len, m, v, w
  <2>4. QED BY <2>2, <2>3
<1>7. n.cb.window = v /\ n.cb.threshold = 60 /\ Untripped(n.cb)
  <2>1. Untripped(n.cb)
    BY <1>3, ResultsTripNothing
  <2>2. n.cb.window = v /\ n.cb.threshold = 60
    BY <1>3 DEF Large!RecordResult, Large!Listening, Untripped
  <2>3. QED BY <2>1, <2>2
<1>8. Len(v) = Len(g.recent) /\ \A i \in 1..Len(v) : v[i] = g.recent[i].success
  <2> DEFINE len == Len(v)
             size == Len(g.recent)
  <2>1. \A i \in 1..m : w[i] = h.recent[i].success
    BY <1>3
  <2> HIDE DEF len, size, v, g, m, w, h
  <2>2. CASE m < 10
    <3>1. len = m + 1 /\ size = m + 1
      BY <1>5, <1>6, <2>2 DEF len, size
    <3>2. ASSUME NEW i \in 1..(m + 1)
          PROVE  v[i] = g.recent[i].success
      <4>1. CASE i = m + 1
        BY <1>5, <1>6, <2>2, <4>1
      <4>2. CASE i # m + 1
        <5>1. i \in 1..m
          BY ONLY <1>5, <4>2, i \in 1..(m + 1)
        <5>2. QED BY <1>5, <1>6, <2>1, <2>2, <5>1
      <4>3. QED BY <4>1, <4>2
    <3>3. QED BY <3>1, <3>2 DEF len, size
  <2>3. CASE ~(m < 10)
    <3>1. len = 10 /\ size = 10 /\ m = 10
      <4>1. m \in 0..10
        BY ONLY <1>5
      <4>2. m = 10
        BY ONLY <2>3, <4>1
      <4>3. len = 10
        BY ONLY <1>6, <2>3 DEF len
      <4>4. size = 10
        BY ONLY <1>5, <2>3 DEF size
      <4>5. QED BY ONLY <4>2, <4>3, <4>4
    <3>2. ASSUME NEW i \in 1..10
          PROVE  v[i] = g.recent[i].success
      <4>1. CASE i = 10
        BY <1>5, <1>6, <2>3, <4>1
      <4>2. CASE i # 10
        <5>1. i \in 1..9 /\ i + 1 \in 1..m
          BY ONLY <3>1, <4>2, i \in 1..10
        <5>2. QED BY <1>5, <1>6, <2>1, <2>3, <5>1
      <4>3. QED BY <4>1, <4>2
    <3>3. QED BY <3>1, <3>2 DEF len, size
  <2>4. QED BY <2>2, <2>3
<1>9. NoFourBefore(g)
  <2>1. m >= 4 => \E j \in (m - 3)..m : h.recent[j].success
    <3>1. SUFFICES ASSUME m >= 4, \A j \in (m - 3)..m : ~h.recent[j].success PROVE FALSE
      OBVIOUS
    <3>2. \A i \in 1..m : i > m - 4 => i \in (m - 3)..m
      <4> HIDE DEF m
      <4>1. QED BY <1>5
    <3>3. FailedLast(h, 4)
      BY <1>5, <3>1, <3>2 DEF FailedLast
    <3>4. QED BY <1>4, <3>3
  <2>2. \A i \in 1..6 : i + 4 <= m => \E j \in i..(i + 3) : h.recent[j].success
    BY <1>3 DEF NoFourBefore
  <2> DEFINE size == Len(g.recent)
  <2> HIDE DEF size, g, m, h
  <2>3. ASSUME NEW i \in 1..6, i + 4 <= size
        PROVE  \E j \in i..(i + 3) : g.recent[j].success
    <3>1. CASE m < 10
      <4>1. size = m + 1
        BY <1>5, <3>1 DEF size
      <4>2. PICK j \in i..(i + 3) : j \in 1..m /\ h.recent[j].success
        <5>1. CASE i + 4 <= m
          <6>1. PICK j \in i..(i + 3) : h.recent[j].success
            BY <2>2, <5>1
          <6>2. j \in 1..m
            BY ONLY <1>5, <5>1, i \in 1..6, j \in i..(i + 3)
          <6>3. QED BY <6>1, <6>2
        <5>2. CASE ~(i + 4 <= m)
          <6>1. m >= 4 /\ i = m - 3 /\ i + 3 = m
            BY ONLY <1>5, <2>3, <4>1, <5>2, i \in 1..6
          <6>2. PICK j \in i..(i + 3) : h.recent[j].success
            BY <2>1, <6>1
          <6>3. j \in 1..m
            BY ONLY <1>5, <6>1, i \in 1..6, j \in i..(i + 3)
          <6>4. QED BY <6>2, <6>3
        <5>3. QED BY <5>1, <5>2
      <4>3. g.recent[j] = h.recent[j]
        BY <1>5, <3>1, <4>2
      <4>4. QED BY <4>2, <4>3
    <3>2. CASE ~(m < 10)
      <4>1. m = 10
        BY ONLY <1>5, <3>2
      <4>2. PICK j \in (i + 1)..(i + 4) : h.recent[j].success
        <5>1. CASE i = 6
          <6>1. m >= 4 /\ m - 3 = i + 1 /\ m = i + 4
            BY ONLY <4>1, <5>1
          <6>2. QED BY <2>1, <6>1
        <5>2. CASE i # 6
          <6>1. i + 1 \in 1..6 /\ (i + 1) + 4 <= m /\ (i + 1) + 3 = i + 4
            BY ONLY <4>1, <5>2, i \in 1..6
          <6>2. QED BY <2>2, <6>1
        <5>3. QED BY <5>1, <5>2
      <4>3. j - 1 \in 1..9 /\ j - 1 \in i..(i + 3) /\ (j - 1) + 1 = j
        BY ONLY i \in 1..6, j \in (i + 1)..(i + 4)
      <4>4. g.recent[j - 1] = h.recent[(j - 1) + 1]
        BY <1>5, <3>2, <4>3
      <4>5. g.recent[j - 1] = h.recent[j]
        BY <4>3, <4>4
      <4>6. QED BY <4>2, <4>3, <4>5
    <3>3. QED BY <3>1, <3>2
  <2>4. QED BY <2>3 DEF NoFourBefore, size
<1> HIDE DEF v, g
<1>10. QED BY <1>1, <1>2, <1>6, <1>7, <1>8, <1>9 DEF Mirrored

\* RNOS alone goes on only if it hears of its call, in whatever experiment.
LEMMA RnosAttends ==
  ASSUME NEW r, LoopFields \subseteq DOMAIN r, NEW e, NEW api, NEW success, NEW latency,
         NEW n, n = StepOf(e, "rnos", api, r, success, latency)
  PROVE  /\ LoopFields \subseteq DOMAIN n
         /\ ~Over(n) => /\ Continued(n, r, success, latency)
                        /\ Evaluate(r.history, ActionOf(r)) # "REFUSE"
<1> DEFINE m == RnosStep(r, success, latency)
<1>1. /\ LoopFields \subseteq DOMAIN m
      /\ ~Over(m) => /\ Continued(m, r, success, latency)
                     /\ Evaluate(r.history, ActionOf(r)) # "REFUSE"
  <2> DEFINE decision == Evaluate(r.history, ActionOf(r))
             asked == [r EXCEPT !.step = @ + 1,
                                !.entropy_trajectory = Append(@, Entropy(r.history, ActionOf(r)))]
             seen == IF decision = "ALLOW" THEN asked ELSE Intervened(asked, decision)
  <2>1. m = IF decision = "REFUSE" THEN [seen EXCEPT !.final_state = "refused"]
            ELSE [Called(seen, success, latency) EXCEPT
                    !.history = Recorded(r.history, Tool, success),
                    !.step_log = Append(@, Entry(seen, TRUE, success, latency))]
    BY DEF RnosStep
  <2>2. /\ DOMAIN seen = DOMAIN r /\ seen.steps_executed = r.steps_executed
        /\ seen.retry_count = r.retry_count
    BY DEF Intervened, LoopFields
  <2> HIDE DEF decision, seen, m
  <2>3. CASE decision = "REFUSE"
    BY <2>1, <2>2, <2>3 DEF Over, LoopFields
  <2>4. CASE decision # "REFUSE"
    BY <2>1, <2>2, <2>4 DEF Called, Continued, LoopFields, decision
  <2>5. QED BY <2>3, <2>4
<1> HIDE DEF m
<1>2. \/ n = m
      \/ n = RnosStep3(api, r, success, latency)
      \/ n = RnosStep5(r, success, latency)
  BY DEF StepOf, OneModeStep, RnosStep4, m
<1>3. CASE n = m
  BY <1>1, <1>3
<1>4. CASE n = RnosStep5(r, success, latency)
  <2>1. \/ n = m /\ ~Over(m)
        \/ Over(m) /\ n = [m EXCEPT !.step_log = Append(@, Entry(m, FALSE, FALSE, 0))]
    BY <1>4 DEF RnosStep5, m
  <2>2. Over(m) => DOMAIN n = DOMAIN m /\ n.final_state = m.final_state
    BY <1>1, <2>1 DEF LoopFields
  <2>3. QED BY <1>1, <2>1, <2>2 DEF Over
<1>5. CASE n = RnosStep3(api, r, success, latency)
  <2>1. \/ n = m /\ Over(m)
        \/ /\ ~Over(m)
           /\ \E a, b : n = [m EXCEPT !.cumulative_successes_after_burst1 = a,
                                      !.post_burst_stability = b]
    BY <1>5 DEF RnosStep3, m
  <2>2. ~Over(m) => /\ DOMAIN n = DOMAIN m /\ n.steps_executed = m.steps_executed
                    /\ n.retry_count = m.retry_count /\ n.prev_latency = m.prev_latency
                    /\ n.history = m.history
    BY <1>1, <2>1 DEF LoopFields
  <2>3. QED BY <1>1, <2>1, <2>2 DEF Continued
<1>6. QED BY <1>2, <1>3, <1>4, <1>5

\* A merged run goes on only if its controller does not refuse and both hear of its call.
LEMMA HybridAttends ==
  ASSUME NEW r, IsRun(r), ~Over(r), Untripped(r.cb), Honest(r.records),
         NEW success, NEW latency, NEW n, n = HybridStep(r, success, latency), ~Over(n)
  PROVE  /\ LoopFields \subseteq DOMAIN n
         /\ Continued(n, r, success, latency)
         /\ n.cb = Large!RecordResult(r.cb, success)
         /\ HybridNext(r) # "REFUSE"
<1>1. /\ IsRun(n) /\ Continued(n, r, success, latency)
      /\ n.cb = Large!RecordResult(r.cb, success)
  BY HybridGoesOn
<1>2. HybridNext(r) = "REFUSE" => Over(n)
  <2> DEFINE answer == HybridAnswer(r)
  <2>1. HybridNext(r) = answer.merged.decision
    BY DEF HybridNext
  <2> HIDE DEF answer
  <2>2. SUFFICES ASSUME answer.merged.decision = "REFUSE" PROVE Over(n)
    BY <2>1
  <2> DEFINE asked == [r EXCEPT !.step = @ + 1, !.cb = answer.cb, !.records = answer.records,
                                !.lambda = answer.merged.lambda]
             seen == [Intervened(asked, answer.merged.decision) EXCEPT
                        !.trigger = IF r.first_intervention_step = 0 THEN answer.merged.trigger ELSE @]
  <2>3. n = [seen EXCEPT !.final_state = "refused",
                         !.step_log = Append(@, Entry(seen, FALSE, FALSE, 0))]
    BY <2>2 DEF HybridStep, answer
  <2>4. DOMAIN seen = RunFields
    BY DEF Intervened, IsRun, RunFields
  <2> HIDE DEF seen
  <2>5. QED BY <2>3, <2>4 DEF Over, RunFields
<1>3. LoopFields \subseteq RunFields
  BY DEF LoopFields, RunFields
<1>4. QED BY <1>1, <1>2, <1>3 DEF IsRun

-----------------------------------------------------------------------------
(* Outages: the scenarios.                                                 *)

\* An API whose latencies are numbers.
Timed(api) == api.latency \in Seq(Nat) /\ Len(api.latency) >= 1

\* Then every call takes its time.
LEMMA LatencyIsNat ==
  ASSUME NEW api, Timed(api), NEW k \in Nat \ {0}
  PROVE  LatencyOf(api, k) \in Nat
<1> DEFINE n == Len(api.latency)
           i == IF k <= n THEN k ELSE n
<1>1. api.latency \in Seq(Nat) /\ n >= 1
  BY DEF Timed
<1>2. n \in Nat
  BY <1>1, LenProperties
<1> HIDE DEF n
<1>3. i \in 1..n
  BY <1>1, <1>2
<1>4. api.latency[i] \in Nat
  BY <1>1, <1>3, ElementOfSeq DEF n
<1>5. QED BY <1>4 DEF LatencyOf, Extended, n

\* The same number again and again.
LEMMA TimesIsSeq ==
  ASSUME NEW T, NEW n \in Nat, NEW value \in T
  PROVE  Times(n, value) \in Seq(T) /\ Len(Times(n, value)) = n
<1>1. \A i \in 1..n : value \in T
  OBVIOUS
<1>2. [i \in 1..n |-> value] \in Seq(T) /\ Len([i \in 1..n |-> value]) = n
  BY IsASeq
<1>3. QED BY <1>2 DEF Times

\* Latencies that are followed by the same one again and again.
LEMMA FollowedByTimes ==
  ASSUME NEW T, NEW s \in Seq(T), Len(s) >= 1, NEW n \in Nat, NEW value \in T
  PROVE  s \o Times(n, value) \in Seq(T) /\ Len(s \o Times(n, value)) >= 1
<1> DEFINE t == Times(n, value)
           both == s \o t
           k == Len(s)
<1>1. t \in Seq(T) /\ Len(t) = n
  BY TimesIsSeq
<1> HIDE DEF t
<1>2. both \in Seq(T) /\ Len(both) = k + n
  BY <1>1, ConcatProperties
<1>3. k \in Nat /\ k >= 1
  BY LenProperties
<1> HIDE DEF k, both
<1>4. Len(both) >= 1
  BY <1>2, <1>3
<1>5. QED BY <1>2, <1>4 DEF both, t

\* An API none of whose calls takes longer than half a second.
Swift(api) == api.latency \in Seq(0..500) /\ Len(api.latency) >= 1

\* A swift API is timed.
LEMMA SwiftIsTimed ==
  ASSUME NEW api, Swift(api)
  PROVE  Timed(api)
<1>1. 0..500 \subseteq Nat
  OBVIOUS
<1>2. api.latency \in Seq(Nat)
  BY <1>1, SeqMonotonic DEF Swift
<1>3. QED BY <1>2 DEF Swift, Timed

\* A scenario: its latencies are numbers, and only a runaway cascade is slow, and what
\* has no script.
Known(api) ==
  /\ Timed(api)
  /\ Swift(api) \/ api = RunawayCascade \/ \E latency \in FreeLatency : api = Anything(latency)

\* A swift API is known.
LEMMA SwiftIsKnown ==
  ASSUME NEW api, Swift(api)
  PROVE  Known(api)
BY SwiftIsTimed DEF Known

\* Every scenario is known.
LEMMA ScenariosAreKnown ==
  /\ Known(TransientBlip) /\ Known(SlowBurn) /\ Known(NoisyRecovery)
  /\ Known(SmolderingInstability) /\ Known(BurstyRecovery) /\ Known(IntermittentCascade)
  /\ Known(MatchedRecovery) /\ Known(MatchedCollapse) /\ Known(RunawayCascade)
  /\ Known(FanoutCascade) /\ Known(RecoverableBurst) /\ Known(Benign)
  /\ Known(CascadingBurst) /\ Known(DistributedLowRate)
<1>1. Swift(TransientBlip)
  BY DEF Swift, TransientBlip, Scripted
<1>2. Swift(SlowBurn)
  BY DEF Swift, SlowBurn, Scripted
<1>3. Swift(NoisyRecovery)
  <2> DEFINE first == <<80, 80, 350, 380, 120, 100, 320, 80, 300, 80, 250, 100, 90, 85>>
             times == 6
             T == 0..500
             rest == 80
  <2>1. first \in Seq(T) /\ Len(first) >= 1 /\ times \in Nat /\ rest \in T
    OBVIOUS
  <2>2. NoisyRecovery.latency = first \o Times(times, rest)
    BY DEF NoisyRecovery, Scripted
  <2> HIDE DEF first, times, rest, T
  <2>3. first \o Times(times, rest) \in Seq(T) /\ Len(first \o Times(times, rest)) >= 1
    BY ONLY <2>1, FollowedByTimes
  <2>4. QED BY <2>2, <2>3 DEF Swift, T
<1>4. Swift(SmolderingInstability)
  BY DEF Swift, SmolderingInstability, Scripted
<1>5. Swift(BurstyRecovery)
  BY DEF Swift, BurstyRecovery, Scripted
<1>6. Swift(IntermittentCascade)
  <2> DEFINE first == <<80, 80, 400, 400, 400, 280, 280, 430, 430, 430, 300, 300, 300, 460, 460, 460>>
             times == 4
             T == 0..500
             rest == 480
  <2>1. first \in Seq(T) /\ Len(first) >= 1 /\ times \in Nat /\ rest \in T
    OBVIOUS
  <2>2. IntermittentCascade.latency = first \o Times(times, rest)
    BY DEF IntermittentCascade, Scripted
  <2> HIDE DEF first, times, rest, T
  <2>3. first \o Times(times, rest) \in Seq(T) /\ Len(first \o Times(times, rest)) >= 1
    BY ONLY <2>1, FollowedByTimes
  <2>4. QED BY <2>2, <2>3 DEF Swift, T
<1>7. Swift(MatchedRecovery)
  BY DEF Swift, MatchedRecovery, Scripted
<1>8. Swift(MatchedCollapse)
  BY DEF Swift, MatchedCollapse, Scripted
<1>9. Timed(RunawayCascade)
  BY DEF Timed, RunawayCascade, Scripted
<1>10. Swift(FanoutCascade)
  <2> DEFINE first == <<80, 80, 120, 160, 220, 350, 400, 440, 460, 380, 450, 360>>
             times == 8
             T == 0..500
             rest == 480
  <2>1. first \in Seq(T) /\ Len(first) >= 1 /\ times \in Nat /\ rest \in T
    OBVIOUS
  <2>2. FanoutCascade.latency = first \o Times(times, rest)
    BY DEF FanoutCascade, Scripted
  <2> HIDE DEF first, times, rest, T
  <2>3. first \o Times(times, rest) \in Seq(T) /\ Len(first \o Times(times, rest)) >= 1
    BY ONLY <2>1, FollowedByTimes
  <2>4. QED BY <2>2, <2>3 DEF Swift, T
<1>11. Swift(RecoverableBurst)
  <2> DEFINE first == <<80, 80, 400, 415, 430, 440, 450, 455, 460, 420, 350, 250, 150>>
             times == 17
             T == 0..500
             rest == 80
  <2>1. first \in Seq(T) /\ Len(first) >= 1 /\ times \in Nat /\ rest \in T
    OBVIOUS
  <2>2. RecoverableBurst.latency = first \o Times(times, rest)
    BY DEF RecoverableBurst, Scripted
  <2> HIDE DEF first, times, rest, T
  <2>3. first \o Times(times, rest) \in Seq(T) /\ Len(first \o Times(times, rest)) >= 1
    BY ONLY <2>1, FollowedByTimes
  <2>4. QED BY <2>2, <2>3 DEF Swift, T
<1>12. Swift(Benign)
  BY DEF Swift, Benign, Scripted
<1>13. Swift(CascadingBurst)
  <2> DEFINE first == <<80, 80, 400, 415, 430, 440, 450, 455, 460>>
             times == 21
             T == 0..500
             rest == 480
  <2>1. first \in Seq(T) /\ Len(first) >= 1 /\ times \in Nat /\ rest \in T
    OBVIOUS
  <2>2. CascadingBurst.latency = first \o Times(times, rest)
    BY DEF CascadingBurst, Scripted
  <2> HIDE DEF first, times, rest, T
  <2>3. first \o Times(times, rest) \in Seq(T) /\ Len(first \o Times(times, rest)) >= 1
    BY ONLY <2>1, FollowedByTimes
  <2>4. QED BY <2>2, <2>3 DEF Swift, T
<1>14. Swift(DistributedLowRate)
  BY DEF Swift, DistributedLowRate, Scripted
<1>15. Known(RunawayCascade)
  BY <1>9 DEF Known
<1>16. QED BY <1>1, <1>2, <1>3, <1>4, <1>5, <1>6, <1>7, <1>8, <1>10, <1>11, <1>12, <1>13, <1>14, <1>15,
             SwiftIsKnown

\* So is a rough patch of any length.
LEMMA RoughPatchesAreKnown ==
  ASSUME NEW n \in Nat
  PROVE  Known(RoughPatch(n))
<1> DEFINE before == <<80, 80>> \o Times(n, 400)
           after == <<80>>
           T == 0..500
<1>1. <<80, 80>> \in Seq(T) /\ Len(<<80, 80>>) >= 1 /\ after \in Seq(T) /\ Len(after) = 1
  OBVIOUS
<1>2. before \in Seq(T) /\ Len(before) >= 1
  <2> DEFINE first == <<80, 80>>
             rest == 400
  <2>1. first \in Seq(T) /\ Len(first) >= 1 /\ rest \in T
    BY <1>1
  <2> HIDE DEF first, rest, T
  <2>2. first \o Times(n, rest) \in Seq(T) /\ Len(first \o Times(n, rest)) >= 1
    BY ONLY <2>1, n \in Nat, FollowedByTimes
  <2>3. QED BY <2>2 DEF first, rest
<1>3. RoughPatch(n).latency = before \o after
  BY DEF RoughPatch, Scripted
<1> HIDE DEF before
<1>4. before \o after \in Seq(T) /\ Len(before \o after) = Len(before) + Len(after)
  BY <1>1, <1>2, ConcatProperties
<1>5. Len(before) \in Nat
  BY <1>2, LenProperties
<1>6. Len(before \o after) >= 1
  BY <1>1, <1>2, <1>4, <1>5
<1>7. Swift(RoughPatch(n))
  BY <1>3, <1>4, <1>6 DEF Swift
<1>8. QED BY <1>7, SwiftIsKnown

\* What an experiment has left to run.
Scheduled(list) == \E S : list \in Seq(S) /\ \A api \in S : Known(api)

\* Whatever experiment runs, all of its scenarios are known.
LEMMA SuitesAreKnown ==
  ASSUME NEW e \in Experiment, NEW list \in Suites(e)
  PROVE  Scheduled(list)
<1>1. FreeLatency \subseteq Nat
  BY ExperimentsAssumption
<1>2. CASE e = "experiment_2"
  <2> DEFINE a == TransientBlip b == RoughPatch(3) c == SlowBurn d == RunawayCascade
  <2>1. list = <<a, b, c, d>>
    BY <1>2 DEF Suites, Scenarios2
  <2>2. Known(a) /\ Known(b) /\ Known(c) /\ Known(d)
    BY ScenariosAreKnown, RoughPatchesAreKnown
  <2> HIDE DEF a, b, c, d
  <2>3. list \in Seq({a, b, c, d})
    BY <2>1
  <2>4. QED BY <2>2, <2>3 DEF Scheduled
<1>3. CASE e = "phase_transition"
  <2> DEFINE S == {RoughPatch(n) : n \in 1..10}
  <2>1. list = [n \in 1..10 |-> RoughPatch(n)]
    BY <1>3 DEF Suites, PhaseTransition
  <2>2. list \in Seq(S)
    BY <2>1
  <2>3. \A api \in S : Known(api)
    BY RoughPatchesAreKnown
  <2> HIDE DEF S
  <2>4. QED BY <2>2, <2>3 DEF Scheduled
<1>4. CASE e = "experiment_2_5"
  <2> DEFINE a == MatchedRecovery b == MatchedCollapse c == RoughPatch(3) d == RunawayCascade
  <2>1. list = <<a, b, c, d>>
    BY <1>4 DEF Suites, Scenarios25
  <2>2. Known(a) /\ Known(b) /\ Known(c) /\ Known(d)
    BY ScenariosAreKnown, RoughPatchesAreKnown
  <2> HIDE DEF a, b, c, d
  <2>3. list \in Seq({a, b, c, d})
    BY <2>1
  <2>4. QED BY <2>2, <2>3 DEF Scheduled
<1>5. CASE e = "experiment_3"
  <2> DEFINE a == BurstyRecovery b == IntermittentCascade c == RoughPatch(3) d == RunawayCascade
  <2>1. list = <<a, b, c, d>>
    BY <1>5 DEF Suites, Scenarios3
  <2>2. Known(a) /\ Known(b) /\ Known(c) /\ Known(d)
    BY ScenariosAreKnown, RoughPatchesAreKnown
  <2> HIDE DEF a, b, c, d
  <2>3. list \in Seq({a, b, c, d})
    BY <2>1
  <2>4. QED BY <2>2, <2>3 DEF Scheduled
<1>6. CASE e = "experiment_4"
  <2> DEFINE a == NoisyRecovery b == SmolderingInstability c == RoughPatch(3) d == RunawayCascade
  <2>1. list = <<a, b, c, d>>
    BY <1>6 DEF Suites, Scenarios4
  <2>2. Known(a) /\ Known(b) /\ Known(c) /\ Known(d)
    BY ScenariosAreKnown, RoughPatchesAreKnown
  <2> HIDE DEF a, b, c, d
  <2>3. list \in Seq({a, b, c, d})
    BY <2>1
  <2>4. QED BY <2>2, <2>3 DEF Scheduled
<1>7. CASE e = "experiment_5"
  <2> DEFINE a == CascadingBurst b == DistributedLowRate
  <2>1. list = <<a, b>>
    BY <1>7 DEF Suites, Scenarios5
  <2>2. Known(a) /\ Known(b)
    BY ScenariosAreKnown
  <2> HIDE DEF a, b
  <2>3. list \in Seq({a, b})
    BY <2>1
  <2>4. QED BY <2>2, <2>3 DEF Scheduled
<1>8. CASE e = "comparison"
  <2> DEFINE a == DistributedLowRate b == CascadingBurst c == FanoutCascade
             d == RecoverableBurst f == Benign
  <2>1. list = <<a, b, c, d, f>>
    BY <1>8 DEF Suites, ComparedScenarios
  <2>2. Known(a) /\ Known(b) /\ Known(c) /\ Known(d) /\ Known(f)
    BY ScenariosAreKnown
  <2> HIDE DEF a, b, c, d, f
  <2>3. list \in Seq({a, b, c, d, f})
    BY <2>1
  <2>4. QED BY <2>2, <2>3 DEF Scheduled
<1>9. CASE e = "anything"
  <2>1. PICK latency \in FreeLatency : list = <<Anything(latency)>>
    BY <1>9 DEF Suites
  <2> DEFINE a == Anything(latency)
  <2>2. Timed(a)
    BY <1>1 DEF Timed, Anything, Scripted
  <2>3. Known(a)
    BY <2>2 DEF Known
  <2> HIDE DEF a
  <2>4. list \in Seq({a})
    BY <2>1 DEF a
  <2>5. QED BY <2>3, <2>4 DEF Scheduled
<1>10. QED BY <1>2, <1>3, <1>4, <1>5, <1>6, <1>7, <1>8, <1>9, ExperimentsAssumption

-----------------------------------------------------------------------------
(* Outages: the theorem.                                                   *)

\* The inductive invariant: RNOS and the merged controller have heard of every call of
\* the scenario so far.
Heard ==
  /\ experiment \in Experiment
  /\ Scheduled(scenarios)
  /\ outcomes \in Seq(BOOLEAN)
  /\ DOMAIN runs = Strategies(experiment)
  /\ ~Over(runs["rnos"]) =>
       Attentive(runs["rnos"]) /\ runs["rnos"].steps_executed <= Len(outcomes)
  /\ experiment \in Merging /\ ~Over(runs["hybrid"]) =>
       Mirrored(runs["hybrid"]) /\ runs["hybrid"].steps_executed <= Len(outcomes)

\* A run that has heard of nothing has missed nothing.
LEMMA FreshIsAttentive ==
  ASSUME NEW r, LoopFields \subseteq DOMAIN r, r.history = NewHistory,
         r.steps_executed = 0, r.prev_latency = 0, r.retry_count = 0
  PROVE  Attentive(r)
<1> DEFINE h == NewHistory
<1>1. h.recent = << >> /\ h.ewma = 0 /\ Len(h.recent) = 0 /\ DOMAIN h.recent = {} /\ h.recent \in Seq(Items)
  <2>1. h.recent = << >> /\ h.ewma = 0
    BY DEF NewHistory
  <2>2. << >> \in Seq(Items) /\ Len(<< >>) = 0
    BY EmptySeq
  <2>3. DOMAIN << >> = {}
    BY <2>2, LenProperties
  <2> HIDE DEF h
  <2>4. QED BY <2>1, <2>2, <2>3
<1> HIDE DEF h
<1>2. IsCalls(h)
  BY <1>1 DEF IsCalls
<1>3. Streak(h, 0)
  <2>1. \A n \in 0..5 : FailedLast(h, n) <=> 0 >= n
    BY <1>1 DEF FailedLast
  <2>2. QED BY <2>1 DEF Streak
<1>4. r.history = h
  BY DEF h
<1>5. QED BY <1>1, <1>2, <1>3, <1>4 DEF Attentive

\* What a fresh run of RNOS, or without control, starts from.
LEMMA FreshFields ==
  ASSUME runs = Fresh(experiment), NEW s \in {"rnos", "baseline"}
  PROVE  /\ LoopFields \subseteq DOMAIN runs[s] /\ runs[s].history = NewHistory
         /\ runs[s].steps_executed = 0 /\ runs[s].prev_latency = 0 /\ runs[s].retry_count = 0
         /\ runs[s].step_log = << >> /\ runs[s].final_state = "running"
<1>1. runs[s] \in {NewRun, NewRun3, NewRun5}
  BY DEF Fresh, Strategies
<1>2. CASE runs[s] = NewRun
  BY <1>2 DEF NewRun, LoopFields
<1>3. CASE runs[s] = NewRun3
  <2>1. /\ DOMAIN NewRun \subseteq DOMAIN NewRun3
        /\ \A f \in DOMAIN NewRun : NewRun3[f] = NewRun[f]
    BY DEF NewRun3
  <2>2. /\ LoopFields \subseteq DOMAIN NewRun /\ NewRun.history = NewHistory
        /\ NewRun.steps_executed = 0 /\ NewRun.prev_latency = 0 /\ NewRun.retry_count = 0
        /\ NewRun.step_log = << >> /\ NewRun.final_state = "running"
    BY DEF NewRun, LoopFields
  <2>3. {"history", "steps_executed", "prev_latency", "retry_count", "step_log", "final_state"}
          \subseteq DOMAIN NewRun
    BY DEF NewRun
  <2>4. QED BY <1>3, <2>1, <2>2, <2>3
<1>4. CASE runs[s] = NewRun5
  BY <1>4 DEF NewRun5, LoopFields
<1>5. QED BY <1>1, <1>2, <1>3, <1>4

\* Fresh runs have heard of every call.
LEMMA FreshHeard ==
  ASSUME experiment \in Experiment, Scheduled(scenarios), outcomes = << >>,
         runs = Fresh(experiment)
  PROVE  Heard
<1>1. DOMAIN runs = Strategies(experiment)
  BY DEF Fresh
<1>2. outcomes \in Seq(BOOLEAN) /\ Len(outcomes) = 0
  BY EmptySeq
<1>3. /\ LoopFields \subseteq DOMAIN runs["rnos"] /\ runs["rnos"].history = NewHistory
      /\ runs["rnos"].steps_executed = 0 /\ runs["rnos"].prev_latency = 0
      /\ runs["rnos"].retry_count = 0
  BY FreshFields
<1>4. Attentive(runs["rnos"]) /\ runs["rnos"].steps_executed <= Len(outcomes)
  <2>1. Attentive(runs["rnos"])
    BY <1>3, FreshIsAttentive
  <2>2. QED BY <1>2, <1>3, <2>1
<1>5. CASE experiment \in Merging
  <2> DEFINE r == runs["hybrid"]
  <2>1. r = NewRun5
    BY <1>5 DEF Fresh, Strategies
  <2>2. /\ LoopFields \subseteq DOMAIN r /\ r.history = NewHistory
        /\ r.steps_executed = 0 /\ r.prev_latency = 0 /\ r.retry_count = 0
        /\ r.cb = Large!NewBreaker
    BY <2>1 DEF NewRun5, LoopFields
  <2> HIDE DEF r
  <2>3. Attentive(r) /\ r.steps_executed <= Len(outcomes)
    BY <1>2, <2>2, FreshIsAttentive
  <2>4. Untripped(r.cb) /\ r.cb.threshold = 60 /\ r.cb.window = << >>
    BY <2>2 DEF Large!NewBreaker, Untripped
  <2>5. r.history.recent = << >>
    BY <2>2 DEF NewHistory
  <2>6. << >> \in Seq(BOOLEAN) /\ Len(<< >>) = 0
    BY EmptySeq
  <2>7. NoFourBefore(r.history)
    <3>1. Len(r.history.recent) = 0
      BY <2>5, <2>6
    <3>2. QED BY <3>1 DEF NoFourBefore
  <2>8. Len(r.cb.window) = Len(r.history.recent) /\ r.cb.window \in Seq(BOOLEAN)
        /\ \A i \in 1..Len(r.cb.window) : r.cb.window[i] = r.history.recent[i].success
    BY <2>4, <2>5, <2>6
  <2>9. Mirrored(r)
    BY <2>3, <2>4, <2>7, <2>8 DEF Mirrored
  <2>10. QED BY <1>1, <1>2, <1>4, <2>3, <2>9 DEF Heard, r
<1>6. CASE experiment \notin Merging
  BY <1>1, <1>2, <1>4, <1>6 DEF Heard
<1>7. QED BY <1>5, <1>6

\* An iteration is heard of by all that are not over.
LEMMA HeardStep ==
  ASSUME RefuseEntropy <= 10000, Heard, SideBySide, NEW success \in BOOLEAN, Iterate(success)
  PROVE  Heard'
<1> DEFINE outcome(s) == outcomes'[CallOf(runs[s])]
           latency(s) == LatencyOf(Api, CallOf(runs[s]))
           next(s) == StepOf(experiment, s, Api, runs[s], outcome(s), latency(s))
<1>1. /\ experiment' = experiment /\ scenarios' = scenarios /\ scenarios # << >>
      /\ outcomes' = Append(outcomes, success)
      /\ DOMAIN runs' = DOMAIN runs
      /\ \A s \in DOMAIN runs : runs'[s] = IF Over(runs[s]) THEN runs[s] ELSE next(s)
  <2>1. /\ experiment' = experiment
        /\ DOMAIN runs' = DOMAIN runs
        /\ \A s \in DOMAIN runs : runs'[s] = IF Over(runs[s]) THEN runs[s] ELSE next(s)
    <3>1. experiment' = experiment
      BY DEF Iterate
    <3>2. runs' = [s \in DOMAIN runs |-> IF Over(runs[s]) THEN runs[s] ELSE next(s)]
      BY ONLY Iterate(success) DEF Iterate
    <3> HIDE DEF next
    <3>3. QED BY ONLY <3>1, <3>2
  <2> HIDE DEF next, outcome, latency
  <2>2. scenarios' = scenarios /\ scenarios # << >> /\ outcomes' = Append(outcomes, success)
    BY DEF Iterate
  <2>3. QED BY ONLY <2>1, <2>2
<1> HIDE DEF outcome, latency, next
<1>2. /\ experiment \in Experiment /\ Scheduled(scenarios) /\ outcomes \in Seq(BOOLEAN)
      /\ DOMAIN runs = Strategies(experiment)
  BY DEF Heard
<1>3. outcomes' \in Seq(BOOLEAN) /\ Len(outcomes') = Len(outcomes) + 1 /\ Len(outcomes) \in Nat
  <2>1. outcomes' = Append(outcomes, success) /\ outcomes \in Seq(BOOLEAN)
    BY <1>1, <1>2
  <2>2. success \in BOOLEAN
    OBVIOUS
  <2>3. Append(outcomes, success) \in Seq(BOOLEAN)
        /\ Len(Append(outcomes, success)) = Len(outcomes) + 1
    BY ONLY <2>1, <2>2, AppendProperties
  <2>4. Len(outcomes) \in Nat
    BY ONLY <2>1, LenProperties
  <2>5. QED BY ONLY <2>1, <2>3, <2>4
<1>4. Timed(Api)
  <2>1. PICK S : scenarios \in Seq(S) /\ \A api \in S : Known(api)
    BY <1>2 DEF Scheduled
  <2>2. scenarios[1] \in S
    BY <1>1, <2>1, HeadTailProperties
  <2>3. QED BY <2>1, <2>2 DEF Api, Known
<1>5. ASSUME NEW s, runs[s].steps_executed \in Nat, runs[s].steps_executed <= Len(outcomes)
      PROVE  outcome(s) \in BOOLEAN /\ latency(s) \in Nat
  <2> DEFINE k == CallOf(runs[s])
             n == Len(outcomes)
             m == Len(outcomes')
  <2>1. k \in Nat \ {0} /\ k \in 1..m
    <3>1. k = runs[s].steps_executed + 1
      BY DEF CallOf
    <3>2. runs[s].steps_executed \in Nat /\ runs[s].steps_executed <= n /\ m = n + 1 /\ n \in Nat
      BY <1>3, <1>5
    <3> HIDE DEF k, n, m
    <3>3. QED BY <3>1, <3>2
  <2> HIDE DEF k
  <2>2. LatencyOf(Api, k) \in Nat
    BY <1>4, <2>1, LatencyIsNat
  <2>3. outcomes'[k] \in BOOLEAN
    BY <1>3, <2>1, ElementOfSeq
  <2>4. QED BY <2>2, <2>3 DEF k, outcome, latency
<1>6. ASSUME ~Over(runs'["rnos"])
      PROVE  Attentive(runs'["rnos"]) /\ runs'["rnos"].steps_executed <= Len(outcomes')
  <2> DEFINE r == runs["rnos"]
             n == next("rnos")
  <2>1. "rnos" \in DOMAIN runs
    BY <1>2 DEF Strategies
  <2>2. ~Over(r) /\ runs'["rnos"] = n
    BY ONLY <1>1, <1>6, <2>1
  <2>3. Attentive(r) /\ r.steps_executed <= Len(outcomes) /\ r.steps_executed \in Nat
        /\ LoopFields \subseteq DOMAIN r
    BY <2>2 DEF Heard, Attentive
  <2>4. outcome("rnos") \in BOOLEAN /\ latency("rnos") \in Nat
    BY <1>5, <2>3
  <2>5. n = StepOf(experiment, "rnos", Api, r, outcome("rnos"), latency("rnos"))
    BY DEF next
  <2> HIDE DEF n, r
  <2>6. ~Over(n)
    BY <1>6, <2>2
  <2>7. LoopFields \subseteq DOMAIN n /\ Continued(n, r, outcome("rnos"), latency("rnos"))
    BY <2>3, <2>5, <2>6, RnosAttends
  <2>8. Attentive(n)
    BY <2>3, <2>4, <2>7, AttentiveStep
  <2>9. n.steps_executed <= Len(outcomes')
    <3> DEFINE before == Len(outcomes)
               after == Len(outcomes')
    <3>1. n.steps_executed = r.steps_executed + 1
      BY <2>7 DEF Continued
    <3>2. r.steps_executed \in Nat /\ r.steps_executed <= before
      BY <2>3
    <3>3. before \in Nat /\ after = before + 1
      BY <1>3
    <3> HIDE DEF before, after
    <3>4. n.steps_executed <= after
      BY ONLY <3>1, <3>2, <3>3
    <3>5. QED BY ONLY <3>4 DEF after
  <2>10. QED BY <2>2, <2>8, <2>9
<1>7. ASSUME experiment \in Merging, ~Over(runs'["hybrid"])
      PROVE  Mirrored(runs'["hybrid"]) /\ runs'["hybrid"].steps_executed <= Len(outcomes')
  <2> DEFINE r == runs["hybrid"]
             n == next("hybrid")
  <2>1. "hybrid" \in DOMAIN runs
    BY <1>2, <1>7 DEF Strategies
  <2>2. ~Over(r) /\ runs'["hybrid"] = n
    BY ONLY <1>1, <1>7, <2>1
  <2>3. Mirrored(r) /\ r.steps_executed <= Len(outcomes) /\ r.steps_executed \in Nat
    BY <1>7, <2>2 DEF Heard, Mirrored, Attentive
  <2>4. outcome("hybrid") \in BOOLEAN /\ latency("hybrid") \in Nat
    BY <1>5, <2>3
  <2>5. n = HybridStep(r, outcome("hybrid"), latency("hybrid"))
    BY <1>7 DEF next, StepOf, OneModeStep, Merging
  <2>6. IsRun(r) /\ Untripped(r.cb) /\ Honest(r.records)
    BY <1>7, <2>2 DEF SideBySide, Together, Outlived
  <2> HIDE DEF n, r
  <2>7. ~Over(n)
    BY <1>7, <2>2
  <2>8. /\ LoopFields \subseteq DOMAIN n
        /\ Continued(n, r, outcome("hybrid"), latency("hybrid"))
        /\ n.cb = Large!RecordResult(r.cb, outcome("hybrid"))
        /\ HybridNext(r) # "REFUSE"
    BY <2>2, <2>5, <2>6, <2>7, HybridAttends
  <2>9. ~(r.retry_count >= 4)
    BY <2>3, <2>8, OutageIsRefused
  <2>10. Mirrored(n)
    BY <2>3, <2>4, <2>8, <2>9, MirroredStep
  <2>11. n.steps_executed <= Len(outcomes')
    <3> DEFINE before == Len(outcomes)
               after == Len(outcomes')
    <3>1. n.steps_executed = r.steps_executed + 1
      BY <2>8 DEF Continued
    <3>2. r.steps_executed \in Nat /\ r.steps_executed <= before
      BY <2>3
    <3>3. before \in Nat /\ after = before + 1
      BY <1>3
    <3> HIDE DEF before, after
    <3>4. n.steps_executed <= after
      BY ONLY <3>1, <3>2, <3>3
    <3>5. QED BY ONLY <3>4 DEF after
  <2>12. QED BY <2>2, <2>10, <2>11
<1>8. Scheduled(scenarios')
  BY <1>1, <1>2
<1>9. QED BY <1>1, <1>2, <1>3, <1>6, <1>7, <1>8 DEF Heard

\* What it says of a run is what the property says.
LEMMA HeardImplies ==
  ASSUME RefuseEntropy <= 10000, Heard
  PROVE  OutagesAreRefused
<1> DEFINE rnos == runs["rnos"]
           hybrid == runs["hybrid"]
<1>1. ASSUME ~Over(rnos), rnos.retry_count >= 5
      PROVE  RnosNext(rnos) = "REFUSE"
  <2>1. Attentive(rnos)
    BY <1>1 DEF Heard
  <2> DEFINE h == rnos.history
             entropy == Entropy(h, ActionOf(rnos))
  <2>2. entropy \in Nat /\ entropy >= 10000
    <3>1. 5 \in 4..5 /\ 5 = 5
      OBVIOUS
    <3>2. entropy \in Nat /\ entropy >= IF 5 = 5 THEN 10000 ELSE 9100
      <4> HIDE DEF rnos
      <4>1. QED BY ONLY <1>1, <2>1, <3>1, StreakEntropy
    <3>3. QED BY <3>2
  <2>3. entropy >= RefuseEntropy
    <3> HIDE DEF entropy
    <3>1. RefuseEntropy \in Int
      BY PolicyAssumption
    <3>2. QED BY <2>2, <3>1
  <2> HIDE DEF entropy
  <2>4. RnosNext(rnos) = Policy(entropy, Trust(h, entropy))
    BY DEF RnosNext, Evaluate, entropy
  <2>5. QED BY <2>3, <2>4 DEF Policy
<1>2. ASSUME experiment \in Merging, ~Over(hybrid),
             hybrid.retry_count >= 4 \/ Large!Failures(hybrid.cb.window) > 6
      PROVE  HybridNext(hybrid) = "REFUSE"
  <2>1. Mirrored(hybrid)
    BY <1>2 DEF Heard
  <2>2. QED BY <1>2, <2>1, OutageIsRefused
<1>3. QED BY <1>1, <1>2 DEF OutagesAreRefused

\* RNOS and the merged controller hear of every call.
LEMMA EverHeard ==
  ASSUME RefuseEntropy <= 10000
  PROVE  Spec => []Heard
<1>1. Init => Heard
  <2> SUFFICES ASSUME Init PROVE Heard
    OBVIOUS
  <2>1. experiment \in Experiment /\ Scheduled(scenarios)
    BY SuitesAreKnown DEF Init
  <2>2. QED BY <2>1, FreshHeard DEF Init
<1>2. SideBySide /\ Heard /\ [Next]_vars => Heard'
  <2> SUFFICES ASSUME SideBySide, Heard, [Next]_vars PROVE Heard'
    OBVIOUS
  <2>1. CASE UNCHANGED vars
    BY <2>1 DEF Heard, vars
  <2>2. CASE Finish
    <3>1. /\ experiment' = experiment /\ runs' = Fresh(experiment) /\ outcomes' = << >>
          /\ scenarios' = Tail(scenarios) /\ scenarios # << >>
      BY <2>2 DEF Finish
    <3>2. experiment \in Experiment /\ Scheduled(scenarios)
      BY DEF Heard
    <3>3. Scheduled(scenarios')
      <4>1. PICK S : scenarios \in Seq(S) /\ \A api \in S : Known(api)
        BY <3>2 DEF Scheduled
      <4>2. Tail(scenarios) \in Seq(S)
        BY <3>1, <4>1, HeadTailProperties
      <4>3. QED BY <3>1, <4>1, <4>2 DEF Scheduled
    <3>4. (experiment \in Experiment /\ Scheduled(scenarios) /\ outcomes = << >>
             /\ runs = Fresh(experiment))'
      BY <3>1, <3>2, <3>3
    <3>5. (experiment \in Experiment /\ Scheduled(scenarios) /\ outcomes = << >>
             /\ runs = Fresh(experiment) => Heard)'
      BY FreshHeard, PTL
    <3>6. QED BY <3>4, <3>5
  <2>3. CASE \E success \in BOOLEAN : Iterate(success)
    BY <2>3, HeardStep
  <2>4. QED BY <2>1, <2>2, <2>3 DEF Next
<1>3. QED BY <1>1, <1>2, SideBySideInvariance, PTL DEF Spec

\* An outage is refused whatever came before it, whatever API it is and however long it
\* runs: by RNOS after five failures in a row, by the merged controller after four, and
\* after seven among the last ten.
THEOREM OutagesEnd ==
  ASSUME RefuseEntropy <= 10000
  PROVE  Spec => []OutagesAreRefused
<1>1. Spec => []Heard
  BY EverHeard
<1>2. Heard => OutagesAreRefused
  BY HeardImplies
<1>3. QED BY <1>1, <1>2, PTL

-----------------------------------------------------------------------------
(* Noise: what a gate makes of short streaks.                              *)

\* A number that is at most this.
NatUpTo(x, most) == x \in Nat /\ x <= most

\* Calls that are known to have succeeded count as successes and not as failures.
LEMMA SuccessesCount ==
  ASSUME NEW s \in Seq(Items), NEW S \in SUBSET DOMAIN s, \A i \in S : s[i].success
  PROVE  /\ Cardinality(S) \in Nat
         /\ NatUpTo(CountOf(s, TRUE), Len(s)) /\ CountOf(s, TRUE) >= Cardinality(S)
         /\ NatUpTo(CountOf(s, FALSE), Len(s) - Cardinality(S))
<1> DEFINE n == Len(s)
           calls == 1..n
           won == {i \in DOMAIN s : s[i].success = TRUE}
           lost == {i \in DOMAIN s : s[i].success = FALSE}
           others == calls \ S
<1>1. DOMAIN s = calls /\ n \in Nat /\ \A i \in calls : s[i] \in Items
  BY LenProperties, ElementOfSeq
<1>2. S \subseteq won /\ won \subseteq calls /\ lost \subseteq others
  <2>1. \A i \in S : s[i].success \in BOOLEAN /\ s[i].success
    BY <1>1 DEF Items
  <2>2. S \subseteq won
    BY <2>1
  <2>3. ASSUME NEW i \in lost
        PROVE  i \in others
    <3>1. i \in calls /\ s[i].success = FALSE
      BY <1>1
    <3>2. QED BY <3>1
  <2>4. QED BY <1>1, <2>2, <2>3
<1>3. IsFiniteSet(calls) /\ Cardinality(calls) = n
  <2>1. 1 \in Int /\ n \in Int
    BY <1>1
  <2>2. IsFiniteSet(1..n) /\ Cardinality(1..n) = IF 1 > n THEN 0 ELSE n - 1 + 1
    BY ONLY <2>1, FS_Interval
  <2> HIDE DEF n
  <2>3. QED BY <1>1, <2>2
<1> HIDE DEF n, calls, won, lost
<1>4. S \subseteq calls /\ calls \cap S = S
  BY <1>2
<1>5. IsFiniteSet(others) /\ Cardinality(others) = n - Cardinality(S)
  BY <1>3, <1>4, FS_Difference
<1> HIDE DEF others
<1>6. IsFiniteSet(won) /\ IsFiniteSet(lost) /\ IsFiniteSet(S)
  BY <1>2, <1>3, <1>4, <1>5, FS_Subset
<1>7. /\ Cardinality(S) \in Nat /\ Cardinality(won) \in Nat /\ Cardinality(lost) \in Nat
      /\ Cardinality(won) <= n /\ Cardinality(S) <= Cardinality(won)
      /\ Cardinality(lost) <= n - Cardinality(S)
  <2>1. Cardinality(S) \in Nat /\ Cardinality(won) \in Nat /\ Cardinality(lost) \in Nat
    BY <1>6, FS_CardinalityType
  <2>2. Cardinality(won) <= Cardinality(calls)
    BY <1>2, <1>3, FS_Subset
  <2>3. Cardinality(S) <= Cardinality(won)
    BY <1>2, <1>6, FS_Subset
  <2>4. Cardinality(lost) <= Cardinality(others)
    BY <1>2, <1>5, FS_Subset
  <2>5. QED BY <1>3, <1>5, <2>1, <2>2, <2>3, <2>4
<1>8. CountOf(s, TRUE) = Cardinality(won) /\ CountOf(s, FALSE) = Cardinality(lost)
  BY DEF CountOf, won, lost
<1>9. QED BY <1>7, <1>8 DEF NatUpTo, n

\* These of a history's last five calls succeeded.
WonLately(h, T) ==
  LET first == LatestFrom(Len(h.recent))
  IN  /\ T \in SUBSET (1..(Len(h.recent) - first + 1))
      /\ \A i \in T : h.recent[first + i - 1].success

\* The failure score of a history of which successes among the last five are known.
LEMMA FailureCeiling ==
  ASSUME NEW h, IsCalls(h), Len(h.recent) \in 1..10, NEW T, WonLately(h, T),
         NEW k \in Nat, Cardinality(T) >= k
  PROVE  LET len == Len(h.recent) - LatestFrom(Len(h.recent)) + 1
         IN  FailureScore(h) \in Nat /\ FailureScore(h) <= 650 * (len - k)
<1> DEFINE n == Len(h.recent)
           first == LatestFrom(n)
           latest == LastOf(h.recent, 5)
           len == n - first + 1
           lost == CountOf(latest, FALSE)
<1>1. /\ len \in 1..5 /\ latest \in Seq(Items) /\ Len(latest) = len /\ DOMAIN latest = 1..len
      /\ \A i \in 1..len : latest[i] = h.recent[first + i - 1]
  BY LatestCalls, Zenon
<1> HIDE DEF latest
<1>2. T \subseteq DOMAIN latest /\ \A i \in T : latest[i].success
  BY <1>1 DEF WonLately
<1>3. Cardinality(T) \in Nat /\ NatUpTo(lost, Len(latest) - Cardinality(T))
  BY <1>1, <1>2, SuccessesCount
<1>4. FailureScore(h) = Lesser(650 * lost, 3000)
  BY DEF FailureScore, latest
<1> DEFINE c == Cardinality(T)
<1> HIDE DEF lost, len
<1>5. lost \in Nat /\ lost <= len - c /\ c \in Nat /\ c >= k
  BY <1>1, <1>3 DEF NatUpTo
<1> HIDE DEF c
<1>6. FailureScore(h) \in Nat /\ FailureScore(h) <= 650 * (len - k)
  BY ONLY <1>1, <1>4, <1>5, k \in Nat DEF Lesser
<1>7. QED BY <1>6 DEF len

\* A quotient of at most k is not rounded above it.
LEMMA RoundedAtMost ==
  ASSUME NEW n \in Nat, NEW d \in Nat \ {0}, NEW k \in Nat, n <= k * d
  PROVE  NatUpTo(Rounded(n, d), k)
<1> DEFINE q == n \div d
           r == n % d
<1>1. q \in Nat /\ r \in 0..(d - 1) /\ n = q * d + r
  BY Z3
<1> HIDE DEF q, r
<1>2. q <= k
  <2>1. q >= k + 1 => q * d >= k * d + d
    BY <1>1, Z3
  <2>2. k * d \in Nat /\ q * d \in Nat
    BY <1>1
  <2>3. QED BY <1>1, <2>1, <2>2
<1>3. q = k => r = 0
  BY <1>1
<1>4. Rounded(n, d) = IF 2 * r < d \/ (2 * r = d /\ q % 2 = 0) THEN q ELSE q + 1
  BY DEF Rounded, q, r
<1>5. QED BY <1>1, <1>2, <1>3, <1>4 DEF NatUpTo

\* A small base, and no more waste than so many calls, or successes, allow.
Frugal(cost, calls, won) ==
  NatUpTo(cost, 2000) /\ cost <= 25 * calls + 1500 /\ (won >= 3 => cost <= 1667)

\* The cost of a history.
LEMMA CostCeiling ==
  ASSUME NEW h, Len(h.recent) \in 1..10, NEW calls \in Nat,
         NatUpTo(CountOf(h.recent, TRUE), Len(h.recent))
  PROVE  Frugal(CostScore(h, calls), calls, CountOf(h.recent, TRUE))
<1> DEFINE n == Len(h.recent)
           won == CountOf(h.recent, TRUE)
           outputs == Greater(1, won)
           base == Lesser(25 * calls, 500)
           share == Rounded((n - outputs) * 500, outputs)
           waste == Lesser(share, 1500)
<1>0. n \in 1..10 /\ NatUpTo(won, n)
  OBVIOUS
<1>1. outputs \in 1..n /\ (won >= 3 => outputs = won)
  <2> HIDE DEF n, won
  <2>1. QED BY ONLY <1>0 DEF Greater, NatUpTo
<1>2. base \in 0..500 /\ base <= 25 * calls
  BY ONLY calls \in Nat DEF Lesser
<1>3. CostScore(h, calls) = Lesser(base + Greater(0, waste), 2000)
  <2>1. CostScore(h, calls) = IF n = 0 THEN base ELSE Lesser(base + Greater(0, waste), 2000)
    BY ONLY Zenon DEF CostScore, base, n, won, outputs, share, waste
  <2> HIDE DEF n, base, waste
  <2>2. QED BY ONLY <1>0, <2>1
<1> HIDE DEF n, won, outputs, base
<1> DEFINE a == (n - outputs) * 500
<1>4. a \in Nat /\ a <= 4500
  BY ONLY <1>1, <1>0
<1>5. share \in Nat
  <2>1. a <= 4500 * outputs
    BY ONLY <1>1, <1>4
  <2> HIDE DEF a
  <2>2. outputs \in Nat \ {0} /\ 4500 \in Nat
    BY <1>1
  <2>3. NatUpTo(Rounded(a, outputs), 4500)
    BY ONLY <1>4, <2>1, <2>2, RoundedAtMost
  <2>4. QED BY <2>3 DEF NatUpTo, a, share
<1>6. ASSUME won >= 3 PROVE share <= 1167
  <2>1. a <= 1167 * outputs
    <3>1. outputs >= 3
      BY <1>1, <1>6
    <3>2. QED BY ONLY <1>1, <3>1, <1>0
  <2> HIDE DEF a
  <2>2. outputs \in Nat \ {0} /\ 1167 \in Nat
    BY <1>1
  <2>3. NatUpTo(Rounded(a, outputs), 1167)
    BY ONLY <1>4, <2>1, <2>2, RoundedAtMost
  <2>4. QED BY <2>3 DEF NatUpTo, a, share
<1> HIDE DEF share
<1>7. waste \in 0..1500 /\ (won >= 3 => waste <= 1167)
  BY ONLY <1>5, <1>6 DEF Lesser
<1> HIDE DEF waste
<1> DEFINE cost == CostScore(h, calls)
<1>8. Frugal(cost, calls, won)
  BY ONLY <1>2, <1>3, <1>7, calls \in Nat DEF Lesser, Greater, NatUpTo, Frugal
<1>9. QED BY <1>8 DEF won

\* A thousandth of the average's unit.
Permille == OneEwma \div 1000

\* The score of a short memory of failures.
LEMMA MemoryCeiling ==
  ASSUME NEW h, h.ewma \in Nat, NEW k \in Nat, h.ewma <= k * Permille
  PROVE  NatUpTo(LongMemoryScore(h), 2 * k)
<1> DEFINE unit == Permille
           e == h.ewma
<1>1. unit \in Nat \ {0}
  BY DEF Permille, OneEwma
<1> HIDE DEF unit
<1>2. 2 * e \in Nat /\ 2 * e <= (2 * k) * unit /\ 2 * k \in Nat
  <2> DEFINE p == k * unit
  <2>1. e \in Nat /\ e <= p /\ p \in Nat /\ (2 * k) * unit = 2 * p
    BY <1>1 DEF unit
  <2> HIDE DEF p, e
  <2>2. QED BY <2>1
<1>3. NatUpTo(Rounded(2 * e, unit), 2 * k)
  <2> DEFINE a == 2 * e
             b == 2 * k
  <2> HIDE DEF a, b
  <2>1. a \in Nat /\ b \in Nat /\ a <= b * unit
    BY <1>2 DEF a, b
  <2>2. NatUpTo(Rounded(a, unit), b)
    BY ONLY <1>1, <2>1, RoundedAtMost
  <2>3. QED BY <2>2 DEF a, b
<1>4. LongMemoryScore(h) = Lesser(Rounded(2 * e, unit), 2000)
  BY DEF LongMemoryScore, unit, Permille
<1> DEFINE share == Rounded(2 * e, unit)
           most == 2 * k
<1> HIDE DEF share, most
<1>5. NatUpTo(share, most) /\ LongMemoryScore(h) = Lesser(share, 2000) /\ most \in Nat
  BY <1>2, <1>3, <1>4 DEF share, most
<1>6. NatUpTo(LongMemoryScore(h), most)
  BY <1>5 DEF Lesser, NatUpTo
<1>7. QED BY <1>6 DEF most

\* Three calls in a row have failed.
ThreeInARow(o) == \E i \in 1..(Len(o) - 2) : ~o[i] /\ ~o[i + 1] /\ ~o[i + 2]

\* After five failures in a row nothing was called.
NoFiveBefore(o) == \A i \in 1..(Len(o) - 5) : \E j \in i..(i + 4) : o[j]

\* The run has met these outcomes, and its history ends like them.
Told(r, o) ==
  /\ r.steps_executed = Len(o)
  /\ Len(r.history.recent) = Lesser(10, Len(o))
  /\ \A i \in 1..Len(r.history.recent) :
       r.history.recent[i].success = o[Len(o) - Len(r.history.recent) + i]

\* What adds up at most after such a streak and a latency below half a second.
EntropyCeiling(streak, failing, cost, memory) == 1000 * streak + failing + 2250 + cost + memory

\* The parts of the entropy of a run's next call add up.
LEMMA EntropySum ==
  ASSUME NEW r, r.retry_count \in Nat, r.prev_latency \in Nat, r.prev_latency <= 500,
         NEW h, FailureScore(h) \in Nat, CostScore(h, r.steps_executed) \in Nat,
         LongMemoryScore(h) \in Nat
  PROVE  NatUpTo(Entropy(h, ActionOf(r)),
                 EntropyCeiling(r.retry_count, FailureScore(h), CostScore(h, r.steps_executed),
                                LongMemoryScore(h)))
<1> DEFINE c == ActionOf(r)
           streak == r.retry_count
           f == FailureScore(h)
           t == RepeatedTool(h, c.tool)
           l == Lesser(c.latency, 2000)
           w == CostScore(h, r.steps_executed)
           m == LongMemoryScore(h)
<1>1. /\ c.depth = 0 /\ c.retry_count = streak /\ c.cumulative_calls = r.steps_executed
      /\ c.latency = r.prev_latency \div 2
  BY DEF ActionOf
<1>2. t \in 0..2000
  BY DEF RepeatedTool
<1>3. l \in 0..250
  <2> DEFINE late == r.prev_latency
  <2>1. late \in Nat /\ late <= 500 /\ c.latency = late \div 2
    BY <1>1
  <2> HIDE DEF late
  <2>2. late \div 2 \in 0..250
    BY <2>1
  <2>3. QED BY ONLY <2>1, <2>2 DEF Lesser
<1>4. Entropy(h, c) = DepthScore(0) + RetryScore(streak) + f + t + l + w + m
  <2> HIDE DEF c, streak
  <2>1. Entropy(h, c) = DepthScore(c.depth) + RetryScore(c.retry_count) + f + t + l
                          + CostScore(h, c.cumulative_calls) + m
    BY ONLY Zenon DEF Entropy
  <2> HIDE DEF f, t, l, m
  <2>2. QED BY ONLY <1>1, <2>1, Zenon
<1>5. f \in Nat /\ w \in Nat /\ m \in Nat
  OBVIOUS
<1>6. DepthScore(0) = 0
  BY DEF DepthScore, Lesser
<1>7. streak \in Nat
  OBVIOUS
<1> DEFINE retry == RetryScore(streak)
<1> HIDE DEF streak
<1>8. retry \in Nat /\ retry <= 1000 * streak
  BY ONLY <1>7 DEF RetryScore, Lesser
<1> DEFINE entropy == Entropy(h, c)
<1> HIDE DEF c, f, t, l, w, m, retry, entropy
<1>9. entropy = 0 + retry + f + t + l + w + m
  BY ONLY <1>4, <1>6, Zenon DEF retry, entropy
<1>10. NatUpTo(entropy, EntropyCeiling(streak, f, w, m))
  BY ONLY <1>2, <1>3, <1>5, <1>7, <1>8, <1>9 DEF NatUpTo, EntropyCeiling
<1>11. QED BY <1>10 DEF entropy, c, streak, f, w, m

\* One of any three neighbours in the history succeeded.
LEMMA SuccessAmongThree ==
  ASSUME NEW r, IsCalls(r.history), NEW o \in Seq(BOOLEAN), Told(r, o), ~ThreeInARow(o),
         NEW i \in 1..(Len(r.history.recent) - 2)
  PROVE  \E j \in i..(i + 2) : r.history.recent[j].success
<1> DEFINE h == r.history
           n == Len(h.recent)
           len == Len(o)
           k == len - n + i
<1>1. len \in Nat /\ n = Lesser(10, len) /\ i \in 1..(n - 2)
  BY LenProperties DEF Told
<1>2. \A j \in 1..n : h.recent[j].success = o[len - n + j]
  BY DEF Told
<1> HIDE DEF n, len, h
<1>3. k \in 1..(len - 2) /\ i \in 1..n /\ i + 1 \in 1..n /\ i + 2 \in 1..n
  BY ONLY <1>1 DEF Lesser
<1>4. o[k] \/ o[k + 1] \/ o[k + 2]
  BY <1>3 DEF ThreeInARow, len
<1>5. len - n + i = k /\ len - n + (i + 1) = k + 1 /\ len - n + (i + 2) = k + 2
  BY ONLY <1>1 DEF Lesser
<1>6. h.recent[i].success = o[k] /\ h.recent[i + 1].success = o[k + 1]
      /\ h.recent[i + 2].success = o[k + 2]
  BY <1>2, <1>3, <1>5
<1>7. i \in i..(i + 2) /\ i + 1 \in i..(i + 2) /\ i + 2 \in i..(i + 2)
  BY ONLY <1>3
<1>8. \E j \in i..(i + 2) : h.recent[j].success
  BY ONLY <1>4, <1>6, <1>7
<1>9. QED BY <1>8 DEF h

\* Two different calls are two.
LEMMA Two ==
  ASSUME NEW a, NEW b, a # b
  PROVE  IsFiniteSet({a, b}) /\ Cardinality({a, b}) = 2
<1>1. IsFiniteSet({a}) /\ Cardinality({a}) = 1
  BY FS_Singleton
<1>2. IsFiniteSet({a} \cup {b}) /\ Cardinality({a} \cup {b}) = 2
  BY <1>1, FS_AddElement
<1>3. {a, b} = {a} \cup {b}
  OBVIOUS
<1>4. QED BY <1>2, <1>3

\* Three are three.
LEMMA Three ==
  ASSUME NEW a, NEW b, NEW c, a # b, a # c, b # c
  PROVE  Cardinality({a, b, c}) = 3
<1>1. IsFiniteSet({a, b}) /\ Cardinality({a, b}) = 2
  BY Two
<1>2. Cardinality({a, b} \cup {c}) = 3
  BY <1>1, FS_AddElement
<1>3. {a, b, c} = {a, b} \cup {c}
  OBVIOUS
<1>4. QED BY <1>2, <1>3

\* An empty history has no failures.
LEMMA EmptyFailures ==
  ASSUME NEW h, h.recent = << >>
  PROVE  FailureScore(h) = 0
<1>1. << >> \in Seq(Items) /\ Len(<< >>) = 0
  BY EmptySeq
<1>2. LastOf(h.recent, 5) = << >>
  <2>1. LastOf(h.recent, 5) = SubSeq(<< >>, 1, 0)
    BY <1>1 DEF LastOf, Greater
  <2>2. SubSeq(<< >>, 1, 0) = << >>
    OBVIOUS
  <2>3. QED BY <2>1, <2>2
<1>3. CountOf(<< >>, FALSE) = 0
  <2>1. {i \in DOMAIN << >> : << >>[i].success = FALSE} = {}
    BY <1>1, LenProperties
  <2>2. QED BY <2>1, FS_EmptySet DEF CountOf
<1> DEFINE failures == CountOf(LastOf(h.recent, 5), FALSE)
<1>4. failures = 0
  BY <1>2, <1>3
<1>5. FailureScore(h) = Lesser(650 * failures, 3000)
  BY DEF FailureScore
<1> HIDE DEF failures
<1>6. QED BY ONLY <1>4, <1>5 DEF Lesser

\* What the average can be at most after so many failures in a row, if there are never
\* three.
MostRemembered(streak) == IF streak = 0 THEN 640 ELSE IF streak = 1 THEN 676 ELSE 709

\* As long as no three calls in a row have failed the entropy stays below 10.
LEMMA QuietEntropy ==
  ASSUME NEW r, Attentive(r), NEW o \in Seq(BOOLEAN), Told(r, o), ~ThreeInARow(o),
         r.prev_latency <= 500, r.history.ewma <= MostRemembered(r.retry_count) * Permille
  PROVE  r.retry_count \in 0..2 /\ NatUpTo(Entropy(r.history, ActionOf(r)), 9993)
<1> DEFINE h == r.history
           n == Len(h.recent)
           len == Len(o)
           streak == r.retry_count
           first == LatestFrom(n)
<1>1. /\ IsCalls(h) /\ h.recent \in Seq(Items) /\ DOMAIN h.recent = 1..n /\ len \in Nat
      /\ n = Lesser(10, len) /\ r.steps_executed = len
      /\ r.prev_latency \in Nat /\ r.prev_latency <= 500
      /\ streak \in Nat /\ \A k \in 0..5 : FailedLast(h, k) <=> streak >= k
  BY LenProperties DEF Attentive, Told, Streak, IsCalls
<1>2. n \in 0..10 /\ (n < 10 => len = n)
  <2> HIDE DEF n, len
  <2>1. QED BY ONLY <1>1 DEF Lesser
<1>3. \A i \in 1..(n - 2) : \E j \in i..(i + 2) : h.recent[j].success
  BY <1>1, SuccessAmongThree
<1>4. streak \in 0..2
  <2>1. SUFFICES ASSUME streak >= 3 PROVE FALSE
    <3> HIDE DEF streak
    <3>1. QED BY <1>1
  <2>2. FailedLast(h, 3)
    <3>1. 3 \in 0..5
      OBVIOUS
    <3>2. QED BY <1>1, <2>1, <3>1
  <2>3. 3 <= n /\ \A i \in 1..n : i > n - 3 => ~h.recent[i].success
    BY <1>1, <2>2 DEF FailedLast
  <2> HIDE DEF n, h
  <2>4. n - 2 \in 1..(n - 2) /\ \A j \in (n - 2)..((n - 2) + 2) : j \in 1..n /\ j > n - 3
    BY ONLY <1>2, <2>3
  <2>5. QED BY <1>3, <2>3, <2>4
<1> HIDE DEF n, len, streak, h
<1>5. NatUpTo(FailureScore(h), 2600)
  <2>1. CASE n = 0
    <3>1. h.recent = << >>
      BY <1>1, <2>1, EmptySeq DEF n
    <3>2. FailureScore(h) = 0
      BY <3>1, EmptyFailures
    <3>3. QED BY ONLY <3>2 DEF NatUpTo
  <2>2. CASE n \in 1..2
    <3>1. {} \in SUBSET (1..(n - first + 1)) /\ Cardinality({}) >= 0 /\ 0 \in Nat
      BY FS_EmptySet
    <3>2. FailureScore(h) \in Nat /\ FailureScore(h) <= 650 * ((n - first + 1) - 0)
      <4>1. n = Len(h.recent) /\ n \in 1..10 /\ first = LatestFrom(n) /\ IsCalls(h)
        BY <1>1, <2>2 DEF n
      <4> HIDE DEF first
      <4>2. WonLately(h, {}) /\ Len(h.recent) \in 1..10
        BY <3>1, <4>1 DEF WonLately
      <4>3. QED BY <4>1, <4>2, <3>1, FailureCeiling
    <3>3. QED BY ONLY <2>2, <3>2 DEF LatestFrom, NatUpTo
  <2>3. CASE n \in 3..10
    <3>1. first \in 1..(n - 2) /\ first \in 1..6 /\ n - first + 1 \in 3..5
      BY ONLY <2>3 DEF LatestFrom
    <3>2. PICK j \in first..(first + 2) : h.recent[j].success
      BY <1>3, <3>1
    <3> DEFINE i == j - first + 1
               T == {i}
    <3>3. i \in 1..(n - first + 1) /\ first + i - 1 = j
      BY ONLY <3>1, j \in first..(first + 2)
    <3> HIDE DEF i
    <3>4. T \in SUBSET (1..(n - first + 1)) /\ Cardinality(T) >= 1 /\ 1 \in Nat
      <4>1. Cardinality(T) = 1
        BY FS_Singleton
      <4>2. T \in SUBSET (1..(n - first + 1))
        BY <3>3
      <4> HIDE DEF T
      <4>3. QED BY ONLY <4>1, <4>2
    <3>5. \A x \in T : h.recent[first + x - 1].success
      BY <3>2, <3>3
    <3> HIDE DEF T
    <3>6. FailureScore(h) \in Nat /\ FailureScore(h) <= 650 * ((n - first + 1) - 1)
      <4>1. n = Len(h.recent) /\ n \in 1..10 /\ first = LatestFrom(n) /\ IsCalls(h)
        BY <1>1, <2>3 DEF n
      <4> HIDE DEF first
      <4>2. WonLately(h, T) /\ Len(h.recent) \in 1..10
        BY <3>4, <3>5, <4>1 DEF WonLately
      <4>3. QED BY <4>1, <4>2, <3>4, FailureCeiling
    <3>7. QED BY ONLY <3>1, <3>6 DEF NatUpTo
  <2>4. QED BY <1>2, <2>1, <2>2, <2>3
<1>6. NatUpTo(CostScore(h, len), 1725)
  <2>1. CASE n = 0
    <3>1. h.recent = << >>
      BY <1>1, <2>1, EmptySeq DEF n
    <3>2. CostScore(h, len) = Lesser(25 * len, 500)
      BY <3>1, EmptySeq DEF CostScore
    <3>3. QED BY ONLY <1>1, <3>2 DEF NatUpTo, Lesser
  <2>2. CASE n # 0
    <3> DEFINE won == CountOf(h.recent, TRUE)
               cost == CostScore(h, len)
    <3>1. NatUpTo(won, n)
      <4>1. {} \in SUBSET DOMAIN h.recent /\ \A i \in {} : h.recent[i].success
        OBVIOUS
      <4>2. QED BY <1>1, <4>1, SuccessesCount DEF n
    <3>2. Frugal(cost, len, won)
      <4>1. n \in 1..10
        BY <1>2, <2>2
      <4>2. Len(h.recent) \in 1..10 /\ NatUpTo(CountOf(h.recent, TRUE), Len(h.recent)) /\ len \in Nat
        BY <1>1, <3>1, <4>1 DEF n
      <4>3. QED BY ONLY <4>2, CostCeiling
    <3>3. ASSUME n = 10
          PROVE  won >= 3
      <4>1. 1 \in 1..(n - 2) /\ 4 \in 1..(n - 2) /\ 7 \in 1..(n - 2)
        BY <3>3
      <4>2. PICK a \in 1..(1 + 2) : h.recent[a].success
        BY <1>3, <4>1
      <4>3. PICK b \in 4..(4 + 2) : h.recent[b].success
        BY <1>3, <4>1
      <4>4. PICK c \in 7..(7 + 2) : h.recent[c].success
        BY <1>3, <4>1
      <4>5. a # b /\ a # c /\ b # c /\ a \in 1..n /\ b \in 1..n /\ c \in 1..n
        BY <3>3
      <4> DEFINE S == {a, b, c}
      <4>6. Cardinality(S) = 3
        BY <4>5, Three
      <4>7. S \in SUBSET DOMAIN h.recent /\ \A i \in S : h.recent[i].success
        BY <1>1, <4>2, <4>3, <4>4, <4>5
      <4> HIDE DEF S
      <4>8. won >= Cardinality(S)
        BY <1>1, <4>7, SuccessesCount
      <4>9. QED BY <4>6, <4>8
    <3> HIDE DEF won, cost
    <3>4. NatUpTo(cost, 1725)
      BY ONLY <1>1, <1>2, <3>2, <3>3 DEF NatUpTo, Frugal
    <3>5. QED BY <3>4 DEF cost
  <2>3. QED BY <2>1, <2>2
<1> DEFINE most == MostRemembered(streak)
           entropy == Entropy(h, ActionOf(r))
<1>7. most \in Nat /\ 2 * most \in Nat /\ 1000 * streak + 2 * most <= 3418
  BY ONLY <1>4 DEF MostRemembered
<1> HIDE DEF most
<1>8. NatUpTo(LongMemoryScore(h), 2 * most)
  <2>1. h.ewma \in Nat /\ h.ewma <= most * Permille
    BY <1>1 DEF IsCalls, most, streak, h
  <2>2. QED BY ONLY <1>7, <2>1, MemoryCeiling
<1>9. NatUpTo(entropy, EntropyCeiling(streak, FailureScore(h), CostScore(h, len),
                                      LongMemoryScore(h)))
  <2>1. /\ r.retry_count \in Nat /\ r.prev_latency \in Nat /\ r.prev_latency <= 500
        /\ r.steps_executed = len
    BY <1>1 DEF streak
  <2>2. /\ FailureScore(h) \in Nat /\ CostScore(h, r.steps_executed) \in Nat
        /\ LongMemoryScore(h) \in Nat
    BY <1>5, <1>6, <1>8, <2>1 DEF NatUpTo
  <2>3. NatUpTo(entropy, EntropyCeiling(r.retry_count, FailureScore(h),
                                        CostScore(h, r.steps_executed), LongMemoryScore(h)))
    BY ONLY <2>1, <2>2, EntropySum, Zenon
  <2>4. QED BY <2>1, <2>3 DEF streak
<1> DEFINE failing == FailureScore(h)
           cost == CostScore(h, len)
           memory == LongMemoryScore(h)
<1> HIDE DEF entropy, failing, cost, memory
<1>10. NatUpTo(entropy, 9993)
  <2>1. /\ NatUpTo(failing, 2600) /\ NatUpTo(cost, 1725) /\ NatUpTo(memory, 2 * most)
        /\ NatUpTo(entropy, EntropyCeiling(streak, failing, cost, memory))
    BY <1>5, <1>6, <1>8, <1>9 DEF failing, cost, memory
  <2>2. QED BY ONLY <1>4, <1>7, <2>1 DEF NatUpTo, EntropyCeiling
<1>11. QED BY <1>4, <1>10 DEF entropy, streak, h

\* After two successes in a row it stays below 7.5, whatever came before them.
LEMMA RecoveredEntropy ==
  ASSUME NEW r, Attentive(r), NEW o \in Seq(BOOLEAN), Told(r, o), NoFiveBefore(o),
         Len(o) >= 2, o[Len(o)], o[Len(o) - 1],
         r.prev_latency <= 500, r.history.ewma <= 810 * Permille
  PROVE  NatUpTo(Entropy(r.history, ActionOf(r)), 7495)
<1> DEFINE h == r.history
           n == Len(h.recent)
           len == Len(o)
           streak == r.retry_count
           first == LatestFrom(n)
<1>1. /\ IsCalls(h) /\ h.recent \in Seq(Items) /\ DOMAIN h.recent = 1..n /\ len \in Nat
      /\ n = Lesser(10, len) /\ r.steps_executed = len
      /\ \A i \in 1..n : h.recent[i].success = o[len - n + i]
      /\ r.prev_latency \in Nat /\ r.prev_latency <= 500
      /\ streak \in Nat /\ \A k \in 0..5 : FailedLast(h, k) <=> streak >= k
  BY LenProperties DEF Attentive, Told, Streak, IsCalls
<1>2. len >= 2 /\ o[len] /\ o[len - 1]
  OBVIOUS
<1> HIDE DEF n, len, h
<1>3. len \in Nat /\ n \in 2..10 /\ (n < 10 => len = n) /\ n <= len
  BY ONLY <1>1, <1>2 DEF Lesser
<1>4. h.recent[n].success /\ h.recent[n - 1].success
  <2>1. n \in 1..n /\ n - 1 \in 1..n /\ len - n + n = len /\ len - n + (n - 1) = len - 1
    BY ONLY <1>3
  <2>2. h.recent[n].success = o[len] /\ h.recent[n - 1].success = o[len - 1]
    BY <1>1, <2>1
  <2>3. QED BY ONLY <1>2, <2>2
<1>5. streak = 0
  <2>1. ~FailedLast(h, 1)
    <3>1. n \in 1..n /\ n > n - 1
      BY ONLY <1>3
    <3>2. QED BY <1>1, <1>4, <3>1 DEF FailedLast, n
  <2>2. ~(streak >= 1)
    <3>1. 1 \in 0..5
      OBVIOUS
    <3>2. QED BY <1>1, <2>1, <3>1
  <2> HIDE DEF streak
  <2>3. QED BY <1>1, <2>2
<1> HIDE DEF streak
<1>6. NatUpTo(FailureScore(h), 1950)
  <2> DEFINE latter == n - first + 1
             former == n - first
             T == {former, latter}
  <2>1. first \in 1..n /\ latter \in 2..5 /\ former \in 1..4 /\ former # latter
        /\ first + latter - 1 = n /\ first + former - 1 = n - 1
        /\ latter = n - first + 1
    <3>1. n \in 2..10
      BY <1>3
    <3>2. (n < 5 /\ first = 1) \/ (n >= 5 /\ first = n - 4)
      BY ONLY <3>1 DEF LatestFrom
    <3> HIDE DEF first
    <3>3. QED BY ONLY <3>1, <3>2
  <2>2. Cardinality(T) = 2
    <3> HIDE DEF latter, former
    <3>1. former # latter
      BY <2>1
    <3>2. QED BY ONLY <3>1, Two
  <2>3. T \in SUBSET (1..(n - first + 1))
    <3> HIDE DEF former, latter
    <3>1. former \in 1..4 /\ latter \in 2..5 /\ former <= latter
      <4>1. latter = former + 1
        <5>1. first \in Int /\ n \in Int
          BY <1>3, <2>1
        <5> HIDE DEF first
        <5>2. QED BY ONLY <5>1 DEF former, latter
      <4>2. QED BY ONLY <2>1, <4>1
    <3>2. T \in SUBSET (1..latter)
      BY ONLY <3>1
    <3>3. QED BY ONLY <3>2 DEF latter
  <2>4. \A i \in T : h.recent[first + i - 1].success
    <3> HIDE DEF latter, former
    <3>1. QED BY ONLY <1>4, <2>1
  <2> HIDE DEF T
  <2>5. FailureScore(h) \in Nat /\ FailureScore(h) <= 650 * ((n - first + 1) - 2)
    <3>1. n = Len(h.recent) /\ n \in 1..10 /\ first = LatestFrom(n)
      BY <1>3 DEF n
    <3> DEFINE k == 2
    <3>2. Cardinality(T) >= k /\ k \in Nat
      BY <2>2
    <3>3. FailureScore(h) \in Nat /\ FailureScore(h) <= 650 * ((n - first + 1) - k)
      <4> HIDE DEF first, k
      <4>1. IsCalls(h)
        BY <1>1
      <4>2. WonLately(h, T) /\ Len(h.recent) \in 1..10
        BY <2>3, <2>4, <3>1 DEF WonLately
      <4>3. QED BY <4>1, <4>2, <3>1, <3>2, FailureCeiling
    <3>4. QED BY <3>3
  <2>6. QED BY ONLY <2>1, <2>5 DEF NatUpTo
<1>7. NatUpTo(CostScore(h, len), 1675)
  <2> DEFINE won == CountOf(h.recent, TRUE)
             cost == CostScore(h, len)
  <2>1. Frugal(cost, len, won)
    <3>1. NatUpTo(won, n)
      <4>1. {} \in SUBSET DOMAIN h.recent /\ \A i \in {} : h.recent[i].success
        OBVIOUS
      <4>2. QED BY <1>1, <4>1, SuccessesCount DEF n
    <3>2. n \in 1..10
      BY ONLY <1>3
    <3>3. Len(h.recent) \in 1..10 /\ NatUpTo(CountOf(h.recent, TRUE), Len(h.recent)) /\ len \in Nat
      BY <1>1, <3>1, <3>2 DEF n
    <3>4. QED BY ONLY <3>3, CostCeiling
  <2>2. ASSUME n >= 8
        PROVE  won >= 3
    <3>1. len - n + 1 \in 1..(len - 5)
      BY ONLY <1>3, <2>2 DEF Lesser
    <3>2. PICK j \in (len - n + 1)..((len - n + 1) + 4) : o[j]
      BY <3>1 DEF NoFiveBefore, len
    <3> DEFINE a == j - (len - n)
               b == n - 1
               S == {a, b, n}
    <3>3. a \in 1..n /\ b \in 1..n /\ n \in 1..n /\ a # b /\ a # n /\ b # n /\ len - n + a = j
      BY ONLY <1>3, <2>2, j \in (len - n + 1)..((len - n + 1) + 4)
    <3> HIDE DEF a
    <3>4. h.recent[a].success
      <4>1. h.recent[a].success = o[len - n + a]
        BY <1>1, <3>3
      <4>2. QED BY ONLY <3>2, <3>3, <4>1
    <3>5. Cardinality(S) = 3
      <4> HIDE DEF b
      <4>1. QED BY <3>3, Three
    <3>6. S \in SUBSET DOMAIN h.recent /\ \A i \in S : h.recent[i].success
      BY <1>1, <1>4, <3>3, <3>4
    <3> HIDE DEF S
    <3>7. won >= Cardinality(S)
      BY <1>1, <3>6, SuccessesCount
    <3>8. QED BY <3>5, <3>7
  <2> HIDE DEF won, cost
  <2>3. NatUpTo(cost, 1675)
    BY ONLY <1>1, <1>3, <2>1, <2>2 DEF NatUpTo, Frugal
  <2>4. QED BY <2>3 DEF cost
<1> DEFINE entropy == Entropy(h, ActionOf(r))
<1>8. NatUpTo(LongMemoryScore(h), 1620)
  <2>1. h.ewma \in Nat /\ h.ewma <= 810 * Permille
    BY <1>1 DEF IsCalls, h
  <2> DEFINE k == 810
  <2>2. k \in Nat /\ 2 * k = 1620
    OBVIOUS
  <2>3. h.ewma <= k * Permille
    BY <2>1
  <2> HIDE DEF k
  <2>4. NatUpTo(LongMemoryScore(h), 2 * k)
    BY ONLY <2>1, <2>2, <2>3, MemoryCeiling
  <2>5. QED BY <2>2, <2>4
<1>9. NatUpTo(entropy, EntropyCeiling(streak, FailureScore(h), CostScore(h, len),
                                      LongMemoryScore(h)))
  <2>1. /\ r.retry_count \in Nat /\ r.prev_latency \in Nat /\ r.prev_latency <= 500
        /\ r.steps_executed = len
    BY <1>1 DEF streak
  <2>2. /\ FailureScore(h) \in Nat /\ CostScore(h, r.steps_executed) \in Nat
        /\ LongMemoryScore(h) \in Nat
    BY <1>6, <1>7, <1>8, <2>1 DEF NatUpTo
  <2>3. NatUpTo(entropy, EntropyCeiling(r.retry_count, FailureScore(h),
                                        CostScore(h, r.steps_executed), LongMemoryScore(h)))
    BY ONLY <2>1, <2>2, EntropySum, Zenon
  <2>4. QED BY <2>1, <2>3 DEF streak
<1> DEFINE failing == FailureScore(h)
           cost == CostScore(h, len)
           memory == LongMemoryScore(h)
<1> HIDE DEF entropy, failing, cost, memory
<1>10. NatUpTo(entropy, 7495)
  <2>1. /\ NatUpTo(failing, 1950) /\ NatUpTo(cost, 1675) /\ NatUpTo(memory, 1620)
        /\ NatUpTo(entropy, EntropyCeiling(streak, failing, cost, memory))
    BY <1>6, <1>7, <1>8, <1>9 DEF failing, cost, memory
  <2>2. QED BY ONLY <1>5, <2>1 DEF NatUpTo, EntropyCeiling
<1>11. QED BY <1>10 DEF entropy, h

\* Trust is never negative.
LEMMA TrustOfCalls ==
  ASSUME NEW h, IsCalls(h), NEW entropy \in Nat
  PROVE  Trust(h, entropy) \in Nat
<1> DEFINE n == Len(h.recent)
           won == CountOf(h.recent, TRUE)
           num == CASE n = 0 -> 13 [] n > 0 /\ 10 * won >= 3 * n -> won [] OTHER -> 3
           den == CASE n = 0 -> 20 [] n > 0 /\ 10 * won >= 3 * n -> n   [] OTHER -> 10
           penalty == Lesser(entropy, 8400)
           numerator == 12 * (1000 * num + 200 * den) - penalty * den
           quotient == Rounded(numerator, 12 * den)
<1>1. n \in Nat /\ won \in Nat
  <2>1. {} \in SUBSET DOMAIN h.recent /\ \A i \in {} : h.recent[i].success
    OBVIOUS
  <2>2. h.recent \in Seq(Items)
    BY DEF IsCalls
  <2>3. QED BY <2>1, <2>2, SuccessesCount, LenProperties DEF NatUpTo
<1> HIDE DEF n, won
<1>2. num \in Nat /\ den \in Nat \ {0}
  BY <1>1
<1>3. penalty \in Nat
  BY DEF Lesser
<1> HIDE DEF num, den, penalty
<1>4. numerator \in Int /\ 12 * den \in Nat \ {0}
  BY <1>2, <1>3
<1> DEFINE d == 12 * den
<1> HIDE DEF numerator
<1>5. quotient \in Int
  <2>1. d \in Nat \ {0} /\ quotient = Rounded(numerator, d)
    BY <1>4
  <2> HIDE DEF d, quotient
  <2>2. numerator \div d \in Int
    BY <1>4, <2>1
  <2>3. QED BY <2>1, <2>2 DEF Rounded
<1> HIDE DEF quotient
<1>6. Greater(0, Lesser(1000, quotient)) \in Nat
  BY <1>5 DEF Greater, Lesser
<1>7. Trust(h, entropy) = Greater(0, Lesser(1000, quotient))
  BY DEF Trust, quotient, numerator, num, den, penalty, n, won
<1>8. QED BY <1>6, <1>7

\* How far the average falls, or rises, at most.
LEMMA SmoothedAtMost ==
  ASSUME NEW e \in Nat, NEW k \in Nat, e <= k * Permille, NEW m \in Nat,
         NEW success \in BOOLEAN, 10 * m >= 9 * k + (IF success THEN 0 ELSE 1000)
  PROVE  NatUpTo(Smoothed(e, success), m * Permille)
<1> DEFINE fresh == IF success THEN 0 ELSE 1000
           sum == fresh * 100000 + 9 * e
<1>1. e <= k * 100000 /\ Permille = 100000
  BY DEF Permille, OneEwma
<1>2. Smoothed(e, success) = sum \div 10
  <2> HIDE DEF sum
  <2>1. CASE success = TRUE
    BY <2>1 DEF Smoothed, sum
  <2>2. CASE success = FALSE
    <3>1. Smoothed(e, success) = (OneEwma + 9 * e) \div 10
      BY <2>2 DEF Smoothed
    <3>2. fresh = 1000
      BY <2>2
    <3> HIDE DEF fresh
    <3>3. sum = OneEwma + 9 * e
      BY ONLY <3>2, e \in Nat DEF OneEwma, sum
    <3>4. QED BY ONLY <3>1, <3>3
  <2>3. QED BY ONLY <2>1, <2>2, success \in BOOLEAN
<1>3. fresh \in Nat /\ 10 * m >= 9 * k + fresh
  OBVIOUS
<1> HIDE DEF fresh
<1>4. sum \in Nat /\ sum <= 10 * (m * 100000)
  BY ONLY <1>1, <1>3, e \in Nat, k \in Nat, m \in Nat
<1> HIDE DEF sum
<1>5. sum \div 10 \in Nat /\ sum \div 10 <= m * 100000
  <2> DEFINE most == m * 100000
  <2>1. most \in Nat /\ sum <= 10 * most
    BY <1>4
  <2> HIDE DEF most
  <2>2. sum \div 10 \in Nat /\ sum \div 10 <= most
    BY <1>4, <2>1
  <2>3. QED BY <2>2 DEF most
<1>6. QED BY <1>1, <1>2, <1>5 DEF NatUpTo

\* What the average is at most after these outcomes and so many failures in a row.
Settled(e, streak, o) ==
  /\ e <= 1000 * Permille
  /\ Len(o) >= 1 /\ o[Len(o)] => e <= 900 * Permille
  /\ Len(o) >= 2 /\ o[Len(o)] /\ o[Len(o) - 1] => e <= 810 * Permille
  /\ ~ThreeInARow(o) => streak <= 2 /\ e <= MostRemembered(streak) * Permille

\* What happened is not undone.
LEMMA Prolonged ==
  ASSUME NEW o \in Seq(BOOLEAN), NEW success \in BOOLEAN
  PROVE  LET p == Append(o, success)
         IN  /\ p \in Seq(BOOLEAN) /\ Len(o) \in Nat /\ Len(p) = Len(o) + 1 /\ p[Len(p)] = success
             /\ \A i \in 1..Len(o) : p[i] = o[i]
             /\ ThreeInARow(o) => ThreeInARow(p)
<1> DEFINE p == Append(o, success)
           len == Len(o)
           size == Len(p)
<1>1. p \in Seq(BOOLEAN) /\ size = len + 1 /\ p[len + 1] = success
      /\ \A i \in 1..len : p[i] = o[i]
  BY ONLY success \in BOOLEAN, o \in Seq(BOOLEAN), AppendProperties
<1>2. len \in Nat
  BY LenProperties
<1>3. ASSUME ThreeInARow(o)
      PROVE  ThreeInARow(p)
  <2> HIDE DEF p, len, size
  <2>1. PICK i \in 1..(len - 2) : ~o[i] /\ ~o[i + 1] /\ ~o[i + 2]
    BY <1>3 DEF ThreeInARow, len
  <2>2. i \in 1..len /\ i + 1 \in 1..len /\ i + 2 \in 1..len /\ i \in 1..(size - 2)
    BY ONLY <1>1, <1>2, i \in 1..(len - 2)
  <2>3. p[i] = o[i] /\ p[i + 1] = o[i + 1] /\ p[i + 2] = o[i + 2]
    BY <1>1, <2>2
  <2>4. ~p[i] /\ ~p[i + 1] /\ ~p[i + 2]
    BY ONLY <2>1, <2>3
  <2>5. QED BY <2>2, <2>4 DEF ThreeInARow, size
<1>4. p[size] = success
  <2> HIDE DEF p, len, size
  <2>1. QED BY ONLY <1>1
<1> HIDE DEF p, len, size
<1>5. QED BY <1>1, <1>2, <1>3, <1>4 DEF p, len, size

\* The average settles.
LEMMA SettledStep ==
  ASSUME NEW e \in Nat, NEW streak \in Nat, NEW o \in Seq(BOOLEAN), Settled(e, streak, o),
         NEW success \in BOOLEAN, NEW next, next = IF success THEN 0 ELSE streak + 1,
         ThreeInARow(Append(o, success)) \/ next <= 2
  PROVE  Settled(Smoothed(e, success), next, Append(o, success))
<1> DEFINE p == Append(o, success)
           len == Len(o)
           size == Len(p)
           eased == Smoothed(e, success)
<1>1. p \in Seq(BOOLEAN) /\ len \in Nat /\ size = len + 1 /\ p[size] = success
      /\ (\A i \in 1..len : p[i] = o[i]) /\ (ThreeInARow(o) => ThreeInARow(p))
  BY ONLY o \in Seq(BOOLEAN), success \in BOOLEAN, Prolonged
<1>2. /\ e <= 1000 * Permille
      /\ len >= 1 /\ o[len] => e <= 900 * Permille
      /\ ~ThreeInARow(o) => streak <= 2 /\ e <= MostRemembered(streak) * Permille
  BY DEF Settled
<1>3. ThreeInARow(p) \/ next <= 2
  OBVIOUS
<1>4. Permille = 100000
  BY DEF Permille, OneEwma
<1> HIDE DEF p, len, size
<1>5. eased <= 1000 * Permille
  <2> DEFINE k == 1000
  <2>1. k \in Nat /\ e <= k * Permille /\ 10 * k >= 9 * k + (IF success THEN 0 ELSE 1000)
    BY <1>2
  <2> HIDE DEF k
  <2>2. NatUpTo(eased, k * Permille)
    BY ONLY e \in Nat, success \in BOOLEAN, <2>1, SmoothedAtMost
  <2>3. QED BY <2>2 DEF NatUpTo, k
<1>6. ASSUME success
      PROVE  eased <= 900 * Permille
  <2> DEFINE k == 1000
             m == 900
  <2>1. k \in Nat /\ m \in Nat /\ e <= k * Permille
        /\ 10 * m >= 9 * k + (IF success THEN 0 ELSE 1000)
    BY <1>2, <1>6
  <2> HIDE DEF k, m
  <2>2. NatUpTo(eased, m * Permille)
    BY ONLY e \in Nat, success \in BOOLEAN, <2>1, SmoothedAtMost
  <2>3. QED BY <2>2 DEF NatUpTo, m
<1>7. ASSUME success, len >= 1, o[len]
      PROVE  eased <= 810 * Permille
  <2> DEFINE k == 900
             m == 810
  <2>1. k \in Nat /\ m \in Nat /\ e <= k * Permille
        /\ 10 * m >= 9 * k + (IF success THEN 0 ELSE 1000)
    BY <1>2, <1>7
  <2> HIDE DEF k, m
  <2>2. NatUpTo(eased, m * Permille)
    BY ONLY e \in Nat, success \in BOOLEAN, <2>1, SmoothedAtMost
  <2>3. QED BY <2>2 DEF NatUpTo, m
<1>8. ASSUME ~ThreeInARow(p)
      PROVE  next <= 2 /\ eased <= MostRemembered(next) * Permille
  <2> DEFINE k == MostRemembered(streak)
             m == MostRemembered(next)
  <2>1. streak \in 0..2 /\ e <= k * Permille /\ next \in 0..2
    BY <1>1, <1>2, <1>3, <1>8
  <2>2. k \in Nat /\ m \in Nat
    BY ONLY <2>1 DEF MostRemembered
  <2>3. 10 * m >= 9 * k + (IF success THEN 0 ELSE 1000)
    <3>1. CASE success
      <4>1. next = 0
        BY <3>1
      <4>2. QED BY ONLY <2>1, <3>1, <4>1 DEF MostRemembered
    <3>2. CASE ~success
      <4>1. next = streak + 1
        BY <3>2
      <4>2. QED BY ONLY <2>1, <3>2, <4>1 DEF MostRemembered
    <3>3. QED BY <3>1, <3>2
  <2> HIDE DEF k, m
  <2>4. NatUpTo(eased, m * Permille)
    BY ONLY e \in Nat, success \in BOOLEAN, <2>1, <2>2, <2>3, SmoothedAtMost
  <2>5. QED BY <2>1, <2>4 DEF NatUpTo, m
<1>9. size >= 2 /\ p[size] /\ p[size - 1] => success /\ len >= 1 /\ o[len]
  <2>1. ASSUME size >= 2, p[size], p[size - 1]
        PROVE  success /\ len >= 1 /\ o[len]
    <3>1. len >= 1 /\ size - 1 = len /\ len \in 1..len
      BY ONLY <1>1, <2>1
    <3>2. p[len] = o[len] /\ p[len]
      BY <1>1, <2>1, <3>1
    <3>3. success
      BY ONLY <1>1, <2>1
    <3>4. o[len]
      BY ONLY <3>2
    <3>5. QED BY ONLY <3>1, <3>3, <3>4
  <2>2. QED BY <2>1
<1> HIDE DEF eased
<1>10. /\ size >= 1 /\ p[size] => eased <= 900 * Permille
       /\ size >= 2 /\ p[size] /\ p[size - 1] => eased <= 810 * Permille
  <2>1. ASSUME size >= 1, p[size] PROVE eased <= 900 * Permille
    <3>1. success
      BY ONLY <1>1, <2>1
    <3>2. QED BY <1>6, <3>1
  <2>2. ASSUME size >= 2, p[size], p[size - 1] PROVE eased <= 810 * Permille
    BY <1>7, <1>9, <2>2
  <2>3. QED BY <2>1, <2>2
<1>11. Settled(eased, next, p)
  BY <1>5, <1>8, <1>10 DEF Settled, size
<1>12. QED BY <1>11 DEF eased, p

\* The latest so many outcomes are failures.
EndsInFailures(o, k) == k <= Len(o) /\ \A i \in 1..Len(o) : i > Len(o) - k => ~o[i]

\* The streak counted is the one met.
LEMMA StreakIsTold ==
  ASSUME NEW r, Attentive(r), NEW o \in Seq(BOOLEAN), Told(r, o), NEW k \in 0..5
  PROVE  r.retry_count >= k <=> EndsInFailures(o, k)
<1> DEFINE h == r.history
           n == Len(h.recent)
           len == Len(o)
<1>1. /\ len \in Nat /\ n = Lesser(10, len) /\ DOMAIN h.recent = 1..n
      /\ \A i \in 1..n : h.recent[i].success = o[len - n + i]
      /\ FailedLast(h, k) <=> r.retry_count >= k
  <2>1. h.recent \in Seq(Items)
    BY DEF Attentive, IsCalls
  <2>2. DOMAIN h.recent = 1..n /\ len \in Nat
    BY <2>1, LenProperties
  <2>3. n = Lesser(10, len) /\ \A i \in 1..n : h.recent[i].success = o[len - n + i]
    BY DEF Told
  <2>4. FailedLast(h, k) <=> r.retry_count >= k
    BY DEF Attentive, Streak
  <2>5. QED BY ONLY <2>2, <2>3, <2>4
<1>2. k \in 0..5
  OBVIOUS
<1> HIDE DEF n, len, h
<1>3. n \in 0..10 /\ n <= len /\ (n < 10 => n = len) /\ len \in Nat
  BY ONLY <1>1 DEF Lesser
<1>4. ASSUME EndsInFailures(o, k)
      PROVE  FailedLast(h, k)
  <2>1. k <= len /\ \A i \in 1..len : i > len - k => ~o[i]
    BY <1>4 DEF EndsInFailures, len
  <2>2. k <= n
    BY ONLY <1>2, <1>3, <2>1
  <2>3. ASSUME NEW i \in 1..n, i > n - k
        PROVE  ~h.recent[i].success
    <3> DEFINE j == len - n + i
    <3>1. j \in 1..len /\ j > len - k
      BY ONLY <1>2, <1>3, <2>3
    <3> HIDE DEF j
    <3>2. ~o[j]
      BY <2>1, <3>1
    <3>3. h.recent[i].success = o[j]
      BY <1>1 DEF j
    <3>4. QED BY ONLY <3>2, <3>3
  <2>4. k \in Nat
    BY <1>2
  <2>5. QED BY <1>1, <2>2, <2>3, <2>4 DEF FailedLast, n
<1>5. ASSUME FailedLast(h, k)
      PROVE  EndsInFailures(o, k)
  <2>1. k <= n /\ \A i \in 1..n : i > n - k => ~h.recent[i].success
    BY <1>1, <1>5 DEF FailedLast, n
  <2>2. k <= len
    BY ONLY <1>2, <1>3, <2>1
  <2>3. ASSUME NEW i \in 1..len, i > len - k
        PROVE  ~o[i]
    <3> DEFINE j == i - (len - n)
    <3>1. k <= n
      BY <2>1
    <3>2. j \in 1..n /\ j > n - k /\ len - n + j = i
      BY ONLY <1>2, <1>3, <2>3, <3>1
    <3> HIDE DEF j
    <3>3. ~h.recent[j].success
      BY <2>1, <3>2
    <3>4. h.recent[j].success = o[i]
      BY <1>1, <3>2
    <3>5. QED BY ONLY <3>3, <3>4
  <2>4. QED BY <2>2, <2>3 DEF EndsInFailures, len
<1>6. QED BY ONLY <1>1, <1>4, <1>5

\* Three failures in a row now are three in a row.
LEMMA StreakOfThree ==
  ASSUME NEW r, Attentive(r), NEW o \in Seq(BOOLEAN), Told(r, o), r.retry_count >= 3
  PROVE  ThreeInARow(o)
<1> DEFINE len == Len(o)
           k == 3
<1>1. EndsInFailures(o, k)
  <2>1. k \in 0..5 /\ r.retry_count >= k
    OBVIOUS
  <2> HIDE DEF k
  <2>2. QED BY <2>1, StreakIsTold
<1>2. len \in Nat /\ 3 <= len /\ \A i \in 1..len : i > len - 3 => ~o[i]
  BY <1>1, LenProperties DEF EndsInFailures
<1> HIDE DEF len
<1>3. len - 2 \in 1..(len - 2) /\ \A j \in {len - 2, len - 1, len} : j \in 1..len /\ j > len - 3
  BY ONLY <1>2
<1>4. ~o[len - 2] /\ ~o[len - 1] /\ ~o[len]
  BY <1>2, <1>3
<1>5. (len - 2) + 1 = len - 1 /\ (len - 2) + 2 = len
  BY ONLY <1>2
<1>6. QED BY <1>3, <1>4, <1>5 DEF ThreeInARow, len

\* Another call is told.
LEMMA ToldStep ==
  ASSUME NEW r, Attentive(r), NEW o \in Seq(BOOLEAN), Told(r, o), NEW success \in BOOLEAN,
         NEW latency, NEW n, Continued(n, r, success, latency)
  PROVE  Told(n, Append(o, success))
<1> DEFINE h == r.history
           g == Recorded(h, Tool, success)
           p == Append(o, success)
           m == Len(h.recent)
           k == Len(g.recent)
           len == Len(o)
           size == Len(p)
<1>1. n.steps_executed = r.steps_executed + 1 /\ n.history = g
  BY DEF Continued
<1>2. size = len + 1 /\ len \in Nat /\ p[size] = success /\ \A i \in 1..len : p[i] = o[i]
  BY ONLY o \in Seq(BOOLEAN), success \in BOOLEAN, Prolonged
<1>3. r.steps_executed = len /\ m = Lesser(10, len)
      /\ \A i \in 1..m : h.recent[i].success = o[len - m + i]
  BY DEF Told
<1>4. /\ m \in 0..10
      /\ m < 10 => /\ k = m + 1 /\ \A i \in 1..m : g.recent[i] = h.recent[i]
                   /\ g.recent[m + 1].success = success
      /\ m >= 10 => /\ k = 10 /\ \A i \in 1..9 : g.recent[i] = h.recent[i + 1]
                    /\ g.recent[10].success = success
  <2>1. IsCalls(h)
    BY DEF Attentive
  <2>2. /\ m \in 0..10
        /\ IF m < 10
           THEN /\ k = m + 1 /\ \A i \in 1..m : g.recent[i] = h.recent[i]
                /\ g.recent[m + 1].success = success
           ELSE /\ k = 10 /\ \A i \in 1..9 : g.recent[i] = h.recent[i + 1]
                /\ g.recent[10].success = success
    <3> HIDE DEF h
    <3>1. QED BY ONLY <2>1, success \in BOOLEAN, CallRecorded
  <2> HIDE DEF m, k, g, h
  <2>3. m >= 10 => ~(m < 10)
    BY ONLY <2>2
  <2>4. QED BY ONLY <2>2, <2>3
<1> HIDE DEF h, g, p, m, k, len, size
<1>5. k = Lesser(10, size)
  <2>1. (m < 10 => k = m + 1) /\ (m >= 10 => k = 10) /\ m \in 0..10
    BY <1>4
  <2>2. size = len + 1 /\ len \in Nat /\ m = Lesser(10, len)
    BY <1>2, <1>3
  <2>3. QED BY ONLY <2>1, <2>2 DEF Lesser
<1>6. ASSUME NEW i \in 1..k
      PROVE  g.recent[i].success = p[size - k + i]
  <2>1. m \in 0..10 /\ m = Lesser(10, len) /\ size = len + 1 /\ len \in Nat
        /\ (m < 10 => k = m + 1) /\ (m >= 10 => k = 10)
    BY <1>2, <1>3, <1>4
  <2>2. m <= len /\ (m < 10 => m = len)
    BY ONLY <2>1 DEF Lesser
  <2>3. CASE i = k
    <3>1. size - k + i = size
      BY ONLY <2>1, <2>3
    <3>2. g.recent[k].success = success
      BY <1>4, <2>1
    <3>3. QED BY <1>2, <2>3, <3>1, <3>2
  <2>4. CASE i # k /\ m < 10
    <3>1. i \in 1..m /\ size - k + i = len - m + i /\ len - m + i \in 1..len
      BY ONLY <2>1, <2>2, <2>4, i \in 1..k
    <3>2. g.recent[i] = h.recent[i] /\ h.recent[i].success = o[len - m + i]
      BY <1>3, <1>4, <2>4, <3>1
    <3>3. p[len - m + i] = o[len - m + i]
      BY <1>2, <3>1
    <3>4. QED BY ONLY <3>1, <3>2, <3>3
  <2>5. CASE i # k /\ m >= 10
    <3> DEFINE j == i + 1
    <3>1. i \in 1..9 /\ j \in 1..m /\ size - k + i = len - m + j /\ len - m + j \in 1..len
      <4>1. k = 10 /\ m = 10 /\ size = len + 1 /\ len \in Nat /\ 10 <= len
        BY ONLY <2>1, <2>2, <2>5
      <4>2. i \in 1..9
        BY ONLY <2>5, <4>1, i \in 1..k
      <4>3. QED BY ONLY <4>1, <4>2
    <3>2. g.recent[i] = h.recent[j]
      BY <1>4, <2>5, <3>1
    <3> HIDE DEF j
    <3>3. h.recent[j].success = o[len - m + j]
      BY <1>3, <3>1
    <3>4. p[len - m + j] = o[len - m + j]
      BY <1>2, <3>1
    <3>5. QED BY ONLY <3>1, <3>2, <3>3, <3>4
  <2>6. m < 10 \/ m >= 10
    BY ONLY <2>1
  <2>7. QED BY ONLY <2>3, <2>4, <2>5, <2>6
<1>7. n.steps_executed = size
  BY <1>1, <1>2, <1>3
<1>8. n.history.recent = g.recent
  BY <1>1
<1>9. QED BY <1>5, <1>6, <1>7, <1>8 DEF Told, k, size, p

\* With five failures in a row refused, none are followed by a call.
LEMMA NoFiveStep ==
  ASSUME NEW r, Attentive(r), NEW o \in Seq(BOOLEAN), Told(r, o), NoFiveBefore(o),
         ~(r.retry_count >= 5), NEW success \in BOOLEAN
  PROVE  NoFiveBefore(Append(o, success))
<1> DEFINE p == Append(o, success)
           len == Len(o)
           size == Len(p)
           k == 5
<1>1. size = len + 1 /\ len \in Nat /\ \A i \in 1..len : p[i] = o[i]
  BY ONLY o \in Seq(BOOLEAN), success \in BOOLEAN, Prolonged
<1>2. ~EndsInFailures(o, k)
  <2>1. k \in 0..5 /\ ~(r.retry_count >= k)
    OBVIOUS
  <2> HIDE DEF k
  <2>2. QED BY <2>1, StreakIsTold
<1>3. len >= 5 => \E j \in 1..len : j > len - 5 /\ o[j]
  BY <1>1, <1>2 DEF EndsInFailures
<1>4. \A i \in 1..(len - 5) : \E j \in i..(i + 4) : o[j]
  BY DEF NoFiveBefore
<1> HIDE DEF p, len, size
<1>5. ASSUME NEW i \in 1..(size - 5)
      PROVE  \E j \in i..(i + 4) : p[j]
  <2>1. CASE i \in 1..(len - 5)
    <3>1. PICK j \in i..(i + 4) : o[j]
      BY <1>4, <2>1
    <3>2. j \in 1..len
      BY ONLY <1>1, <2>1, j \in i..(i + 4)
    <3>3. p[j] = o[j]
      BY <1>1, <3>2
    <3>4. QED BY <3>1, <3>3
  <2>2. CASE i \notin 1..(len - 5)
    <3>1. len >= 5 /\ i = len - 4
      BY ONLY <1>1, <2>2, i \in 1..(size - 5)
    <3>2. PICK j \in 1..len : j > len - 5 /\ o[j]
      BY <1>3, <3>1
    <3>3. j \in i..(i + 4)
      BY ONLY <1>1, <3>1, <3>2, j \in 1..len
    <3>4. p[j] = o[j]
      BY <1>1
    <3>5. QED BY <3>2, <3>3, <3>4
  <2>3. QED BY <2>1, <2>2
<1>6. QED BY <1>5 DEF NoFiveBefore, size, p

\* The log has an entry for every outcome.
Logged(r, o) ==
  /\ \E S : r.step_log \in Seq(S)
  /\ Len(r.step_log) = Len(o)
  /\ \A i \in 1..Len(o) : r.step_log[i].success = o[i]

\* RNOS alone ends only by refusing, and logs the call it makes, in whatever experiment.
LEMMA RnosLogs ==
  ASSUME NEW r, LoopFields \subseteq DOMAIN r, ~Over(r), NEW e, NEW api, NEW success,
         NEW latency, NEW n, n = StepOf(e, "rnos", api, r, success, latency)
  PROVE  /\ Over(n) => Evaluate(r.history, ActionOf(r)) = "REFUSE"
         /\ ~Over(n) => \E entry : entry.success = success
                                   /\ n.step_log = Append(r.step_log, entry)
<1> DEFINE m == RnosStep(r, success, latency)
           decision == Evaluate(r.history, ActionOf(r))
           asked == [r EXCEPT !.step = @ + 1,
                              !.entropy_trajectory = Append(@, Entropy(r.history, ActionOf(r)))]
           seen == IF decision = "ALLOW" THEN asked ELSE Intervened(asked, decision)
           entry == Entry(seen, TRUE, success, latency)
<1>0. m = IF decision = "REFUSE" THEN [seen EXCEPT !.final_state = "refused"]
          ELSE [Called(seen, success, latency) EXCEPT
                  !.history = Recorded(r.history, Tool, success),
                  !.step_log = Append(@, Entry(seen, TRUE, success, latency))]
  BY DEF RnosStep
<1>1. /\ LoopFields \subseteq DOMAIN m
      /\ Over(m) <=> decision = "REFUSE"
      /\ ~Over(m) => m.step_log = Append(r.step_log, entry)
  <2>2. /\ DOMAIN seen = DOMAIN r /\ seen.step_log = r.step_log
        /\ seen.final_state = r.final_state
    BY DEF Intervened, LoopFields
  <2> HIDE DEF decision, seen, m
  <2>3. CASE decision = "REFUSE"
    BY <1>0, <2>2, <2>3 DEF Over, LoopFields
  <2>4. CASE decision # "REFUSE"
    <3> HIDE DEF entry
    <3>1. DOMAIN m = DOMAIN r /\ m.final_state = r.final_state
      BY <1>0, <2>2, <2>4 DEF Called, LoopFields
    <3>2. m.step_log = Append(r.step_log, entry)
      BY <1>0, <2>2, <2>4 DEF Called, LoopFields, entry
    <3>3. QED BY <2>4, <3>1, <3>2 DEF Over
  <2>5. QED BY <2>3, <2>4
<1> HIDE DEF m
<1>2. \/ n = m
      \/ n = RnosStep3(api, r, success, latency)
      \/ n = RnosStep5(r, success, latency)
  BY DEF StepOf, OneModeStep, RnosStep4, m
<1>3. entry.success = success
  BY DEF Entry
<1> HIDE DEF seen, entry, decision
<1>4. /\ Over(n) <=> Over(m)
      /\ ~Over(m) => n.step_log = m.step_log
  <2>1. CASE n = m
    BY <2>1
  <2>2. CASE n = RnosStep5(r, success, latency)
    <3>1. \/ n = m /\ ~Over(m)
          \/ Over(m) /\ n = [m EXCEPT !.step_log = Append(@, Entry(m, FALSE, FALSE, 0))]
      BY <2>2 DEF RnosStep5, m
    <3>2. Over(m) => n.final_state = m.final_state
      BY <1>1, <3>1 DEF LoopFields
    <3>3. QED BY <3>1, <3>2 DEF Over
  <2>3. CASE n = RnosStep3(api, r, success, latency)
    <3>1. \/ n = m /\ Over(m)
          \/ /\ ~Over(m)
             /\ \E a, b : n = [m EXCEPT !.cumulative_successes_after_burst1 = a,
                                        !.post_burst_stability = b]
      BY <2>3 DEF RnosStep3, m
    <3>2. ~Over(m) => n.final_state = m.final_state /\ n.step_log = m.step_log
      BY <1>1, <3>1 DEF LoopFields
    <3>3. QED BY <3>1, <3>2 DEF Over
  <2>4. QED BY <1>2, <2>1, <2>2, <2>3
<1>5. QED BY <1>1, <1>3, <1>4 DEF decision

\* Another entry is logged.
LEMMA LoggedStep ==
  ASSUME NEW r, NEW o \in Seq(BOOLEAN), Logged(r, o), NEW success \in BOOLEAN,
         NEW entry, entry.success = success, NEW n, n.step_log = Append(r.step_log, entry)
  PROVE  Logged(n, Append(o, success))
<1> DEFINE p == Append(o, success)
           log == r.step_log
           more == n.step_log
           len == Len(o)
           size == Len(p)
<1>1. size = len + 1 /\ len \in Nat /\ p[size] = success /\ \A i \in 1..len : p[i] = o[i]
  BY ONLY o \in Seq(BOOLEAN), success \in BOOLEAN, Prolonged
<1>2. PICK S : log \in Seq(S)
  BY DEF Logged
<1>3. Len(log) = len /\ \A i \in 1..len : log[i].success = o[i]
  BY DEF Logged
<1> DEFINE T == S \cup {entry}
<1>4. log \in Seq(T) /\ entry \in T
  BY <1>2
<1> HIDE DEF T, log
<1>5. /\ Append(log, entry) \in Seq(T) /\ Len(Append(log, entry)) = Len(log) + 1
      /\ \A i \in 1..Len(log) : Append(log, entry)[i] = log[i]
      /\ Append(log, entry)[Len(log) + 1] = entry
  BY ONLY <1>4, AppendProperties
<1>6. more = Append(log, entry)
  BY DEF log
<1> HIDE DEF more, len, size, p
<1>7. /\ more \in Seq(T) /\ Len(more) = size /\ \A i \in 1..len : more[i] = log[i]
      /\ more[size] = entry
  BY <1>1, <1>3, <1>5, <1>6
<1>8. ASSUME NEW i \in 1..size
      PROVE  more[i].success = p[i]
  <2>1. i \in 1..len \/ i = size
    BY ONLY <1>1, i \in 1..size
  <2>2. CASE i \in 1..len
    <3>1. more[i] = log[i] /\ log[i].success = o[i] /\ p[i] = o[i]
      BY <1>1, <1>3, <1>7, <2>2
    <3>2. QED BY ONLY <3>1
  <2>3. CASE i = size
    <3>1. entry.success = success
      OBVIOUS
    <3>2. QED BY ONLY <1>1, <1>7, <2>3, <3>1
  <2>4. QED BY <2>1, <2>2, <2>3
<1>9. QED BY <1>7, <1>8 DEF Logged, more, size, p

\* Uncontrolled, a run goes on.
LEMMA BaselineGoesOn ==
  ASSUME NEW b, LoopFields \subseteq DOMAIN b, ~Over(b), NEW e, NEW api, NEW success,
         NEW latency, NEW n, n = StepOf(e, "baseline", api, b, success, latency)
  PROVE  /\ LoopFields \subseteq DOMAIN n /\ ~Over(n)
         /\ n.steps_executed = b.steps_executed + 1
         /\ n.retry_count = IF success THEN 0 ELSE b.retry_count + 1
<1>1. n = BaselineStep(b, success, latency)
  BY DEF StepOf, OneModeStep
<1> DEFINE next == [b EXCEPT !.step = @ + 1]
<1>2. n = [Called(next, success, latency) EXCEPT
             !.step_log = Append(@, Entry(next, TRUE, success, latency))]
  BY <1>1 DEF BaselineStep
<1>3. /\ DOMAIN next = DOMAIN b /\ next.final_state = b.final_state
      /\ next.steps_executed = b.steps_executed /\ next.retry_count = b.retry_count
  BY DEF LoopFields
<1> HIDE DEF next
<1>4. /\ DOMAIN n = DOMAIN b /\ n.final_state = b.final_state
      /\ n.steps_executed = b.steps_executed + 1
      /\ n.retry_count = IF success THEN 0 ELSE b.retry_count + 1
  <2> DEFINE called == Called(next, success, latency)
  <2>1. /\ DOMAIN called = DOMAIN b /\ called.final_state = b.final_state
        /\ called.steps_executed = b.steps_executed + 1
        /\ called.retry_count = IF success THEN 0 ELSE b.retry_count + 1
    BY <1>3 DEF Called, LoopFields
  <2> DEFINE entry == Entry(next, TRUE, success, latency)
  <2>2. n = [called EXCEPT !.step_log = Append(@, entry)]
    BY <1>2
  <2> HIDE DEF called, entry
  <2>3. QED BY ONLY <2>1, <2>2
<1>5. QED BY <1>4 DEF Over

\* Half a second is enough for what has a script, except late in a runaway cascade.
LEMMA KnownIsSwift ==
  ASSUME NEW api, Known(api), \A latency \in FreeLatency : latency <= 500,
         NEW k \in Nat \ {0}, api = RunawayCascade => k <= 5
  PROVE  LatencyOf(api, k) <= 500
<1> DEFINE n == Len(api.latency)
           i == IF k <= n THEN k ELSE n
<1>1. LatencyOf(api, k) = api.latency[i]
  BY DEF LatencyOf, Extended
<1>2. CASE Swift(api)
  <2>1. api.latency \in Seq(0..500) /\ n >= 1 /\ n \in Nat
    BY <1>2, LenProperties DEF Swift
  <2> HIDE DEF n
  <2>2. i \in 1..n
    BY <2>1
  <2>3. api.latency[i] \in 0..500
    BY <2>1, <2>2, ElementOfSeq DEF n
  <2>4. QED BY <1>1, <2>3
<1>3. CASE api = RunawayCascade
  <2> DEFINE first == <<80, 80, 400, 450>>
             rest == [j \in 1..16 |-> 500 + 30 * (j - 1)]
  <2>1. api.latency = first \o rest
    BY <1>3 DEF RunawayCascade, Scripted
  <2>2. k \in 1..5
    BY <1>3
  <2>3. n = 20 /\ api.latency[k] <= 500
    BY <2>1, <2>2
  <2> HIDE DEF n
  <2>4. i = k
    BY <2>2, <2>3
  <2>5. QED BY <1>1, <2>3, <2>4
<1>4. CASE \E latency \in FreeLatency : api = Anything(latency)
  <2>1. PICK latency \in FreeLatency : api = Anything(latency)
    BY <1>4
  <2>2. api.latency = <<latency>>
    BY <2>1 DEF Anything, Scripted
  <2>3. n = 1
    BY <2>2
  <2> HIDE DEF n
  <2>4. i = 1
    BY <2>3
  <2>5. api.latency[i] = latency
    BY <2>2, <2>4
  <2>6. QED BY <1>1, <2>5
<1>5. QED BY <1>2, <1>3, <1>4 DEF Known

\* A runaway cascade succeeds twice and fails twice.
LEMMA RunawaySchedule ==
  LET schedule == RunawayCascade.schedule
  IN  Len(schedule) = 4 /\ ~schedule[3] /\ ~schedule[4]
<1> DEFINE runs2 == <<2, 2>>
           mark(i) == i % 2 = 1
           parts == [i \in DOMAIN runs2 |-> Times(runs2[i], mark(i))]
           Joined(f) == [i \in 1..Len(parts) |-> IF i = 1 THEN parts[i] ELSE f[i - 1] \o parts[i]]
           joined == CHOOSE f : f = Joined(f)
           up == Times(2, TRUE)
           down == Times(2, FALSE)
           witness == [i \in 1..2 |-> IF i = 1 THEN up ELSE up \o down]
<1>1. RunawayCascade.schedule = FlattenSeq(parts)
  BY DEF RunawayCascade, Scripted, Alternating
<1>2. Len(parts) = 2 /\ parts[1] = up /\ parts[2] = down
  <2>1. DOMAIN runs2 = 1..2 /\ runs2[1] = 2 /\ runs2[2] = 2
    OBVIOUS
  <2>2. mark(1) = TRUE /\ mark(2) = FALSE
    OBVIOUS
  <2> HIDE DEF runs2, mark
  <2>3. parts = [i \in 1..2 |-> Times(runs2[i], mark(i))]
    BY <2>1
  <2>4. Len(parts) = 2
    <3> DEFINE part(i) == Times(runs2[i], mark(i))
    <3> HIDE DEF part
    <3>1. parts = [i \in 1..2 |-> part(i)]
      BY <2>3 DEF part
    <3> HIDE DEF parts
    <3>2. QED BY ONLY <3>1
  <2>5. 1 \in 1..2 /\ 2 \in 1..2
    OBVIOUS
  <2>6. parts[1] = Times(runs2[1], mark(1)) /\ parts[2] = Times(runs2[2], mark(2))
    BY <2>3, <2>5
  <2>7. QED BY <2>1, <2>2, <2>4, <2>6
<1>3. /\ up \in Seq(BOOLEAN) /\ Len(up) = 2
      /\ down \in Seq(BOOLEAN) /\ Len(down) = 2 /\ down[1] = FALSE /\ down[2] = FALSE
  <2> DEFINE two == 2
  <2>1. two \in Nat /\ TRUE \in BOOLEAN /\ FALSE \in BOOLEAN
    OBVIOUS
  <2> HIDE DEF two
  <2>2. /\ Times(two, TRUE) \in Seq(BOOLEAN) /\ Len(Times(two, TRUE)) = two
        /\ Times(two, FALSE) \in Seq(BOOLEAN) /\ Len(Times(two, FALSE)) = two
    BY ONLY <2>1, TimesIsSeq
  <2>3. down[1] = FALSE /\ down[2] = FALSE
    BY DEF Times
  <2>4. QED BY <2>2, <2>3 DEF two
<1> HIDE DEF parts, up, down
<1>4. FlattenSeq(parts) = joined[2]
  BY <1>2 DEF FlattenSeq
<1>5. witness = Joined(witness)
  BY <1>2
<1>6. joined = Joined(joined)
  BY <1>5, Zenon
<1> HIDE DEF joined
<1>7. joined[1] = up /\ joined[2] = joined[1] \o down
  BY <1>2, <1>6
<1>8. RunawayCascade.schedule = up \o down
  BY <1>1, <1>4, <1>7
<1> DEFINE whole == up \o down
<1>9. Len(whole) = Len(up) + Len(down)
      /\ \A i \in 1..(Len(up) + Len(down)) :
           whole[i] = IF i <= Len(up) THEN up[i] ELSE down[i - Len(up)]
  BY ONLY <1>3, ConcatProperties
<1> HIDE DEF whole
<1>10. Len(whole) = 4 /\ whole[3] = FALSE /\ whole[4] = FALSE
  <2>1. \A i \in 1..4 : whole[i] = IF i <= 2 THEN up[i] ELSE down[i - 2]
    BY ONLY <1>3, <1>9
  <2>2. 3 \in 1..4 /\ 4 \in 1..4 /\ 3 - 2 = 1 /\ 4 - 2 = 2
    OBVIOUS
  <2>3. QED BY <1>3, <1>9, <2>1, <2>2
<1>11. QED BY <1>8, <1>10 DEF whole

\* After two failures in a row the next one is certain.
LEMMA CertainFailure ==
  ASSUME NEW c \in Nat, c >= 2
  PROVE  CompoundedProb(50, 18, c) = 100
<1> DEFINE More(p) == IF (p * 18) \div 10 >= 100 THEN 100 ELSE (p * 18) \div 10
           Raised(f) == [n \in 0..c |-> IF n = 0 THEN 50 ELSE More(f[n - 1])]
           raised == CHOOSE f : f = Raised(f)
           witness == [n \in 0..c |-> IF n = 0 THEN 50 ELSE IF n = 1 THEN 90 ELSE 100]
<1>1. CompoundedProb(50, 18, c) = raised[c]
  BY DEF CompoundedProb
<1>2. witness = Raised(witness)
  <2>1. More(50) = 90 /\ More(90) = 100 /\ More(100) = 100
    OBVIOUS
  <2> HIDE DEF More
  <2>2. ASSUME NEW n \in 0..c
        PROVE  witness[n] = IF n = 0 THEN 50 ELSE More(witness[n - 1])
    BY <2>1
  <2>3. witness = [n \in 0..c |-> IF n = 0 THEN 50 ELSE More(witness[n - 1])]
    BY <2>2
  <2>4. QED BY <2>3
<1>3. raised = Raised(raised)
  BY <1>2, Zenon
<1>4. More(50) = 90 /\ More(90) = 100 /\ More(100) = 100
  OBVIOUS
<1> HIDE DEF raised, witness, More
<1>5. raised[0] = 50 /\ \A n \in 1..c : raised[n] = More(raised[n - 1])
  <2>1. ASSUME NEW n \in 0..c
        PROVE  raised[n] = IF n = 0 THEN 50 ELSE More(raised[n - 1])
    BY <1>3
  <2>2. QED BY <2>1
<1>6. raised[2] = 100
  <2>1. 1 \in 1..c /\ 2 \in 1..c /\ 1 - 1 = 0 /\ 2 - 1 = 1
    OBVIOUS
  <2>2. QED BY <1>4, <1>5, <2>1
<1> DEFINE T == {n \in 2..c : raised[n] # 100}
           R == OpToRel(<, Nat)
<1>7. ASSUME T # {} PROVE FALSE
  <2>1. T \subseteq Nat
    OBVIOUS
  <2>2. PICK x \in T : \A y \in T : ~(<<y, x>> \in R)
    <3>1. IsWellFoundedOn(R, Nat)
      BY NatLessThanWellFounded
    <3> HIDE DEF T, R
    <3>2. QED BY <1>7, <2>1, <3>1, WFMin
  <2>3. x \in 2..c /\ raised[x] # 100
    OBVIOUS
  <2>4. x # 2
    BY <1>6, <2>3
  <2>5. x - 1 \in 2..c /\ x \in 1..c /\ x - 1 \in Nat /\ x \in Nat /\ x - 1 < x
    BY ONLY <2>3, <2>4, c \in Nat
  <2>6. raised[x - 1] = 100
    <3>1. <<x - 1, x>> \in R
      BY <2>5 DEF OpToRel
    <3>2. x - 1 \notin T
      BY <2>2, <3>1
    <3>3. QED BY <2>5, <3>2
  <2>7. raised[x] = 100
    BY <1>4, <1>5, <2>5, <2>6
  <2>8. QED BY <2>3, <2>7
<1>8. c \in 2..c
  OBVIOUS
<1>9. QED BY <1>1, <1>7, <1>8

\* From the third call on a runaway cascade fails: by its script, and after two failures
\* in a row always.
LEMMA RunawayFails ==
  ASSUME NEW k \in Nat, k >= 3, NEW c \in Nat, k >= 5 => c >= 2,
         NEW success \in OutcomesOf(RunawayCascade, k, c)
  PROVE  success = FALSE
<1> DEFINE api == RunawayCascade
           schedule == api.schedule
           prob == CompoundedProb(Extended(api.fail_probs, k - Len(schedule)), api.compound, c)
<1>1. Len(schedule) = 4 /\ ~schedule[3] /\ ~schedule[4]
  BY RunawaySchedule
<1>2. OutcomesOf(api, k, c) =
        IF k <= Len(schedule) THEN {schedule[k]}
        ELSE IF prob = 0 THEN {TRUE} ELSE IF prob >= 100 THEN {FALSE} ELSE BOOLEAN
  BY DEF OutcomesOf
<1>3. CASE k <= 4
  <2>1. k = 3 \/ k = 4
    BY <1>3
  <2>2. success = schedule[k]
    BY <1>1, <1>2, <1>3
  <2>3. QED BY <1>1, <2>1, <2>2
<1>4. CASE ~(k <= 4)
  <2>1. k >= 5 /\ c >= 2
    BY <1>4
  <2>2. api.fail_probs = <<50>> /\ api.compound = 18
    BY DEF RunawayCascade, Scripted
  <2>3. Extended(api.fail_probs, k - Len(schedule)) = 50
    <3> DEFINE j == k - Len(schedule)
               l == IF j <= 1 THEN j ELSE 1
    <3>1. j \in Nat /\ j >= 1
      BY <1>1, <2>1
    <3>2. l = 1
      BY <3>1
    <3>3. Extended(<<50>>, j) = <<50>>[l]
      BY DEF Extended
    <3>4. QED BY <2>2, <3>2, <3>3
  <2>4. prob = 100
    BY <2>1, <2>2, <2>3, CertainFailure
  <2> HIDE DEF prob, schedule
  <2>5. QED BY <1>1, <1>2, <1>4, <2>4
<1>5. QED BY <1>3, <1>4

\* The thresholds the experiments run with, or no policy on trust, and latencies of at
\* most half a second where there is no script.
PlainPolicy ==
  /\ RefuseEntropy = 10000 /\ DegradeEntropy >= 7500
  /\ RefuseTrust < 0 /\ DegradeTrust < 0
  /\ \A latency \in FreeLatency : latency <= 500

\* A run that was told everything and is not shaken by noise.
CalmRun(r, api, o) ==
  /\ Told(r, o) /\ Logged(r, o) /\ NoFiveBefore(o)
  /\ Settled(r.history.ewma, r.retry_count, o)
  /\ r.prev_latency <= 500 \/ r.retry_count >= 3
  /\ api = RunawayCascade /\ Len(o) >= 2 => r.retry_count >= Len(o) - 2

\* A policy that looks at the entropy alone.
LEMMA PolicyOfEntropy ==
  ASSUME PlainPolicy, NEW h, IsCalls(h), NEW entropy \in Nat
  PROVE  /\ entropy < 10000 => Policy(entropy, Trust(h, entropy)) # "REFUSE"
         /\ entropy < 7500 => Policy(entropy, Trust(h, entropy)) = "ALLOW"
<1> DEFINE trust == Trust(h, entropy)
<1>1. trust \in Nat
  BY TrustOfCalls
<1> HIDE DEF trust
<1>2. ~(trust <= RefuseTrust) /\ ~(trust <= DegradeTrust)
  BY <1>1, PolicyAssumption DEF PlainPolicy
<1>3. RefuseEntropy = 10000 /\ DegradeEntropy \in Int /\ DegradeEntropy >= 7500
  BY PolicyAssumption DEF PlainPolicy
<1>4. entropy < 10000 => ~(entropy >= RefuseEntropy)
  BY <1>3
<1>5. entropy < 7500 => ~(entropy >= RefuseEntropy) /\ ~(entropy >= DegradeEntropy)
  BY <1>3
<1>6. QED BY <1>2, <1>4, <1>5 DEF Policy, trust

\* Without three failures in a row it is not refused.
LEMMA NoiseIsNotRefused ==
  ASSUME PlainPolicy, NEW r, Attentive(r), NEW api, NEW o \in Seq(BOOLEAN), CalmRun(r, api, o),
         ~ThreeInARow(o)
  PROVE  RnosNext(r) # "REFUSE"
<1> DEFINE h == r.history
           entropy == Entropy(h, ActionOf(r))
<1>1. Told(r, o) /\ r.retry_count <= 2 /\ h.ewma <= MostRemembered(r.retry_count) * Permille
  BY DEF CalmRun, Settled
<1>2. r.prev_latency <= 500
  <2>1. r.prev_latency <= 500 \/ r.retry_count >= 3
    BY DEF CalmRun
  <2>2. r.retry_count \in Nat
    BY DEF Attentive, Streak
  <2>3. QED BY <1>1, <2>1, <2>2
<1>3. NatUpTo(entropy, 9993)
  BY <1>1, <1>2, QuietEntropy
<1> HIDE DEF entropy
<1>4. entropy \in Nat /\ entropy < 10000
  BY <1>3 DEF NatUpTo
<1>5. IsCalls(h)
  BY DEF Attentive
<1>6. Policy(entropy, Trust(h, entropy)) # "REFUSE"
  BY <1>4, <1>5, PolicyOfEntropy
<1>7. QED BY <1>6 DEF RnosNext, Evaluate, entropy

\* After two successes in a row it is allowed.
LEMMA RecoveryIsAllowed ==
  ASSUME PlainPolicy, NEW r, Attentive(r), NEW api, NEW o \in Seq(BOOLEAN), CalmRun(r, api, o),
         Len(o) >= 2, o[Len(o)], o[Len(o) - 1]
  PROVE  RnosNext(r) = "ALLOW"
<1> DEFINE h == r.history
           entropy == Entropy(h, ActionOf(r))
           k == 1
<1>1. Told(r, o) /\ NoFiveBefore(o) /\ h.ewma <= 810 * Permille
  BY DEF CalmRun, Settled
<1>2. ~EndsInFailures(o, k)
  <2>1. Len(o) \in 1..Len(o) /\ Len(o) > Len(o) - k
    BY LenProperties
  <2>2. QED BY <2>1 DEF EndsInFailures
<1>3. r.prev_latency <= 500
  <2>1. r.prev_latency <= 500 \/ r.retry_count >= 3
    BY DEF CalmRun
  <2>2. ~(r.retry_count >= k)
    <3>1. k \in 0..5
      OBVIOUS
    <3> HIDE DEF k
    <3>2. QED BY <1>1, <1>2, <3>1, StreakIsTold
  <2>3. r.retry_count \in Nat
    BY DEF Attentive, Streak
  <2>4. QED BY <2>1, <2>2, <2>3
<1>4. NatUpTo(entropy, 7495)
  BY <1>1, <1>3, RecoveredEntropy
<1> HIDE DEF entropy
<1>5. entropy \in Nat /\ entropy < 7500
  BY <1>4 DEF NatUpTo
<1>6. IsCalls(h)
  BY DEF Attentive
<1>7. Policy(entropy, Trust(h, entropy)) = "ALLOW"
  BY <1>5, <1>6, PolicyOfEntropy
<1>8. QED BY <1>7 DEF RnosNext, Evaluate, entropy

\* Another call leaves a run calm, or ends it after three failures in a row.
LEMMA CalmRunStep ==
  ASSUME PlainPolicy, NEW r, Attentive(r), ~Over(r), NEW api, Known(api),
         NEW o \in Seq(BOOLEAN), CalmRun(r, api, o), NEW success \in BOOLEAN,
         success \in OutcomesOf(api, Len(o) + 1, r.retry_count),
         NEW latency \in Nat, latency = LatencyOf(api, Len(o) + 1),
         NEW e, NEW n, n = StepOf(e, "rnos", api, r, success, latency)
  PROVE  /\ Over(n) => ThreeInARow(Append(o, success))
         /\ ~Over(n) => CalmRun(n, api, Append(o, success))
                        /\ n.retry_count = IF success THEN 0 ELSE r.retry_count + 1
<1> DEFINE p == Append(o, success)
           len == Len(o)
           streak == r.retry_count
           k == len + 1
<1>1. LoopFields \subseteq DOMAIN r /\ streak \in Nat /\ IsCalls(r.history) /\ r.history.ewma \in Nat
  BY DEF Attentive, Streak, IsCalls
<1>2. /\ Told(r, o) /\ Logged(r, o) /\ NoFiveBefore(o) /\ Settled(r.history.ewma, streak, o)
      /\ r.prev_latency <= 500 \/ streak >= 3
      /\ api = RunawayCascade /\ len >= 2 => streak >= len - 2
  BY DEF CalmRun
<1>3. p \in Seq(BOOLEAN) /\ len \in Nat /\ Len(p) = k /\ (ThreeInARow(o) => ThreeInARow(p))
  BY ONLY o \in Seq(BOOLEAN), success \in BOOLEAN, Prolonged
<1>4. Evaluate(r.history, ActionOf(r)) = RnosNext(r)
  BY DEF RnosNext
<1>5. Over(n) => ThreeInARow(p)
  <2>1. Over(n) => RnosNext(r) = "REFUSE"
    BY <1>1, <1>4, RnosLogs
  <2>2. RnosNext(r) = "REFUSE" => ThreeInARow(o)
    BY NoiseIsNotRefused
  <2>3. QED BY <1>3, <2>1, <2>2
<1>6. ASSUME ~Over(n)
      PROVE  CalmRun(n, api, p) /\ n.retry_count = IF success THEN 0 ELSE streak + 1
  <2>1. LoopFields \subseteq DOMAIN n /\ Continued(n, r, success, latency) /\ RnosNext(r) # "REFUSE"
    BY <1>1, <1>4, <1>6, RnosAttends
  <2>2. PICK entry : entry.success = success /\ n.step_log = Append(r.step_log, entry)
    BY <1>1, <1>6, RnosLogs
  <2>3. ~(streak >= 5)
    <3>1. ASSUME streak >= 5 PROVE RnosNext(r) = "REFUSE"
      <4> DEFINE five == 5
                 entropy == Entropy(r.history, ActionOf(r))
      <4>1. five \in 4..5 /\ five = 5 /\ streak >= five
        BY <3>1
      <4> HIDE DEF five
      <4>2. entropy \in Nat /\ entropy >= IF five = 5 THEN 10000 ELSE 9100
        BY <4>1, StreakEntropy
      <4> HIDE DEF entropy
      <4>3. entropy >= RefuseEntropy
        BY <4>1, <4>2 DEF PlainPolicy
      <4>4. RnosNext(r) = Policy(entropy, Trust(r.history, entropy))
        BY DEF RnosNext, Evaluate, entropy
      <4>5. QED BY <4>3, <4>4 DEF Policy
    <3>2. QED BY <2>1, <3>1
  <2>4. Attentive(n)
    BY <2>1, AttentiveStep
  <2>5. Told(n, p)
    BY <1>2, <2>1, ToldStep
  <2>6. Logged(n, p)
    BY <1>2, <2>2, LoggedStep
  <2>7. NoFiveBefore(p)
    BY <1>2, <2>3, NoFiveStep
  <2> DEFINE next == n.retry_count
  <2>8. next = (IF success THEN 0 ELSE streak + 1) /\ next \in Nat
    BY <1>1, <2>1 DEF Continued
  <2>9. ThreeInARow(p) \/ next <= 2
    <3>1. next >= 3 => ThreeInARow(p)
      BY <1>3, <2>4, <2>5, StreakOfThree
    <3> HIDE DEF next
    <3>2. QED BY <2>8, <3>1
  <2>10. n.history.ewma = Smoothed(r.history.ewma, success)
    <3>1. n.history = Recorded(r.history, Tool, success)
      BY <2>1 DEF Continued
    <3>2. QED BY <1>1, <3>1, CallRecorded
  <2>11. Settled(n.history.ewma, next, p)
    <3>1. Settled(Smoothed(r.history.ewma, success), next, p)
      <4> HIDE DEF next, streak
      <4>1. QED BY <1>1, <1>2, <2>8, <2>9, SettledStep
    <3>2. QED BY <2>10, <3>1
  <2>12. ASSUME api = RunawayCascade, k >= 3
         PROVE  ~success
    <3>1. k \in Nat /\ (k >= 5 => streak >= 2)
      <4> HIDE DEF len, streak
      <4>1. QED BY ONLY <1>1, <1>2, <1>3, <2>12
    <3>2. success \in OutcomesOf(RunawayCascade, k, streak)
      BY <2>12
    <3> HIDE DEF k, streak
    <3>3. success = FALSE
      BY ONLY <1>1, <2>12, <3>1, <3>2, RunawayFails
    <3>4. QED BY <3>3
  <2>13. n.prev_latency <= 500 \/ next >= 3
    <3>1. n.prev_latency = latency
      BY <2>1 DEF Continued
    <3>2. CASE api = RunawayCascade => k <= 5
      <4>1. k \in Nat \ {0} /\ latency = LatencyOf(api, k)
        BY <1>3
      <4>2. \A l \in FreeLatency : l <= 500
        BY DEF PlainPolicy
      <4> HIDE DEF k
      <4>3. latency <= 500
        BY <3>2, <4>1, <4>2, KnownIsSwift
      <4>4. QED BY <3>1, <4>3
    <3>3. CASE ~(api = RunawayCascade => k <= 5)
      <4>1. api = RunawayCascade /\ k >= 6
        BY <1>3, <3>3
      <4>2. ~success
        BY <2>12, <4>1
      <4> HIDE DEF next, len, streak
      <4>3. next >= 3
        BY <1>1, <1>2, <1>3, <2>8, <4>1, <4>2
      <4>4. QED BY <4>3
    <3>4. QED BY <3>2, <3>3
  <2>14. api = RunawayCascade /\ Len(p) >= 2 => next >= Len(p) - 2
    <3>1. ASSUME api = RunawayCascade, Len(p) >= 2
          PROVE  next >= Len(p) - 2
      <4> DEFINE size == Len(p)
      <4>1. size = k /\ size >= 2 /\ len \in Nat /\ streak \in Nat /\ (len >= 2 => streak >= len - 2)
        BY <1>1, <1>2, <1>3, <3>1
      <4> HIDE DEF size, next, streak, len
      <4>2. ASSUME len >= 2 PROVE next >= size - 2
        <5>1. ~success
          <6>1. k >= 3
            BY ONLY <4>1, <4>2
          <6>2. QED BY <2>12, <3>1, <6>1
        <5>2. QED BY ONLY <2>8, <4>1, <4>2, <5>1
      <4>3. ASSUME ~(len >= 2) PROVE next >= size - 2
        BY ONLY <2>8, <4>1, <4>3
      <4>4. next >= size - 2
        BY <4>2, <4>3
      <4>5. QED BY <4>4 DEF size
    <3>2. QED BY <3>1
  <2>15. CalmRun(n, api, p)
    BY <2>5, <2>6, <2>7, <2>11, <2>13, <2>14 DEF CalmRun
  <2>16. QED BY <2>8, <2>15
<1>7. QED BY <1>5, <1>6

\* The inductive invariant: RNOS ends a run only after three failures in a row and is calm
\* until then, and the uncontrolled run, whose streak the scenario looks at, is the same.
Calm ==
  LET rnos     == runs["rnos"]
      baseline == runs["baseline"]
  IN  /\ LoopFields \subseteq DOMAIN baseline /\ ~Over(baseline)
      /\ baseline.steps_executed = Len(outcomes)
      /\ Over(rnos) => ThreeInARow(outcomes)
      /\ ~Over(rnos) => CalmRun(rnos, Api, outcomes) /\ baseline.retry_count = rnos.retry_count

\* Fresh runs are calm.
LEMMA FreshCalm ==
  ASSUME outcomes = << >>, runs = Fresh(experiment)
  PROVE  Calm
<1> DEFINE r == runs["rnos"]
           b == runs["baseline"]
<1>1. /\ LoopFields \subseteq DOMAIN b /\ ~Over(b) /\ b.steps_executed = 0 /\ b.retry_count = 0
      /\ ~Over(r) /\ r.history = NewHistory /\ r.steps_executed = 0 /\ r.prev_latency = 0
      /\ r.retry_count = 0 /\ r.step_log = << >>
  BY FreshFields DEF Over
<1> HIDE DEF r, b
<1>2. Len(outcomes) = 0
  BY EmptySeq
<1>3. NewHistory.recent = << >> /\ NewHistory.ewma = 0
  BY DEF NewHistory
<1>4. Told(r, outcomes)
  <2>1. Len(r.history.recent) = 0
    BY <1>1, <1>3, EmptySeq
  <2>2. QED BY <1>1, <1>2, <2>1 DEF Told, Lesser
<1>5. Logged(r, outcomes)
  <2>1. r.step_log \in Seq({}) /\ Len(r.step_log) = 0
    BY <1>1, EmptySeq
  <2>2. QED BY <1>2, <2>1 DEF Logged
<1>6. NoFiveBefore(outcomes)
  BY <1>2 DEF NoFiveBefore
<1>7. Settled(r.history.ewma, r.retry_count, outcomes)
  <2>1. Permille \in Nat
    BY DEF Permille, OneEwma
  <2>2. r.history.ewma = 0 /\ MostRemembered(0) = 640
    BY <1>1, <1>3 DEF MostRemembered
  <2>3. 0 <= 1000 * Permille /\ 0 <= 640 * Permille
    BY <2>1
  <2>4. QED BY <1>1, <1>2, <2>2, <2>3 DEF Settled
<1>8. CalmRun(r, Api, outcomes)
  BY <1>1, <1>2, <1>4, <1>5, <1>6, <1>7 DEF CalmRun
<1>9. QED BY <1>1, <1>2, <1>8 DEF Calm, r, b

\* An iteration leaves them calm.
LEMMA CalmStep ==
  ASSUME PlainPolicy, Heard, Calm, NEW success \in BOOLEAN, Iterate(success)
  PROVE  Calm'
<1> DEFINE r == runs["rnos"]
           b == runs["baseline"]
           len == Len(outcomes)
           k == len + 1
           latency == LatencyOf(Api, k)
           next(s) == StepOf(experiment, s, Api, runs[s], outcomes'[CallOf(runs[s])],
                             LatencyOf(Api, CallOf(runs[s])))
<1>1. /\ scenarios' = scenarios /\ scenarios # << >> /\ outcomes' = Append(outcomes, success)
      /\ success \in OutcomesOf(Api, k, b.retry_count)
  BY DEF Iterate
<1>2. \A s \in DOMAIN runs : runs'[s] = IF Over(runs[s]) THEN runs[s] ELSE next(s)
  <2>1. runs' = [s \in DOMAIN runs |-> IF Over(runs[s]) THEN runs[s] ELSE next(s)]
    BY ONLY Iterate(success) DEF Iterate
  <2> HIDE DEF next
  <2>2. QED BY ONLY <2>1
<1>3. "rnos" \in DOMAIN runs /\ "baseline" \in DOMAIN runs
  BY DEF Heard, Strategies
<1>4. outcomes \in Seq(BOOLEAN) /\ Known(Api)
  <2>1. outcomes \in Seq(BOOLEAN) /\ Scheduled(scenarios)
    BY DEF Heard
  <2>2. PICK S : scenarios \in Seq(S) /\ \A api \in S : Known(api)
    BY <2>1 DEF Scheduled
  <2>3. scenarios[1] \in S
    BY <1>1, <2>2, HeadTailProperties
  <2>4. QED BY <2>1, <2>2, <2>3 DEF Api
<1>5. /\ len \in Nat /\ Len(outcomes') = k /\ outcomes'[k] = success
      /\ ThreeInARow(outcomes) => ThreeInARow(outcomes')
  <2>1. LET p == Append(outcomes, success)
        IN  /\ len \in Nat /\ Len(p) = len + 1 /\ p[Len(p)] = success
            /\ ThreeInARow(outcomes) => ThreeInARow(p)
    BY ONLY <1>4, success \in BOOLEAN, Prolonged
  <2>2. QED BY <1>1, <2>1
<1>6. Api' = Api
  BY <1>1 DEF Api
<1>7. /\ LoopFields \subseteq DOMAIN b /\ ~Over(b) /\ b.steps_executed = len
      /\ Over(r) => ThreeInARow(outcomes)
      /\ ~Over(r) => CalmRun(r, Api, outcomes) /\ b.retry_count = r.retry_count
  BY DEF Calm
<1>8. latency \in Nat
  <2>1. k \in Nat \ {0} /\ Timed(Api)
    BY <1>4, <1>5 DEF Known
  <2> HIDE DEF k
  <2>2. QED BY <2>1, LatencyIsNat
<1>9. /\ LoopFields \subseteq DOMAIN runs'["baseline"] /\ ~Over(runs'["baseline"])
      /\ runs'["baseline"].steps_executed = Len(outcomes')
      /\ runs'["baseline"].retry_count = IF success THEN 0 ELSE b.retry_count + 1
  <2> DEFINE n == next("baseline")
  <2>1. runs'["baseline"] = n
    BY ONLY <1>2, <1>3, <1>7
  <2>2. CallOf(b) = k
    BY <1>7 DEF CallOf
  <2>3. n = StepOf(experiment, "baseline", Api, b, success, latency)
    BY <1>5, <2>2
  <2> HIDE DEF n, b, latency
  <2>4. /\ LoopFields \subseteq DOMAIN n /\ ~Over(n)
        /\ n.steps_executed = b.steps_executed + 1
        /\ n.retry_count = IF success THEN 0 ELSE b.retry_count + 1
    BY <1>7, <2>3, BaselineGoesOn
  <2>5. QED BY <1>5, <1>7, <2>1, <2>4
<1>10. CASE Over(r)
  <2>1. runs'["rnos"] = r /\ ThreeInARow(outcomes')
    BY <1>2, <1>3, <1>5, <1>7, <1>10
  <2>2. Over(runs'["rnos"])
    BY <1>10, <2>1
  <2>3. QED BY <1>9, <2>1, <2>2 DEF Calm, Over
<1>11. CASE ~Over(r)
  <2> DEFINE n == next("rnos")
  <2>1. runs'["rnos"] = n
    BY ONLY <1>2, <1>3, <1>11
  <2>2. Attentive(r)
    BY <1>11 DEF Heard
  <2>3. CalmRun(r, Api, outcomes) /\ b.retry_count = r.retry_count
    BY <1>7, <1>11
  <2>4. CallOf(r) = k
    BY <2>3 DEF CallOf, CalmRun, Told
  <2>5. n = StepOf(experiment, "rnos", Api, r, success, latency)
    BY <1>5, <2>4
  <2>6. success \in OutcomesOf(Api, len + 1, r.retry_count) /\ latency = LatencyOf(Api, len + 1)
    BY <1>1, <2>3
  <2> HIDE DEF n, r, b, latency
  <2>7. /\ Over(n) => ThreeInARow(Append(outcomes, success))
        /\ ~Over(n) => CalmRun(n, Api, Append(outcomes, success))
                       /\ n.retry_count = IF success THEN 0 ELSE r.retry_count + 1
    BY <1>4, <1>8, <1>11, <2>2, <2>3, <2>5, <2>6, CalmRunStep
  <2>8. /\ Over(n) => ThreeInARow(outcomes')
        /\ ~Over(n) => CalmRun(n, Api', outcomes')
                       /\ runs'["baseline"].retry_count = n.retry_count
    BY <1>1, <1>6, <1>9, <2>3, <2>7
  <2>9. QED BY <1>9, <2>1, <2>8 DEF Calm, Over
<1>12. QED BY <1>10, <1>11

\* Three in a row are a streak of more than two.
LEMMA StreakIsLong ==
  ASSUME NEW o \in Seq(BOOLEAN), ThreeInARow(o)
  PROVE  LongestStreak(o) > 2
<1> DEFINE marks == [i \in DOMAIN o |-> ~o[i]]
           len == Len(o)
           lengths == {n \in 0..Len(marks) :
                         \E i \in 0..(Len(marks) - n) : \A j \in 1..n : marks[i + j]}
           T == {len - n : n \in lengths}
           R == OpToRel(<, Nat)
           longest == CHOOSE n \in lengths : \A m \in lengths : m <= n
<1>1. len \in Nat /\ DOMAIN o = 1..len
  BY LenProperties
<1>2. Len(marks) = len /\ \A i \in 1..len : marks[i] <=> ~o[i]
  <2>1. marks = [i \in 1..len |-> ~o[i]]
    BY <1>1
  <2> HIDE DEF len
  <2>2. Len(marks) = len
    BY <1>1, <2>1
  <2>3. QED BY <2>1, <2>2
<1>3. LongestStreak(o) = longest
  BY DEF LongestStreak, LongestRun
<1> HIDE DEF marks, len
<1>4. 3 \in lengths
  <2>1. PICK i \in 1..(len - 2) : ~o[i] /\ ~o[i + 1] /\ ~o[i + 2]
    BY DEF ThreeInARow, len
  <2>2. 3 \in 0..len /\ i - 1 \in 0..(len - 3)
        /\ \A j \in 1..3 : (i - 1) + j \in 1..len /\ (i - 1) + j \in {i, i + 1, i + 2}
    BY ONLY <1>1, i \in 1..(len - 2)
  <2>3. \A j \in 1..3 : ~o[(i - 1) + j]
    BY <2>1, <2>2
  <2>4. \A j \in 1..3 : marks[(i - 1) + j]
    BY <1>2, <2>2, <2>3
  <2>5. QED BY <1>2, <2>2, <2>4
<1>5. lengths \subseteq 0..len
  BY <1>2
<1> HIDE DEF lengths
<1>6. T \subseteq Nat /\ T # {}
  BY <1>1, <1>4, <1>5
<1>7. PICK x \in T : \A y \in T : ~(<<y, x>> \in R)
  <2>1. IsWellFoundedOn(R, Nat)
    BY NatLessThanWellFounded
  <2> HIDE DEF T, R
  <2>2. QED BY <1>6, <2>1, WFMin
<1>8. PICK n \in lengths : x = len - n
  OBVIOUS
<1>9. \A m \in lengths : m <= n
  <2>1. SUFFICES ASSUME NEW m \in lengths, ~(m <= n) PROVE FALSE
    OBVIOUS
  <2>2. len - m \in T /\ len - m \in Nat /\ x \in Nat /\ len - m < x
    BY <1>1, <1>5, <1>8, <2>1
  <2>3. <<len - m, x>> \in R
    BY <2>2 DEF OpToRel
  <2>4. QED BY <1>7, <2>2, <2>3
<1> HIDE DEF T, R
<1>10. longest \in lengths /\ \A m \in lengths : m <= longest
  BY <1>9, Zenon
<1> HIDE DEF longest
<1>11. longest \in Nat /\ 3 <= longest
  BY <1>1, <1>4, <1>5, <1>10
<1>12. QED BY <1>3, <1>11

\* What the invariant says is what the property says.
LEMMA CalmImplies ==
  ASSUME PlainPolicy, Heard, Calm
  PROVE  NoiseIsForgiven
<1> DEFINE r == runs["rnos"]
           o == outcomes
           n == Len(r.step_log)
<1>1. o \in Seq(BOOLEAN)
  BY DEF Heard
<1>2. Over(r) => LongestStreak(o) > 2
  <2>1. Over(r) => ThreeInARow(o)
    BY DEF Calm
  <2>2. QED BY <1>1, <2>1, StreakIsLong
<1>3. ASSUME ~Over(r), n >= 2, r.step_log[n].success, r.step_log[n - 1].success
      PROVE  RnosNext(r) = "ALLOW"
  <2>1. Attentive(r) /\ CalmRun(r, Api, o)
    BY <1>3 DEF Heard, Calm
  <2>2. n = Len(o) /\ \A i \in 1..Len(o) : r.step_log[i].success = o[i]
    BY <2>1 DEF CalmRun, Logged
  <2>3. n \in Nat
    BY <1>1, <2>2, LenProperties
  <2> HIDE DEF n
  <2>4. n \in 1..n /\ n - 1 \in 1..n
    BY ONLY <1>3, <2>3
  <2>5. r.step_log[n].success = o[n] /\ r.step_log[n - 1].success = o[n - 1]
    BY <2>2, <2>4
  <2>6. o[n] /\ o[n - 1]
    BY ONLY <1>3, <2>5
  <2>7. Len(o) >= 2 /\ o[Len(o)] /\ o[Len(o) - 1]
    BY ONLY <1>3, <2>2, <2>6
  <2> HIDE DEF r, o
  <2>8. QED BY <1>1, <2>1, <2>7, RecoveryIsAllowed
<1>4. QED BY <1>2, <1>3 DEF NoiseIsForgiven

\* Nothing but a burst is taken for an outage, in whatever scenario with whatever draws,
\* and in whatever order an API without a script succeeds and fails.
THEOREM NoiseIsBorne ==
  ASSUME PlainPolicy
  PROVE  Spec => []NoiseIsForgiven
<1>1. Init => Calm
  BY FreshCalm DEF Init
<1>2. Heard /\ Calm /\ [Next]_vars => Calm'
  <2> SUFFICES ASSUME Heard, Calm, [Next]_vars PROVE Calm'
    OBVIOUS
  <2>1. CASE UNCHANGED vars
    BY <2>1 DEF Calm, vars, Api
  <2>2. CASE Finish
    <3>1. (outcomes = << >> /\ runs = Fresh(experiment))'
      BY <2>2 DEF Finish
    <3>2. (outcomes = << >> /\ runs = Fresh(experiment) => Calm)'
      BY FreshCalm, PTL
    <3>3. QED BY <3>1, <3>2
  <2>3. CASE \E success \in BOOLEAN : Iterate(success)
    BY <2>3, CalmStep
  <2>4. QED BY <2>1, <2>2, <2>3 DEF Next
<1>3. Heard /\ Calm => NoiseIsForgiven
  BY CalmImplies
<1>4. RefuseEntropy <= 10000
  BY DEF PlainPolicy
<1>5. Spec => []Heard
  BY <1>4, EverHeard
<1>6. QED BY <1>1, <1>2, <1>3, <1>5, PTL DEF Spec

-----------------------------------------------------------------------------
(* The detector's monitor.                                                 *)

MonitorFields == {"calibration", "baselines", "window", "calibrated", "reference"}

\* A class is not frozen, or is frozen as its corpus is.
FrozenAsIs(m) ==
  /\ DOMAIN m = MonitorFields
  /\ DOMAIN m.calibration = TaskClasses
  /\ DOMAIN m.baselines = TaskClasses
  /\ \A class \in TaskClasses :
       Monitor!Frozen(m, class) => m.baselines[class] = m.calibration[class]

\* What is frozen stays.
Kept(m, next) ==
  \A class \in TaskClasses : Monitor!Frozen(m, class) => next.baselines[class] = m.baselines[class]

\* Freezing a class again changes nothing.
LEMMA FreezeKeeps ==
  ASSUME NEW m, FrozenAsIs(m), NEW class \in TaskClasses
  PROVE  LET next == Monitor!FreezeActions(m, class)
         IN  FrozenAsIs(next) /\ Kept(m, next)
<1> DEFINE next == Monitor!FreezeActions(m, class)
           corpus == m.calibration[class]
<1>1. CASE next = m
  BY <1>1 DEF Kept
<1>2. CASE next = [m EXCEPT !.baselines[class] = corpus]
  <2>1. /\ DOMAIN next = MonitorFields /\ next.calibration = m.calibration
        /\ DOMAIN next.baselines = TaskClasses
        /\ \A c \in TaskClasses : next.baselines[c] = IF c = class THEN corpus ELSE m.baselines[c]
    BY <1>2 DEF FrozenAsIs, MonitorFields
  <2> HIDE DEF next
  <2>2. FrozenAsIs(next) /\ Kept(m, next)
    BY <2>1 DEF FrozenAsIs, Kept, Monitor!Frozen
  <2>3. QED BY <2>2 DEF next
<1>3. QED BY <1>1, <1>2 DEF Monitor!FreezeActions

\* No call of the monitor moves what is frozen.
LEMMA CallsKeep ==
  ASSUME NEW m, FrozenAsIs(m), NEW class \in TaskClasses, NEW next,
         \/ \E action : next = Monitor!RecordAction(m, action, class)
         \/ \E scores : next = Monitor!RecordCalibrationVector(m, scores)
         \/ next = Monitor!SetBaseline(m, class)
         \/ next = Monitor!FreezeActions(m, class)
  PROVE  FrozenAsIs(next) /\ Kept(m, next)
<1>1. CASE \E action : next = Monitor!RecordAction(m, action, class)
  <2>1. PICK action : next = Monitor!RecordAction(m, action, class)
    BY <1>1
  <2>2. /\ DOMAIN next = MonitorFields /\ next.baselines = m.baselines
        /\ DOMAIN next.calibration = TaskClasses
        /\ \A c \in TaskClasses : c # class => next.calibration[c] = m.calibration[c]
        /\ Monitor!Frozen(m, class) => next.calibration = m.calibration
    BY <2>1 DEF Monitor!RecordAction, FrozenAsIs, MonitorFields
  <2>3. QED BY <2>2 DEF FrozenAsIs, Kept, Monitor!Frozen
<1>2. CASE \E scores : next = Monitor!RecordCalibrationVector(m, scores)
  <2>1. /\ DOMAIN next = MonitorFields /\ next.baselines = m.baselines
        /\ next.calibration = m.calibration
    BY <1>2 DEF Monitor!RecordCalibrationVector, FrozenAsIs, MonitorFields
  <2>2. QED BY <2>1 DEF FrozenAsIs, Kept, Monitor!Frozen
<1>3. CASE next = Monitor!SetBaseline(m, class)
  <2> DEFINE averaged == [m EXCEPT !.reference = m.calibrated]
  <2>1. /\ DOMAIN averaged = MonitorFields /\ averaged.baselines = m.baselines
        /\ averaged.calibration = m.calibration
    BY DEF FrozenAsIs, MonitorFields
  <2>2. FrozenAsIs(averaged) /\ Kept(m, averaged) /\ Kept(averaged, m)
    BY <2>1 DEF FrozenAsIs, Kept, Monitor!Frozen
  <2>3. next = m \/ next = Monitor!FreezeActions(averaged, class)
    BY <1>3 DEF Monitor!SetBaseline
  <2> HIDE DEF averaged
  <2>4. next = m \/ (FrozenAsIs(next) /\ Kept(averaged, next))
    BY <2>2, <2>3, FreezeKeeps
  <2>5. QED BY <2>1, <2>4 DEF Kept, Monitor!Frozen
<1>4. CASE next = Monitor!FreezeActions(m, class)
  BY <1>4, FreezeKeeps
<1>5. QED BY <1>1, <1>2, <1>3, <1>4

\* The inductive invariant of the monitor.
MonitorInv == show = "cevak" => FrozenAsIs(run.monitor)

\* A prepared monitor has frozen nothing.
LEMMA PreparedInv == ShowInit => MonitorInv
<1> SUFFICES ASSUME ShowInit, show = "cevak" PROVE FrozenAsIs(run.monitor)
  BY DEF MonitorInv
<1>1. PICK m \in Prepared : run = [monitor |-> m, class |-> "search", ops |-> 0]
  BY DEF ShowInit, FreshShow, Adversaries, Audits, ScriptedShows, Accumulators
<1>2. /\ DOMAIN m = MonitorFields /\ DOMAIN m.calibration = TaskClasses
      /\ DOMAIN m.baselines = TaskClasses
      /\ \A class \in TaskClasses : m.baselines[class] = Monitor!NoActions
  BY DEF Prepared, Monitor!NewMonitor, MonitorFields, TaskClasses
<1>3. QED BY <1>1, <1>2 DEF FrozenAsIs, Monitor!Frozen

\* A step of the showcases is a call of the monitor, or none of its business.
LEMMA MonitorStep ==
  ASSUME MonitorInv, [ShowNext]_showVars, show = "cevak"
  PROVE  MonitorInv' /\ Kept(run.monitor, run'.monitor)
<1>1. FrozenAsIs(run.monitor)
  BY DEF MonitorInv
<1>2. CASE UNCHANGED showVars
  BY <1>1, <1>2 DEF showVars, MonitorInv, Kept
<1>3. CASE \E class \in TaskClasses : Calls(class)
  <2>1. PICK class \in TaskClasses : Calls(class)
    BY <1>3
  <2>2. PICK next : /\ run' = [monitor |-> next, class |-> class, ops |-> run.ops + 1]
                    /\ \/ \E action : next = Monitor!RecordAction(run.monitor, action, class)
                       \/ \E scores : next = Monitor!RecordCalibrationVector(run.monitor, scores)
                       \/ next = Monitor!SetBaseline(run.monitor, class)
                       \/ next = Monitor!FreezeActions(run.monitor, class)
    BY <2>1 DEF Calls, Call
  <2>3. run'.monitor = next
    BY <2>2
  <2>4. FrozenAsIs(next) /\ Kept(run.monitor, next)
    BY <1>1, <2>2, CallsKeep
  <2>5. QED BY <2>3, <2>4 DEF MonitorInv
<1>4. QED
  BY <1>2, <1>3 DEF ShowNext, Watch, Script, Listed, Storm, Adversary, Audited, Accumulate, Burst,
     Traced, Adversaries, Audits, ScriptedShows, Accumulators

\* Which showcase runs is chosen once, and its mode.
LEMMA ShowIsFixed ==
  ASSUME [ShowNext]_showVars
  PROVE  show' = show /\ mode' = mode
BY DEF ShowNext, showVars, Watch, Calls, Call, Script, Listed, Storm, Adversary, Audited, Accumulate,
   Burst, Traced

\* What the monitor compares a class's actions with is set once: a second set_baseline
\* and whatever else is called, in any order, leave it as the first one froze it.
THEOREM FrozenForGood == ShowSpec => ReferenceIsSetOnce
<1>1. ShowInit => MonitorInv
  BY PreparedInv
<1>2. MonitorInv /\ [ShowNext]_showVars => MonitorInv'
  BY MonitorStep, ShowIsFixed DEF MonitorInv
<1>3. MonitorInv /\ [ShowNext]_showVars =>
        [show = "cevak" =>
           \A class \in TaskClasses :
             Monitor!Frozen(run.monitor, class) =>
               run'.monitor.baselines[class] = run.monitor.baselines[class]]_showVars
  BY MonitorStep DEF Kept
<1>4. QED BY <1>1, <1>2, <1>3, PTL DEF ShowSpec, ReferenceIsSetOnce
-----------------------------------------------------------------------------
(* The two adversary showcases: the breaker and its observer.              *)

ShowFields ==
  {"history", "latency", "calls", "retry_streak", "cb", "records", "observed", "observed_trip",
   "first_refusal_step", "actual_cb_trip_step", "decision", "executed"}

BreakerFields ==
  {"state", "window", "threshold", "total_blocked", "cooldown_remaining", "current_cooldown"}

BreakerModes == {"cb", "hybrid"}

\* The breaker's answer to a step of a run.
BreakerAsked(r) == Adversarial!Breaker!ShouldExecute(Adversarial!Breaker!Ticked(r.cb))

\* What a step of a mode with a breaker does to the breaker and to the observer: a blocked
\* step is the trip that is reported, and what is executed is heard by both.
Observed(r, n, success, k) ==
  LET asked == BreakerAsked(r)
  IN  /\ DOMAIN n = ShowFields
      /\ n.actual_cb_trip_step =
           IF r.actual_cb_trip_step = 0
                /\ Adversarial!Breaker!ReasonOf(asked) \in {"open_blocked", "permanently_open"}
           THEN k ELSE r.actual_cb_trip_step
      /\ \/ /\ n.cb = asked
            /\ n.observed = r.observed
            /\ n.observed_trip = r.observed_trip
         \/ /\ n.cb = Adversarial!Breaker!RecordResult(asked, success)
            /\ n.observed = LastOf(Append(r.observed, success), 5)
            /\ n.observed_trip = IF r.observed_trip = 0 /\ Adversarial!Tripping(n.observed)
                                 THEN k ELSE r.observed_trip

\* Both showcases do so.
LEMMA AdversarialObserves ==
  ASSUME NEW chosen \in BreakerModes, NEW r, DOMAIN r = ShowFields, NEW action, NEW success, NEW k
  PROVE  Observed(r, Adversarial!Ran(chosen, r, action, success, k), success, k)
<1> DEFINE answer == Adversarial!AnswerOf(chosen, r, action)
           asked == Adversarial!Asked(chosen, r, action, answer, k)
           settled == Adversarial!Settled(chosen, asked, action, success, k)
           n == Adversarial!Ran(chosen, r, action, success, k)
<1>1. answer.cb = BreakerAsked(r) /\ answer.reason = Adversarial!Breaker!ReasonOf(BreakerAsked(r))
  BY DEF BreakerModes, BreakerAsked, Adversarial!AnswerOf, Adversarial!BreakerAnswer,
     Adversarial!HybridAnswer, Adversarial!Answer
<1> HIDE DEF answer
<1>2. /\ DOMAIN asked = ShowFields
      /\ asked.cb = answer.cb /\ asked.observed = r.observed
      /\ asked.observed_trip = r.observed_trip
      /\ asked.actual_cb_trip_step =
           IF r.actual_cb_trip_step = 0 /\ answer.reason \in {"open_blocked", "permanently_open"}
           THEN k ELSE r.actual_cb_trip_step
  BY DEF Adversarial!Asked, Adversarial!Blocked, ShowFields
<1> HIDE DEF asked
<1>3. /\ DOMAIN settled = ShowFields
      /\ settled.actual_cb_trip_step = asked.actual_cb_trip_step
      /\ \/ /\ settled.cb = asked.cb
            /\ settled.observed = asked.observed
            /\ settled.observed_trip = asked.observed_trip
         \/ /\ settled.cb = Adversarial!Breaker!RecordResult(asked.cb, success)
            /\ settled.observed = Adversarial!LastOf(Append(asked.observed, success), 5)
            /\ settled.observed_trip =
                 IF asked.observed_trip = 0 /\ Adversarial!Tripping(settled.observed)
                 THEN k ELSE asked.observed_trip
  <2>1. CASE asked.executed > 0
    BY <1>2, <2>1 DEF Adversarial!Settled, Adversarial!Heard, ShowFields, BreakerModes
  <2>2. CASE ~(asked.executed > 0)
    BY <1>2, <2>2 DEF Adversarial!Settled, ShowFields
  <2>3. QED BY <2>1, <2>2
<1> HIDE DEF settled
<1>4. /\ DOMAIN n = ShowFields /\ n.cb = settled.cb /\ n.observed = settled.observed
      /\ n.observed_trip = settled.observed_trip
      /\ n.actual_cb_trip_step = settled.actual_cb_trip_step
  BY <1>3 DEF Adversarial!Ran, Adversarial!Counted, settled, asked, answer, ShowFields
<1> HIDE DEF n
<1>5. \A s : Adversarial!LastOf(s, 5) = LastOf(s, 5)
  BY DEF Adversarial!LastOf, LastOf, Adversarial!Greater, Greater
<1>6. Observed(r, n, success, k)
  BY <1>1, <1>2, <1>3, <1>4, <1>5 DEF Observed
<1>7. QED BY <1>6 DEF n

\* The breakers count as everyone does.
LEMMA Counting ==
  ASSUME NEW S
  PROVE  /\ Adversarial!Breaker!Cardinality(S) = Cardinality(S)
         /\ Smoldering!Breaker!Cardinality(S) = Cardinality(S)
<1>1. Adversarial!Breaker!Cardinality(S) = Cardinality(S)
  BY DEF Adversarial!Breaker!Cardinality, Cardinality
<1>2. Smoldering!Breaker!Cardinality(S) = Cardinality(S)
  BY DEF Smoldering!Breaker!Cardinality, Cardinality
<1>3. QED BY <1>1, <1>2

\* They have the same breaker and the same observer.
LEMMA SameBreaker ==
  /\ \A b : /\ Smoldering!Breaker!ShouldExecute(Smoldering!Breaker!Ticked(b))
                 = Adversarial!Breaker!ShouldExecute(Adversarial!Breaker!Ticked(b))
            /\ Smoldering!Breaker!ReasonOf(b) = Adversarial!Breaker!ReasonOf(b)
            /\ \A success : Smoldering!Breaker!RecordResult(b, success)
                              = Adversarial!Breaker!RecordResult(b, success)
  /\ \A window : Smoldering!Tripping(window) = Adversarial!Tripping(window)
<1>1. ASSUME NEW b
      PROVE  Smoldering!Breaker!Ticked(b) = Adversarial!Breaker!Ticked(b)
  BY DEF Smoldering!Breaker!Ticked, Adversarial!Breaker!Ticked,
     Smoldering!Breaker!CooledDown, Adversarial!Breaker!CooledDown
<1>2. ASSUME NEW b
      PROVE  Smoldering!Breaker!Refused(b) = Adversarial!Breaker!Refused(b)
  BY DEF Smoldering!Breaker!Refused, Adversarial!Breaker!Refused,
     Smoldering!Breaker!BudgetSpent, Adversarial!Breaker!BudgetSpent
<1>3. ASSUME NEW b
      PROVE  Smoldering!Breaker!Tripped(b) = Adversarial!Breaker!Tripped(b)
  BY DEF Smoldering!Breaker!Tripped, Adversarial!Breaker!Tripped,
     Smoldering!Breaker!Tightened, Adversarial!Breaker!Tightened
<1>4. ASSUME NEW window
      PROVE  /\ \A threshold : Smoldering!Breaker!Failing(window, threshold)
                                 <=> Adversarial!Breaker!Failing(window, threshold)
             /\ Smoldering!Tripping(window) = Adversarial!Tripping(window)
  <2>1. Smoldering!Breaker!Failures(window) = Adversarial!Breaker!Failures(window)
    BY Counting DEF Smoldering!Breaker!Failures, Adversarial!Breaker!Failures
  <2>2. \A threshold : Smoldering!Breaker!Failing(window, threshold)
                         <=> Adversarial!Breaker!Failing(window, threshold)
    BY <2>1 DEF Smoldering!Breaker!Failing, Adversarial!Breaker!Failing
  <2>3. Smoldering!Tripping(window) = Adversarial!Tripping(window)
    BY <2>1, Zenon DEF Smoldering!Tripping, Adversarial!Tripping
  <2>4. QED BY <2>2, <2>3
<1>5. ASSUME NEW b
      PROVE  Smoldering!Breaker!ShouldExecute(b) = Adversarial!Breaker!ShouldExecute(b)
  BY <1>2, <1>3, <1>4 DEF Smoldering!Breaker!ShouldExecute, Adversarial!Breaker!ShouldExecute
<1>6. ASSUME NEW b, NEW success
      PROVE  Smoldering!Breaker!RecordResult(b, success) = Adversarial!Breaker!RecordResult(b, success)
  BY DEF Smoldering!Breaker!RecordResult, Adversarial!Breaker!RecordResult,
     Smoldering!Breaker!Listening, Adversarial!Breaker!Listening,
     Smoldering!Breaker!Recovered, Adversarial!Breaker!Recovered,
     Smoldering!Breaker!Loosened, Adversarial!Breaker!Loosened,
     Smoldering!Breaker!Reopened, Adversarial!Breaker!Reopened,
     Smoldering!Breaker!BackedOff, Adversarial!Breaker!BackedOff,
     Smoldering!Breaker!Pushed, Adversarial!Breaker!Pushed
<1>7. ASSUME NEW b
      PROVE  Smoldering!Breaker!ReasonOf(b) = Adversarial!Breaker!ReasonOf(b)
  BY DEF Smoldering!Breaker!ReasonOf, Adversarial!Breaker!ReasonOf
<1>8. QED BY <1>1, <1>4, <1>5, <1>6, <1>7

\* The second showcase's run, as the first one's.
LEMMA SmolderingObserves ==
  ASSUME NEW chosen \in BreakerModes, NEW r, DOMAIN r = ShowFields, NEW action, NEW success, NEW k
  PROVE  Observed(r, Smoldering!Ran(chosen, r, action, success, k), success, k)
<1> DEFINE answer == Smoldering!AnswerOf(chosen, r, action)
           asked == Smoldering!Asked(chosen, r, action, answer, k)
           settled == Smoldering!Settled(chosen, asked, action, success, k)
           n == Smoldering!Ran(chosen, r, action, success, k)
<1>1. answer.cb = BreakerAsked(r) /\ answer.reason = Adversarial!Breaker!ReasonOf(BreakerAsked(r))
  BY SameBreaker DEF BreakerModes, BreakerAsked, Smoldering!AnswerOf, Smoldering!BreakerAnswer,
     Smoldering!HybridAnswer, Smoldering!Answer
<1> HIDE DEF answer
<1>2. /\ DOMAIN asked = ShowFields
      /\ asked.cb = answer.cb /\ asked.observed = r.observed
      /\ asked.observed_trip = r.observed_trip
      /\ asked.actual_cb_trip_step =
           IF r.actual_cb_trip_step = 0 /\ answer.reason \in {"open_blocked", "permanently_open"}
           THEN k ELSE r.actual_cb_trip_step
  BY DEF Smoldering!Asked, Smoldering!Blocked, ShowFields
<1> HIDE DEF asked
<1>3. /\ DOMAIN settled = ShowFields
      /\ settled.actual_cb_trip_step = asked.actual_cb_trip_step
      /\ \/ /\ settled.cb = asked.cb
            /\ settled.observed = asked.observed
            /\ settled.observed_trip = asked.observed_trip
         \/ /\ settled.cb = Smoldering!Breaker!RecordResult(asked.cb, success)
            /\ settled.observed = Smoldering!LastOf(Append(asked.observed, success), 5)
            /\ settled.observed_trip =
                 IF asked.observed_trip = 0 /\ Smoldering!Tripping(settled.observed)
                 THEN k ELSE asked.observed_trip
  <2>1. CASE asked.executed > 0
    BY <1>2, <2>1 DEF Smoldering!Settled, Smoldering!Heard, ShowFields, BreakerModes
  <2>2. CASE ~(asked.executed > 0)
    BY <1>2, <2>2 DEF Smoldering!Settled, ShowFields
  <2>3. QED BY <2>1, <2>2
<1> HIDE DEF settled
<1>4. /\ DOMAIN n = ShowFields /\ n.cb = settled.cb /\ n.observed = settled.observed
      /\ n.observed_trip = settled.observed_trip
      /\ n.actual_cb_trip_step = settled.actual_cb_trip_step
  BY <1>3 DEF Smoldering!Ran, Smoldering!Counted, settled, asked, answer, ShowFields
<1> HIDE DEF n
<1>5. \A s : Smoldering!LastOf(s, 5) = LastOf(s, 5)
  BY DEF Smoldering!LastOf, LastOf, Smoldering!Greater, Greater
<1>6. Observed(r, n, success, k)
  BY <1>1, <1>2, <1>3, <1>4, <1>5, SameBreaker DEF Observed
<1>7. QED BY <1>6 DEF n

\* A run after so many steps: until a blocked step is reported the breaker is closed on
\* the observer's window, and the observer's trip, if any, is at the latest step.
Reported(r, k) ==
  /\ DOMAIN r = ShowFields
  /\ r.observed \in Seq(BOOLEAN) /\ Len(r.observed) <= 5
  /\ r.observed_trip \in 0..k
  /\ IF r.actual_cb_trip_step = 0
     THEN /\ DOMAIN r.cb = BreakerFields
          /\ r.cb.state = "closed" /\ r.cb.threshold = 60 /\ r.cb.window = r.observed
          /\ IF Adversarial!Tripping(r.observed) THEN k > 0 /\ r.observed_trip = k
             ELSE r.observed_trip = 0
     ELSE r.observed_trip # 0 /\ r.actual_cb_trip_step = r.observed_trip + 1

\* A full window the observer takes for a trip is one the breaker trips on.
LEMMA SameTrip ==
  ASSUME NEW w \in Seq(BOOLEAN), Len(w) <= 5
  PROVE  Adversarial!Tripping(w) <=> Adversarial!Breaker!Failing(w, 60)
<1> DEFINE failures == Adversarial!Breaker!Failures(w)
           m == Len(w)
<1>1. failures \in Nat /\ m \in Nat
  <2>1. DOMAIN w = 1..Len(w) /\ Len(w) \in Nat
    BY LenProperties
  <2>2. IsFiniteSet(1..Len(w)) /\ {i \in DOMAIN w : ~w[i]} \subseteq 1..Len(w)
    BY <2>1, FS_Interval
  <2>3. IsFiniteSet({i \in DOMAIN w : ~w[i]})
    BY <2>2, FS_Subset
  <2>4. QED BY <2>1, <2>3, FS_CardinalityType, Counting DEF Adversarial!Breaker!Failures
<1>2. Adversarial!Tripping(w) <=> m = 5 /\ failures > 3
  BY DEF Adversarial!Tripping
<1>3. Adversarial!Breaker!Failing(w, 60) <=> m >= 5 /\ failures * 100 > 60 * 5
  BY DEF Adversarial!Breaker!Failing
<1>4. m <= 5
  OBVIOUS
<1> HIDE DEF failures, m
<1>5. QED BY <1>1, <1>2, <1>3, <1>4

\* The observer's window slides as the breaker's does.
LEMMA SameWindow ==
  ASSUME NEW w \in Seq(BOOLEAN), Len(w) <= 5, NEW success \in BOOLEAN
  PROVE  LET slid == LastOf(Append(w, success), 5)
         IN  /\ slid \in Seq(BOOLEAN) /\ Len(slid) <= 5
             /\ Adversarial!Breaker!Pushed(w, success) = slid
             /\ Adversarial!Tripping(slid) <=> Adversarial!Breaker!Failing(slid, 60)
<1> DEFINE all == Append(w, success)
           n == Len(w)
           first == Greater(1, Len(all) - 5 + 1)
           slid == SubSeq(all, first, Len(all))
           pushed == Adversarial!Breaker!Pushed(w, success)
<1>1. /\ n \in Nat /\ n <= 5 /\ all \in Seq(BOOLEAN) /\ Len(all) = n + 1
      /\ all[n + 1] = success /\ \A i \in 1..n : all[i] = w[i]
  BY AppendProperties, LenProperties
<1>2. LastOf(all, 5) = slid
  BY DEF LastOf
<1>3. first \in 1..Len(all) /\ first = IF n < 5 THEN 1 ELSE 2
  BY <1>1 DEF Greater
<1>4. /\ slid \in Seq(BOOLEAN) /\ Len(slid) = Len(all) - first + 1
      /\ \A i \in 1..Len(slid) : slid[i] = all[first + i - 1]
  BY <1>1, <1>3, SubSeqProperties
<1> HIDE DEF slid, first
<1>5. slid \in Seq(BOOLEAN) /\ Len(slid) <= 5 /\ pushed = slid
  <2>1. CASE n < 5
    <3>1. pushed = all
      BY <2>1 DEF Adversarial!Breaker!Pushed
    <3> HIDE DEF all, n, pushed
    <3>2. Len(slid) = Len(all) /\ \A i \in 1..Len(slid) : slid[i] = all[i]
      BY <1>1, <1>3, <1>4, <2>1
    <3>3. slid = all
      BY <1>1, <1>4, <3>2, SeqEqual
    <3>4. QED BY <1>1, <1>4, <2>1, <3>1, <3>3
  <2>2. CASE ~(n < 5)
    <3> DEFINE rest == Tail(w)
               appended == Append(rest, success)
    <3>1. pushed = appended
      BY <2>2 DEF Adversarial!Breaker!Pushed
    <3>2. w # << >>
      BY <1>1, <2>2
    <3>3. rest \in Seq(BOOLEAN) /\ Len(rest) = n - 1 /\ \A i \in 1..Len(rest) : rest[i] = w[i + 1]
      BY <3>2, HeadTailProperties
    <3> HIDE DEF rest
    <3>4. /\ appended \in Seq(BOOLEAN) /\ Len(appended) = Len(rest) + 1
          /\ \A i \in 1..Len(rest) : appended[i] = rest[i]
          /\ appended[Len(rest) + 1] = success
      BY <3>3, AppendProperties
    <3> HIDE DEF all, n, appended, pushed
    <3>5. n = 5 /\ Len(slid) = Len(appended) /\ Len(slid) <= 5
      BY <1>1, <1>3, <1>4, <2>2, <3>3, <3>4
    <3>6. ASSUME NEW i \in 1..Len(slid)
          PROVE  slid[i] = appended[i]
      <4>1. slid[i] = all[i + 1]
        BY <1>3, <1>4, <2>2
      <4>2. CASE i <= n - 1
        BY <1>1, <1>4, <3>3, <3>4, <4>1, <4>2
      <4>3. CASE ~(i <= n - 1)
        <5>1. i = n
          BY <1>1, <1>3, <1>4, <3>5, <4>3
        <5>2. QED BY <1>1, <3>3, <3>4, <4>1, <5>1
      <4>4. QED BY <4>2, <4>3
    <3>7. slid = appended
      BY <1>4, <3>4, <3>5, <3>6, SeqEqual
    <3>8. QED BY <1>4, <3>1, <3>5, <3>7
  <2>3. QED BY <2>1, <2>2
<1>6. Adversarial!Tripping(slid) <=> Adversarial!Breaker!Failing(slid, 60)
  BY <1>5, SameTrip
<1>7. QED BY <1>2, <1>5, <1>6 DEF pushed

\* One step of a mode with a breaker.
LEMMA ReportedStep ==
  ASSUME NEW r, NEW n, NEW k \in Nat, NEW success \in BOOLEAN,
         Reported(r, k), Observed(r, n, success, k + 1)
  PROVE  Reported(n, k + 1)
<1> DEFINE b == r.cb
           asked == BreakerAsked(r)
<1>1. n.observed \in Seq(BOOLEAN) /\ Len(n.observed) <= 5 /\ n.observed_trip \in 0..k + 1
  <2>1. r.observed \in Seq(BOOLEAN) /\ Len(r.observed) <= 5 /\ r.observed_trip \in 0..k
    BY DEF Reported
  <2>2. /\ LastOf(Append(r.observed, success), 5) \in Seq(BOOLEAN)
        /\ Len(LastOf(Append(r.observed, success), 5)) <= 5
    BY <2>1, SameWindow
  <2>3. /\ n.observed = r.observed \/ n.observed = LastOf(Append(r.observed, success), 5)
        /\ n.observed_trip = r.observed_trip \/ n.observed_trip = k + 1
    BY DEF Observed
  <2>4. QED BY <2>1, <2>2, <2>3
<1>2. CASE r.actual_cb_trip_step # 0
  <2>1. r.observed_trip # 0 /\ r.actual_cb_trip_step = r.observed_trip + 1
    BY <1>2 DEF Reported
  <2>2. n.actual_cb_trip_step = r.actual_cb_trip_step /\ n.observed_trip = r.observed_trip
    BY <1>2, <2>1 DEF Observed
  <2>3. QED BY <1>1, <1>2, <2>1, <2>2 DEF Reported, Observed
<1>3. CASE r.actual_cb_trip_step = 0
  <2>1. /\ DOMAIN b = BreakerFields
        /\ b.state = "closed" /\ b.threshold = 60 /\ b.window = r.observed
    BY <1>3 DEF Reported
  <2>2. Adversarial!Breaker!Ticked(b) = b
    BY <2>1 DEF Adversarial!Breaker!Ticked
  <2>3. Adversarial!Tripping(r.observed) <=> Adversarial!Breaker!Failing(b.window, b.threshold)
    BY <2>1, SameTrip DEF Reported
  <2>4. CASE Adversarial!Tripping(r.observed)
    <3>1. k > 0 /\ r.observed_trip = k
      BY <1>3, <2>4 DEF Reported
    <3>2. asked = Adversarial!Breaker!Refused(Adversarial!Breaker!Tripped(b))
      BY <2>1, <2>2, <2>3, <2>4 DEF BreakerAsked, Adversarial!Breaker!ShouldExecute
    <3>3. asked.state \in {"open", "permanently_open"}
      BY <2>1, <3>2 DEF Adversarial!Breaker!Refused, Adversarial!Breaker!Tripped, BreakerFields
    <3>4. Adversarial!Breaker!ReasonOf(asked) \in {"open_blocked", "permanently_open"}
      BY <3>3 DEF Adversarial!Breaker!ReasonOf
    <3>5. n.actual_cb_trip_step = k + 1 /\ n.observed_trip = r.observed_trip
      BY <1>3, <3>1, <3>4 DEF Observed
    <3>6. QED BY <1>1, <3>1, <3>5 DEF Reported, Observed
  <2>5. CASE ~Adversarial!Tripping(r.observed)
    <3>1. r.observed_trip = 0
      BY <1>3, <2>5 DEF Reported
    <3>2. asked = b
      BY <2>1, <2>2, <2>3, <2>5 DEF BreakerAsked, Adversarial!Breaker!ShouldExecute
    <3>3. Adversarial!Breaker!ReasonOf(asked) = "closed"
      BY <2>1, <3>2 DEF Adversarial!Breaker!ReasonOf
    <3>4. n.actual_cb_trip_step = 0
      BY <1>3, <3>3 DEF Observed
    <3>5. CASE n.cb = asked /\ n.observed = r.observed /\ n.observed_trip = r.observed_trip
      BY <1>1, <2>1, <2>5, <3>1, <3>2, <3>4, <3>5 DEF Reported, Observed
    <3>6. CASE /\ n.cb = Adversarial!Breaker!RecordResult(asked, success)
               /\ n.observed = LastOf(Append(r.observed, success), 5)
               /\ n.observed_trip = IF r.observed_trip = 0 /\ Adversarial!Tripping(n.observed)
                                    THEN k + 1 ELSE r.observed_trip
      <4>1. n.cb = [b EXCEPT !.window = Adversarial!Breaker!Pushed(b.window, success)]
        BY <2>1, <3>2, <3>6
        DEF Adversarial!Breaker!RecordResult, Adversarial!Breaker!Listening, BreakerFields
      <4>2. Adversarial!Breaker!Pushed(b.window, success) = n.observed
        BY <2>1, <3>6, SameWindow DEF Reported
      <4>3. /\ DOMAIN n.cb = BreakerFields
            /\ n.cb.state = "closed" /\ n.cb.threshold = 60 /\ n.cb.window = n.observed
        BY <2>1, <4>1, <4>2 DEF BreakerFields
      <4>4. IF Adversarial!Tripping(n.observed) THEN k + 1 > 0 /\ n.observed_trip = k + 1
            ELSE n.observed_trip = 0
        BY <3>1, <3>6
      <4>5. QED BY <1>1, <3>4, <4>3, <4>4 DEF Reported, Observed
    <3>7. QED BY <3>5, <3>6, <3>2 DEF Observed
  <2>6. QED BY <2>4, <2>5
<1>4. QED BY <1>2, <1>3

\* A new run.
LEMMA ReportedFirst == Reported(Adversarial!NewRun, 0)
<1> DEFINE r == Adversarial!NewRun
<1>1. /\ DOMAIN r = ShowFields /\ r.observed = << >> /\ r.observed_trip = 0
      /\ r.actual_cb_trip_step = 0 /\ r.cb = Adversarial!Breaker!NewBreaker
  BY DEF Adversarial!NewRun, ShowFields
<1>2. /\ DOMAIN r.cb = BreakerFields
      /\ r.cb.state = "closed" /\ r.cb.threshold = 60 /\ r.cb.window = << >>
  BY <1>1 DEF Adversarial!Breaker!NewBreaker, BreakerFields
<1> HIDE DEF r
<1>3. ~Adversarial!Tripping(<< >>)
  BY DEF Adversarial!Tripping
<1>4. << >> \in Seq(BOOLEAN) /\ Len(<< >>) <= 5
  OBVIOUS
<1>5. Reported(r, 0)
  BY <1>1, <1>2, <1>3, <1>4 DEF Reported
<1>6. QED BY <1>5 DEF r

\* An adversary's run of a mode with a breaker has its trip reported late.
ReportInv ==
  /\ step \in Nat
  /\ show \in Adversaries /\ mode \in BreakerModes => Reported(run, step)

\* Its steps keep it so; the other actions are not an adversary's.
LEMMA ReportStep ==
  ASSUME ReportInv, [ShowNext]_showVars
  PROVE  ReportInv'
<1>1. ASSUME NEW action, NEW success \in BOOLEAN, Adversary(action, success)
      PROVE  ReportInv'
  <2>1. /\ step' = step + 1 /\ show' = show /\ mode' = mode /\ show \in Adversaries
        /\ run' = Ran(action, success)
    BY <1>1 DEF Adversary
  <2>2. SUFFICES ASSUME mode \in BreakerModes
                 PROVE  Reported(run', step + 1)
    BY <2>1 DEF ReportInv
  <2>3. Reported(run, step) /\ step \in Nat /\ DOMAIN run = ShowFields
    BY <2>1, <2>2 DEF ReportInv, Reported
  <2>4. CASE show = "adversarial"
    <3>1. run' = Adversarial!Ran(mode, run, action, success, step + 1)
      BY <2>1, <2>4 DEF Ran, AdversarialRan
    <3>2. QED BY <2>2, <2>3, <3>1, AdversarialObserves, ReportedStep
  <2>5. CASE show # "adversarial"
    <3>1. run' = Smoldering!Ran(mode, run, action, success, step + 1)
      BY <2>1, <2>5 DEF Ran, SmolderingRan
    <3>2. QED BY <2>2, <2>3, <3>1, SmolderingObserves, ReportedStep
  <2>6. QED BY <2>4, <2>5
<1>2. CASE UNCHANGED showVars
  BY <1>2 DEF ReportInv, showVars
<1>3. CASE show \notin Adversaries
  <2>1. CASE ShowNext
    <3>1. show' = show
      BY <2>1, ShowIsFixed
    <3>2. step' \in Nat
      <4>1. step' = step \/ step' = step + 1
        BY <2>1 DEF ShowNext, Watch, Calls, Call, Script, Listed, Storm, Adversary, Audited,
           Accumulate, Burst, Traced
      <4>2. QED BY <4>1 DEF ReportInv
    <3>3. QED BY <1>3, <3>1, <3>2 DEF ReportInv
  <2>2. QED BY <1>2, <2>1
<1>4. CASE ShowNext /\ show \in Adversaries
  <2>1. \E action \in Actions, success \in BOOLEAN : Adversary(action, success)
    BY <1>4 DEF ShowNext, Watch, Calls, Call, Script, Listed, Storm, Audited,
       Accumulate, Burst, Traced, Adversaries, Audits, ScriptedShows, Accumulators
  <2>2. QED BY <1>1, <2>1
<1>5. QED BY <1>2, <1>3, <1>4

\* The trip a summary reports depends on the mode: with a breaker it is the step after the
\* one at which the window filled up with failures, in both showcases, for any budget of
\* turns and any set of targets (_run_mode, FailureDensityObserver).
THEOREM TripReportedLate == ShowSpec => []TripsAreReportedLate
<1>1. ASSUME ShowInit
      PROVE  ReportInv
  <2>1. step = 0 /\ step \in Nat
    BY <1>1 DEF ShowInit
  <2>2. ASSUME show \in Adversaries
        PROVE  Reported(run, step)
    <3>1. run \in FreshShow(show)
      BY <1>1 DEF ShowInit
    <3>2. run = Adversarial!NewRun
      BY <2>2, <3>1, SMTT(40) DEF FreshShow, Adversaries, Audits, ScriptedShows, Accumulators
    <3>3. QED BY <2>1, <3>2, ReportedFirst
  <2>3. QED BY <2>1, <2>2 DEF ReportInv
<1>2. ReportInv /\ [ShowNext]_showVars => ReportInv'
  BY ReportStep
<1>3. ReportInv => TripsAreReportedLate
  <2>1. SUFFICES ASSUME ReportInv, show \in Adversaries, mode \in {"cb", "hybrid"}
                 PROVE  /\ run.observed_trip # 0 /\ step > run.observed_trip =>
                             run.actual_cb_trip_step = run.observed_trip + 1
                        /\ run.actual_cb_trip_step # 0 => run.observed_trip # 0
    BY DEF TripsAreReportedLate
  <2>2. Reported(run, step) /\ step \in Nat
    BY <2>1 DEF ReportInv, BreakerModes
  <2>3. QED BY <2>2 DEF Reported
<1>4. QED BY <1>1, <1>2, <1>3, PTL DEF ShowSpec
-----------------------------------------------------------------------------
(* The second adversary showcase: its merged controller and the probes.    *)

\* Its merged controller keeps the records everyone keeps.
LEMMA SmolderingRecords ==
  ASSUME NEW records
  PROVE  /\ \A decision : Smoldering!Noted(records, decision) = Noted(records, decision)
         /\ \A success : Smoldering!Filled(records, success) = Filled(records, success)
         /\ Smoldering!CoherenceSeverity(Smoldering!Lambda(records)) = CoherenceSeverity(Lambda(records))
<1>1. \A s, k : Smoldering!LastOf(s, k) = LastOf(s, k)
  BY DEF Smoldering!LastOf, LastOf, Smoldering!Greater, Greater
<1>2. \A decision : Smoldering!Noted(records, decision) = Noted(records, decision)
  BY <1>1, Zenon DEF Smoldering!Noted, Noted, Smoldering!Pending, Pending,
     Smoldering!CoherenceWindow, CoherenceWindow
<1>3. \A success : Smoldering!Filled(records, success) = Filled(records, success)
  BY DEF Smoldering!Filled, Filled
<1>4. \A record : Smoldering!CopiesOf(record, records) = CopiesOf(record, records)
  <2>1. \A S : Smoldering!Cardinality(S) = Cardinality(S)
    BY DEF Smoldering!Cardinality, Cardinality
  <2>2. QED BY <2>1, Zenon DEF Smoldering!CopiesOf, CopiesOf
<1>5. \A record : Smoldering!StepLambda(record) = StepLambda(record)
  BY DEF Smoldering!StepLambda, StepLambda
<1>6. \A n, d : Smoldering!Rounded(n, d) = Rounded(n, d)
  BY DEF Smoldering!Rounded, Rounded
<1>7. Smoldering!Lambda(records) = Lambda(records)
  BY <1>4, <1>5, <1>6 DEF Smoldering!Lambda, Lambda
<1>8. \A lambda : Smoldering!CoherenceSeverity(lambda) = CoherenceSeverity(lambda)
  BY DEF Smoldering!CoherenceSeverity, CoherenceSeverity
<1>9. QED BY <1>2, <1>3, <1>7, <1>8

\* While the proxy is healthy, the merge refuses what RNOS refuses, and a breaker that is
\* not closed either makes it refuse or is what a degraded step is put down to.
LEMMA SmolderingMerge ==
  ASSUME NEW decision \in Decision, NEW entropy, NEW reason, NEW rate, NEW lambda,
         Smoldering!CoherenceSeverity(lambda) = 0
  PROVE  LET merged == Smoldering!Merge(decision, entropy, reason, rate, lambda)
         IN  /\ decision = "REFUSE" => merged.decision = "REFUSE"
             /\ reason \in {"open_blocked", "permanently_open", "half_open_probe"} =>
                  \/ merged.decision = "REFUSE"
                  \/ merged.decision = "DEGRADE" /\ merged.trigger = "cb"
<1> DEFINE breaker == Smoldering!BreakerSeverity(reason)
           lowered == Smoldering!LoweredSeverity(entropy, rate, 0)
           severity == Smoldering!SeverityOf(decision)
           rnos == Smoldering!Greater(severity, lowered)
           combo == Smoldering!Combo(rnos, breaker, 0, rate)
           worst == Smoldering!Greater(rnos, Smoldering!Greater(breaker, 0))
           merged == Smoldering!Merge(decision, entropy, reason, rate, lambda)
<1>1. breaker \in 0..2 /\ lowered \in 0..2 /\ severity \in 0..2
  BY DEF Smoldering!BreakerSeverity, Smoldering!LoweredSeverity, Smoldering!SeverityOf
<1>2. /\ decision = "REFUSE" => severity = 2
      /\ reason \in {"open_blocked", "permanently_open", "half_open_probe"} => breaker >= 1
  BY DEF Smoldering!SeverityOf, Smoldering!BreakerSeverity
<1>3. /\ merged.decision = IF combo \/ worst = 2 THEN "REFUSE"
                           ELSE IF worst = 1 THEN "DEGRADE" ELSE "ALLOW"
      /\ merged.trigger = Smoldering!Trigger(rnos, breaker, 0, combo)
  BY DEF Smoldering!Merge
<1> HIDE DEF merged
<1>4. combo <=> rnos >= 1 /\ breaker >= 1
  BY DEF Smoldering!Combo
<1> HIDE DEF breaker, lowered, severity, combo
<1>5. CASE decision = "REFUSE"
  <2>1. worst = 2
    BY <1>1, <1>2, <1>5 DEF Smoldering!Greater
  <2>2. QED BY <1>3, <2>1 DEF merged
<1>6. CASE decision # "REFUSE"
  <2>1. SUFFICES ASSUME reason \in {"open_blocked", "permanently_open", "half_open_probe"},
                        merged.decision # "REFUSE"
                 PROVE  merged.decision = "DEGRADE" /\ merged.trigger = "cb"
    BY <1>6 DEF merged
  <2>2. ~combo /\ worst # 2
    BY <1>3, <2>1
  <2>3. breaker >= 1
    BY <1>2, <2>1
  <2>4. rnos \in 0..2
    BY <1>1 DEF Smoldering!Greater
  <2>5. rnos = 0
    BY <1>4, <2>2, <2>3, <2>4
  <2>6. breaker = 1 /\ worst = 1
    BY <1>1, <2>2, <2>3, <2>5 DEF Smoldering!Greater
  <2>7. Smoldering!Trigger(rnos, breaker, 0, combo) = "cb"
    BY <2>2, <2>5, <2>6 DEF Smoldering!Trigger
  <2>8. QED BY <1>3, <2>2, <2>6, <2>7
<1>7. QED BY <1>5, <1>6

BreakerStates == {"closed", "open", "half_open", "permanently_open"}

IsBreakerRecord(b) == DOMAIN b = BreakerFields /\ b.state \in BreakerStates

\* A breaker that is not closed blocks or probes.
LEMMA BreakerAnswers ==
  ASSUME NEW r, IsBreakerRecord(r.cb), NEW success
  PROVE  LET asked == BreakerAsked(r)
         IN  /\ IsBreakerRecord(asked)
             /\ IsBreakerRecord(Adversarial!Breaker!RecordResult(asked, success))
             /\ r.cb.state # "closed" =>
                  Adversarial!Breaker!ReasonOf(asked)
                    \in {"open_blocked", "permanently_open", "half_open_probe"}
<1> DEFINE b == r.cb
           ticked == Adversarial!Breaker!Ticked(b)
           asked == BreakerAsked(r)
<1>1. IsBreakerRecord(ticked) /\ (b.state # "closed" => ticked.state # "closed")
  BY DEF Adversarial!Breaker!Ticked, IsBreakerRecord, BreakerFields, BreakerStates
<1> HIDE DEF ticked
<1>2. ASSUME NEW c, IsBreakerRecord(c)
      PROVE  LET refused == Adversarial!Breaker!Refused(c)
             IN  IsBreakerRecord(refused) /\ refused.state \in {"open", "permanently_open"}
  BY <1>2 DEF Adversarial!Breaker!Refused, IsBreakerRecord, BreakerFields, BreakerStates
<1>3. IsBreakerRecord(Adversarial!Breaker!Tripped(ticked))
  BY <1>1 DEF Adversarial!Breaker!Tripped, IsBreakerRecord, BreakerFields
<1>4. asked = Adversarial!Breaker!ShouldExecute(ticked)
  BY DEF BreakerAsked, ticked
<1> HIDE DEF asked, b
<1>5. IsBreakerRecord(asked) /\ (b.state # "closed" => asked.state # "closed")
  BY <1>1, <1>2, <1>3, <1>4 DEF Adversarial!Breaker!ShouldExecute
<1>6. IsBreakerRecord(Adversarial!Breaker!RecordResult(asked, success))
  <2> DEFINE heard == [asked EXCEPT !.window = Adversarial!Breaker!Pushed(asked.window, success)]
  <2>1. IsBreakerRecord(heard)
    BY <1>5 DEF IsBreakerRecord, BreakerFields
  <2>2. Adversarial!Breaker!RecordResult(asked, success)
          \in {asked, heard, Adversarial!Breaker!Recovered(heard), Adversarial!Breaker!Reopened(heard)}
    BY DEF Adversarial!Breaker!RecordResult
  <2> HIDE DEF heard
  <2>3. /\ IsBreakerRecord(Adversarial!Breaker!Recovered(heard))
        /\ IsBreakerRecord(Adversarial!Breaker!Reopened(heard))
    BY <2>1 DEF Adversarial!Breaker!Recovered, Adversarial!Breaker!Reopened, IsBreakerRecord,
       BreakerFields, BreakerStates
  <2>4. QED BY <1>5, <2>1, <2>2, <2>3
<1>7. b.state # "closed" => Adversarial!Breaker!ReasonOf(asked)
                              \in {"open_blocked", "permanently_open", "half_open_probe"}
  BY <1>5 DEF Adversarial!Breaker!ReasonOf, IsBreakerRecord, BreakerStates
<1>8. QED BY <1>5, <1>6, <1>7 DEF asked, b

\* A run whose records are honest and whose breaker is one.
Steady(r) == DOMAIN r = ShowFields /\ IsBreakerRecord(r.cb) /\ Honest(r.records)

\* Nothing is kept of a step while the breaker is not closed, and the run stays steady.
LEMMA SmolderingSteady ==
  ASSUME NEW r, Steady(r), NEW action, action.calls \in Nat, NEW success, NEW k
  PROVE  LET n == Smoldering!Ran("hybrid", r, action, success, k)
         IN  Steady(n) /\ (r.cb.state # "closed" => n.executed = 0)
<1> DEFINE record == Smoldering!ActionRecord(r, action)
           rnos == Smoldering!Evaluate(r.history, record)
           cb == Smoldering!Breaker!ShouldExecute(Smoldering!Breaker!Ticked(r.cb))
           reason == Smoldering!Breaker!ReasonOf(cb)
           entropy == Smoldering!Entropy(r.history, record)
           rate == 200 * Smoldering!Breaker!Failures(cb.window)
           records == Smoldering!Noted(r.records, rnos)
           lambda == Smoldering!Lambda(records)
           merged == Smoldering!Merge(rnos, entropy, reason, rate, lambda)
           answer == Smoldering!AnswerOf("hybrid", r, action)
           asked == Smoldering!Asked("hybrid", r, action, answer, k)
           settled == Smoldering!Settled("hybrid", asked, action, success, k)
           n == Smoldering!Ran("hybrid", r, action, success, k)
<1>1. cb = BreakerAsked(r) /\ reason = Adversarial!Breaker!ReasonOf(cb)
  BY SameBreaker DEF BreakerAsked
<1>2. /\ IsBreakerRecord(cb)
      /\ IsBreakerRecord(Smoldering!Breaker!RecordResult(cb, success))
      /\ r.cb.state # "closed" => reason \in {"open_blocked", "permanently_open", "half_open_probe"}
  BY <1>1, BreakerAnswers, SameBreaker DEF Steady
<1>3. rnos \in Decision
  BY DEF Smoldering!Evaluate, Smoldering!Policy, Decision
<1>4. /\ answer.cb = cb /\ answer.reason = reason /\ answer.records = records
      /\ answer.decision = merged.decision
      /\ merged.decision # "ALLOW" => answer.trigger = merged.trigger
  BY DEF Smoldering!AnswerOf, Smoldering!HybridAnswer, Smoldering!Answer
<1> HIDE DEF rnos, cb, reason, entropy, rate, answer
<1>5. /\ Honest(records) /\ (rnos # "REFUSE" => Admitting(records))
  BY <1>3, SmolderingRecords, NotedFacts DEF Steady
<1>6. Smoldering!CoherenceSeverity(lambda) = 0
  BY <1>5, SmolderingRecords, ProxyIsHealthy
<1> HIDE DEF records, lambda
<1>7. /\ rnos = "REFUSE" => merged.decision = "REFUSE"
      /\ r.cb.state # "closed" => \/ merged.decision = "REFUSE"
                                  \/ merged.decision = "DEGRADE" /\ merged.trigger = "cb"
  BY <1>2, <1>3, <1>6, SmolderingMerge
<1> HIDE DEF merged
<1>8. /\ DOMAIN asked = ShowFields /\ asked.cb = cb /\ asked.records = records
      /\ asked.executed = Smoldering!ExecutedCalls("hybrid", action, answer)
  BY <1>4 DEF Smoldering!Asked, Smoldering!Blocked, Steady, ShowFields
<1> HIDE DEF asked
<1>9. ASSUME \/ answer.decision = "REFUSE"
             \/ answer.decision = "DEGRADE" /\ answer.trigger = "cb"
      PROVE  asked.executed = 0
  <2>1. SmolderingClamp("hybrid", answer.decision, answer.trigger, answer.reason) = 0
    BY <1>9 DEF SmolderingClamp
  <2>2. action.calls * 0 = 0
    OBVIOUS
  <2>3. asked.executed = Smoldering!Rounded(0, 100)
    BY <1>8, <2>1, <2>2 DEF Smoldering!ExecutedCalls
  <2>4. Smoldering!Rounded(0, 100) = 0
    BY DEF Smoldering!Rounded
  <2>5. QED BY <2>3, <2>4
<1>10. asked.executed > 0 => Honest(Filled(records, success))
  <2>1. asked.executed > 0 => rnos # "REFUSE"
    BY <1>4, <1>7, <1>9
  <2>2. QED BY <1>5, <2>1, FilledFacts
<1>11. /\ DOMAIN settled = ShowFields /\ settled.executed = asked.executed
       /\ \/ settled.cb = cb /\ settled.records = records
          \/ /\ asked.executed > 0
             /\ settled.cb = Smoldering!Breaker!RecordResult(cb, success)
             /\ settled.records = Filled(records, success)
  <2>1. CASE asked.executed > 0
    BY <1>8, <2>1, SmolderingRecords DEF Smoldering!Settled, Smoldering!Heard, ShowFields
  <2>2. CASE ~(asked.executed > 0)
    BY <1>8, <2>2 DEF Smoldering!Settled, ShowFields
  <2>3. QED BY <2>1, <2>2
<1> HIDE DEF settled
<1>12. /\ DOMAIN n = ShowFields /\ n.executed = settled.executed
       /\ n.cb = settled.cb /\ n.records = settled.records
  BY <1>11 DEF Smoldering!Ran, Smoldering!Counted, settled, asked, answer, ShowFields
<1>13. Steady(n)
  BY <1>2, <1>5, <1>10, <1>11, <1>12 DEF Steady
<1>14. r.cb.state # "closed" => n.executed = 0
  BY <1>4, <1>7, <1>9, <1>11, <1>12
<1>15. QED BY <1>13, <1>14

\* What the agent plans is one call or eight.
LEMMA SmolderingPlans ==
  ASSUME NEW action \in Actions, show = "smoldering"
  PROVE  action.calls \in Nat
<1>1. action = Cooldown \/ \E target : action = Attack(target, 8)
  BY DEF Actions, SmolderingActions
<1>2. Cooldown.calls = 1
  BY DEF Cooldown, Adversarial!Cooldown, Adversarial!Action
<1>3. \A target : Attack(target, 8).calls = 8
  BY DEF Attack, Adversarial!Action
<1>4. QED BY <1>1, <1>2, <1>3

\* The merged run of the second showcase is steady.
SteadyInv == show = "smoldering" /\ mode = "hybrid" => Steady(run)

\* Its steps keep it so, and execute nothing while the breaker is not closed.
LEMMA SteadyStep ==
  ASSUME SteadyInv, [ShowNext]_showVars
  PROVE  /\ SteadyInv'
         /\ show = "smoldering" /\ mode = "hybrid" /\ run.cb.state # "closed" =>
              run'.executed = 0 \/ UNCHANGED showVars
<1>1. CASE UNCHANGED showVars
  BY <1>1 DEF SteadyInv, showVars
<1>2. CASE ShowNext
  <2>1. show' = show /\ mode' = mode
    BY <1>2, ShowIsFixed
  <2>2. SUFFICES ASSUME show = "smoldering", mode = "hybrid"
                 PROVE  Steady(run') /\ (run.cb.state # "closed" => run'.executed = 0)
    BY <2>1 DEF SteadyInv
  <2>3. PICK action \in Actions, success \in BOOLEAN : Adversary(action, success)
    BY <1>2, <2>2 DEF ShowNext, Watch, Calls, Call, Script, Listed, Storm, Audited,
       Accumulate, Burst, Traced, Adversaries, Audits, ScriptedShows, Accumulators
  <2>4. run' = Smoldering!Ran("hybrid", run, action, success, step + 1)
    BY <2>2, <2>3 DEF Adversary, Ran, SmolderingRan
  <2>5. action.calls \in Nat /\ Steady(run)
    BY <2>2, SmolderingPlans DEF SteadyInv
  <2>6. QED BY <2>4, <2>5, SmolderingSteady
<1>3. QED BY <1>1, <1>2

\* Once the breaker of the merged controller has opened, the second showcase makes no call for
\* the rest of its run, whatever the agent plans: a half-open breaker degrades the step, the
\* clamp keeps nothing of a step degraded because of it, and so its probe is never heard.
THEOREM NothingAfterTheTrip == ShowSpec => ProbesAreNeverHeard
<1>1. ASSUME ShowInit
      PROVE  SteadyInv
  <2>1. SUFFICES ASSUME show = "smoldering"
                 PROVE  Steady(run)
    BY DEF SteadyInv
  <2>2. run \in FreshShow(show)
    BY <1>1 DEF ShowInit
  <2>3. run = Adversarial!NewRun
    BY <2>1, <2>2, SMTT(40) DEF FreshShow, Adversaries, Audits, ScriptedShows, Accumulators
  <2>4. DOMAIN run = ShowFields /\ run.records = << >> /\ run.cb = Adversarial!Breaker!NewBreaker
    BY <2>3 DEF Adversarial!NewRun, ShowFields
  <2>5. IsBreakerRecord(run.cb)
    BY <2>4 DEF Adversarial!Breaker!NewBreaker, IsBreakerRecord, BreakerFields, BreakerStates
  <2>6. Honest(<< >>)
    BY DEF Honest
  <2>7. QED BY <2>4, <2>5, <2>6 DEF Steady
<1>2. SteadyInv /\ [ShowNext]_showVars => SteadyInv'
  BY SteadyStep
<1>3. SteadyInv /\ [ShowNext]_showVars =>
        [show = "smoldering" /\ mode = "hybrid" /\ run.cb.state # "closed" =>
           run'.executed = 0]_showVars
  BY SteadyStep
<1>4. QED BY <1>1, <1>2, <1>3, PTL DEF ShowSpec, ProbesAreNeverHeard
-----------------------------------------------------------------------------
(* The audits: what a gate is given.                                       *)

Outcomes == [tool : Services, success : BOOLEAN]

\* A history of outcomes and its average.
IsHistory(h) == h.recent \in Seq(Outcomes) /\ h.ewma \in Nat

\* Outcomes are counted in natural numbers, those of a part of the history too.
LEMMA CountsAreNat ==
  ASSUME NEW s \in Seq(Outcomes), NEW success
  PROVE  Adversarial!CountOf(s, success) \in Nat
<1> DEFINE found == {i \in DOMAIN s : s[i].success = success}
<1>1. DOMAIN s = 1..Len(s) /\ Len(s) \in Nat
  BY LenProperties
<1>2. IsFiniteSet(1..Len(s)) /\ found \subseteq 1..Len(s)
  BY <1>1, FS_Interval
<1>3. IsFiniteSet(found)
  BY <1>2, FS_Subset
<1>4. Cardinality(found) \in Nat
  BY <1>3, FS_CardinalityType
<1>5. Adversarial!Cardinality(found) = Cardinality(found)
  BY DEF Adversarial!Cardinality, Cardinality
<1>6. QED BY <1>4, <1>5 DEF Adversarial!CountOf

\* The latest elements are a history's elements.
LEMMA LatestOutcomes ==
  ASSUME NEW s \in Seq(Outcomes), NEW k \in Nat \ {0}
  PROVE  Adversarial!LastOf(s, k) \in Seq(Outcomes)
<1> DEFINE n == Len(s)
           first == Adversarial!Greater(1, n - k + 1)
<1>1. n \in Nat /\ \A i \in 1..n : s[i] \in Outcomes
  BY LenProperties, ElementOfSeq
<1>2. CASE n = 0
  <2>1. SubSeq(s, first, n) = << >>
    BY <1>2 DEF Adversarial!Greater
  <2>2. Adversarial!LastOf(s, k) = << >>
    BY <2>1, Zenon DEF Adversarial!LastOf
  <2>3. QED BY <2>2, EmptySeq
<1>3. CASE n # 0
  <2>1. first \in 1..n
    BY <1>1, <1>3 DEF Adversarial!Greater
  <2>2. SubSeq(s, first, n) \in Seq(Outcomes)
    BY <1>1, <2>1, SubSeqProperties
  <2>3. QED BY <2>2 DEF Adversarial!LastOf
<1>4. QED BY <1>2, <1>3

\* What is recorded in a history leaves one.
LEMMA RecordedIsHistory ==
  ASSUME NEW h, IsHistory(h), NEW tool \in Services, NEW success \in BOOLEAN
  PROVE  IsHistory(Adversarial!Recorded(h, tool, success))
<1>1. Adversarial!Item(tool, success) \in Outcomes
  BY DEF Adversarial!Item, Outcomes
<1> DEFINE all == Append(h.recent, Adversarial!Item(tool, success))
<1>2. all \in Seq(Outcomes)
  BY <1>1, AppendProperties DEF IsHistory
<1>3. Adversarial!LastOf(all, 10) \in Seq(Outcomes)
  <2> HIDE DEF all
  <2>1. 10 \in Nat \ {0}
    OBVIOUS
  <2>2. QED BY <1>2, <2>1, LatestOutcomes, Zenon
<1>4. Adversarial!Smoothed(h.ewma, success) \in Nat
  <2>1. ASSUME NEW e \in Nat, NEW one \in Nat
        PROVE  (one + 9 * e) \div 10 \in Nat
    BY <2>1
  <2>2. Adversarial!OneEwma \in Nat
    BY DEF Adversarial!OneEwma
  <2>3. (IF success THEN 0 ELSE Adversarial!OneEwma) \in Nat
    BY <2>2
  <2>4. QED BY <2>1, <2>3 DEF Adversarial!Smoothed, IsHistory
<1>5. QED BY <1>3, <1>4 DEF Adversarial!Recorded, IsHistory

\* Rounding keeps integers.
LEMMA RoundedIsInt ==
  ASSUME NEW n \in Int, NEW d \in Nat \ {0}
  PROVE  /\ Adversarial!Rounded(n, d) \in Int
         /\ n >= 0 => Adversarial!Rounded(n, d) >= 0
<1>1. n \div d \in Int /\ n % d \in Int /\ (n >= 0 => n \div d >= 0)
  OBVIOUS
<1>2. QED BY <1>1 DEF Adversarial!Rounded

\* The parts of the entropy that the history and the calls make up are at most 9.0.
LEMMA MemoryIsBounded ==
  ASSUME NEW h, IsHistory(h), NEW tool, NEW calls \in Nat
  PROVE  /\ NatUpTo(Adversarial!FailureScore(h), 3000)
         /\ NatUpTo(Adversarial!RepeatedTool(h, tool), 2000)
         /\ NatUpTo(Adversarial!CostScore(h, calls), 2000)
         /\ NatUpTo(Adversarial!LongMemoryScore(h), 2000)
<1>1. NatUpTo(Adversarial!FailureScore(h), 3000)
  <2> DEFINE latest == Adversarial!LastOf(h.recent, 5)
             failures == Adversarial!CountOf(latest, FALSE)
  <2>1. failures \in Nat
    <3>1. h.recent \in Seq(Outcomes) /\ 5 \in Nat \ {0}
      BY DEF IsHistory
    <3>2. latest \in Seq(Outcomes)
      BY <3>1, LatestOutcomes, Zenon
    <3> HIDE DEF latest
    <3>3. QED BY <3>2, CountsAreNat, Zenon
  <2> HIDE DEF failures
  <2>2. NatUpTo(Adversarial!Lesser(650 * failures, 3000), 3000)
    BY <2>1 DEF Adversarial!Lesser, NatUpTo
  <2>3. Adversarial!FailureScore(h) = Adversarial!Lesser(650 * failures, 3000)
    BY DEF Adversarial!FailureScore, failures, latest
  <2>4. QED BY <2>2, <2>3
<1>2. NatUpTo(Adversarial!RepeatedTool(h, tool), 2000)
  BY DEF Adversarial!RepeatedTool, NatUpTo
<1>3. NatUpTo(Adversarial!CostScore(h, calls), 2000)
  <2> DEFINE base == Adversarial!Lesser(25 * calls, 500)
             n == Len(h.recent)
             won == Adversarial!CountOf(h.recent, TRUE)
             outputs == Adversarial!Greater(1, won)
             share == Adversarial!Rounded((n - outputs) * 500, outputs)
             waste == Adversarial!Lesser(share, 1500)
  <2>1. base \in 0..500
    BY DEF Adversarial!Lesser
  <2>2. n \in Nat /\ won \in Nat
    BY CountsAreNat, LenProperties DEF IsHistory
  <2> HIDE DEF won, n
  <2>3. outputs \in Nat \ {0}
    BY <2>2 DEF Adversarial!Greater
  <2> HIDE DEF outputs
  <2>4. share \in Int
    BY <2>2, <2>3, RoundedIsInt
  <2> HIDE DEF base, share
  <2>5. base + Adversarial!Greater(0, waste) \in Nat
    BY <2>1, <2>4 DEF Adversarial!Lesser, Adversarial!Greater
  <2>6. NatUpTo(Adversarial!Lesser(base + Adversarial!Greater(0, waste), 2000), 2000)
    <3> DEFINE sum == base + Adversarial!Greater(0, waste)
    <3>1. sum \in Nat
      BY <2>5
    <3> HIDE DEF sum
    <3>2. NatUpTo(Adversarial!Lesser(sum, 2000), 2000)
      BY <3>1 DEF Adversarial!Lesser, NatUpTo
    <3>3. QED BY <3>2 DEF sum
  <2>7. Adversarial!CostScore(h, calls)
          = IF n = 0 THEN base ELSE Adversarial!Lesser(base + Adversarial!Greater(0, waste), 2000)
    BY DEF Adversarial!CostScore, base, n, won, outputs, share
  <2> HIDE DEF waste
  <2>8. NatUpTo(base, 2000)
    BY <2>1 DEF NatUpTo
  <2>9. QED BY <2>6, <2>7, <2>8
<1>4. NatUpTo(Adversarial!LongMemoryScore(h), 2000)
  <2>1. Adversarial!OneEwma \div 1000 \in Nat \ {0}
    BY DEF Adversarial!OneEwma
  <2>2. 2 * h.ewma \in Int /\ 2 * h.ewma >= 0
    BY DEF IsHistory
  <2> DEFINE doubled == 2 * h.ewma
             point == Adversarial!OneEwma \div 1000
             twice == Adversarial!Rounded(doubled, point)
  <2> HIDE DEF doubled, point
  <2>3. twice \in Nat
    <3>1. doubled \in Int /\ doubled >= 0 /\ point \in Nat \ {0}
      BY <2>1, <2>2 DEF doubled, point
    <3>2. twice \in Int /\ twice >= 0
      BY <3>1, RoundedIsInt
    <3>3. QED BY <3>2
  <2> HIDE DEF twice
  <2>4. NatUpTo(Adversarial!Lesser(twice, 2000), 2000)
    BY <2>3 DEF Adversarial!Lesser, NatUpTo
  <2>5. Adversarial!LongMemoryScore(h) = Adversarial!Lesser(twice, 2000)
    BY DEF Adversarial!LongMemoryScore, twice, doubled, point
  <2>6. QED BY <2>4, <2>5
<1>5. QED BY <1>1, <1>2, <1>3, <1>4

\* Trust is never negative.
LEMMA TrustIsNat ==
  ASSUME NEW h, IsHistory(h), NEW entropy \in Nat
  PROVE  Adversarial!Trust(h, entropy) \in Nat
<1> DEFINE n == Len(h.recent)
           won == Adversarial!CountOf(h.recent, TRUE)
           num == CASE n = 0 -> 13 [] n > 0 /\ 10 * won >= 3 * n -> won [] OTHER -> 3
           den == CASE n = 0 -> 20 [] n > 0 /\ 10 * won >= 3 * n -> n   [] OTHER -> 10
           penalty == Adversarial!Lesser(entropy, 8400)
           quotient == Adversarial!Rounded(12 * (1000 * num + 200 * den) - penalty * den, 12 * den)
<1>1. n \in Nat /\ won \in Nat
  BY CountsAreNat, LenProperties DEF IsHistory
<1> HIDE DEF n, won
<1>2. num \in Nat /\ den \in Nat \ {0}
  BY <1>1
<1>3. penalty \in Nat
  BY DEF Adversarial!Lesser
<1> HIDE DEF num, den, penalty
<1>4. /\ 12 * (1000 * num + 200 * den) - penalty * den \in Int
      /\ 12 * den \in Nat \ {0}
  BY <1>2, <1>3
<1>5. quotient \in Int
  BY <1>4, RoundedIsInt
<1> HIDE DEF quotient
<1>6. Adversarial!Greater(0, Adversarial!Lesser(1000, quotient)) \in Nat
  BY <1>5 DEF Adversarial!Greater, Adversarial!Lesser
<1>7. Adversarial!Trust(h, entropy) = Adversarial!Greater(0, Adversarial!Lesser(1000, quotient))
  BY DEF Adversarial!Trust, quotient, num, den, penalty, n, won
<1>8. QED BY <1>6, <1>7

AuditFields ==
  {"history", "cb", "latency", "calls", "retry_streak", "decision", "executed", "first_refuse_step"}

\* A gate's judgement: nothing is made of what it refuses, and the history waits.
LEMMA GateJudges ==
  ASSUME NEW v, ~IsBreaker(v), NEW r, DOMAIN r = AuditFields, NEW action, action.calls \in Nat,
         NEW candidate, NEW probe, NEW k
  PROVE  LET judged == Judged(v, r, action, candidate, probe, k)
         IN  /\ DOMAIN judged = AuditFields
             /\ judged.decision = GateAnswer(v, r.history, candidate)
             /\ judged.decision \in Decision
             /\ judged.executed \in Nat /\ (judged.decision = "REFUSE" => judged.executed = 0)
             /\ judged.history = r.history /\ judged.calls = r.calls
             /\ judged.latency = r.latency /\ judged.retry_streak = r.retry_streak
             /\ judged.decision = "ALLOW" =>
                  /\ judged.executed = Adversarial!Rounded(action.calls * 100, 100)
                  /\ judged.first_refuse_step = r.first_refuse_step
<1> DEFINE decision == GateAnswer(v, r.history, candidate)
           clamp == CASE decision = "REFUSE"  -> 0
                      [] decision = "DEGRADE" -> 52
                      [] decision = "ALLOW"   -> 100
           left == Adversarial!Rounded(action.calls * clamp, 100)
           judged == Judged(v, r, action, candidate, probe, k)
<1>1. decision \in Decision
  BY DEF GateAnswer, Gate!Policy, Decision
<1> HIDE DEF decision
<1>2. clamp \in {0, 52, 100} /\ (decision = "REFUSE" => clamp = 0)
  BY <1>1 DEF Decision
<1> HIDE DEF clamp
<1>3. action.calls * clamp \in Int /\ action.calls * clamp >= 0
      /\ (clamp = 0 => action.calls * clamp = 0)
  BY <1>2
<1>4. left \in Nat
  BY <1>3, RoundedIsInt
<1>5. decision = "REFUSE" => left = 0
  <2>1. Adversarial!Rounded(0, 100) = 0
    BY DEF Adversarial!Rounded
  <2>2. QED BY <1>2, <1>3, <2>1
<1>6. decision = "ALLOW" => left = Adversarial!Rounded(action.calls * 100, 100)
  BY DEF clamp
<1> HIDE DEF left
<1>7. /\ DOMAIN judged = AuditFields /\ judged.decision = decision /\ judged.executed = left
      /\ judged.history = r.history /\ judged.calls = r.calls
      /\ judged.latency = r.latency /\ judged.retry_streak = r.retry_streak
      /\ decision # "REFUSE" => judged.first_refuse_step = r.first_refuse_step
  BY DEF Judged, AuditFields, decision, clamp, left
<1>8. QED BY <1>1, <1>4, <1>5, <1>6, <1>7 DEF decision

\* The candidate of a scripted scenario: always the front door, after so many calls.
FrontDoor(calls) ==
  [ tool |-> "public_api", depth |-> 0, retry_count |-> 0, latency |-> 0, cumulative_calls |-> calls ]

\* The showcase policy never refuses it.
LEMMA ShowcaseIsMild ==
  ASSUME NEW h, IsHistory(h), NEW calls \in Nat
  PROVE  GateAnswer(ShowcasePolicy, h, FrontDoor(calls)) # "REFUSE"
<1> DEFINE v == ShowcasePolicy
           entropy == Adversarial!Entropy(h, FrontDoor(calls))
           failing == Adversarial!FailureScore(h)
           repeated == Adversarial!RepeatedTool(h, "public_api")
           cost == Adversarial!CostScore(h, calls)
           memory == Adversarial!LongMemoryScore(h)
           trust == Adversarial!Trust(h, entropy)
<1>1. /\ v.entropy_fn = "calculate_entropy" /\ v.monitoring_only = FALSE
      /\ v.refuse = 10200 /\ v.refuse_trust = 0 - 100
  BY DEF ShowcasePolicy, Distrusting, PolicyOf
<1> HIDE DEF v
<1>2. NatUpTo(failing, 3000) /\ NatUpTo(repeated, 2000) /\ NatUpTo(cost, 2000) /\ NatUpTo(memory, 2000)
  BY MemoryIsBounded
<1>3. /\ Adversarial!DepthScore(0) = 0 /\ Adversarial!RetryScore(0) = 0
      /\ Adversarial!Lesser(0, 2000) = 0
  BY DEF Adversarial!DepthScore, Adversarial!RetryScore, Adversarial!Lesser
<1>4. entropy = 0 + 0 + failing + repeated + 0 + cost + memory
  BY <1>3 DEF Adversarial!Entropy, FrontDoor
<1> HIDE DEF entropy, failing, repeated, cost, memory
<1>5. entropy \in Nat /\ ~(entropy >= 10200)
  BY <1>2, <1>4 DEF NatUpTo
<1>6. trust \in Nat
  BY <1>5, TrustIsNat
<1> HIDE DEF trust
<1>7. Gate(v)!Policy(entropy, trust) # "REFUSE"
  <2>1. ~(trust <= 0 - 100)
    BY <1>6
  <2>2. QED BY <1>1, <1>5, <2>1 DEF Gate!Policy
<1>8. GateAnswer(v, h, FrontDoor(calls)) = Gate(v)!Policy(entropy, trust)
  BY <1>1 DEF GateAnswer, EntropyOf, entropy, trust
<1>9. QED BY <1>7, <1>8 DEF v

\* A gate in a scripted scenario: what it refused last it would refuse again.
Gated(v, r) ==
  /\ DOMAIN r = AuditFields /\ IsHistory(r.history) /\ r.calls \in 0..20
  /\ r.decision = "REFUSE" => GateAnswer(v, r.history, FrontDoor(r.calls)) = "REFUSE"
  /\ v = ShowcasePolicy => r.decision # "REFUSE"

ScriptedActions == {BenignAction, Cooldown, Adversarial!Action("public_api", 0, 12)}

\* So it does: a refused step is neither heard of nor counted.
LEMMA GatedStep ==
  ASSUME NEW v, ~IsBreaker(v), NEW r, Gated(v, r), NEW action \in ScriptedActions,
         NEW success \in BOOLEAN, NEW k
  PROVE  LET n == ScriptedRan(v, r, action, success, k)
         IN  Gated(v, n) /\ (r.decision = "REFUSE" => n.decision = "REFUSE")
<1> DEFINE candidate == ScriptedRecord(r, action)
           judged == Judged(v, r, action, candidate, 52, k)
           once == Outcome(v, judged, action, success)
           heard == TwiceHeard(v, judged, action, success)
           left == IF judged.executed > 0 THEN heard ELSE Idle(v, judged, action)
           n == ScriptedRan(v, r, action, success, k)
<1>1. /\ action.tool = "public_api" /\ action.depth = 0 /\ action.calls \in Nat
      /\ action.tool \in Services
  BY DEF ScriptedActions, BenignAction, Cooldown, Adversarial!Cooldown, Adversarial!Action, Services,
     Dependencies
<1>2. candidate = FrontDoor(r.calls)
  BY <1>1 DEF ScriptedRecord, FrontDoor
<1>3. /\ DOMAIN judged = AuditFields
      /\ judged.decision = GateAnswer(v, r.history, FrontDoor(r.calls))
      /\ judged.decision \in Decision
      /\ judged.executed \in Nat /\ (judged.decision = "REFUSE" => judged.executed = 0)
      /\ judged.history = r.history /\ judged.calls = r.calls
  BY <1>1, <1>2, GateJudges DEF Gated
<1>4. IsHistory(r.history) /\ r.calls \in 0..20
  BY DEF Gated
<1> HIDE DEF judged, candidate
<1>5. ASSUME NEW q, DOMAIN q = AuditFields, IsHistory(q.history)
      PROVE  LET o == Outcome(v, q, action, success)
             IN  /\ DOMAIN o = AuditFields /\ IsHistory(o.history)
                 /\ o.decision = q.decision /\ o.executed = q.executed /\ o.calls = q.calls
  <2>1. IsHistory(Adversarial!Recorded(q.history, action.tool, success))
    BY <1>1, <1>5, RecordedIsHistory
  <2>2. Outcome(v, q, action, success)
          = [q EXCEPT !.history = Adversarial!Recorded(q.history, action.tool, success)]
    BY DEF Outcome
  <2>3. QED BY <1>5, <2>1, <2>2 DEF AuditFields
<1>6. /\ DOMAIN once = AuditFields /\ IsHistory(once.history)
      /\ once.decision = judged.decision /\ once.executed = judged.executed
      /\ once.calls = judged.calls
  BY <1>3, <1>4, <1>5
<1>7. /\ DOMAIN heard = AuditFields /\ IsHistory(heard.history)
      /\ heard.decision = judged.decision /\ heard.executed = judged.executed
      /\ heard.calls = judged.calls
  <2>1. heard \in {once, Outcome(v, once, action, success)}
    BY DEF TwiceHeard
  <2> HIDE DEF once, heard
  <2>2. QED BY <1>5, <1>6, <2>1
<1> HIDE DEF heard, once
<1>8. /\ DOMAIN left = AuditFields /\ IsHistory(left.history)
      /\ left.decision = judged.decision /\ left.executed = judged.executed
      /\ left.calls = judged.calls
      /\ judged.executed = 0 => left = judged
  BY <1>3, <1>4, <1>7 DEF Idle
<1> HIDE DEF left
<1>9. n = [left EXCEPT !.calls = Adversarial!Lesser(20, left.calls + left.executed)]
  BY DEF ScriptedRan, Spent, left, heard, judged, candidate, once
<1>10. Adversarial!Lesser(20, left.calls + left.executed) \in 0..20
  BY <1>3, <1>4, <1>8 DEF Adversarial!Lesser
<1>11. judged.executed = 0 => Adversarial!Lesser(20, left.calls + left.executed) = r.calls
  BY <1>3, <1>4, <1>8 DEF Adversarial!Lesser
<1> DEFINE calls == Adversarial!Lesser(20, left.calls + left.executed)
<1> HIDE DEF calls
<1>12. /\ DOMAIN n = AuditFields /\ n.history = left.history /\ n.decision = judged.decision
       /\ n.calls = calls
  BY <1>8, <1>9 DEF AuditFields, calls
<1> HIDE DEF n
<1>13. judged.decision = "REFUSE" =>
         n.decision = "REFUSE" /\ GateAnswer(v, n.history, FrontDoor(n.calls)) = "REFUSE"
  <2>1. judged.decision = "REFUSE" => n.history = r.history /\ n.calls = r.calls
    BY <1>3, <1>8, <1>11, <1>12 DEF calls
  <2>2. QED BY <1>3, <1>12, <2>1
<1>14. v = ShowcasePolicy => judged.decision # "REFUSE"
  BY <1>3, <1>4, ShowcaseIsMild
<1>15. r.decision = "REFUSE" => judged.decision = "REFUSE"
  BY <1>3 DEF Gated
<1>16. Gated(v, n)
  BY <1>8, <1>10, <1>12, <1>13, <1>14 DEF Gated, calls
<1>17. QED BY <1>12, <1>15, <1>16 DEF n

\* The gates of a scripted scenario would all refuse again.
ScriptedInv ==
  show \in ScriptedShows => \A v \in mode : ~IsBreaker(v) => Gated(v, run[v])

\* Its steps keep it so, and what was refused is refused.
LEMMA ScriptedStep ==
  ASSUME ScriptedInv, ShowNext, show \in ScriptedShows
  PROVE  /\ ScriptedInv'
         /\ \A v \in mode : ~IsBreaker(v) /\ run[v].decision = "REFUSE" =>
              run'[v].decision = "REFUSE" /\ v # ShowcasePolicy
<1>1. show' = show /\ mode' = mode
  BY ShowIsFixed
<1>2. PICK success \in BOOLEAN : Script(success)
  BY DEF ShowNext, Watch, Calls, Call, Listed, Storm, Adversary, Audited, Accumulate, Burst, Traced,
     Adversaries, Audits, ScriptedShows, Accumulators
<1>3. ASSUME NEW v \in mode, ~IsBreaker(v)
      PROVE  Gated(v, run'[v]) /\ (run[v].decision = "REFUSE" => run'[v].decision = "REFUSE")
  <2>1. Gated(v, run[v])
    BY <1>3 DEF ScriptedInv
  <2>2. PICK action \in ScriptedActions : run'[v] = ScriptedRan(v, run[v], action, success, step + 1)
    <3>1. OodAction(step + 1) \in ScriptedActions /\ BenignAction \in ScriptedActions
      BY DEF OodAction, ScriptedActions
    <3>2. run'[v] = IF show = "ood" THEN OodRan(v, run[v], success, step + 1)
                    ELSE BenignRan(v, run[v], success, step + 1)
      BY <1>2 DEF Script
    <3>3. QED BY <3>1, <3>2, Zenon DEF OodRan, BenignRan
  <2>3. QED BY <1>3, <2>1, <2>2, GatedStep
<1>4. ASSUME NEW v \in mode, ~IsBreaker(v), run[v].decision = "REFUSE"
      PROVE  v # ShowcasePolicy
  BY <1>4 DEF ScriptedInv, Gated
<1>5. QED BY <1>1, <1>3, <1>4 DEF ScriptedInv

\* In the scripted scenarios a refusal of a gate is for the rest of the run, and the showcase
\* policy never refuses: nothing of a refused step is heard of or counted, so the gate is
\* asked the same again, and without depth, retries and latency a candidate's entropy is at
\* most 9.0 (run_ood_scenario, run_benign_scenario of phase3_ablation.py).
THEOREM ARefusalIsForGood == ShowSpec => RefusedForGood
<1>1. ASSUME ShowInit
      PROVE  ScriptedInv
  <2>1. SUFFICES ASSUME show \in ScriptedShows, NEW v \in mode, ~IsBreaker(v)
                 PROVE  Gated(v, run[v])
    BY DEF ScriptedInv
  <2>2. run \in FreshShow(show)
    BY <1>1 DEF ShowInit
  <2>3. run = [w \in mode |-> NewAudit(w)]
    BY <2>1, <2>2, SMTT(40) DEF FreshShow, Adversaries, Audits, ScriptedShows, Accumulators
  <2> DEFINE r == NewAudit(v)
  <2>4. /\ DOMAIN r = AuditFields /\ r.calls = 0 /\ r.decision = "ALLOW"
        /\ r.history = Adversarial!NewHistory
    BY DEF NewAudit, AuditFields
  <2>5. IsHistory(Adversarial!NewHistory)
    BY EmptySeq DEF Adversarial!NewHistory, IsHistory
  <2> HIDE DEF r
  <2>6. Gated(v, r)
    BY <2>4, <2>5 DEF Gated
  <2>7. QED BY <2>3, <2>6 DEF r
<1>2. ScriptedInv /\ [ShowNext]_showVars => ScriptedInv'
  <2>1. CASE UNCHANGED showVars
    BY <2>1 DEF ScriptedInv, showVars
  <2>2. CASE ShowNext /\ show \in ScriptedShows
    BY <2>2, ScriptedStep
  <2>3. CASE ShowNext /\ show \notin ScriptedShows
    BY <2>3, ShowIsFixed DEF ScriptedInv
  <2>4. QED BY <2>1, <2>2, <2>3
<1>3. ScriptedInv /\ [ShowNext]_showVars =>
        [show = "ood" \/ show = "benign" =>
           \A v \in mode : ~IsBreaker(v) /\ run[v].decision = "REFUSE" =>
             run'[v].decision = "REFUSE" /\ v # ShowcasePolicy]_showVars
  BY ScriptedStep DEF ScriptedShows
<1>4. QED BY <1>1, <1>2, <1>3, PTL DEF ShowSpec, RefusedForGood
-----------------------------------------------------------------------------
(* How deep the services lie.                                              *)

\* There are as many services as it takes hops to reach them.
LEMMA EnoughServices ==
  Cardinality(Services) \in Nat /\ Cardinality(Services) >= 3 /\ Cardinality(Services) <= 7
<1> DEFINE near == {"public_api", "auth_service", "database"}
           others == {"cache", "worker_pool"}
           far == {"internal_admin_endpoint", "billing_service"}
<1>1. Services = (near \cup others) \cup far
  BY DEF Services, Dependencies
<1>2. ASSUME NEW x, NEW y, x # y
      PROVE  IsFiniteSet({x, y}) /\ Cardinality({x, y}) = 2
  <2>1. IsFiniteSet({x}) /\ Cardinality({x}) = 1
    BY FS_Singleton
  <2>2. {x} \cup {y} = {x, y} /\ y \notin {x}
    BY <1>2
  <2>3. IsFiniteSet({x} \cup {y}) /\ Cardinality({x} \cup {y}) = Cardinality({x}) + 1
    BY <2>1, <2>2, FS_AddElement
  <2>4. QED BY <2>1, <2>2, <2>3
<1>3. IsFiniteSet(near) /\ Cardinality(near) = 3
  <2> DEFINE pair == {"public_api", "auth_service"}
  <2>1. IsFiniteSet(pair) /\ Cardinality(pair) = 2
    BY <1>2
  <2>2. near = pair \cup {"database"} /\ "database" \notin pair
    OBVIOUS
  <2> HIDE DEF pair, near
  <2>3. IsFiniteSet(pair \cup {"database"})
        /\ Cardinality(pair \cup {"database"}) = Cardinality(pair) + 1
    BY <2>1, <2>2, FS_AddElement
  <2>4. QED BY <2>1, <2>2, <2>3
<1>4. /\ IsFiniteSet(others) /\ Cardinality(others) = 2
      /\ IsFiniteSet(far) /\ Cardinality(far) = 2
  BY <1>2
<1> HIDE DEF near, others, far
<1>5. ASSUME NEW S, NEW T, IsFiniteSet(S), IsFiniteSet(T)
      PROVE  /\ IsFiniteSet(S \cup T)
             /\ Cardinality(S \cup T) \in Nat
             /\ Cardinality(S \cup T) <= Cardinality(S) + Cardinality(T)
  <2>1. IsFiniteSet(S \cap T) /\ IsFiniteSet(S \cup T)
    BY <1>5, FS_Intersection, FS_Union
  <2>2. /\ Cardinality(S \cap T) \in Nat /\ Cardinality(S \cup T) \in Nat
        /\ Cardinality(S) \in Nat /\ Cardinality(T) \in Nat
    BY <1>5, <2>1, FS_CardinalityType
  <2>3. Cardinality(S \cup T) = Cardinality(S) + Cardinality(T) - Cardinality(S \cap T)
    BY <1>5, FS_Union
  <2>4. QED BY <2>1, <2>2, <2>3
<1>6. /\ IsFiniteSet(near \cup others) /\ Cardinality(near \cup others) \in Nat
      /\ Cardinality(near \cup others) <= 5
  BY <1>3, <1>4, <1>5
<1>7. /\ IsFiniteSet(Services) /\ Cardinality(Services) \in Nat
      /\ Cardinality(Services) <= 7
  BY <1>1, <1>4, <1>5, <1>6
<1>8. near \subseteq Services
  BY <1>1
<1>9. Cardinality(near) <= Cardinality(Services)
  BY <1>7, <1>8, FS_Subset
<1>10. QED BY <1>3, <1>7, <1>9

\* What is at most one hop further.
Spread(near) == near \cup UNION {Dependencies[s] : s \in near}

FirstHop == {"public_api", "auth_service", "billing_service"}

SecondHop == FirstHop \cup {"cache", "database"}

ThirdHop == SecondHop \cup {"worker_pool"}

\* Three hops reach whatever can be reached.
LEMMA Hops ==
  /\ Spread({"public_api"}) = FirstHop
  /\ Spread(FirstHop) = SecondHop
  /\ Spread(SecondHop) = ThirdHop
  /\ Spread(ThirdHop) = ThirdHop
<1>1. /\ Dependencies["public_api"] = {"auth_service", "billing_service"}
      /\ Dependencies["auth_service"] = {"cache", "database"}
      /\ Dependencies["cache"] = {}
      /\ Dependencies["database"] = {"worker_pool"}
      /\ Dependencies["worker_pool"] = {"cache"}
      /\ Dependencies["billing_service"] = {"database"}
  BY DEF Dependencies
<1>2. ASSUME NEW a
      PROVE  Spread({a}) = {a} \cup Dependencies[a]
  BY DEF Spread
<1>3. ASSUME NEW S, NEW a
      PROVE  Spread(S \cup {a}) = Spread(S) \cup Spread({a})
  BY DEF Spread
<1>4. Spread({"public_api"}) = FirstHop
  <2>1. Spread({"public_api"}) = {"public_api"} \cup Dependencies["public_api"]
    BY <1>2
  <2>2. FirstHop = {"public_api"} \cup {"auth_service", "billing_service"}
    BY DEF FirstHop
  <2>3. QED BY ONLY <1>1, <2>1, <2>2
<1>5. Spread(FirstHop) = SecondHop
  <2>1. FirstHop = ({"public_api"} \cup {"auth_service"}) \cup {"billing_service"}
    BY DEF FirstHop
  <2>2. Spread({"public_api"} \cup {"auth_service"})
          = Spread({"public_api"}) \cup Spread({"auth_service"})
    BY <1>3
  <2>3. Spread(FirstHop) = Spread({"public_api"} \cup {"auth_service"}) \cup Spread({"billing_service"})
    BY <1>3, <2>1
  <2>4. QED BY <1>1, <1>2, <2>2, <2>3 DEF FirstHop, SecondHop
<1>6. Spread(SecondHop) = ThirdHop
  <2>1. SecondHop = (FirstHop \cup {"cache"}) \cup {"database"}
    BY DEF SecondHop
  <2>2. Spread(SecondHop) = (Spread(FirstHop) \cup Spread({"cache"})) \cup Spread({"database"})
    BY <1>3, <2>1, Zenon
  <2>3. QED BY <1>1, <1>2, <1>5, <2>2 DEF FirstHop, SecondHop, ThirdHop
<1>7. Spread(ThirdHop) = ThirdHop
  <2>1. Spread(ThirdHop) = Spread(SecondHop) \cup Spread({"worker_pool"})
    BY <1>3, Zenon DEF ThirdHop
  <2>2. QED BY <1>1, <1>2, <1>6, <2>1 DEF FirstHop, SecondHop, ThirdHop
<1>8. QED BY <1>4, <1>5, <1>6, <1>7

\* The services within n hops are what the recursion says they are.
LEMMA WithinHops ==
  LET hops == 0..Cardinality(Services)
  IN  Within = [n \in hops |-> IF n = 0 THEN {"public_api"} ELSE Spread(Within[n - 1])]
<1> DEFINE hops == 0..Cardinality(Services)
           Grown(f) == [n \in hops |-> IF n = 0 THEN {"public_api"} ELSE Spread(f[n - 1])]
           reached == [n \in hops |-> IF n = 0 THEN {"public_api"} ELSE IF n = 1 THEN FirstHop
                                       ELSE IF n = 2 THEN SecondHop ELSE ThirdHop]
<1>1. reached = Grown(reached)
  <2>1. ASSUME NEW n \in hops
        PROVE  reached[n] = IF n = 0 THEN {"public_api"} ELSE Spread(reached[n - 1])
    <3>1. CASE n = 0
      BY <3>1
    <3>2. CASE n # 0
      <4>1. n \in Nat /\ n - 1 \in hops
        BY <3>2, EnoughServices
      <4>2. CASE n = 1
        BY <4>1, <4>2, Hops
      <4>3. CASE n = 2
        BY <4>1, <4>3, Hops
      <4>4. CASE n = 3
        BY <4>1, <4>4, Hops
      <4>5. CASE n > 3
        BY <4>1, <4>5, Hops
      <4>6. QED BY <3>2, <4>1, <4>2, <4>3, <4>4, <4>5
    <3>3. QED BY <3>1, <3>2
  <2> HIDE DEF hops
  <2>2. QED BY <2>1
<1>2. Within = CHOOSE f : f = Grown(f)
  BY DEF Within, Spread
<1> HIDE DEF Grown, reached
<1>3. Within = Grown(Within)
  BY <1>1, <1>2
<1>4. QED BY <1>3 DEF Grown

\* Whatever is reached at all is reached in three hops.
LEMMA NothingFurther ==
  ASSUME NEW n \in DOMAIN Within
  PROVE  Within[n] \subseteq ThirdHop
<1> DEFINE hops == DOMAIN Within
<1>1. hops = 0..Cardinality(Services) /\ 0 \in hops /\ n \in 0..7
  BY WithinHops, EnoughServices
<1>2. Within[0] \subseteq ThirdHop
  BY <1>1, WithinHops DEF FirstHop, SecondHop, ThirdHop
<1>3. ASSUME NEW m \in hops, m # 0, Within[m - 1] \subseteq ThirdHop
      PROVE  Within[m] \subseteq ThirdHop
  <2>1. Within[m] = Spread(Within[m - 1])
    BY <1>3, WithinHops
  <2>2. Spread(Within[m - 1]) \subseteq Spread(ThirdHop)
    BY <1>3 DEF Spread
  <2>3. QED BY <2>1, <2>2, Hops
<1>4. ASSUME NEW m \in hops
      PROVE  m \in Nat /\ (m # 0 => m - 1 \in hops)
  BY <1>1, EnoughServices
<1> HIDE DEF hops
<1>5. ASSUME NEW m \in hops, m \in 0..1
      PROVE  Within[m] \subseteq ThirdHop
  BY <1>2, <1>3, <1>4, <1>5
<1>6. ASSUME NEW m \in hops, m \in 0..3
      PROVE  Within[m] \subseteq ThirdHop
  BY <1>3, <1>4, <1>5, <1>6
<1>7. ASSUME NEW m \in hops, m \in 0..5
      PROVE  Within[m] \subseteq ThirdHop
  BY <1>3, <1>4, <1>6, <1>7
<1>8. ASSUME NEW m \in hops, m \in 0..7
      PROVE  Within[m] \subseteq ThirdHop
  BY <1>3, <1>4, <1>7, <1>8
<1>9. QED BY <1>1, <1>8 DEF hops

\* No service is deeper than three hops; one that cannot be reached counts as one.
LEMMA DepthIsSmall ==
  ASSUME NEW target \in Services
  PROVE  Depth(target) \in Nat /\ Depth(target) <= 3
<1> DEFINE hops == {n \in DOMAIN Within : target \in Within[n]}
<1>1. /\ 0 \in DOMAIN Within /\ 1 \in DOMAIN Within /\ 2 \in DOMAIN Within /\ 3 \in DOMAIN Within
      /\ DOMAIN Within \subseteq Nat
  BY WithinHops, EnoughServices
<1>2. Within[0] = {"public_api"}
  BY <1>1, WithinHops
<1>3. Within[1] = FirstHop /\ Within[2] = SecondHop /\ Within[3] = ThirdHop
  <2>1. ASSUME NEW n \in DOMAIN Within, n # 0
        PROVE  Within[n] = Spread(Within[n - 1])
    BY <2>1, WithinHops
  <2>2. Within[1] = FirstHop
    BY <1>1, <1>2, <2>1, Hops
  <2>3. Within[2] = SecondHop
    BY <1>1, <2>1, <2>2, Hops
  <2>4. Within[3] = ThirdHop
    BY <1>1, <2>1, <2>3, Hops
  <2>5. QED BY <2>2, <2>3, <2>4
<1>4. CASE hops = {}
  BY <1>4 DEF Depth
<1>5. CASE hops # {}
  <2>1. 3 \in hops
    BY <1>1, <1>3, <1>5, NothingFurther
  <2>2. hops \subseteq Nat
    BY <1>1
  <2> HIDE DEF hops
  <2>3. \E x \in hops : \A y \in hops : x <= y
    <3>1. CASE 0 \in hops
      BY <2>2, <3>1
    <3>2. CASE 0 \notin hops /\ 1 \in hops
      BY <2>2, <3>2
    <3>3. CASE 0 \notin hops /\ 1 \notin hops /\ 2 \in hops
      BY <2>2, <3>3
    <3>4. CASE 0 \notin hops /\ 1 \notin hops /\ 2 \notin hops
      BY <2>1, <2>2, <3>4
    <3>5. QED BY <3>1, <3>2, <3>3, <3>4
  <2>4. Min(hops) \in hops /\ \A y \in hops : Min(hops) <= y
    BY <2>3, Zenon DEF Min
  <2>5. Min(hops) \in Nat /\ Min(hops) <= 3
    BY <2>1, <2>2, <2>4
  <2>6. Depth(target) = Min(hops)
    BY <1>5, Zenon DEF Depth, hops
  <2>7. QED BY <2>5, <2>6
<1>6. QED BY <1>4, <1>5
-----------------------------------------------------------------------------
(* The audits: groups that nothing tells apart.                            *)

Gates == {NoControl, MinusEntropy, MinusHysteresis}

\* What the agent of the audits plans is at most three hops away.
LEMMA AuditPlans ==
  ASSUME NEW action \in Actions, show \in Audits
  PROVE  /\ action.tool \in Services /\ action.calls \in Nat
         /\ action.depth \in Nat /\ action.depth <= 3
<1>1. action \in AdversarialActions(agent, step + 1)
  BY DEF Actions, Audits
<1>2. CASE action = Cooldown
  BY <1>2 DEF Cooldown, Adversarial!Cooldown, Adversarial!Action, Services, Dependencies
<1>3. ASSUME NEW target \in Targets, action = Attack(target, 9)
      PROVE  /\ action.tool \in Services /\ action.calls \in Nat
             /\ action.depth \in Nat /\ action.depth <= 3
  <2>1. target \in Services
    BY ShowcasesAssumption
  <2>2. action.tool = target /\ action.calls = 9 /\ action.depth = Depth(target)
    BY <1>3 DEF Attack, Adversarial!Action
  <2>3. QED BY <2>1, <2>2, DepthIsSmall
<1>4. action = Cooldown \/ \E target \in Targets : action = Attack(target, 9)
  BY <1>1 DEF AdversarialActions, KnownTargets
<1>5. QED BY <1>2, <1>3, <1>4

\* A gate without control, without entropy or without two of its scores allows everything.
LEMMA GatesAllow ==
  ASSUME NEW v \in Gates, NEW h, IsHistory(h), NEW c,
         c.depth \in Nat, c.depth <= 3, c.retry_count \in Nat, c.latency \in {0, 40},
         c.cumulative_calls \in Nat
  PROVE  GateAnswer(v, h, c) = "ALLOW"
<1> DEFINE entropy == EntropyOf(v, h, c)
           trust == Adversarial!Trust(h, entropy)
<1>1. /\ v.refuse = 10200 /\ v.degrade = 8400
      /\ v.refuse_trust = 0 - 100 /\ v.degrade_trust = 0 - 100
      /\ v # NoControl => v.entropy_fn \in {"zero", "minus_failure_and_repeated"}
  BY DEF Gates, NoControl, MinusEntropy, MinusHysteresis, ShowcasePolicy, Distrusting, PolicyOf
<1>2. CASE v = NoControl
  <2>1. v.monitoring_only
    BY <1>2 DEF NoControl, ShowcasePolicy, Distrusting, PolicyOf
  <2>2. QED BY <2>1 DEF GateAnswer
<1>3. CASE v.entropy_fn \in {"zero", "minus_failure_and_repeated"}
  <2>1. NatUpTo(entropy, 7840)
    <3>1. CASE v.entropy_fn = "zero"
      BY <3>1 DEF EntropyOf, NatUpTo
    <3>2. CASE v.entropy_fn = "minus_failure_and_repeated"
      <4> DEFINE depth == Adversarial!DepthScore(c.depth)
                 retry == Adversarial!RetryScore(c.retry_count)
                 late == Adversarial!Lesser(c.latency, 2000)
                 cost == Adversarial!Lesser(300 * c.cumulative_calls, 2000)
      <4>1. NatUpTo(depth, 1800)
        <5> DEFINE d == c.depth
        <5>1. d \in Nat /\ d <= 3
          OBVIOUS
        <5> HIDE DEF d
        <5>2. NatUpTo(Adversarial!DepthScore(d), 1800)
          BY <5>1 DEF Adversarial!DepthScore, Adversarial!Lesser, NatUpTo
        <5>3. QED BY <5>2 DEF d
      <4>2. NatUpTo(retry, 4000)
        BY DEF Adversarial!RetryScore, Adversarial!Lesser, NatUpTo
      <4>3. NatUpTo(late, 40)
        BY DEF Adversarial!Lesser, NatUpTo
      <4>4. NatUpTo(cost, 2000)
        BY DEF Adversarial!Lesser, NatUpTo
      <4>5. entropy = depth + retry + late + cost
        BY <3>2 DEF EntropyOf, BareEntropy
      <4> HIDE DEF entropy, depth, retry, late, cost
      <4>6. QED BY <4>1, <4>2, <4>3, <4>4, <4>5 DEF NatUpTo
    <3>3. QED BY <1>3, <3>1, <3>2
  <2> HIDE DEF entropy
  <2>2. trust \in Nat
    BY <2>1, TrustIsNat DEF NatUpTo
  <2> HIDE DEF trust
  <2>3. ~(entropy >= 10200) /\ ~(entropy >= 8400) /\ ~(trust <= 0 - 100)
    BY <2>1, <2>2 DEF NatUpTo
  <2>4. Gate(v)!Policy(entropy, trust) = "ALLOW"
    BY <1>1, <2>3 DEF Gate!Policy
  <2>5. GateAnswer(v, h, c) = IF v.monitoring_only THEN "ALLOW" ELSE Gate(v)!Policy(entropy, trust)
    BY Zenon DEF GateAnswer, entropy, trust
  <2>6. QED BY <2>4, <2>5
<1>4. QED BY <1>1, <1>2, <1>3

\* A run in which nothing has been refused.
Unrefused(r) ==
  /\ DOMAIN r = AuditFields /\ IsHistory(r.history)
  /\ r.calls \in Nat /\ r.retry_streak \in Nat /\ r.latency \in {0, 40}
  /\ r.decision = "ALLOW" /\ r.first_refuse_step = 0

\* It stays so, and of an action every call is made.
LEMMA UnrefusedStep ==
  ASSUME NEW v \in Gates, NEW r, Unrefused(r), NEW action, action.tool \in Services,
         action.calls \in Nat, action.depth \in Nat, action.depth <= 3, NEW success \in BOOLEAN, NEW k
  PROVE  LET n == AblationRan(v, r, action, success, k)
         IN  Unrefused(n) /\ n.executed = Adversarial!Rounded(action.calls * 100, 100)
<1> DEFINE c == Adversarial!ActionRecord(r, action)
           judged == Judged(v, r, action, c, 35, k)
           once == Outcome(v, judged, action, success)
           heard == [once EXCEPT !.latency = 40, !.retry_streak = IF success THEN 0 ELSE @ + 1]
           unheard == [judged EXCEPT !.retry_streak = Adversarial!Quieted(@)]
           left == IF judged.executed > 0 THEN heard ELSE unheard
           full == Adversarial!Rounded(action.calls * 100, 100)
           n == AblationRan(v, r, action, success, k)
<1>1. ~IsBreaker(v)
  BY DEF Gates, NoControl, MinusEntropy, MinusHysteresis, ShowcasePolicy, Distrusting, PolicyOf, IsBreaker
<1>2. GateAnswer(v, r.history, c) = "ALLOW"
  <2>1. /\ c.depth = action.depth /\ c.retry_count = r.retry_streak /\ c.latency = r.latency
        /\ c.cumulative_calls = r.calls
    BY DEF Adversarial!ActionRecord
  <2> HIDE DEF c
  <2>2. QED BY <2>1, GatesAllow DEF Unrefused
<1> HIDE DEF c
<1>3. /\ DOMAIN judged = AuditFields /\ judged.decision = "ALLOW"
      /\ judged.executed \in Nat /\ judged.executed = full
      /\ judged.history = r.history /\ judged.calls = r.calls
      /\ judged.latency = r.latency /\ judged.retry_streak = r.retry_streak
      /\ judged.first_refuse_step = r.first_refuse_step
  BY <1>1, <1>2, GateJudges DEF Unrefused
<1> HIDE DEF judged, full
<1>4. IsHistory(Adversarial!Recorded(judged.history, action.tool, success))
  BY <1>3, RecordedIsHistory DEF Unrefused
<1>5. once = [judged EXCEPT !.history = Adversarial!Recorded(judged.history, action.tool, success)]
  BY <1>1 DEF Outcome
<1>6. /\ Unrefused(heard) /\ heard.executed = full
  BY <1>3, <1>4, <1>5 DEF Unrefused, AuditFields
<1>7. /\ Unrefused(unheard) /\ unheard.executed = full
  BY <1>3 DEF Unrefused, AuditFields, Adversarial!Quieted, Adversarial!Greater
<1>8. /\ Unrefused(left) /\ left.executed = full /\ left.executed \in Nat
  BY <1>3, <1>6, <1>7
<1> HIDE DEF left, once
<1>9. n = [left EXCEPT !.calls = Adversarial!Lesser(20, left.calls + left.executed)]
  BY DEF AblationRan, Spent, left, heard, unheard, judged, c, once
<1>10. Adversarial!Lesser(20, left.calls + left.executed) \in Nat
  BY <1>8 DEF Unrefused, Adversarial!Lesser
<1>11. Unrefused(n) /\ n.executed = full
  BY <1>8, <1>9, <1>10 DEF Unrefused, AuditFields
<1>12. QED BY <1>11 DEF full

\* The threshold of a configuration between a trip and the probe that succeeds.
Lowered(v) == IF v.rate - 5 >= 40 THEN v.rate - 5 ELSE 40

\* A breaker of a configuration: its threshold is the initial one exactly while it is closed.
Adapted(v, b) ==
  /\ IsBreakerRecord(b) /\ b.window \in Seq(BOOLEAN)
  /\ b.threshold = IF b.state = "closed" THEN v.rate ELSE Lowered(v)

\* Two breakers that differ in their thresholds at most.
SameButThreshold(b, c) ==
  /\ b.state = c.state /\ b.window = c.window /\ b.total_blocked = c.total_blocked
  /\ b.cooldown_remaining = c.cooldown_remaining /\ b.current_cooldown = c.current_cooldown

AreTwins(v, w) ==
  /\ v \in Grid /\ w \in Grid
  /\ v.window = w.window /\ v.cooldown = w.cooldown /\ FailuresToTrip(v) = FailuresToTrip(w)

\* The fields of a configuration.
LEMMA GridFields ==
  ASSUME NEW v \in Grid
  PROVE  /\ IsBreaker(v) /\ v.window \in {3, 5, 7} /\ v.rate \in {40, 50, 60, 70}
         /\ v.cooldown \in Nat /\ v.longest = 4 * v.cooldown
<1>1. PICK window \in {3, 5, 7}, rate \in {40, 50, 60, 70}, cooldown \in 1..3 :
        v = BreakerVariant(window, rate, cooldown, 4 * cooldown)
  BY DEF Grid
<1>2. /\ v.window = window /\ v.rate = rate /\ v.cooldown = cooldown /\ v.longest = 4 * cooldown
      /\ "window" \in DOMAIN v
  BY <1>1 DEF BreakerVariant
<1>3. QED BY <1>2 DEF IsBreaker

\* A full window exceeds the thresholds of twins together.
LEMMA TwinsFailTogether ==
  ASSUME NEW v, NEW w, AreTwins(v, w), NEW window \in Seq(BOOLEAN)
  PROVE  Breaker(v)!Failing(window, v.rate) <=> Breaker(w)!Failing(window, w.rate)
<1> DEFINE failures == Cardinality({i \in DOMAIN window : ~window[i]})
           limit(u) == u.rate * u.window
<1>1. failures \in Nat
  <2>1. DOMAIN window = 1..Len(window) /\ Len(window) \in Nat
    BY LenProperties
  <2>2. IsFiniteSet(1..Len(window)) /\ {i \in DOMAIN window : ~window[i]} \subseteq 1..Len(window)
    BY <2>1, FS_Interval
  <2>3. IsFiniteSet({i \in DOMAIN window : ~window[i]})
    BY <2>2, FS_Subset
  <2>4. QED BY <2>1, <2>3, FS_CardinalityType
<1>2. ASSUME NEW u
      PROVE  Breaker(u)!Failing(window, u.rate)
               <=> Len(window) >= u.window /\ failures * 100 > limit(u)
  <2>1. Breaker(u)!Failures(window) = failures
    BY DEF Breaker!Failures, Breaker!Cardinality, Cardinality
  <2> HIDE DEF failures
  <2>2. QED BY <2>1 DEF Breaker!Failing
<1> HIDE DEF failures
<1>3. ASSUME NEW u \in Grid
      PROVE  limit(u) \in Nat /\ FailuresToTrip(u) = limit(u) \div 100 + 1
  BY GridFields DEF FailuresToTrip
<1>4. ASSUME NEW x \in Nat
      PROVE  failures * 100 > x <=> failures >= x \div 100 + 1
  BY <1>1
<1>5. v \in Grid /\ w \in Grid /\ v.window = w.window /\ FailuresToTrip(v) = FailuresToTrip(w)
  BY DEF AreTwins
<1> HIDE DEF limit
<1>6. failures * 100 > limit(v) <=> failures * 100 > limit(w)
  <2>1. /\ failures * 100 > limit(v) <=> failures >= limit(v) \div 100 + 1
        /\ failures * 100 > limit(w) <=> failures >= limit(w) \div 100 + 1
    BY <1>3, <1>4, <1>5
  <2>2. limit(v) \div 100 + 1 = limit(w) \div 100 + 1
    BY <1>3, <1>5
  <2>3. QED BY <2>1, <2>2
<1>7. QED BY <1>2, <1>5, <1>6

\* A tick leaves the threshold alone and closes nothing.
LEMMA TickedStays ==
  ASSUME NEW v \in Grid, NEW b, Adapted(v, b)
  PROVE  Adapted(v, Breaker(v)!Ticked(b))
<1>1. Breaker(v)!Ticked(b) \in {b, [b EXCEPT !.cooldown_remaining = 0, !.state = "half_open"],
                                [b EXCEPT !.cooldown_remaining = b.cooldown_remaining - 1]}
  BY DEF Breaker!Ticked
<1>2. Breaker(v)!Ticked(b) # b => b.state = "open"
  BY DEF Breaker!Ticked
<1>3. QED BY <1>1, <1>2 DEF Adapted, IsBreakerRecord, BreakerFields, BreakerStates

\* A breaker keeps its threshold's two values.
LEMMA AdaptedStays ==
  ASSUME NEW v \in Grid, NEW b, Adapted(v, b), NEW success \in BOOLEAN
  PROVE  Adapted(v, Asked(v, b)) /\ Adapted(v, Breaker(v)!RecordResult(b, success))
<1>1. /\ v.window \in {3, 5, 7} /\ v.rate \in {40, 50, 60, 70}
      /\ Breaker(v)!Tightened(v.rate) = Lowered(v)
      /\ Breaker(v)!Loosened(Lowered(v)) = v.rate
  <2>1. v.window \in {3, 5, 7} /\ v.rate \in {40, 50, 60, 70}
    BY GridFields
  <2> DEFINE rate == v.rate
  <2>2. rate \in {40, 50, 60, 70}
    BY <2>1
  <2>3. Breaker(v)!Tightened(rate) = Lowered(v)
    BY <2>2 DEF Breaker!Tightened, Lowered
  <2>4. Breaker(v)!Loosened(Lowered(v)) = rate
    BY <2>2 DEF Breaker!Loosened, Lowered
  <2>5. QED BY <2>1, <2>3, <2>4
<1>2. Adapted(v, Breaker(v)!Ticked(b))
  BY TickedStays
<1>3. ASSUME NEW c, Adapted(v, c)
      PROVE  Adapted(v, Breaker(v)!ShouldExecute(c))
  <2>1. CASE c.state = "open"
    <3>1. Breaker(v)!ShouldExecute(c) = Breaker(v)!Refused(c)
      BY <2>1 DEF Breaker!ShouldExecute
    <3>2. QED BY <1>3, <2>1, <3>1
          DEF Breaker!Refused, Adapted, IsBreakerRecord, BreakerFields, BreakerStates
  <2>2. CASE c.state = "closed" /\ Breaker(v)!Failing(c.window, c.threshold)
    <3> DEFINE d == Breaker(v)!Tripped(c)
    <3>1. Breaker(v)!ShouldExecute(c) = Breaker(v)!Refused(d)
      BY <2>2 DEF Breaker!ShouldExecute
    <3>2. /\ DOMAIN d = BreakerFields /\ d.window = c.window /\ d.window \in Seq(BOOLEAN)
          /\ d.threshold = Lowered(v)
      BY <1>1, <1>3, <2>2 DEF Breaker!Tripped, Adapted, IsBreakerRecord, BreakerFields
    <3> HIDE DEF d
    <3>3. QED BY <3>1, <3>2 DEF Breaker!Refused, Adapted, IsBreakerRecord, BreakerFields, BreakerStates
  <2>3. CASE ~(c.state = "open") /\ ~(c.state = "closed" /\ Breaker(v)!Failing(c.window, c.threshold))
    BY <1>3, <2>3 DEF Breaker!ShouldExecute
  <2>4. QED BY <2>1, <2>2, <2>3
<1>4. Adapted(v, Asked(v, b))
  BY <1>2, <1>3 DEF Asked
<1>5. Adapted(v, Breaker(v)!RecordResult(b, success))
  <2> DEFINE pushed == Breaker(v)!Pushed(b.window, success)
             heard == [b EXCEPT !.window = pushed]
  <2>1. pushed \in Seq(BOOLEAN)
    <3>1. b.window \in Seq(BOOLEAN) /\ Len(b.window) \in Nat
      BY LenProperties DEF Adapted
    <3>2. b.window # << >> => Tail(b.window) \in Seq(BOOLEAN)
      BY <3>1, HeadTailProperties
    <3>3. Len(b.window) >= v.window => b.window # << >>
      BY <1>1, <3>1
    <3> DEFINE kept == IF Len(b.window) < v.window THEN b.window ELSE Tail(b.window)
    <3>4. kept \in Seq(BOOLEAN)
      BY <1>1, <3>1, <3>2, <3>3
    <3>5. pushed = Append(kept, success)
      BY DEF Breaker!Pushed
    <3> HIDE DEF kept, pushed
    <3>6. QED BY <3>4, <3>5, AppendProperties
  <2> HIDE DEF pushed
  <2>2. Adapted(v, heard) /\ heard.state = b.state
    BY <2>1 DEF Adapted, IsBreakerRecord, BreakerFields
  <2>3. \/ Breaker(v)!RecordResult(b, success) \in {b, heard}
        \/ /\ b.state = "half_open"
           /\ Breaker(v)!RecordResult(b, success)
                 \in {Breaker(v)!Recovered(heard), Breaker(v)!Reopened(heard)}
    BY DEF Breaker!RecordResult, pushed
  <2> HIDE DEF heard
  <2>4. b.state = "half_open" => Adapted(v, Breaker(v)!Recovered(heard))
    BY <1>1, <2>2 DEF Breaker!Recovered, Adapted, IsBreakerRecord, BreakerFields, BreakerStates
  <2>5. b.state = "half_open" => Adapted(v, Breaker(v)!Reopened(heard))
    BY <2>2 DEF Breaker!Reopened, Adapted, IsBreakerRecord, BreakerFields, BreakerStates
  <2>6. QED BY <2>2, <2>3, <2>4, <2>5
<1>6. QED BY <1>4, <1>5

\* Twins answer alike and hear alike.
LEMMA TwinsAlike ==
  ASSUME NEW v, NEW w, AreTwins(v, w), NEW b, NEW c, Adapted(v, b), Adapted(w, c),
         SameButThreshold(b, c), NEW success \in BOOLEAN
  PROVE  /\ SameButThreshold(Asked(v, b), Asked(w, c))
         /\ SameButThreshold(Breaker(v)!RecordResult(b, success), Breaker(w)!RecordResult(c, success))
<1>1. /\ v \in Grid /\ w \in Grid /\ v.window = w.window /\ v.cooldown = w.cooldown
      /\ v.longest = w.longest
  BY GridFields DEF AreTwins
<1>2. SameButThreshold(Breaker(v)!Ticked(b), Breaker(w)!Ticked(c))
  BY DEF Breaker!Ticked, Breaker!CooledDown, SameButThreshold, Adapted, IsBreakerRecord, BreakerFields
<1>3. Adapted(v, Breaker(v)!Ticked(b)) /\ Adapted(w, Breaker(w)!Ticked(c))
  BY <1>1, TickedStays
<1>4. ASSUME NEW d, NEW e, Adapted(v, d), Adapted(w, e), SameButThreshold(d, e)
      PROVE  SameButThreshold(Breaker(v)!ShouldExecute(d), Breaker(w)!ShouldExecute(e))
  <2>1. ASSUME NEW x, NEW y, DOMAIN x = BreakerFields, DOMAIN y = BreakerFields, SameButThreshold(x, y)
        PROVE  SameButThreshold(Breaker(v)!Refused(x), Breaker(w)!Refused(y))
    BY <2>1 DEF Breaker!Refused, Breaker!BudgetSpent, SameButThreshold, BreakerFields
  <2>2. /\ DOMAIN d = BreakerFields /\ DOMAIN e = BreakerFields
        /\ d.state = e.state /\ d.window = e.window
    BY <1>4 DEF Adapted, IsBreakerRecord, SameButThreshold
  <2>3. CASE d.state = "open"
    BY <1>4, <2>1, <2>2, <2>3 DEF Breaker!ShouldExecute
  <2>4. CASE d.state = "closed"
    <3>1. d.threshold = v.rate /\ e.threshold = w.rate /\ d.window \in Seq(BOOLEAN)
      BY <1>4, <2>2, <2>4 DEF Adapted
    <3>2. Breaker(v)!Failing(d.window, d.threshold) <=> Breaker(w)!Failing(e.window, e.threshold)
      BY <2>2, <3>1, TwinsFailTogether
    <3>3. /\ DOMAIN Breaker(v)!Tripped(d) = BreakerFields /\ DOMAIN Breaker(w)!Tripped(e) = BreakerFields
          /\ SameButThreshold(Breaker(v)!Tripped(d), Breaker(w)!Tripped(e))
      BY <1>1, <1>4, <2>2 DEF Breaker!Tripped, SameButThreshold, BreakerFields
    <3>4. CASE Breaker(v)!Failing(d.window, d.threshold)
      BY <2>1, <2>2, <2>4, <3>2, <3>3, <3>4 DEF Breaker!ShouldExecute
    <3>5. CASE ~Breaker(v)!Failing(d.window, d.threshold)
      BY <1>4, <2>2, <2>4, <3>2, <3>5 DEF Breaker!ShouldExecute
    <3>6. QED BY <3>4, <3>5
  <2>5. CASE d.state \notin {"open", "closed"}
    BY <1>4, <2>2, <2>5 DEF Breaker!ShouldExecute
  <2>6. QED BY <2>3, <2>4, <2>5
<1>5. SameButThreshold(Asked(v, b), Asked(w, c))
  BY <1>2, <1>3, <1>4 DEF Asked
<1>6. SameButThreshold(Breaker(v)!RecordResult(b, success), Breaker(w)!RecordResult(c, success))
  <2> DEFINE pushed == Breaker(v)!Pushed(b.window, success)
             d == [b EXCEPT !.window = pushed]
             e == [c EXCEPT !.window = pushed]
  <2>1. b.state = c.state /\ b.window = c.window
        /\ DOMAIN b = BreakerFields /\ DOMAIN c = BreakerFields
    BY DEF SameButThreshold, Adapted, IsBreakerRecord
  <2>2. Breaker(w)!Pushed(c.window, success) = pushed
    BY <1>1, <2>1 DEF Breaker!Pushed
  <2> HIDE DEF pushed
  <2>3. SameButThreshold(d, e) /\ DOMAIN d = BreakerFields /\ DOMAIN e = BreakerFields
    BY <2>1 DEF SameButThreshold, BreakerFields
  <2> HIDE DEF d, e
  <2>4. SameButThreshold(Breaker(v)!Recovered(d), Breaker(w)!Recovered(e))
    BY <1>1, <2>3 DEF Breaker!Recovered, SameButThreshold, BreakerFields
  <2>5. SameButThreshold(Breaker(v)!Reopened(d), Breaker(w)!Reopened(e))
    <3>1. d.current_cooldown = e.current_cooldown
      BY <2>3 DEF SameButThreshold
    <3>2. Breaker(v)!BackedOff(d.current_cooldown) = Breaker(w)!BackedOff(e.current_cooldown)
      BY <1>1, <3>1 DEF Breaker!BackedOff
    <3>3. QED BY <2>3, <3>2 DEF Breaker!Reopened, SameButThreshold, BreakerFields
  <2>6. Breaker(v)!RecordResult(b, success)
          = CASE ~(b.state \in {"closed", "half_open"}) -> b
              [] b.state = "half_open" -> IF success THEN Breaker(v)!Recovered(d)
                                          ELSE Breaker(v)!Reopened(d)
              [] OTHER -> d
    BY DEF Breaker!RecordResult, Breaker!Listening, d, pushed
  <2>7. Breaker(w)!RecordResult(c, success)
          = CASE ~(c.state \in {"closed", "half_open"}) -> c
              [] c.state = "half_open" -> IF success THEN Breaker(w)!Recovered(e)
                                          ELSE Breaker(w)!Reopened(e)
              [] OTHER -> e
    BY <2>2 DEF Breaker!RecordResult, Breaker!Listening, e
  <2>8. QED BY <2>1, <2>3, <2>4, <2>5, <2>6, <2>7
<1>7. QED BY <1>5, <1>6

\* A run of a configuration, and two of twins.
OfBreaker(v, r) == DOMAIN r = AuditFields /\ Adapted(v, r.cb)

SameRun(r, q) ==
  /\ SameButThreshold(r.cb, q.cb) /\ r.decision = q.decision
  /\ r.executed = q.executed /\ r.first_refuse_step = q.first_refuse_step

\* The calls a decision of a breaker leaves of an action.
MadeOf(action, decision) ==
  LET clamp == CASE decision = "REFUSE" -> 0 [] decision = "DEGRADE" -> 35 [] decision = "ALLOW" -> 100
  IN  Adversarial!Rounded(action.calls * clamp, 100)

\* What a step of a configuration makes of its run, once its breaker was asked.
BreakerStepped(v, r, asked, n, action, success, k) ==
  /\ DOMAIN n = AuditFields /\ n.decision = BreakerDecision(asked)
  /\ n.executed = MadeOf(action, n.decision)
  /\ n.first_refuse_step =
       IF r.first_refuse_step = 0 /\ n.decision = "REFUSE" THEN k ELSE r.first_refuse_step
  /\ n.cb = IF n.executed > 0 THEN Breaker(v)!RecordResult(asked, success) ELSE asked

\* Every step does.
LEMMA BreakerRan ==
  ASSUME NEW v \in Grid, NEW r, OfBreaker(v, r), NEW action, NEW success \in BOOLEAN, NEW k
  PROVE  BreakerStepped(v, r, Asked(v, r.cb), AblationRan(v, r, action, success, k), action, success, k)
<1> DEFINE candidate == Adversarial!ActionRecord(r, action)
           judged == Judged(v, r, action, candidate, 35, k)
           once == Outcome(v, judged, action, success)
           heard == [once EXCEPT !.latency = 40, !.retry_streak = IF success THEN 0 ELSE @ + 1]
           unheard == [judged EXCEPT !.retry_streak = Adversarial!Quieted(@)]
           left == IF judged.executed > 0 THEN heard ELSE unheard
           n == AblationRan(v, r, action, success, k)
           asked == Asked(v, r.cb)
           decision == BreakerDecision(asked)
           full == MadeOf(action, decision)
           first == IF r.first_refuse_step = 0 /\ decision = "REFUSE" THEN k ELSE r.first_refuse_step
<1>1. IsBreaker(v)
  BY GridFields
<1>2. /\ DOMAIN judged = AuditFields /\ judged.cb = asked /\ judged.decision = decision
      /\ judged.executed = full /\ judged.first_refuse_step = first
  BY <1>1 DEF Judged, MadeOf, OfBreaker, AuditFields
<1>3. once = [judged EXCEPT !.cb = Breaker(v)!RecordResult(judged.cb, success)]
  BY <1>1 DEF Outcome
<1> HIDE DEF judged, asked, full, first, decision
<1>4. /\ DOMAIN heard = AuditFields /\ heard.cb = Breaker(v)!RecordResult(asked, success)
      /\ heard.decision = decision /\ heard.executed = full /\ heard.first_refuse_step = first
  BY <1>2, <1>3 DEF AuditFields
<1>5. /\ DOMAIN unheard = AuditFields /\ unheard.cb = asked
      /\ unheard.decision = decision /\ unheard.executed = full /\ unheard.first_refuse_step = first
  BY <1>2 DEF AuditFields
<1>6. /\ DOMAIN left = AuditFields /\ left.decision = decision /\ left.executed = full
      /\ left.first_refuse_step = first
      /\ left.cb = IF full > 0 THEN Breaker(v)!RecordResult(asked, success) ELSE asked
  BY <1>2, <1>4, <1>5
<1>7. n = [left EXCEPT !.calls = Adversarial!Lesser(20, left.calls + left.executed)]
  BY DEF AblationRan, Spent, judged
<1> HIDE DEF left
<1>8. /\ DOMAIN n = AuditFields /\ n.decision = decision /\ n.executed = full
      /\ n.first_refuse_step = first
      /\ n.cb = IF n.executed > 0 THEN Breaker(v)!RecordResult(asked, success) ELSE asked
  BY <1>6, <1>7 DEF AuditFields
<1> HIDE DEF n
<1>9. BreakerStepped(v, r, asked, n, action, success, k)
  BY <1>8 DEF BreakerStepped, full, first, decision
<1>10. QED BY <1>9 DEF asked, n

\* Twins stay twins.
LEMMA TwinsRun ==
  ASSUME NEW v, NEW w, AreTwins(v, w), NEW r, NEW q, OfBreaker(v, r), OfBreaker(w, q), SameRun(r, q),
         NEW action, NEW success \in BOOLEAN, NEW k
  PROVE  LET n == AblationRan(v, r, action, success, k)
             m == AblationRan(w, q, action, success, k)
         IN  OfBreaker(v, n) /\ SameRun(n, m)
<1> DEFINE n == AblationRan(v, r, action, success, k)
           m == AblationRan(w, q, action, success, k)
           b == Asked(v, r.cb)
           c == Asked(w, q.cb)
<1>1. v \in Grid /\ w \in Grid /\ Adapted(v, r.cb) /\ Adapted(w, q.cb) /\ SameButThreshold(r.cb, q.cb)
  BY DEF AreTwins, OfBreaker, SameRun
<1>2. Adapted(v, b) /\ Adapted(w, c) /\ SameButThreshold(b, c)
  BY <1>1, AdaptedStays, TwinsAlike
<1> HIDE DEF b, c
<1>3. /\ Adapted(v, Breaker(v)!RecordResult(b, success))
      /\ SameButThreshold(Breaker(v)!RecordResult(b, success), Breaker(w)!RecordResult(c, success))
  BY <1>1, <1>2, AdaptedStays, TwinsAlike
<1>4. BreakerDecision(b) = BreakerDecision(c)
  BY <1>2 DEF BreakerDecision, SameButThreshold
<1>5. BreakerStepped(v, r, b, n, action, success, k) /\ BreakerStepped(w, q, c, m, action, success, k)
  BY <1>1, BreakerRan DEF b, c
<1> HIDE DEF n, m
<1>6. n.decision = m.decision /\ n.executed = m.executed /\ n.first_refuse_step = m.first_refuse_step
  BY <1>4, <1>5 DEF SameRun, BreakerStepped
<1>7. /\ DOMAIN n = AuditFields
      /\ n.cb = IF n.executed > 0 THEN Breaker(v)!RecordResult(b, success) ELSE b
      /\ m.cb = IF m.executed > 0 THEN Breaker(w)!RecordResult(c, success) ELSE c
  BY <1>5 DEF BreakerStepped
<1>8. Adapted(v, n.cb) /\ SameButThreshold(n.cb, m.cb)
  BY <1>2, <1>3, <1>6, <1>7
<1>9. OfBreaker(v, n) /\ SameRun(n, m)
  BY <1>6, <1>7, <1>8 DEF OfBreaker, SameRun
<1>10. QED BY <1>9 DEF n, m

\* A group of gates that allow everything, and a group of twins.
GatesInv == \A v, w \in mode : Unrefused(run[v]) /\ run[v].executed = run[w].executed

TwinsInv ==
  \A v, w \in mode :
    /\ AreTwins(v, w) /\ OfBreaker(v, run[v])
    /\ SameRun(run[v], run[w])

\* The groups of the audits: one variant, the gates or twins.
GroupInv ==
  show \in Audits =>
    \/ \A v, w \in mode : v = w
    \/ show = "ablation" /\ mode = Gates /\ GatesInv
    \/ show = "sweep" /\ TwinsInv

\* They start so.
LEMMA GroupsFirst ==
  ASSUME ShowInit
  PROVE  GroupInv
<1> SUFFICES ASSUME show \in Audits
             PROVE  \/ \A v, w \in mode : v = w
                    \/ show = "ablation" /\ mode = Gates /\ GatesInv
                    \/ show = "sweep" /\ TwinsInv
  BY DEF GroupInv
<1>1. run \in FreshShow(show) /\ mode \in ModesOf(show)
  BY DEF ShowInit
<1>2. run = [v \in mode |-> NewAudit(v)]
  BY <1>1, SMTT(40) DEF FreshShow, Adversaries, Audits, ScriptedShows, Accumulators
<1>3. CASE show = "ablation"
  <2>1. mode \in AblationGroups
    BY <1>1, <1>3, SMTT(40) DEF ModesOf, Adversaries, Accumulators, ScriptedShows
  <2>2. mode = Gates \/ \A v, w \in mode : v = w
    <3> DEFINE others == { ShowcasePolicy, TunedPolicy, AggressivePolicy, TrustEnabledPolicy,
                           ShiftedPolicy, TunedBreaker, ShowcaseBreaker, ShiftedBreaker }
    <3>1. AblationGroups = {Gates} \cup {{v} : v \in others}
      BY DEF AblationGroups, Gates
    <3> HIDE DEF others
    <3>2. mode = Gates \/ \E v \in others : mode = {v}
      BY <2>1, <3>1
    <3>3. QED BY <3>2
  <2>3. ASSUME mode = Gates
        PROVE  GatesInv
    <3>1. ASSUME NEW v \in Gates
          PROVE  Unrefused(NewAudit(v)) /\ NewAudit(v).executed = 0
      <4>1. /\ DOMAIN NewAudit(v) = AuditFields /\ NewAudit(v).history = Adversarial!NewHistory
            /\ NewAudit(v).calls = 0 /\ NewAudit(v).retry_streak = 0 /\ NewAudit(v).latency = 0
            /\ NewAudit(v).decision = "ALLOW" /\ NewAudit(v).first_refuse_step = 0
            /\ NewAudit(v).executed = 0
        BY DEF NewAudit, AuditFields
      <4>2. IsHistory(Adversarial!NewHistory)
        BY EmptySeq DEF Adversarial!NewHistory, IsHistory
      <4>3. QED BY <4>1, <4>2 DEF Unrefused
    <3>2. ASSUME NEW v \in mode
          PROVE  Unrefused(run[v]) /\ run[v].executed = 0
      <4>1. run[v] = NewAudit(v)
        BY <1>2
      <4>2. QED BY <2>3, <3>1, <4>1
    <3>3. QED BY <3>2 DEF GatesInv
  <2>4. QED BY <1>3, <2>2, <2>3
<1>4. CASE show = "sweep"
  <2>1. mode \in SweepGroups
    BY <1>1, <1>4, SMTT(40) DEF ModesOf, Adversaries, Accumulators, ScriptedShows
  <2>2. mode = {ShowcasePolicy} \/ \E u \in Grid : mode = Twins(u)
    BY <2>1 DEF SweepGroups
  <2>3. ASSUME NEW u \in Grid, mode = Twins(u)
        PROVE  TwinsInv
    <3>1. ASSUME NEW v \in mode, NEW w \in mode
          PROVE  AreTwins(v, w)
      BY <2>3, Zenon DEF Twins, AreTwins
    <3>2. ASSUME NEW v \in mode, NEW w \in mode
          PROVE  OfBreaker(v, run[v]) /\ SameRun(run[v], run[w])
      <4>1. v \in Grid /\ w \in Grid /\ IsBreaker(v) /\ IsBreaker(w) /\ v.cooldown = w.cooldown
        BY <3>1, GridFields DEF AreTwins
      <4>2. ASSUME NEW x \in mode, IsBreaker(x)
            PROVE  /\ DOMAIN run[x] = AuditFields /\ run[x].cb = Breaker(x)!NewBreaker
                   /\ run[x].decision = "ALLOW" /\ run[x].executed = 0
                   /\ run[x].first_refuse_step = 0
        BY <1>2, <4>2 DEF NewAudit, AuditFields
      <4>3. Adapted(v, Breaker(v)!NewBreaker)
        BY EmptySeq DEF Breaker!NewBreaker, Adapted, IsBreakerRecord, BreakerFields, BreakerStates
      <4>4. SameButThreshold(Breaker(v)!NewBreaker, Breaker(w)!NewBreaker)
        BY <4>1 DEF Breaker!NewBreaker, SameButThreshold
      <4>5. QED BY <4>1, <4>2, <4>3, <4>4 DEF OfBreaker, SameRun
    <3>3. QED BY <3>1, <3>2 DEF TwinsInv
  <2>4. QED BY <1>4, <2>2, <2>3
<1>5. QED BY <1>3, <1>4 DEF Audits

\* And stay so.
LEMMA GroupsStep ==
  ASSUME GroupInv, ShowNext, show \in Audits
  PROVE  GroupInv'
<1>1. show' = show /\ mode' = mode
  BY ShowIsFixed
<1>2. PICK action \in Actions, success \in BOOLEAN : Audited(action, success)
  BY DEF ShowNext, Watch, Calls, Call, Script, Listed, Storm, Adversary, Accumulate, Burst, Traced,
     Adversaries, Audits, ScriptedShows, Accumulators
<1>3. /\ action.tool \in Services /\ action.calls \in Nat
      /\ action.depth \in Nat /\ action.depth <= 3
  BY AuditPlans
<1>4. run' = [v \in mode |-> IF show = "sweep" THEN SweepRan(v, run[v], action, success, step + 1)
                             ELSE AblationRan(v, run[v], action, success, step + 1)]
  BY <1>2 DEF Audited
<1>5. CASE \A v, w \in mode : v = w
  BY <1>1, <1>5 DEF GroupInv
<1>6. CASE show = "ablation" /\ mode = Gates /\ GatesInv
  <2>1. ASSUME NEW v \in mode
        PROVE  /\ Unrefused(run'[v])
               /\ run'[v].executed = Adversarial!Rounded(action.calls * 100, 100)
    <3>1. run'[v] = AblationRan(v, run[v], action, success, step + 1)
      BY <1>4, <1>6
    <3>2. v \in Gates /\ Unrefused(run[v])
      BY <1>6 DEF GatesInv
    <3>3. QED BY <1>3, <3>1, <3>2, UnrefusedStep
  <2>2. GatesInv'
    BY <1>1, <2>1 DEF GatesInv
  <2>3. QED BY <1>1, <1>6, <2>2 DEF GroupInv
<1>7. CASE show = "sweep" /\ TwinsInv
  <2>1. ASSUME NEW v \in mode, NEW w \in mode
        PROVE  OfBreaker(v, run'[v]) /\ SameRun(run'[v], run'[w])
    <3>1. AreTwins(v, w) /\ OfBreaker(v, run[v]) /\ OfBreaker(w, run[w]) /\ SameRun(run[v], run[w])
      BY <1>7 DEF TwinsInv
    <3>2. IsBreaker(v) /\ IsBreaker(w)
      BY <3>1, GridFields DEF AreTwins
    <3>3. run'[v] = SweepRan(v, run[v], action, success, step + 1)
      BY <1>4, <1>7
    <3>4. run'[w] = SweepRan(w, run[w], action, success, step + 1)
      BY <1>4, <1>7
    <3>5. run'[v] = AblationRan(v, run[v], action, success, step + 1)
      BY <3>2, <3>3, Zenon DEF SweepRan, CbConfigRan
    <3>6. run'[w] = AblationRan(w, run[w], action, success, step + 1)
      BY <3>2, <3>4, Zenon DEF SweepRan, CbConfigRan
    <3> DEFINE n == AblationRan(v, run[v], action, success, step + 1)
               m == AblationRan(w, run[w], action, success, step + 1)
    <3>7. OfBreaker(v, n) /\ SameRun(n, m)
      BY <3>1, TwinsRun DEF n, m
    <3>8. QED BY <3>5, <3>6, <3>7, Zenon DEF n, m
  <2>2. TwinsInv'
    BY <1>1, <1>7, <2>1, Zenon DEF TwinsInv
  <2>3. QED BY <1>1, <1>7, <2>2 DEF GroupInv
<1>8. QED BY <1>5, <1>6, <1>7 DEF GroupInv

\* What the audits compare without knowing it, for any targets and any number of turns:
\* the twins of the grid decide and do the same in every step, and so do the gate
\* without entropy, the gate without two of its scores and no gate at all.
THEOREM TwinsAreNeverTold == ShowSpec => []TwinsNeverDiffer
<1>1. ShowInit => GroupInv
  BY GroupsFirst
<1>2. GroupInv /\ [ShowNext]_showVars => GroupInv'
  <2>1. CASE UNCHANGED showVars
    BY <2>1 DEF GroupInv, GatesInv, TwinsInv, showVars
  <2>2. ASSUME GroupInv, ShowNext, show \in Audits
        PROVE  GroupInv'
    BY <2>2, GroupsStep
  <2>3. CASE ShowNext /\ show \notin Audits
    BY <2>3, ShowIsFixed DEF GroupInv
  <2>4. QED BY <2>1, <2>2, <2>3
<1>3. GroupInv => TwinsNeverDiffer
  <2>1. SUFFICES ASSUME GroupInv, show \in Audits, NEW v \in mode, NEW w \in mode
                 PROVE  /\ run[v].decision = run[w].decision /\ run[v].executed = run[w].executed
                        /\ run[v].first_refuse_step = run[w].first_refuse_step
    BY DEF TwinsNeverDiffer
  <2>2. CASE \A x, y \in mode : x = y
    <3>1. v = w
      BY <2>2
    <3>2. QED BY <3>1
  <2>3. CASE GatesInv
    BY <2>3 DEF GatesInv, Unrefused
  <2>4. CASE TwinsInv
    BY <2>4 DEF TwinsInv, SameRun
  <2>5. QED BY <2>1, <2>2, <2>3, <2>4 DEF GroupInv
<1>4. QED BY <1>1, <1>2, <1>3, PTL DEF ShowSpec
-----------------------------------------------------------------------------
(* The two adversary showcases: RNOS and the streak of failures.           *)

\* Failures fill two thirds of the long memory, or all of the last ten outcomes.
Lasting(h) ==
  \/ 3 * h.ewma >= 2 * Adversarial!OneEwma
  \/ Len(h.recent) = 10 /\ \A i \in DOMAIN h.recent : ~h.recent[i].success

\* A history of ten outcomes at most, its average at most one.
IsRecent(h) == IsHistory(h) /\ Len(h.recent) <= 10 /\ h.ewma <= Adversarial!OneEwma

\* What is recorded keeps the ten latest outcomes.
LEMMA RecentOnes ==
  ASSUME NEW h, IsRecent(h), NEW tool \in Services, NEW success \in BOOLEAN
  PROVE  LET g == Adversarial!Recorded(h, tool, success)
             n == Len(h.recent)
         IN  IF n < 10
             THEN /\ Len(g.recent) = n + 1
                  /\ \A i \in 1..n : g.recent[i] = h.recent[i]
                  /\ g.recent[n + 1].success = success
             ELSE /\ Len(g.recent) = 10
                  /\ \A i \in 1..9 : g.recent[i] = h.recent[i + 1]
                  /\ g.recent[10].success = success
<1> DEFINE n == Len(h.recent)
           x == Adversarial!Item(tool, success)
           all == Append(h.recent, x)
           first == Adversarial!Greater(1, Len(all) - 10 + 1)
           s == SubSeq(all, first, Len(all))
<1>1. n \in 0..10 /\ h.recent \in Seq(Outcomes)
  <2>1. h.recent \in Seq(Outcomes) /\ n <= 10
    BY DEF IsRecent, IsHistory
  <2>2. n \in Nat
    BY <2>1, LenProperties
  <2> HIDE DEF n
  <2>3. QED BY <2>1, <2>2
<1>2. x \in Outcomes /\ x.success = success
  BY DEF Adversarial!Item, Outcomes
<1>3. /\ all \in Seq(Outcomes) /\ Len(all) = n + 1
      /\ \A i \in 1..n : all[i] = h.recent[i]
      /\ all[n + 1] = x
  <2> HIDE DEF x
  <2>1. QED BY <1>1, <1>2, AppendProperties
<1>4. Adversarial!Recorded(h, tool, success).recent = s
  BY DEF Adversarial!Recorded, Adversarial!LastOf
<1>5. first = IF n < 10 THEN 1 ELSE 2
  <2>1. first = Adversarial!Greater(1, (n + 1) - 10 + 1)
    BY <1>3
  <2> HIDE DEF n, first
  <2>2. QED BY <1>1, <2>1 DEF Adversarial!Greater
<1> HIDE DEF x, all, first
<1>6. CASE n < 10
  <2>1. first = 1
    BY <1>5, <1>6
  <2>2. /\ Len(s) = n + 1
        /\ \A i \in 1..(n + 1) : s[i] = all[i]
    BY <1>1, <1>3, <2>1, SubSeqProperties
  <2> HIDE DEF s, n
  <2>3. /\ \A i \in 1..n : s[i] = h.recent[i]
        /\ s[n + 1].success = success
    BY <1>1, <1>2, <1>3, <2>2
  <2>4. QED BY <1>4, <1>6, <2>2, <2>3 DEF n
<1>7. CASE ~(n < 10)
  <2> HIDE DEF n
  <2>1. first = 2 /\ n = 10
    BY <1>1, <1>5, <1>7
  <2>2. /\ Len(s) = n
        /\ \A i \in 1..n : s[i] = all[i + 1]
    <3>1. /\ Len(SubSeq(all, 2, Len(all))) = n
          /\ \A i \in 1..n : SubSeq(all, 2, Len(all))[i] = all[i + 1]
      <4> DEFINE two == 2
                 m == Len(all)
                 part == SubSeq(all, two, m)
      <4>1. /\ two \in Int /\ m \in Int /\ two <= m /\ m - two + 1 = n
            /\ \A i \in 1..n : two + i - 1 = i + 1
        BY <1>3, <2>1
      <4>2. \A i \in two..m : all[i] \in Outcomes
        BY <1>3
      <4> HIDE DEF two, m
      <4>3. /\ part \in Seq(Outcomes)
            /\ Len(part) = IF two <= m THEN m - two + 1 ELSE 0
            /\ \A i \in 1..(m - two + 1) : part[i] = all[two + i - 1]
        BY <4>1, <4>2, SubSeqProperties
      <4> HIDE DEF part
      <4>4. /\ part \in Seq(Outcomes) /\ Len(part) = n
            /\ \A i \in 1..n : part[i] = all[i + 1]
        BY <4>1, <4>3
      <4>5. QED BY <4>4 DEF part, two, m
    <3>2. QED BY <2>1, <3>1
  <2> HIDE DEF s
  <2>3. /\ \A i \in 1..9 : s[i] = h.recent[i + 1]
        /\ s[10].success = success
    BY <1>2, <1>3, <2>1, <2>2
  <2>4. QED BY <1>4, <1>7, <2>1, <2>2, <2>3 DEF n
<1>8. QED BY <1>6, <1>7

\* The average stays at most one, and a failure does not lower it.
LEMMA AverageGrows ==
  ASSUME NEW e \in Nat, e <= Adversarial!OneEwma, NEW success \in BOOLEAN
  PROVE  /\ Adversarial!Smoothed(e, success) \in Nat
         /\ Adversarial!Smoothed(e, success) <= Adversarial!OneEwma
         /\ ~success => Adversarial!Smoothed(e, success) >= e
<1>1. ASSUME NEW one \in Nat, e <= one
      PROVE  /\ (one + 9 * e) \div 10 \in Nat /\ (one + 9 * e) \div 10 <= one
             /\ (one + 9 * e) \div 10 >= e
             /\ (0 + 9 * e) \div 10 \in Nat /\ (0 + 9 * e) \div 10 <= one
  BY <1>1
<1> DEFINE one == Adversarial!OneEwma
<1>2. one \in Nat
  BY DEF Adversarial!OneEwma
<1> HIDE DEF one
<1>3. CASE success
  <2>1. Adversarial!Smoothed(e, success) = (0 + 9 * e) \div 10
    BY <1>3 DEF Adversarial!Smoothed
  <2>2. QED BY <1>1, <1>2, <1>3, <2>1 DEF one
<1>4. CASE ~success
  <2>1. Adversarial!Smoothed(e, success) = (one + 9 * e) \div 10
    BY <1>4 DEF Adversarial!Smoothed, one
  <2>2. QED BY <1>1, <1>2, <2>1 DEF one
<1>5. QED BY <1>3, <1>4

\* A failure makes one more failed call in a row, unless failures last by then.
LEMMA RowOfFailures ==
  ASSUME NEW h, IsRecent(h), NEW tool \in Services, NEW success \in BOOLEAN
  PROVE  LET g == Adversarial!Recorded(h, tool, success)
         IN  /\ IsRecent(g) /\ FailedLast(g, 0)
             /\ \A n : ~success /\ (Lasting(h) \/ FailedLast(h, n)) =>
                  Lasting(g) \/ FailedLast(g, n + 1)
<1> DEFINE g == Adversarial!Recorded(h, tool, success)
           len == Len(h.recent)
<1>1. IsHistory(g)
  BY RecordedIsHistory DEF IsRecent
<1>2. /\ len \in 0..10 /\ DOMAIN h.recent = 1..len
      /\ Len(g.recent) \in Nat /\ DOMAIN g.recent = 1..Len(g.recent)
  <2>1. h.recent \in Seq(Outcomes) /\ g.recent \in Seq(Outcomes) /\ len <= 10
    BY <1>1 DEF IsRecent, IsHistory
  <2> HIDE DEF g
  <2>2. len \in Nat /\ Len(g.recent) \in Nat
    BY <2>1, LenProperties
  <2>3. DOMAIN h.recent = 1..len /\ DOMAIN g.recent = 1..Len(g.recent)
    BY <2>1, LenProperties
  <2> HIDE DEF len
  <2>4. QED BY <2>1, <2>2, <2>3
<1>3. g.ewma = Adversarial!Smoothed(h.ewma, success)
  BY DEF Adversarial!Recorded
<1>4. g.ewma \in Nat /\ g.ewma <= Adversarial!OneEwma /\ (~success => g.ewma >= h.ewma)
  BY <1>3, AverageGrows DEF IsRecent, IsHistory
<1>5. IF len < 10
      THEN /\ Len(g.recent) = len + 1
           /\ \A i \in 1..len : g.recent[i] = h.recent[i]
           /\ g.recent[len + 1].success = success
      ELSE /\ Len(g.recent) = 10
           /\ \A i \in 1..9 : g.recent[i] = h.recent[i + 1]
           /\ g.recent[10].success = success
  BY RecentOnes
<1> HIDE DEF g, len
<1>6. IsRecent(g) /\ FailedLast(g, 0)
  <2> DEFINE kept == Len(g.recent)
  <2>1. kept <= 10
    <3>1. kept = IF len < 10 THEN len + 1 ELSE 10
      BY <1>5, Zenon
    <3> HIDE DEF kept
    <3>2. QED BY <1>2, <3>1
  <2>2. QED BY <1>1, <1>2, <1>4, <2>1 DEF IsRecent, FailedLast
<1>7. ASSUME ~success, 3 * h.ewma >= 2 * Adversarial!OneEwma
      PROVE  3 * g.ewma >= 2 * Adversarial!OneEwma
  <2>1. h.ewma \in Nat /\ Adversarial!OneEwma \in Nat
    BY DEF IsRecent, IsHistory, Adversarial!OneEwma
  <2>2. QED BY <1>4, <1>7, <2>1
<1>8. ASSUME ~success, len = 10, \A i \in 1..10 : ~h.recent[i].success
      PROVE  Lasting(g)
  <2>1. Len(g.recent) = 10 /\ g.recent[10].success = success
    BY <1>5, <1>8
  <2>2. \A i \in 1..9 : ~g.recent[i].success
    BY <1>5, <1>8
  <2>3. \A i \in 1..10 : ~g.recent[i].success
    BY <1>8, <2>1, <2>2
  <2>4. QED BY <1>2, <2>1, <2>3 DEF Lasting
<1>9. ASSUME NEW n, ~success, FailedLast(h, n)
      PROVE  Lasting(g) \/ FailedLast(g, n + 1)
  <2>1. n \in Nat /\ n <= len /\ \A i \in 1..len : i > len - n => ~h.recent[i].success
    BY <1>2, <1>9 DEF FailedLast, len
  <2>2. CASE len < 10
    <3>1. n + 1 \in Nat /\ n + 1 <= Len(g.recent)
      BY <1>2, <1>5, <2>1, <2>2
    <3>2. ASSUME NEW i \in 1..(len + 1), i > (len + 1) - (n + 1)
          PROVE  ~g.recent[i].success
      <4>1. CASE i = len + 1
        BY <1>5, <1>9, <2>2, <4>1
      <4>2. CASE i # len + 1
        <5>1. i \in 1..len /\ i > len - n
          BY <1>2, <2>1, <3>2, <4>2
        <5>2. QED BY <1>5, <2>1, <2>2, <5>1
      <4>3. QED BY <4>1, <4>2
    <3>3. QED BY <1>2, <1>5, <2>2, <3>1, <3>2 DEF FailedLast
  <2>3. CASE len = 10 /\ n = 10
    BY <1>8, <1>9, <2>1, <2>3
  <2>4. CASE len = 10 /\ n < 10
    <3>1. n + 1 \in Nat /\ n + 1 <= 10 /\ Len(g.recent) = 10
      BY <1>5, <2>1, <2>4
    <3>2. ASSUME NEW i \in 1..10, i > 10 - (n + 1)
          PROVE  ~g.recent[i].success
      <4>1. CASE i = 10
        BY <1>5, <1>9, <2>4, <4>1
      <4>2. CASE i # 10
        <5>1. i \in 1..9 /\ i + 1 \in 1..10 /\ i + 1 > 10 - n
          BY <2>1, <3>2, <4>2
        <5>2. ~h.recent[i + 1].success
          BY <2>1, <2>4, <5>1
        <5>3. g.recent[i] = h.recent[i + 1]
          BY <1>5, <2>4, <5>1
        <5>4. QED BY <5>2, <5>3
      <4>3. QED BY <4>1, <4>2
    <3>3. QED BY <1>2, <3>1, <3>2 DEF FailedLast
  <2>5. QED BY <1>2, <2>1, <2>2, <2>3, <2>4
<1>10. ASSUME ~success, Lasting(h)
       PROVE  Lasting(g)
  BY <1>2, <1>7, <1>8, <1>10 DEF Lasting, len
<1>11. QED BY <1>6, <1>9, <1>10 DEF g

\* Both showcases judge by the same history and entropy.
LEMMA SameGate ==
  /\ \A n, d : Smoldering!Rounded(n, d) = Adversarial!Rounded(n, d)
  /\ \A a, b : /\ Smoldering!Greater(a, b) = Adversarial!Greater(a, b)
               /\ Smoldering!Lesser(a, b) = Adversarial!Lesser(a, b)
  /\ \A h, tool, success :
       Smoldering!Recorded(h, tool, success) = Adversarial!Recorded(h, tool, success)
  /\ \A h, c : Smoldering!Entropy(h, c) = Adversarial!Entropy(h, c)
<1>1. \A n, d : Smoldering!Rounded(n, d) = Adversarial!Rounded(n, d)
  BY DEF Smoldering!Rounded, Adversarial!Rounded
<1>2. ASSUME NEW a, NEW b
      PROVE  /\ Smoldering!Greater(a, b) = Adversarial!Greater(a, b)
             /\ Smoldering!Lesser(a, b) = Adversarial!Lesser(a, b)
  BY DEF Smoldering!Greater, Adversarial!Greater, Smoldering!Lesser, Adversarial!Lesser
<1>3. ASSUME NEW h, NEW tool, NEW success
      PROVE  Smoldering!Recorded(h, tool, success) = Adversarial!Recorded(h, tool, success)
  <2>1. Smoldering!Item(tool, success) = Adversarial!Item(tool, success)
    BY DEF Smoldering!Item, Adversarial!Item
  <2>2. Smoldering!Smoothed(h.ewma, success) = Adversarial!Smoothed(h.ewma, success)
    BY DEF Smoldering!Smoothed, Adversarial!Smoothed, Smoldering!OneEwma, Adversarial!OneEwma
  <2>3. \A s, k : Smoldering!LastOf(s, k) = Adversarial!LastOf(s, k)
    BY <1>2, Zenon DEF Smoldering!LastOf, Adversarial!LastOf
  <2>4. QED BY <2>1, <2>2, <2>3, Zenon DEF Smoldering!Recorded, Adversarial!Recorded
<1>4. ASSUME NEW h, NEW c
      PROVE  Smoldering!Entropy(h, c) = Adversarial!Entropy(h, c)
  <2>1. Smoldering!DepthScore(c.depth) = Adversarial!DepthScore(c.depth)
    BY Zenon DEF Smoldering!DepthScore, Adversarial!DepthScore, Smoldering!Lesser,
     Adversarial!Lesser
  <2>2. Smoldering!RetryScore(c.retry_count) = Adversarial!RetryScore(c.retry_count)
    BY Zenon DEF Smoldering!RetryScore, Adversarial!RetryScore, Smoldering!Lesser,
     Adversarial!Lesser
  <2>3. Smoldering!FailureScore(h) = Adversarial!FailureScore(h)
    BY Zenon DEF Smoldering!FailureScore, Adversarial!FailureScore, Smoldering!LastOf,
     Adversarial!LastOf, Smoldering!Lesser, Adversarial!Lesser, Smoldering!Greater,
     Adversarial!Greater, Smoldering!Rounded, Adversarial!Rounded, Smoldering!CountOf,
     Adversarial!CountOf, Smoldering!Cardinality, Adversarial!Cardinality,
     Smoldering!IsFiniteSet, Adversarial!IsFiniteSet
  <2>4. Smoldering!RepeatedTool(h, c.tool) = Adversarial!RepeatedTool(h, c.tool)
    BY DEF Smoldering!RepeatedTool, Adversarial!RepeatedTool
  <2>5. Smoldering!CostScore(h, c.cumulative_calls) = Adversarial!CostScore(h, c.cumulative_calls)
    BY Zenon DEF Smoldering!CostScore, Adversarial!CostScore, Smoldering!Lesser,
     Adversarial!Lesser, Smoldering!Greater, Adversarial!Greater, Smoldering!Rounded,
     Adversarial!Rounded, Smoldering!CountOf, Adversarial!CountOf, Smoldering!Cardinality,
     Adversarial!Cardinality, Smoldering!IsFiniteSet, Adversarial!IsFiniteSet
  <2>6. Smoldering!LongMemoryScore(h) = Adversarial!LongMemoryScore(h)
    <3> DEFINE point == Adversarial!OneEwma \div 1000
               doubled == 2 * h.ewma
    <3>1. Smoldering!LongMemoryScore(h) = Smoldering!Lesser(Smoldering!Rounded(doubled, point), 2000)
      BY DEF Smoldering!LongMemoryScore, Smoldering!OneEwma, Adversarial!OneEwma
    <3>2. Adversarial!LongMemoryScore(h) = Adversarial!Lesser(Adversarial!Rounded(doubled, point), 2000)
      BY DEF Adversarial!LongMemoryScore
    <3> HIDE DEF point, doubled
    <3>3. Smoldering!Lesser(Smoldering!Rounded(doubled, point), 2000)
            = Adversarial!Lesser(Adversarial!Rounded(doubled, point), 2000)
      BY Zenon DEF Smoldering!Lesser, Adversarial!Lesser, Smoldering!Rounded, Adversarial!Rounded
    <3>4. QED BY <3>1, <3>2, <3>3
  <2>7. Smoldering!Lesser(c.latency, 2000) = Adversarial!Lesser(c.latency, 2000)
    BY Zenon DEF Smoldering!Lesser, Adversarial!Lesser
  <2>8. QED BY <2>1, <2>2, <2>3, <2>4, <2>5, <2>6, <2>7 DEF Smoldering!Entropy, Adversarial!Entropy
<1>5. QED BY <1>1, <1>2, <1>3, <1>4

\* The second showcase's trust is never negative either.
LEMMA SmolderingTrustIsNat ==
  ASSUME NEW h, IsHistory(h), NEW entropy \in Nat
  PROVE  Smoldering!Trust(h, entropy) \in Nat
<1> DEFINE n == Len(h.recent)
           won == Smoldering!CountOf(h.recent, TRUE)
           num == CASE n = 0 -> 13 [] n > 0 /\ 10 * won >= 3 * n -> won [] OTHER -> 3
           den == CASE n = 0 -> 20 [] n > 0 /\ 10 * won >= 3 * n -> n   [] OTHER -> 10
           penalty == Smoldering!Lesser(entropy, 8400)
           above == 12 * (1000 * num + 200 * den) - penalty * den
           quotient == Smoldering!Rounded(above, 12 * den)
<1>1. n \in Nat /\ won \in Nat
  <2>1. n \in Nat
    BY LenProperties DEF IsHistory
  <2>2. won = Adversarial!CountOf(h.recent, TRUE)
    BY Zenon DEF Smoldering!CountOf, Adversarial!CountOf, Smoldering!Cardinality,
       Adversarial!Cardinality, Smoldering!IsFiniteSet, Adversarial!IsFiniteSet
  <2>3. QED BY <2>1, <2>2, CountsAreNat DEF IsHistory
<1> HIDE DEF n, won
<1>2. num \in Nat /\ den \in Nat \ {0}
  BY <1>1
<1>3. penalty \in Nat
  BY DEF Smoldering!Lesser
<1> HIDE DEF num, den, penalty
<1>4. above \in Int /\ 12 * den \in Nat \ {0}
  BY <1>2, <1>3
<1> HIDE DEF above
<1>5. quotient \in Int
  BY <1>4, RoundedIsInt, SameGate
<1> HIDE DEF quotient
<1>6. Smoldering!Greater(0, Smoldering!Lesser(1000, quotient)) \in Nat
  BY <1>5 DEF Smoldering!Greater, Smoldering!Lesser
<1>7. Smoldering!Trust(h, entropy) = Smoldering!Greater(0, Smoldering!Lesser(1000, quotient))
  BY DEF Smoldering!Trust, quotient, above, num, den, penalty, n, won
<1>8. QED BY <1>6, <1>7

\* The calls an action plans.
Plan(action) ==
  /\ action.tool \in Services /\ action.calls \in {1, 8, 9}
  /\ action.depth \in Nat /\ action.depth <= 3

\* Both agents plan so.
LEMMA AdversaryPlans ==
  ASSUME NEW action \in Actions, show \in Adversaries
  PROVE  Plan(action)
<1>1. action = Cooldown \/ \E target \in Targets, calls \in {8, 9} : action = Attack(target, calls)
  BY DEF Actions, AdversarialActions, SmolderingActions, KnownTargets
<1>2. CASE action = Cooldown
  BY <1>2 DEF Cooldown, Adversarial!Cooldown, Adversarial!Action, Services, Dependencies, Plan
<1>3. ASSUME NEW target \in Targets, NEW calls \in {8, 9}, action = Attack(target, calls)
      PROVE  Plan(action)
  <2>1. target \in Services
    BY ShowcasesAssumption
  <2>2. action.tool = target /\ action.calls = calls /\ action.depth = Depth(target)
    BY <1>3 DEF Attack, Adversarial!Action
  <2>3. QED BY <2>1, <2>2, DepthIsSmall DEF Plan
<1>4. QED BY <1>1, <1>2, <1>3

\* RNOS of one of the two showcases refuses.
RnosRefuses(h, c) ==
  Adversarial!Evaluate(h, c) = "REFUSE" \/ Smoldering!Evaluate(h, c) = "REFUSE"

\* Without a streak RNOS refuses only when failures last.
LEMMA StreaklessRefusal ==
  ASSUME NEW h, IsRecent(h), NEW c, c.depth \in Nat, c.depth <= 3, c.retry_count = 0,
         c.latency \in {0, 40}, c.cumulative_calls \in Nat,
         RnosRefuses(h, c)
  PROVE  Lasting(h)
<1> DEFINE entropy == Adversarial!Entropy(h, c)
           trust == Adversarial!Trust(h, entropy)
           confidence == Smoldering!Trust(h, entropy)
           depth == Adversarial!DepthScore(c.depth)
           retry == Adversarial!RetryScore(c.retry_count)
           late == Adversarial!Lesser(c.latency, 2000)
           failing == Adversarial!FailureScore(h)
           repeated == Adversarial!RepeatedTool(h, c.tool)
           cost == Adversarial!CostScore(h, c.cumulative_calls)
           memory == Adversarial!LongMemoryScore(h)
<1>1. NatUpTo(failing, 3000) /\ NatUpTo(repeated, 2000) /\ NatUpTo(cost, 2000) /\ NatUpTo(memory, 2000)
  BY MemoryIsBounded DEF IsRecent
<1>2. NatUpTo(depth, 1800)
  <2> DEFINE d == c.depth
  <2>1. d \in Nat /\ d <= 3
    OBVIOUS
  <2> HIDE DEF d
  <2>2. NatUpTo(Adversarial!DepthScore(d), 1800)
    BY <2>1 DEF Adversarial!DepthScore, Adversarial!Lesser, NatUpTo
  <2>3. QED BY <2>2 DEF d
<1>3. retry = 0 /\ NatUpTo(late, 40)
  BY DEF Adversarial!RetryScore, Adversarial!Lesser, NatUpTo
<1>4. entropy = depth + retry + failing + repeated + late + cost + memory
  BY Zenon DEF Adversarial!Entropy
<1>5. /\ Adversarial!Evaluate(h, c) = Adversarial!Policy(entropy, trust)
      /\ Smoldering!Evaluate(h, c) = Smoldering!Policy(entropy, confidence)
  <2>1. Smoldering!Entropy(h, c) = entropy
    BY SameGate
  <2>2. Smoldering!Evaluate(h, c)
          = Smoldering!Policy(Smoldering!Entropy(h, c), Smoldering!Trust(h, Smoldering!Entropy(h, c)))
    BY Zenon DEF Smoldering!Evaluate
  <2>3. Smoldering!Evaluate(h, c) = Smoldering!Policy(entropy, confidence)
    BY <2>1, <2>2, Zenon
  <2>4. Adversarial!Evaluate(h, c) = Adversarial!Policy(entropy, trust)
    BY Zenon DEF Adversarial!Evaluate, entropy, trust
  <2>5. QED BY <2>3, <2>4
<1> HIDE DEF entropy, depth, retry, late, failing, repeated, cost, memory
<1>6. entropy \in Nat
  BY <1>1, <1>2, <1>3, <1>4 DEF NatUpTo
<1>7. trust \in Nat /\ confidence \in Nat
  BY <1>6, TrustIsNat, SmolderingTrustIsNat DEF IsRecent
<1> HIDE DEF trust, confidence
<1>8. entropy >= 10200
  <2>1. ~(trust <= 0 - 100) /\ ~(confidence <= 0 - 100)
    BY <1>7
  <2>2. QED BY <1>5, <2>1 DEF RnosRefuses, Adversarial!Policy, Smoldering!Policy
<1>9. memory >= 1360
  BY <1>1, <1>2, <1>3, <1>4, <1>8 DEF NatUpTo
<1> DEFINE point == Adversarial!OneEwma \div 1000
           doubled == 2 * h.ewma
           quotient == doubled \div point
<1>10. point = 100000 /\ doubled \in Nat
  BY DEF Adversarial!OneEwma, IsRecent, IsHistory
<1>11. memory = Adversarial!Lesser(Adversarial!Rounded(doubled, point), 2000)
  BY DEF memory, Adversarial!LongMemoryScore
<1> HIDE DEF doubled, point
<1>12. quotient \in Int /\ point * quotient <= doubled
  BY <1>10
<1> HIDE DEF quotient
<1>13. quotient >= 1359
  <2>1. Adversarial!Rounded(doubled, point) \in {quotient, quotient + 1}
    BY DEF Adversarial!Rounded, quotient
  <2> DEFINE twice == Adversarial!Rounded(doubled, point)
  <2> HIDE DEF twice
  <2>2. twice >= 1360
    <3>1. twice \in Int
      BY <1>12, <2>1 DEF twice
    <3>2. QED BY <1>9, <1>11, <3>1 DEF Adversarial!Lesser, twice
  <2>3. QED BY <1>12, <2>1, <2>2 DEF twice
<1>14. doubled >= 135900000
  BY <1>10, <1>12, <1>13
<1>15. 3 * h.ewma >= 2 * Adversarial!OneEwma
  BY <1>14 DEF doubled, Adversarial!OneEwma, IsRecent, IsHistory
<1>16. QED BY <1>15 DEF Lasting
\* What a step of RNOS does to the run: a refusal leaves the history as it is and fades
\* the streak, everything else is executed and heard of.
GateStepped(r, n, action, success) ==
  /\ DOMAIN n = ShowFields /\ n.calls \in Nat
  /\ \/ /\ n.decision = "REFUSE" /\ RnosRefuses(r.history, Adversarial!ActionRecord(r, action))
        /\ n.history = r.history /\ n.latency = r.latency
        /\ n.retry_streak = Adversarial!Greater(0, r.retry_streak - 1)
     \/ /\ n.decision # "REFUSE"
        /\ n.history = Adversarial!Recorded(r.history, action.tool, success) /\ n.latency = 40
        /\ n.retry_streak = IF success THEN 0 ELSE r.retry_streak + 1

\* The first showcase steps so.
LEMMA AdversarialSteps ==
  ASSUME NEW r, DOMAIN r = ShowFields, r.calls \in Nat, NEW action, Plan(action), NEW success, NEW k
  PROVE  GateStepped(r, Adversarial!Ran("rnos", r, action, success, k), action, success)
<1> DEFINE c == Adversarial!ActionRecord(r, action)
           decision == Adversarial!Evaluate(r.history, c)
           answer == Adversarial!AnswerOf("rnos", r, action)
           asked == Adversarial!Asked("rnos", r, action, answer, k)
           settled == Adversarial!Settled("rnos", asked, action, success, k)
           n == Adversarial!Ran("rnos", r, action, success, k)
<1>1. /\ answer.decision = decision
      /\ answer.trigger = IF decision = "ALLOW" THEN "none" ELSE "rnos"
  BY DEF Adversarial!AnswerOf, Adversarial!RnosAnswer, Adversarial!Answer
<1>2. decision = "REFUSE" => RnosRefuses(r.history, c)
  BY DEF RnosRefuses
<1>3. decision \in {"REFUSE", "DEGRADE", "ALLOW"}
  BY DEF Adversarial!Evaluate, Adversarial!Policy
<1> HIDE DEF answer, decision, c
<1>4. LET factor == AdversarialClamp("rnos", answer.decision, answer.trigger, answer.reason)
      IN  factor = IF decision = "REFUSE" THEN 0 ELSE IF decision = "DEGRADE" THEN 52 ELSE 100
  BY <1>1 DEF AdversarialClamp
<1>5. LET executed == Adversarial!ExecutedCalls("rnos", action, answer)
      IN  executed \in Nat /\ (executed > 0 <=> decision # "REFUSE")
  <2>1. \A calls \in {1, 8, 9}, factor \in {0, 52, 100} :
          /\ Adversarial!Rounded(calls * factor, 100) \in Nat
          /\ Adversarial!Rounded(calls * factor, 100) > 0 <=> factor # 0
    BY DEF Adversarial!Rounded
  <2>2. QED BY <1>3, <1>4, <2>1 DEF Adversarial!ExecutedCalls, Plan
<1>6. /\ DOMAIN asked = ShowFields
      /\ asked.history = r.history /\ asked.latency = r.latency /\ asked.calls = r.calls
      /\ asked.retry_streak = r.retry_streak /\ asked.decision = decision
      /\ asked.executed \in Nat /\ (asked.executed > 0 <=> decision # "REFUSE")
  BY <1>1, <1>5 DEF Adversarial!Asked, ShowFields
<1> HIDE DEF asked
<1>7. /\ DOMAIN settled = ShowFields
      /\ settled.calls = asked.calls /\ settled.executed = asked.executed
      /\ settled.decision = asked.decision
      /\ \/ /\ decision = "REFUSE"
            /\ settled.history = asked.history /\ settled.latency = asked.latency
            /\ settled.retry_streak = Adversarial!Greater(0, asked.retry_streak - 1)
         \/ /\ decision # "REFUSE"
            /\ settled.history = Adversarial!Recorded(asked.history, action.tool, success)
            /\ settled.latency = 40
            /\ settled.retry_streak = IF success THEN 0 ELSE asked.retry_streak + 1
  <2>1. CASE asked.executed > 0
    BY <1>6, <2>1 DEF Adversarial!Settled, Adversarial!Heard, ShowFields
  <2>2. CASE ~(asked.executed > 0)
    BY <1>6, <2>2 DEF Adversarial!Settled, Adversarial!Quieted, ShowFields
  <2>3. QED BY <2>1, <2>2
<1> HIDE DEF settled
<1>8. /\ DOMAIN n = ShowFields /\ n.history = settled.history /\ n.latency = settled.latency
      /\ n.retry_streak = settled.retry_streak /\ n.decision = settled.decision
      /\ n.calls = Adversarial!Lesser(20, settled.calls + settled.executed)
  BY <1>7 DEF Adversarial!Ran, Adversarial!Counted, settled, asked, answer, ShowFields
<1> HIDE DEF n
<1>9. n.calls \in Nat
  BY <1>6, <1>7, <1>8 DEF Adversarial!Lesser
<1>10. GateStepped(r, n, action, success)
  BY <1>2, <1>6, <1>7, <1>8, <1>9 DEF GateStepped, c
<1>11. QED BY <1>10 DEF n

\* The second one does, too: it only degrades earlier, and to more calls.
LEMMA SmolderingSteps ==
  ASSUME NEW r, DOMAIN r = ShowFields, r.calls \in Nat, NEW action, Plan(action), NEW success, NEW k
  PROVE  GateStepped(r, Smoldering!Ran("rnos", r, action, success, k), action, success)
<1> DEFINE c == Smoldering!ActionRecord(r, action)
           decision == Smoldering!Evaluate(r.history, c)
           answer == Smoldering!AnswerOf("rnos", r, action)
           asked == Smoldering!Asked("rnos", r, action, answer, k)
           settled == Smoldering!Settled("rnos", asked, action, success, k)
           n == Smoldering!Ran("rnos", r, action, success, k)
<1>1. /\ answer.decision = decision
      /\ answer.trigger = IF decision = "ALLOW" THEN "none" ELSE "rnos"
  BY DEF Smoldering!AnswerOf, Smoldering!RnosAnswer, Smoldering!Answer
<1>2. c = Adversarial!ActionRecord(r, action) /\ (decision = "REFUSE" => RnosRefuses(r.history, c))
  BY DEF RnosRefuses, Smoldering!ActionRecord, Adversarial!ActionRecord
<1>3. decision \in {"REFUSE", "DEGRADE", "ALLOW"}
  BY DEF Smoldering!Evaluate, Smoldering!Policy
<1> HIDE DEF answer, decision, c
<1>4. LET factor == SmolderingClamp("rnos", answer.decision, answer.trigger, answer.reason)
      IN  factor = IF decision = "REFUSE" THEN 0 ELSE IF decision = "DEGRADE" THEN 60 ELSE 100
  BY <1>1 DEF SmolderingClamp
<1>5. LET executed == Smoldering!ExecutedCalls("rnos", action, answer)
      IN  executed \in Nat /\ (executed > 0 <=> decision # "REFUSE")
  <2>1. \A calls \in {1, 8, 9}, factor \in {0, 60, 100} :
          /\ Smoldering!Rounded(calls * factor, 100) \in Nat
          /\ Smoldering!Rounded(calls * factor, 100) > 0 <=> factor # 0
    BY DEF Smoldering!Rounded
  <2>2. QED BY <1>3, <1>4, <2>1 DEF Smoldering!ExecutedCalls, Plan
<1>6. /\ DOMAIN asked = ShowFields
      /\ asked.history = r.history /\ asked.latency = r.latency /\ asked.calls = r.calls
      /\ asked.retry_streak = r.retry_streak /\ asked.decision = decision
      /\ asked.executed \in Nat /\ (asked.executed > 0 <=> decision # "REFUSE")
  BY <1>1, <1>5 DEF Smoldering!Asked, ShowFields
<1> HIDE DEF asked
<1>7. /\ DOMAIN settled = ShowFields
      /\ settled.calls = asked.calls /\ settled.executed = asked.executed
      /\ settled.decision = asked.decision
      /\ \/ /\ decision = "REFUSE"
            /\ settled.history = asked.history /\ settled.latency = asked.latency
            /\ settled.retry_streak = Adversarial!Greater(0, asked.retry_streak - 1)
         \/ /\ decision # "REFUSE"
            /\ settled.history = Adversarial!Recorded(asked.history, action.tool, success)
            /\ settled.latency = 40
            /\ settled.retry_streak = IF success THEN 0 ELSE asked.retry_streak + 1
  <2>1. CASE asked.executed > 0
    <3>1. /\ DOMAIN settled = ShowFields
          /\ settled.calls = asked.calls /\ settled.executed = asked.executed
          /\ settled.decision = asked.decision
          /\ settled.history = Smoldering!Recorded(asked.history, action.tool, success)
          /\ settled.latency = 40
          /\ settled.retry_streak = IF success THEN 0 ELSE asked.retry_streak + 1
      BY <1>6, <2>1 DEF Smoldering!Settled, Smoldering!Heard, ShowFields
    <3> HIDE DEF settled
    <3>2. QED BY <1>6, <2>1, <3>1, SameGate
  <2>2. CASE ~(asked.executed > 0)
    <3>1. /\ DOMAIN settled = ShowFields
          /\ settled.calls = asked.calls /\ settled.executed = asked.executed
          /\ settled.decision = asked.decision
          /\ settled.history = asked.history /\ settled.latency = asked.latency
          /\ settled.retry_streak = Smoldering!Greater(0, asked.retry_streak - 1)
      BY <1>6, <2>2 DEF Smoldering!Settled, Smoldering!Quieted, ShowFields
    <3> HIDE DEF settled
    <3>2. QED BY <1>6, <2>2, <3>1, SameGate
  <2>3. QED BY <2>1, <2>2
<1> HIDE DEF settled
<1>8. /\ DOMAIN n = ShowFields /\ n.history = settled.history /\ n.latency = settled.latency
      /\ n.retry_streak = settled.retry_streak /\ n.decision = settled.decision
      /\ n.calls = Smoldering!Lesser(20, settled.calls + settled.executed)
  BY <1>7 DEF Smoldering!Ran, Smoldering!Counted, settled, asked, answer, ShowFields
<1> HIDE DEF n
<1>9. n.calls \in Nat
  BY <1>6, <1>7, <1>8 DEF Smoldering!Lesser
<1>10. GateStepped(r, n, action, success)
  BY <1>2, <1>6, <1>7, <1>8, <1>9 DEF GateStepped
<1>11. QED BY <1>10 DEF n

\* A run of RNOS after so many refusals in a row: together with the streak they are no
\* more than the latest calls that failed, unless failures last.
Wearing(r, refused) ==
  /\ DOMAIN r = ShowFields /\ IsRecent(r.history)
  /\ r.retry_streak \in Nat /\ r.calls \in Nat /\ r.latency \in {0, 40} /\ refused \in Nat
  /\ Lasting(r.history) \/ FailedLast(r.history, r.retry_streak + refused)

\* A step keeps it so: a refusal is taken off the streak, a call adds to both sides.
LEMMA WearingStep ==
  ASSUME NEW r, NEW refused, Wearing(r, refused), NEW action, Plan(action),
         NEW success \in BOOLEAN, NEW n, GateStepped(r, n, action, success)
  PROVE  Wearing(n, IF n.decision = "REFUSE" THEN refused + 1 ELSE 0)
<1> DEFINE c == Adversarial!ActionRecord(r, action)
           streak == r.retry_streak
           g == Adversarial!Recorded(r.history, action.tool, success)
<1>1. streak \in Nat /\ refused \in Nat
  BY DEF Wearing
<1>2. /\ DOMAIN n = ShowFields /\ n.calls \in Nat
  BY DEF GateStepped
<1>3. CASE n.decision = "REFUSE"
  <2>1. /\ RnosRefuses(r.history, c) /\ n.history = r.history /\ n.latency = r.latency
        /\ n.retry_streak = Adversarial!Greater(0, streak - 1)
    BY <1>3 DEF GateStepped
  <2>2. Lasting(r.history) \/ FailedLast(r.history, streak + refused)
    BY DEF Wearing
  <2>3. CASE streak = 0
    <3>1. /\ c.depth = action.depth /\ c.retry_count = streak /\ c.latency = r.latency
          /\ c.cumulative_calls = r.calls
      BY DEF Adversarial!ActionRecord
    <3> HIDE DEF c
    <3>2. Lasting(r.history)
      BY <2>1, <2>3, <3>1, StreaklessRefusal DEF Wearing, Plan
    <3>3. n.retry_streak \in Nat
      BY <2>1, <2>3 DEF Adversarial!Greater
    <3>4. QED BY <1>1, <1>2, <1>3, <2>1, <3>2, <3>3 DEF Wearing
  <2>4. CASE streak # 0
    <3>1. n.retry_streak = streak - 1 /\ n.retry_streak \in Nat
      BY <1>1, <2>1, <2>4 DEF Adversarial!Greater
    <3>2. n.retry_streak + (refused + 1) = streak + refused
      BY <1>1, <3>1
    <3>3. QED BY <1>1, <1>2, <1>3, <2>1, <2>2, <3>1, <3>2 DEF Wearing
  <2>5. QED BY <2>3, <2>4
<1>4. CASE n.decision # "REFUSE"
  <2>1. /\ n.history = g /\ n.latency = 40
        /\ n.retry_streak = IF success THEN 0 ELSE streak + 1
    BY <1>4 DEF GateStepped
  <2>2. /\ IsRecent(g) /\ FailedLast(g, 0)
        /\ \A m : ~success /\ (Lasting(r.history) \/ FailedLast(r.history, m)) =>
             Lasting(g) \/ FailedLast(g, m + 1)
    BY RowOfFailures DEF Wearing, Plan
  <2> HIDE DEF g
  <2>3. Lasting(r.history) \/ FailedLast(r.history, streak)
    <3>1. ASSUME FailedLast(r.history, streak + refused)
          PROVE  FailedLast(r.history, streak)
      <4>1. Len(r.history.recent) \in Nat
        BY LenProperties DEF Wearing, IsRecent, IsHistory
      <4>2. DOMAIN r.history.recent = 1..Len(r.history.recent)
        BY LenProperties DEF Wearing, IsRecent, IsHistory
      <4> HIDE DEF streak
      <4>3. QED BY <1>1, <3>1, <4>1, <4>2 DEF FailedLast
    <3>2. QED BY <3>1 DEF Wearing
  <2>4. CASE success
    BY <1>1, <1>2, <1>4, <2>1, <2>2, <2>4 DEF Wearing
  <2>5. CASE ~success
    <3>1. Lasting(g) \/ FailedLast(g, streak + 1)
      BY <2>2, <2>3, <2>5
    <3>2. n.retry_streak = streak + 1 /\ n.retry_streak \in Nat /\ n.retry_streak + 0 = streak + 1
      BY <1>1, <2>1, <2>5
    <3>3. QED BY <1>2, <1>4, <2>1, <2>2, <3>1, <3>2 DEF Wearing
  <2>6. QED BY <2>4, <2>5
<1>5. QED BY <1>3, <1>4

\* A run of RNOS starts so.
LEMMA WearingFirst == Wearing(Adversarial!NewRun, 0)
<1> DEFINE r == Adversarial!NewRun
<1>1. /\ DOMAIN r = ShowFields /\ r.history = Adversarial!NewHistory
      /\ r.retry_streak = 0 /\ r.calls = 0 /\ r.latency = 0
  BY DEF Adversarial!NewRun, ShowFields
<1> HIDE DEF r
<1>2. IsRecent(Adversarial!NewHistory) /\ FailedLast(Adversarial!NewHistory, 0)
  <2>1. IsHistory(Adversarial!NewHistory)
    BY DEF IsHistory, Adversarial!NewHistory
  <2>2. Adversarial!NewHistory.recent = << >> /\ Adversarial!NewHistory.ewma = 0
    BY DEF Adversarial!NewHistory
  <2>3. QED BY <2>1, <2>2 DEF IsRecent, FailedLast, Adversarial!OneEwma
<1>3. Wearing(r, 0)
  BY <1>1, <1>2 DEF Wearing
<1>4. QED BY <1>3 DEF r

\* The refusals an adversary counts wear off.
WearInv ==
  show \in Adversaries /\ mode = "rnos" => Wearing(run, agent.recent_refusals)

\* Its steps keep it so; the other actions are not an adversary's.
LEMMA WearStep ==
  ASSUME WearInv, [ShowNext]_showVars
  PROVE  WearInv'
<1>1. ASSUME NEW action \in Actions, NEW success \in BOOLEAN, Adversary(action, success)
      PROVE  WearInv'
  <2>1. /\ show' = show /\ mode' = mode /\ show \in Adversaries /\ run' = Ran(action, success)
    BY <1>1 DEF Adversary
  <2>2. SUFFICES ASSUME mode = "rnos"
                 PROVE  Wearing(run', agent'.recent_refusals)
    BY <2>1 DEF WearInv
  <2>3. Wearing(run, agent.recent_refusals)
    BY <2>1, <2>2 DEF WearInv
  <2>4. DOMAIN run = ShowFields /\ run.calls \in Nat
    BY <2>3 DEF Wearing
  <2>5. Plan(action)
    BY <2>1, AdversaryPlans
  <2>6. GateStepped(run, run', action, success)
    <3>1. CASE show = "adversarial"
      <4>1. run' = Adversarial!Ran("rnos", run, action, success, step + 1)
        BY <2>1, <2>2, <3>1 DEF Ran, AdversarialRan
      <4>2. QED BY <2>4, <2>5, <4>1, AdversarialSteps
    <3>2. CASE show # "adversarial"
      <4>1. run' = Smoldering!Ran("rnos", run, action, success, step + 1)
        BY <2>1, <2>2, <3>2 DEF Ran, SmolderingRan
      <4>2. QED BY <2>4, <2>5, <4>1, SmolderingSteps
    <3>3. QED BY <3>1, <3>2
  <2>7. agent'.recent_refusals =
          IF run'.decision = "REFUSE" THEN agent.recent_refusals + 1 ELSE 0
    BY <1>1 DEF Adversary, AdversarialObserved, SmolderingObserved
  <2>8. QED BY <2>3, <2>5, <2>6, <2>7, WearingStep
<1>2. CASE UNCHANGED showVars
  BY <1>2 DEF WearInv, showVars
<1>3. CASE ShowNext /\ show \notin Adversaries
  <2>1. show' = show
    BY <1>3, ShowIsFixed
  <2>2. QED BY <1>3, <2>1 DEF WearInv
<1>4. CASE ShowNext /\ show \in Adversaries
  <2>1. \E action \in Actions, success \in BOOLEAN : Adversary(action, success)
    BY <1>4 DEF ShowNext, Watch, Calls, Call, Script, Listed, Storm, Audited,
       Accumulate, Burst, Traced, Adversaries, Audits, ScriptedShows, Accumulators
  <2>2. QED BY <1>1, <2>1
<1>5. QED BY <1>2, <1>3, <1>4

\* A refusal of RNOS wears off in both showcases, whatever the agent aims at and whatever
\* comes of it, until failures fill its memories (_run_mode, evaluate_policy).
THEOREM RefusalsFade == ShowSpec => []RefusalsWearOff
<1>1. ASSUME ShowInit
      PROVE  WearInv
  <2>1. SUFFICES ASSUME show \in Adversaries
                 PROVE  Wearing(run, agent.recent_refusals)
    BY DEF WearInv
  <2>2. run \in FreshShow(show) /\ agent.recent_refusals = 0
    BY <1>1 DEF ShowInit, NewAgent
  <2>3. run = Adversarial!NewRun
    BY <2>1, <2>2, SMTT(40) DEF FreshShow, Adversaries, Audits, ScriptedShows, Accumulators
  <2>4. QED BY <2>2, <2>3, WearingFirst
<1>2. WearInv /\ [ShowNext]_showVars => WearInv'
  BY WearStep
<1>3. WearInv => RefusalsWearOff
  <2> DEFINE h == run.history
             refused == agent.recent_refusals
  <2>1. SUFFICES ASSUME WearInv, show \in Adversaries, mode = "rnos"
                 PROVE  Lasting(h) \/ FailedLast(h, refused)
    BY DEF RefusalsWearOff, Lasting, FailedLast
  <2>2. /\ IsRecent(h) /\ run.retry_streak \in Nat /\ refused \in Nat
        /\ Lasting(h) \/ FailedLast(h, run.retry_streak + refused)
    BY <2>1 DEF WearInv, Wearing
  <2>3. Len(h.recent) \in Nat /\ DOMAIN h.recent = 1..Len(h.recent)
    BY <2>2, LenProperties DEF IsRecent, IsHistory
  <2> HIDE DEF h, refused
  <2>4. QED BY <2>2, <2>3 DEF FailedLast
<1>4. QED BY <1>1, <1>2, <1>3, PTL DEF ShowSpec

-----------------------------------------------------------------------------
(* The coherence analysis, by induction over the rows of a trace.          *)

\* What holds of zero, and of the number after each it holds of, holds of all numbers.
LEMMA FromZeroOn ==
  ASSUME NEW S \in SUBSET Nat, 0 \in S, \A n \in S : n + 1 \in S
  PROVE  S = Nat
<1> DEFINE T == Nat \ S
           R == OpToRel(<, Nat)
<1>1. SUFFICES ASSUME T # {} PROVE FALSE
  OBVIOUS
<1>2. IsWellFoundedOn(R, Nat)
  BY NatLessThanWellFounded
<1>3. T \subseteq Nat
  OBVIOUS
<1>4. PICK x \in T : \A y \in T : ~(<<y, x>> \in R)
  <2> HIDE DEF T, R
  <2> QED BY <1>1, <1>2, <1>3, WFMin
<1>5. x \in Nat /\ x \notin S /\ x # 0
  OBVIOUS
<1>6. x - 1 \in Nat /\ (x - 1) + 1 = x /\ x - 1 < x
  BY <1>5
<1>7. x - 1 \in T
  BY <1>5, <1>6
<1>8. <<x - 1, x>> \in R
  BY <1>5, <1>6 DEF OpToRel
<1> QED BY <1>4, <1>7, <1>8

\* The latest of some rows, which a fold takes off last.
LastRow(s) == Canonical!Max(s)

\* The latest of some rows is one of them, the last of all if it is among them.
LEMMA LatestRow ==
  ASSUME NEW k \in Nat, NEW s \in SUBSET (1..(k + 1))
  PROVE  /\ k + 1 \in s => LastRow(s) = k + 1
         /\ k + 1 \notin s => s \subseteq 1..k
<1>1. \A x \in s : x \in Nat /\ x <= k + 1
  OBVIOUS
<1>2. ASSUME k + 1 \in s PROVE LastRow(s) = k + 1
  <2>1. \A y \in s : k + 1 >= y
    BY <1>1
  <2>2. \A x \in s : (\A y \in s : x >= y) => x = k + 1
    BY <1>1, <1>2
  <2>3. QED BY <1>2, <2>1, <2>2 DEF LastRow, Canonical!Max
<1>3. k + 1 \notin s => s \subseteq 1..k
  BY <1>1
<1>4. QED BY <1>2, <1>3

\* The rows up to k, without the last of them.
LEMMA RowsBefore ==
  ASSUME NEW n \in Nat, NEW k \in 1..n
  PROVE  /\ 1..k \in SUBSET (1..n) /\ 1..k # {}
         /\ LastRow(1..k) = k /\ (1..k) \ {k} = 1..(k - 1)
<1>1. k \in Nat /\ k - 1 \in Nat /\ k \in 1..k /\ (k - 1) + 1 = k
  OBVIOUS
<1>2. LastRow(1..k) = k
  <2>1. \A s \in SUBSET (1..((k - 1) + 1)) : (k - 1) + 1 \in s => LastRow(s) = (k - 1) + 1
    BY <1>1, LatestRow
  <2>2. QED BY <1>1, <2>1
<1>3. QED BY <1>1, <1>2

\* Going through the rows from the first to the last has a result.
LEMMA RowByRow ==
  ASSUME NEW V, NEW base \in V, NEW n \in Nat, NEW op \in [V \X (1..n) -> V]
  PROVE  \E iter \in [SUBSET (1..n) -> V] :
           /\ iter = [s \in SUBSET (1..n) |->
                        IF s = {} THEN base ELSE op[<<iter[s \ {LastRow(s)}], LastRow(s)>>]]
           /\ \A s \in SUBSET (1..n) : s # {} => LastRow(s) \in s
<1> DEFINE Holds(k) ==
             k <= n =>
               \E iter \in [SUBSET (1..k) -> V] :
                 /\ iter = [s \in SUBSET (1..k) |->
                              IF s = {} THEN base ELSE op[<<iter[s \ {LastRow(s)}], LastRow(s)>>]]
                 /\ \A s \in SUBSET (1..k) : s # {} => LastRow(s) \in s
           S == {k \in Nat : Holds(k)}
<1>1. Holds(0)
  <2>1. SUBSET (1..0) = {{}}
    OBVIOUS
  <2> DEFINE f == [s \in SUBSET (1..0) |-> base]
  <2>2. f \in [SUBSET (1..0) -> V]
    OBVIOUS
  <2>3. f = [s \in SUBSET (1..0) |->
               IF s = {} THEN base ELSE op[<<f[s \ {LastRow(s)}], LastRow(s)>>]]
    <3>1. \A s \in SUBSET (1..0) : s = {}
      BY <2>1
    <3>2. f = [s \in SUBSET (1..0) |-> base]
      OBVIOUS
    <3> DEFINE Rest(s) == op[<<f[s \ {LastRow(s)}], LastRow(s)>>]
    <3> HIDE DEF f, Rest
    <3>3. f = [s \in SUBSET (1..0) |-> IF s = {} THEN base ELSE Rest(s)]
      BY <3>1, <3>2
    <3>4. QED BY <3>3 DEF Rest
  <2>4. \A s \in SUBSET (1..0) : s # {} => LastRow(s) \in s
    BY <2>1
  <2> HIDE DEF f
  <2>5. QED BY <2>2, <2>3, <2>4
<1>2. ASSUME NEW k \in Nat, Holds(k), k + 1 <= n PROVE Holds(k + 1)
  <2>1. PICK g \in [SUBSET (1..k) -> V] :
          /\ g = [s \in SUBSET (1..k) |->
                    IF s = {} THEN base ELSE op[<<g[s \ {LastRow(s)}], LastRow(s)>>]]
          /\ \A s \in SUBSET (1..k) : s # {} => LastRow(s) \in s
    <3>1. k <= n
      BY <1>2
    <3>2. QED BY <1>2, <3>1
  <2> DEFINE f == [s \in SUBSET (1..(k + 1)) |->
                     IF s = {} THEN base ELSE op[<<g[s \ {LastRow(s)}], LastRow(s)>>]]
  <2>2. \A s \in SUBSET (1..(k + 1)) :
          s # {} => LastRow(s) \in s /\ s \ {LastRow(s)} \in SUBSET (1..k)
    <3>1. SUFFICES ASSUME NEW s \in SUBSET (1..(k + 1)), s # {}
                   PROVE  LastRow(s) \in s /\ s \ {LastRow(s)} \in SUBSET (1..k)
      OBVIOUS
    <3>2. CASE k + 1 \in s
      <4>1. LastRow(s) = k + 1
        BY <3>2, LatestRow
      <4>2. QED BY <3>2, <4>1
    <3>3. CASE k + 1 \notin s
      <4>1. s \in SUBSET (1..k)
        BY <3>3, LatestRow
      <4>2. QED BY <2>1, <3>1, <4>1
    <3>4. QED BY <3>2, <3>3
  <2>3. \A s \in SUBSET (1..(k + 1)) : s # {} => LastRow(s) \in 1..n
    <3>1. \A s \in SUBSET (1..(k + 1)) : \A m \in s : m \in 1..n
      BY <1>2
    <3>2. QED BY <2>2, <3>1
  <2>4. f \in [SUBSET (1..(k + 1)) -> V]
    <3>1. ASSUME NEW s \in SUBSET (1..(k + 1)), s # {}
          PROVE  op[<<g[s \ {LastRow(s)}], LastRow(s)>>] \in V
      BY <2>1, <2>2, <2>3, <3>1
    <3>2. QED BY <3>1
  <2>5. \A t \in SUBSET (1..k) : f[t] = g[t]
    <3>1. \A t \in SUBSET (1..k) : t \in SUBSET (1..(k + 1))
      OBVIOUS
    <3>2. \A t \in SUBSET (1..k) :
            g[t] = IF t = {} THEN base ELSE op[<<g[t \ {LastRow(t)}], LastRow(t)>>]
      BY <2>1
    <3>3. QED BY <3>1, <3>2
  <2>6. \A s \in SUBSET (1..(k + 1)) :
          f[s] = IF s = {} THEN base ELSE op[<<f[s \ {LastRow(s)}], LastRow(s)>>]
    BY <2>2, <2>5
  <2>7. f = [s \in SUBSET (1..(k + 1)) |->
               IF s = {} THEN base ELSE op[<<f[s \ {LastRow(s)}], LastRow(s)>>]]
    BY <2>6
  <2> HIDE DEF f
  <2>8. QED BY <2>2, <2>4, <2>7
<1>3. S = Nat
  <2>1. S \in SUBSET Nat /\ 0 \in S
    BY <1>1
  <2>2. \A k \in S : k + 1 \in S
    <3>1. SUFFICES ASSUME NEW k \in S PROVE k + 1 \in S
      OBVIOUS
    <3>2. k \in Nat /\ Holds(k)
      OBVIOUS
    <3>3. k + 1 <= n => Holds(k + 1)
      BY <1>2, <3>2
    <3>4. Holds(k + 1)
      BY <3>3
    <3> HIDE DEF Holds
    <3>5. QED BY <3>2, <3>4
  <2> HIDE DEF S
  <2>3. QED BY <2>1, <2>2, FromZeroOn
<1>4. n \in S
  <2> HIDE DEF S
  <2>1. QED BY <1>3
<1>5. Holds(n)
  BY <1>4
<1>6. n <= n
  OBVIOUS
<1>7. QED BY <1>5, <1>6

\* What holds before the first row, and after each row if it holds before, holds after all.
LEMMA AfterTheRows ==
  ASSUME NEW n \in Nat, NEW f, NEW G, f[{}] \in G[0],
         \A k \in 1..n : f[1..(k - 1)] \in G[k - 1] => f[1..k] \in G[k]
  PROVE  f[1..n] \in G[n]
<1> DEFINE Good(k) == k <= n => f[1..k] \in G[k]
           S == {k \in Nat : Good(k)}
<1>1. Good(0)
  <2>1. 1..0 = {}
    OBVIOUS
  <2>2. QED BY <2>1
<1>2. ASSUME NEW k \in Nat, Good(k) PROVE Good(k + 1)
  <2>1. SUFFICES ASSUME k + 1 <= n PROVE f[1..(k + 1)] \in G[k + 1]
    OBVIOUS
  <2>2. k + 1 \in 1..n /\ k <= n /\ (k + 1) - 1 = k
    BY <2>1
  <2>3. f[1..k] \in G[k]
    BY <1>2, <2>2
  <2>4. QED BY <2>2, <2>3
<1>3. S = Nat
  <2> HIDE DEF Good
  <2>1. S \in SUBSET Nat /\ 0 \in S /\ \A k \in S : k + 1 \in S
    BY <1>1, <1>2
  <2> HIDE DEF S
  <2>2. QED BY <2>1, FromZeroOn
<1>4. Good(n)
  <2> HIDE DEF Good
  <2>1. n \in S
    <3> HIDE DEF S
    <3>1. QED BY <1>3
  <2>2. QED BY <2>1
<1>5. QED BY <1>4

TraceRows ==
  [ step : Nat, decision : {"EXECUTE", "BLOCKED", "STOPPED"},
    result : {"SUCCESS", "FAILURE", "NONE"}, emitted : BOOLEAN,
    phase : {"stable", "unstable"}, failures : Nat, latency : {1} ]

\* Something always agrees: what is withheld although it was intended, in the intention,
\* and anything else in the gate.
LEMMA SomethingAgrees ==
  ASSUME NEW row \in TraceRows
  PROVE  Canonical!Agreement(row) > 0
<1> DEFINE a == Canonical!Unit(row.emitted)
           b == Canonical!Unit(Canonical!GateAgrees(row))
           c == Canonical!Unit(row.result # "NONE")
           d == Canonical!Unit(row.decision = "EXECUTE")
<1>1. c \in 0..1 /\ d \in 0..1
  BY DEF Canonical!Unit
<1>2. a \in 0..1 /\ b \in 0..1 /\ (a = 1 \/ b = 1)
  <2>1. CASE row.emitted
    BY <2>1 DEF Canonical!Unit
  <2>2. CASE ~row.emitted
    BY <2>2 DEF Canonical!Unit, Canonical!GateAgrees
  <2>3. QED BY <2>1, <2>2
<1>3. Canonical!Agreement(row) = a + b + c + d
  BY DEF Canonical!Agreement
<1> HIDE DEF a, b, c, d
<1>4. QED BY <1>1, <1>2, <1>3

\* The rows are numbered.
LEMMA RowNumbers ==
  ASSUME NEW trace \in Seq(TraceRows)
  PROVE  /\ Len(trace) \in Nat /\ DOMAIN trace = 1..Len(trace)
         /\ \A i \in 1..Len(trace) : trace[i] \in TraceRows
         /\ DOMAIN Canonical!Indices(trace) = 1..Len(trace)
         /\ \A i \in 1..Len(trace) : Canonical!Indices(trace)[i] = i
<1>1. /\ Len(trace) \in Nat /\ DOMAIN trace = 1..Len(trace)
      /\ \A i \in 1..Len(trace) : trace[i] \in TraceRows
  BY LenProperties, ElementOfSeq
<1>2. QED BY <1>1 DEF Canonical!Indices

\* A row of _longest_zero_r_run.
CountedZero(trace, seen, i) ==
  IF Canonical!Agreement(trace[i]) > 0 THEN [seen EXCEPT !.current = 0]
  ELSE LET current == IF i > 1 /\ trace[i].step = trace[i - 1].step + 1 THEN seen.current + 1 ELSE 1
       IN  [longest |-> Canonical!Greater(seen.longest, current), current |-> current]

NoneSeen == [longest |-> 0, current |-> 0]

\* No row is without any agreement, so no loop out of step is ever found.
LEMMA NeverOutOfStep ==
  ASSUME NEW trace \in Seq(TraceRows)
  PROVE  Canonical!LongestZeroRun(trace) = 0
<1> DEFINE n == Len(trace)
           idx == Canonical!Indices(trace)
           Step(f) == [s \in SUBSET (DOMAIN idx) |->
                         IF s = {} THEN NoneSeen
                         ELSE CountedZero(trace, f[s \ {LastRow(s)}], idx[LastRow(s)])]
           fold == CHOOSE f : f = Step(f)
           V == {NoneSeen}
           op == [p \in V \X (1..n) |-> NoneSeen]
           G == [k \in 0..n |-> V]
<1>1. Canonical!LongestZeroRun(trace) = fold[DOMAIN idx].longest
  <2> HIDE DEF idx
  <2>1. idx = Canonical!Indices(trace)
    BY DEF idx
  <2>2. QED BY <2>1 DEF Canonical!LongestZeroRun, Canonical!FoldLeft, Canonical!MapThenFoldSet,
                  NoneSeen, CountedZero, LastRow
<1>2. /\ n \in Nat /\ \A i \in 1..n : trace[i] \in TraceRows
      /\ DOMAIN idx = 1..n /\ \A i \in 1..n : idx[i] = i
  BY RowNumbers
<1> HIDE DEF n, idx
<1>3. \A i \in 1..n : CountedZero(trace, NoneSeen, idx[i]) = NoneSeen
  BY <1>2, SomethingAgrees DEF CountedZero, NoneSeen
<1>4. PICK f \in [SUBSET (1..n) -> V] :
        /\ f = [s \in SUBSET (1..n) |->
                  IF s = {} THEN NoneSeen ELSE op[<<f[s \ {LastRow(s)}], LastRow(s)>>]]
        /\ \A s \in SUBSET (1..n) : s # {} => LastRow(s) \in s
  <2>1. NoneSeen \in V /\ op \in [V \X (1..n) -> V]
    OBVIOUS
  <2> HIDE DEF op, V
  <2>2. QED BY <1>2, <2>1, RowByRow
<1>5. f = Step(f)
  <2>1. \A s \in SUBSET (1..n) : f[s] = NoneSeen
    OBVIOUS
  <2>2. \A s \in SUBSET (1..n) : s # {} =>
          CountedZero(trace, f[s \ {LastRow(s)}], idx[LastRow(s)]) = NoneSeen
    BY <1>3, <1>4, <2>1
  <2>3. f = [s \in SUBSET (1..n) |-> NoneSeen]
    BY <2>1
  <2>4. QED BY <1>2, <2>2, <2>3
<1>6. fold = Step(fold)
  <2> HIDE DEF Step
  <2>1. QED BY <1>5
<1> HIDE DEF fold
<1>7. fold[{}] = NoneSeen
  BY <1>2, <1>6
<1> DEFINE After(s) == CountedZero(trace, fold[s \ {LastRow(s)}], idx[LastRow(s)])
<1>8. \A s \in SUBSET (1..n) : s # {} => fold[s] = After(s)
  BY <1>2, <1>6
<1>9. \A k \in 1..n : fold[1..(k - 1)] = NoneSeen => fold[1..k] = NoneSeen
  <2>1. SUFFICES ASSUME NEW k \in 1..n, fold[1..(k - 1)] = NoneSeen PROVE fold[1..k] = NoneSeen
    OBVIOUS
  <2>2. /\ 1..k \in SUBSET (1..n) /\ 1..k # {}
        /\ LastRow(1..k) = k /\ (1..k) \ {k} = 1..(k - 1)
    BY <1>2, RowsBefore
  <2>3. After(1..k) = CountedZero(trace, fold[1..(k - 1)], idx[k])
    BY <2>2
  <2> HIDE DEF After
  <2>4. fold[1..k] = After(1..k)
    BY <1>8, <2>2
  <2>5. QED BY <1>3, <2>1, <2>3, <2>4
<1>10. fold[1..n] \in G[n]
  <2>1. \A k \in 0..n : G[k] = {NoneSeen}
    OBVIOUS
  <2>2. 0 \in 0..n /\ \A k \in 1..n : k \in 0..n /\ k - 1 \in 0..n
    BY <1>2
  <2> HIDE DEF G
  <2>3. fold[{}] \in G[0]
    BY <1>7, <2>1, <2>2
  <2>4. \A k \in 1..n : fold[1..(k - 1)] \in G[k - 1] => fold[1..k] \in G[k]
    BY <1>9, <2>1, <2>2
  <2>5. QED BY <1>2, <2>3, <2>4, AfterTheRows
<1>11. fold[1..n] = NoneSeen
  BY <1>2, <1>10
<1>12. QED BY <1>1, <1>2, <1>11 DEF NoneSeen

\* A row of _find_synchronized_failure_run.
Searched(trace, search, i) ==
  IF search.run # << >> THEN search
  ELSE IF Canonical!Agreement(trace[i]) < 3 THEN [search EXCEPT !.start = 0]
  ELSE IF search.start = 0 THEN [search EXCEPT !.start = i]
  ELSE IF Canonical!Rises(trace, i) THEN [search EXCEPT !.run = <<search.start, i>>]
  ELSE [search EXCEPT !.start = i]

NothingFound == [start |-> 0, run |-> << >>]

Searches(n) == [start : 0..n, run : {<< >>} \cup (0..n) \X (0..n)]

\* After k rows a run that is still rising begins at the last of them, and one that has
\* been found is two neighbours.
Neighbouring(n, k) ==
  {search \in Searches(n) :
     IF search.run = << >> THEN search.start \in {0, k} ELSE search.run[2] = search.run[1] + 1}

\* A search goes on as a search.
LEMMA SearchType ==
  ASSUME NEW n \in Nat, NEW i \in 1..n, NEW search \in Searches(n), NEW trace
  PROVE  Searched(trace, search, i) \in Searches(n)
<1>1. i \in 0..n /\ 0 \in 0..n /\ search.start \in 0..n
  BY DEF Searches
<1>2. <<search.start, i>> \in (0..n) \X (0..n)
  BY <1>1
<1>3. QED BY <1>1, <1>2 DEF Searched, Searches

\* A run that rises does so from the row before.
LEMMA SearchStep ==
  ASSUME NEW n \in Nat, NEW i \in 1..n, NEW search \in Neighbouring(n, i - 1), NEW trace
  PROVE  Searched(trace, search, i) \in Neighbouring(n, i)
<1>1. search \in Searches(n) /\ Searched(trace, search, i) \in Searches(n)
  BY SearchType DEF Neighbouring
<1>2. CASE search.run # << >>
  <2>1. Searched(trace, search, i) = search
    BY <1>2 DEF Searched
  <2>2. QED BY <1>1, <1>2, <2>1 DEF Neighbouring
<1>3. CASE search.run = << >>
  <2>1. search.start \in {0, i - 1}
    BY <1>3 DEF Neighbouring
  <2>2. DOMAIN search = {"start", "run"}
    BY <1>1 DEF Searches
  <2> DEFINE next == Searched(trace, search, i)
  <2>3. \/ next.run = << >> /\ next.start \in {0, i}
        \/ next.run = <<search.start, i>> /\ search.start # 0
    BY <1>3, <2>2 DEF Searched
  <2>4. CASE next.run = << >> /\ next.start \in {0, i}
    <3> HIDE DEF next
    <3>1. next \in Neighbouring(n, i)
      BY <1>1, <2>4 DEF Neighbouring, next
    <3>2. QED BY <3>1 DEF next
  <2>5. CASE next.run = <<search.start, i>> /\ search.start # 0
    <3> HIDE DEF next
    <3>1. search.start = i - 1
      BY <2>1, <2>5
    <3>2. next.run # << >> /\ next.run[1] = i - 1 /\ next.run[2] = i
      BY <2>5, <3>1
    <3>3. next.run[2] = next.run[1] + 1
      BY <3>2
    <3>4. next \in Neighbouring(n, i)
      BY <1>1, <3>2, <3>3 DEF Neighbouring, next
    <3>5. QED BY <3>4 DEF next
  <2> HIDE DEF next
  <2>6. QED BY <2>3, <2>4, <2>5
<1>4. QED BY <1>2, <1>3

\* What is reported as failing in step is two neighbouring rows.
LEMMA TwoRowsAtMost ==
  ASSUME NEW trace \in Seq(TraceRows)
  PROVE  LET found == Canonical!SynchronizedRun(trace)
         IN  found # << >> => found[2] = found[1] + 1
<1> DEFINE n == Len(trace)
           idx == Canonical!Indices(trace)
           Step(f) == [s \in SUBSET (DOMAIN idx) |->
                         IF s = {} THEN NothingFound
                         ELSE Searched(trace, f[s \ {LastRow(s)}], idx[LastRow(s)])]
           fold == CHOOSE f : f = Step(f)
           V == Searches(n)
           op == [p \in V \X (1..n) |-> Searched(trace, p[1], p[2])]
           G == [k \in 0..n |-> Neighbouring(n, k)]
<1>1. Canonical!SynchronizedRun(trace) = fold[DOMAIN idx].run
  <2> HIDE DEF idx
  <2>1. idx = Canonical!Indices(trace)
    BY DEF idx
  <2>2. QED BY <2>1 DEF Canonical!SynchronizedRun, Canonical!FoldLeft, Canonical!MapThenFoldSet,
                  NothingFound, Searched, LastRow
<1>2. n \in Nat /\ DOMAIN idx = 1..n /\ \A i \in 1..n : idx[i] = i
  BY RowNumbers
<1> HIDE DEF n, idx
<1>3. \A search \in V, i \in 1..n : Searched(trace, search, i) \in V
  BY <1>2, SearchType
<1>4. PICK f \in [SUBSET (1..n) -> V] :
        /\ f = [s \in SUBSET (1..n) |->
                  IF s = {} THEN NothingFound ELSE op[<<f[s \ {LastRow(s)}], LastRow(s)>>]]
        /\ \A s \in SUBSET (1..n) : s # {} => LastRow(s) \in s
  <2>1. NothingFound \in V
    BY <1>2 DEF NothingFound, Searches
  <2>2. op \in [V \X (1..n) -> V]
    BY <1>3
  <2> HIDE DEF op, V
  <2>3. QED BY <1>2, <2>1, <2>2, RowByRow
<1>5. f = Step(f)
  <2> HIDE DEF V
  <2>1. \A s \in SUBSET (1..n) : s # {} =>
          LastRow(s) \in 1..n /\ f[s \ {LastRow(s)}] \in V /\ idx[LastRow(s)] = LastRow(s)
    BY <1>2, <1>4
  <2>2. \A s \in SUBSET (1..n) : s # {} =>
          op[<<f[s \ {LastRow(s)}], LastRow(s)>>]
            = Searched(trace, f[s \ {LastRow(s)}], idx[LastRow(s)])
    BY <2>1
  <2> HIDE DEF op
  <2>3. QED BY <1>2, <1>4, <2>2
<1>6. fold = Step(fold)
  <2> HIDE DEF Step
  <2>1. QED BY <1>5
<1> HIDE DEF fold, V, op
<1>7. fold[{}] = NothingFound
  BY <1>2, <1>6
<1> DEFINE After(s) == Searched(trace, fold[s \ {LastRow(s)}], idx[LastRow(s)])
<1>8. \A s \in SUBSET (1..n) : s # {} => fold[s] = After(s)
  BY <1>2, <1>6
<1>9. \A k \in 1..n : fold[1..(k - 1)] \in Neighbouring(n, k - 1) => fold[1..k] \in Neighbouring(n, k)
  <2>1. SUFFICES ASSUME NEW k \in 1..n, fold[1..(k - 1)] \in Neighbouring(n, k - 1)
                 PROVE  fold[1..k] \in Neighbouring(n, k)
    OBVIOUS
  <2>2. /\ 1..k \in SUBSET (1..n) /\ 1..k # {}
        /\ LastRow(1..k) = k /\ (1..k) \ {k} = 1..(k - 1)
    BY <1>2, RowsBefore
  <2>3. After(1..k) = Searched(trace, fold[1..(k - 1)], k)
    BY <1>2, <2>2
  <2> HIDE DEF After
  <2>4. fold[1..k] = After(1..k)
    BY <1>8, <2>2
  <2>5. QED BY <1>2, <2>1, <2>3, <2>4, SearchStep
<1>10. fold[1..n] \in G[n]
  <2>1. \A k \in 0..n : G[k] = Neighbouring(n, k)
    OBVIOUS
  <2>2. 0 \in 0..n /\ \A k \in 1..n : k \in 0..n /\ k - 1 \in 0..n
    BY <1>2
  <2> HIDE DEF G
  <2>3. fold[{}] \in G[0]
    <3>1. NothingFound \in Neighbouring(n, 0)
      BY <2>2 DEF NothingFound, Neighbouring, Searches
    <3>2. QED BY <1>7, <2>1, <2>2, <3>1
  <2>4. \A k \in 1..n : fold[1..(k - 1)] \in G[k - 1] => fold[1..k] \in G[k]
    BY <1>9, <2>1, <2>2
  <2>5. QED BY <1>2, <2>3, <2>4, AfterTheRows
<1>11. fold[1..n] \in Neighbouring(n, n)
  <2>1. n \in 0..n
    BY <1>2
  <2>2. QED BY <1>10, <2>1
<1> HIDE DEF G
<1>12. fold[1..n].run # << >> => fold[1..n].run[2] = fold[1..n].run[1] + 1
  BY <1>11 DEF Neighbouring
<1>13. QED BY <1>1, <1>2, <1>12

\* A trace is a sequence of rows.
TraceInv == show = "coherence" => run \in Seq(TraceRows)

\* Each step appends one.
LEMMA TraceStep == TraceInv /\ [ShowNext]_showVars => TraceInv'
<1> SUFFICES ASSUME TraceInv, [ShowNext]_showVars, show' = "coherence"
             PROVE  run' \in Seq(TraceRows)
  BY DEF TraceInv
<1>1. show = "coherence"
  BY ShowIsFixed
<1>2. CASE UNCHANGED showVars
  BY <1>1, <1>2 DEF TraceInv, showVars
<1>3. CASE ShowNext
  <2>1. PICK decision \in {"EXECUTE", "BLOCKED", "STOPPED"}, result \in {"SUCCESS", "FAILURE", "NONE"},
             emitted \in BOOLEAN, phase \in {"stable", "unstable"}, failures \in 0..MaxRows :
          Traced(decision, result, emitted, phase, failures)
    BY <1>1, <1>3 DEF ShowNext, Watch, Calls, Call, Script, Listed, Storm, Adversary, Audited,
       Accumulate, Burst, Adversaries, Audits, ScriptedShows, Accumulators
  <2> DEFINE row == [ step |-> Len(run) + 1, decision |-> decision, result |-> result,
                      emitted |-> emitted, phase |-> phase, failures |-> failures, latency |-> 1 ]
  <2>2. run \in Seq(TraceRows)
    BY <1>1 DEF TraceInv
  <2>3. Len(run) + 1 \in Nat /\ failures \in Nat
    <3>1. Len(run) \in Nat
      BY <2>2, LenProperties
    <3>2. QED BY <3>1, ShowcasesAssumption
  <2>4. row \in TraceRows
    BY <2>3 DEF TraceRows
  <2>5. run' = Append(run, row)
    BY <2>1 DEF Traced
  <2> HIDE DEF row
  <2>6. QED BY <2>2, <2>4, <2>5, AppendProperties
<1>4. QED BY <1>2, <1>3

\* Whatever the trace, of any length: the analysis reports no loop out of step, and as
\* failing in step only two neighbouring rows (analysis/coherence.py).
THEOREM ReportsAreFew == ShowSpec => []CoherenceReports
<1>1. ShowInit => TraceInv
  <2>1. SUFFICES ASSUME ShowInit, show = "coherence" PROVE run \in Seq(TraceRows)
    BY DEF TraceInv
  <2>2. run = << >>
    BY <2>1, SMTT(40) DEF ShowInit, FreshShow, Adversaries, Audits, ScriptedShows, Accumulators
  <2>3. << >> \in Seq(TraceRows)
    OBVIOUS
  <2>4. QED BY <2>2, <2>3
<1>2. TraceInv /\ [ShowNext]_showVars => TraceInv'
  BY TraceStep
<1>3. TraceInv => CoherenceReports
  <2>1. SUFFICES ASSUME TraceInv, show = "coherence"
                 PROVE  LET found == Canonical!SynchronizedRun(run)
                        IN  /\ Canonical!LongestZeroRun(run) = 0
                            /\ found # << >> => found[2] = found[1] + 1
    BY DEF CoherenceReports
  <2>2. run \in Seq(TraceRows)
    BY <2>1 DEF TraceInv
  <2>3. QED BY <2>2, NeverOutOfStep, TwoRowsAtMost
<1>4. QED BY <1>1, <1>2, <1>3, PTL DEF ShowSpec
=============================================================================
