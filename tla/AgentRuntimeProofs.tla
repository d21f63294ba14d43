-------------------------- MODULE AgentRuntimeProofs --------------------------
(***************************************************************************)
(* For any errors and any differences between attempts, and any number of  *)
(* attempts: what the governor of run_task refuses.  For any scenarios:    *)
(* the limit the gate of the benchmark sets to retries.                    *)
(***************************************************************************)
EXTENDS AgentRuntime, TLAPS, FiniteSetTheorems, SequenceTheorems

-----------------------------------------------------------------------------
(* Sets of a few numbers.                                                  *)

\* The larger of two, and of a set that has one.
LEMMA LargestOfTwo ==
  ASSUME NEW a \in Int, NEW b \in Int
  PROVE  Largest({a, b}) = IF a >= b THEN a ELSE b
<1> DEFINE S == {a, b}
<1>1. \E x \in S : \A y \in S : y <= x
  OBVIOUS
<1>2. Largest(S) \in S /\ \A y \in S : y <= Largest(S)
  <2> HIDE DEF S
  <2>1. QED BY <1>1 DEF Largest
<1>3. (Largest(S) = a \/ Largest(S) = b) /\ a <= Largest(S) /\ b <= Largest(S)
  BY <1>2
<1> HIDE DEF S
<1>4. Largest(S) = IF a >= b THEN a ELSE b
  BY <1>3
<1>5. QED BY <1>4 DEF S

\* A number no other exceeds is the largest.
LEMMA LargestIs ==
  ASSUME NEW S \in SUBSET Int, NEW a \in S, \A y \in S : y <= a
  PROVE  Largest(S) = a
<1>1. \E x \in S : \A y \in S : y <= x
  OBVIOUS
<1>2. Largest(S) \in S /\ \A y \in S : y <= Largest(S)
  BY <1>1 DEF Largest
<1>3. a \in Int /\ Largest(S) \in Int /\ a <= Largest(S) /\ Largest(S) <= a
  BY <1>2
<1>4. QED BY <1>3

\* Of up to three numbers one is the largest and one the smallest.
LEMMA LargestOfThree ==
  ASSUME NEW a \in Int, NEW b \in Int, NEW c \in Int, NEW S \in SUBSET {a, b, c}, S # {}
  PROVE  Largest(S) \in S /\ Smallest(S) \in S
<1>1. PICK x0 \in S : TRUE
  OBVIOUS
<1>2. x0 \in Int
  OBVIOUS
<1>3. \E x \in S : \A y \in S : y <= x
  <2> DEFINE u == IF a \in S THEN a ELSE x0
             v == IF b \in S /\ b > u THEN b ELSE u
             w == IF c \in S /\ c > v THEN c ELSE v
  <2>1. u \in S /\ u \in Int /\ (a \in S => a <= u)
    BY <1>1, <1>2
  <2> HIDE DEF u
  <2>2. v \in S /\ v \in Int /\ u <= v /\ (b \in S => b <= v)
    BY <2>1
  <2> HIDE DEF v
  <2>3. w \in S /\ w \in Int /\ v <= w /\ (c \in S => c <= w)
    BY <2>2
  <2> HIDE DEF w
  <2>4. \A y \in S : y <= w
    BY <2>1, <2>2, <2>3
  <2>5. QED BY <2>3, <2>4
<1>4. \E x \in S : \A y \in S : x <= y
  <2> DEFINE u == IF a \in S THEN a ELSE x0
             v == IF b \in S /\ b < u THEN b ELSE u
             w == IF c \in S /\ c < v THEN c ELSE v
  <2>1. u \in S /\ u \in Int /\ (a \in S => u <= a)
    BY <1>1, <1>2
  <2> HIDE DEF u
  <2>2. v \in S /\ v \in Int /\ v <= u /\ (b \in S => v <= b)
    BY <2>1
  <2> HIDE DEF v
  <2>3. w \in S /\ w \in Int /\ w <= v /\ (c \in S => w <= c)
    BY <2>2
  <2> HIDE DEF w
  <2>4. \A y \in S : w <= y
    BY <2>1, <2>2, <2>3
  <2>5. QED BY <2>3, <2>4
<1>5. QED BY <1>3, <1>4 DEF Largest, Smallest

\* A set between a pair and the first three numbers has two or three elements.
LEMMA PairToTriple ==
  ASSUME NEW n \in {2, 3}, NEW F \in SUBSET (1 .. n), n \in F, n - 1 \in F
  PROVE  /\ IsFiniteSet(F) /\ Cardinality(F) \in {2, 3}
         /\ Cardinality((1 .. n) \ F) \in {0, 1}
<1>1. n \in Nat /\ n - 1 \in Nat /\ n - 1 # n
  OBVIOUS
<1>2. IsFiniteSet(1 .. n) /\ Cardinality(1 .. n) = n
  <2>1. Cardinality(1 .. n) = IF 1 > n THEN 0 ELSE n - 1 + 1
    BY <1>1, FS_Interval
  <2>2. QED BY <1>1, <2>1, FS_Interval
<1>3. IsFiniteSet(F) /\ Cardinality(F) \in Nat /\ Cardinality(F) <= n
  BY <1>2, FS_Subset, FS_CardinalityType, Zenon
<1>4. IsFiniteSet({n - 1}) /\ Cardinality({n - 1}) = 1
  BY FS_Singleton, Zenon
<1>5. Cardinality({n - 1} \cup {n}) = 2
  BY <1>1, <1>4, FS_AddElement
<1>6. {n - 1} \cup {n} \in SUBSET F
  OBVIOUS
<1>7. Cardinality({n - 1} \cup {n}) <= Cardinality(F)
  BY <1>3, <1>6, FS_Subset, Zenon
<1>8. Cardinality((1 .. n) \ F) = n - Cardinality(F)
  <2>1. F \cap (1 .. n) = F
    OBVIOUS
  <2>2. Cardinality((1 .. n) \ F) = Cardinality(1 .. n) - Cardinality((1 .. n) \cap F)
    BY <1>2, <1>3, FS_Difference
  <2>3. (1 .. n) \cap F = F
    OBVIOUS
  <2>4. QED BY <1>2, <2>2, <2>3
<1> DEFINE k == Cardinality(F)
<1> HIDE DEF k
<1>9. k \in Nat /\ k <= n /\ 2 <= k
  BY <1>3, <1>5, <1>7 DEF k
<1>10. QED BY <1>3, <1>8, <1>9 DEF k
-----------------------------------------------------------------------------
(* The governor of run_task.                                               *)

Attempted == [outcome : Errors \cup {Passed}, change : Changes \cup {NoChange}]

\* A window of attempts: only the very first has nothing to be compared with.
IsWindow(h) ==
  /\ h \in Seq(Attempted) /\ Len(h) <= Window
  /\ \A i \in 2 .. Len(h) : h[i].change \in Changes

\* The verdict is that of the attempts in the window.
GovernorInv ==
  /\ IsWindow(history)
  /\ history # << >> => verdict = EvaluateState(history)

\* Every measure of a difference is a number.
LEMMA DifferenceFacts ==
  ASSUME NEW c \in Difference
  PROVE  /\ c.similarity \in Nat /\ c.similarity <= 1000
         /\ c.progress \in Nat /\ c.progress <= 1000
         /\ c.flow \in Nat /\ c.functions \in Nat
  BY DEF Difference, Score

\* One attempt more, and the window holds the latest three.
LEMMA NextWindow ==
  ASSUME NEW h, IsWindow(h), NEW r \in Attempted,
         r.change = NoChange <=> h = << >>
  PROVE  IsWindow(Recent(Append(h, r))) /\ Recent(Append(h, r)) # << >>
<1> DEFINE g == Append(h, r)
           n == Len(g)
           m == Largest({1, n - Window + 1})
           w == Recent(g)
<1>1. /\ g \in Seq(Attempted) /\ n = Len(h) + 1 /\ g[n] = r
      /\ \A i \in 1 .. Len(h) : g[i] = h[i]
      /\ Len(h) \in Nat /\ Len(h) <= 3
  BY AppendProperties, LenProperties DEF IsWindow, Window
<1>2. \A i \in 2 .. n : g[i].change \in Changes
  <2>1. TAKE i \in 2 .. n
  <2>2. CASE i = n
    <3>1. h # << >>
      BY <1>1, <2>2
    <3>2. QED BY <1>1, <2>2, <3>1 DEF Attempted
  <2>3. CASE i # n
    <3>1. i \in 2 .. Len(h)
      BY <1>1, <2>3
    <3>2. QED BY <1>1, <3>1 DEF IsWindow
  <2>4. QED BY <2>2, <2>3
<1> HIDE DEF n, g
<1>3. m \in {1, 2} /\ m <= n /\ n - m + 1 <= 3 /\ n \in Nat
  <2>1. n - Window + 1 \in Int /\ n \in 1 .. 4
    BY <1>1 DEF Window
  <2>2. m = IF 1 >= n - Window + 1 THEN 1 ELSE n - Window + 1
    BY <2>1, LargestOfTwo
  <2> HIDE DEF m
  <2>3. QED BY <2>1, <2>2 DEF Window
<1>4. w = SubSeq(g, m, n)
  BY DEF Recent, n
<1> HIDE DEF m, w
<1>5. \A i \in m .. n : g[i] \in Attempted
  BY <1>1, <1>3 DEF n
<1>6. /\ w \in Seq(Attempted) /\ Len(w) = n - m + 1
      /\ \A i \in 1 .. n - m + 1 : w[i] = g[m + i - 1]
  BY <1>3, <1>4, <1>5, SubSeqProperties
<1>7. \A i \in 2 .. Len(w) : w[i].change \in Changes
  <2>1. TAKE i \in 2 .. Len(w)
  <2>2. w[i] = g[m + i - 1] /\ m + i - 1 \in 2 .. n
    BY <1>3, <1>6
  <2>3. QED BY <1>2, <2>2
<1>8. w # << >>
  BY <1>3, <1>6
<1>9. QED BY <1>3, <1>6, <1>7, <1>8 DEF IsWindow, Window, w, g

\* The empty window.
LEMMA GovernorInitInv == GovernorInit => GovernorInv
  BY DEF GovernorInit, GovernorInv, IsWindow, Window

\* Every attempt keeps it.
LEMMA GovernorStepInv == GovernorInv /\ [GovernorNext]_governorVars => GovernorInv'
<1> SUFFICES ASSUME GovernorInv, [GovernorNext]_governorVars PROVE GovernorInv'
  OBVIOUS
<1>1. ASSUME NEW change \in Changes \cup {NoChange}, NEW outcome \in Errors \cup {Passed},
             Attempt(change, outcome)
      PROVE  GovernorInv'
  <2> DEFINE r == [outcome |-> outcome, change |-> change]
  <2>1. r \in Attempted /\ r.change = change
    BY DEF Attempted
  <2>2. history' = Recent(Append(history, r)) /\ verdict' = EvaluateState(history')
        /\ (change = NoChange <=> history = << >>)
    BY <1>1 DEF Attempt
  <2> HIDE DEF r
  <2>3. IsWindow(history)
    BY DEF GovernorInv
  <2>4. IsWindow(history')
    BY <2>1, <2>2, <2>3, NextWindow
  <2>5. QED BY <2>2, <2>4 DEF GovernorInv, IsWindow
<1>2. CASE UNCHANGED governorVars
  BY <1>2 DEF GovernorInv, IsWindow, EvaluateState, governorVars
<1>3. QED BY <1>1, <1>2 DEF GovernorNext

\* What the scores are made of when the last two attempts failed: the difference between
\* them, and at most one attempt that passed.
LEMMA FailedTwiceFacts ==
  ASSUME NEW h, IsWindow(h), NEW n, n = Len(h), n >= 2,
         h[n].outcome # Passed, h[n - 1].outcome # Passed
  PROVE  /\ n \in {2, 3} /\ DOMAIN h = 1 .. n
         /\ h[n].change \in Changes /\ LatestChange(h) = h[n].change
         /\ Agreement(h) = h[n].change.similarity
         /\ TwiceConfidence(h) = 1000 - h[n].change.progress + h[n].change.similarity
         /\ n \in Failures(h) /\ n - 1 \in Failures(h) /\ Failures(h) \in SUBSET (1 .. n)
         /\ Cardinality(Failures(h)) \in {2, 3}
         /\ Cardinality(DOMAIN h \ Failures(h)) \in {0, 1}
         /\ Fluctuation(h) \in Int
<1>1. n \in {2, 3} /\ DOMAIN h = 1 .. n /\ h[n].change \in Changes
  BY LenProperties DEF IsWindow, Window
<1>2. h[n].change # NoChange
  BY <1>1, GovernorAssumption
<1>3. Agreement(h) = h[n].change.similarity
  BY DEF Agreement
<1>4. TwiceConfidence(h) = 1000 - h[n].change.progress + h[n].change.similarity
  BY <1>2, <1>3 DEF TwiceConfidence, Latest
<1>5. n \in Failures(h) /\ n - 1 \in Failures(h) /\ Failures(h) \in SUBSET (1 .. n)
  BY <1>1 DEF Failures
<1>6. Cardinality(Failures(h)) \in {2, 3} /\ Cardinality((1 .. n) \ Failures(h)) \in {0, 1}
  BY <1>1, <1>5, PairToTriple
<1>7. Scored(h) \in SUBSET (1 .. n) /\ n \in Scored(h)
  BY <1>1, <1>2 DEF Scored
<1>8. LatestChange(h) = h[n].change
  <2>1. \A i \in Scored(h) : i <= n
    BY <1>1, <1>7
  <2>2. Scored(h) \in SUBSET Int
    BY <1>1, <1>7
  <2>3. Largest(Scored(h)) = n
    BY <1>7, <2>1, <2>2, LargestIs
  <2>4. QED BY <1>7, <2>3 DEF LatestChange
<1>9. Fluctuation(h) \in Int
  <2> DEFINE progress(i) == IF i \in Scored(h) THEN h[i].change.progress ELSE 0
             scores == {h[i].change.progress : i \in Scored(h)}
  <2>1. \A i \in Scored(h) : h[i].change.progress \in Int
    <3>1. TAKE i \in Scored(h)
    <3>2. h[i].change # NoChange /\ i \in 1 .. n
      BY <1>7 DEF Scored
    <3>3. h[i] \in Attempted
      BY <3>2 DEF IsWindow
    <3>4. h[i].change \in Difference
      BY <3>2, <3>3, GovernorAssumption DEF Attempted
    <3>5. QED BY <3>4, DifferenceFacts
  <2>2. progress(1) \in Int /\ progress(2) \in Int /\ progress(3) \in Int
    BY <2>1
  <2>3. \A i \in Scored(h) : i = 1 \/ i = 2 \/ i = 3
    BY <1>1, <1>7
  <2>4. \A i \in Scored(h) : h[i].change.progress = progress(i)
    OBVIOUS
  <2>5. \A x \in scores : x = progress(1) \/ x = progress(2) \/ x = progress(3)
    <3> HIDE DEF progress
    <3>1. QED BY <2>3, <2>4
  <2>6. scores \in SUBSET Int /\ h[n].change.progress \in scores
    BY <1>7, <2>1
  <2> HIDE DEF progress, scores
  <2>7. scores \in SUBSET {progress(1), progress(2), progress(3)} /\ scores # {}
    BY <2>5, <2>6
  <2>8. Largest(scores) \in scores /\ Smallest(scores) \in scores
    BY <2>2, <2>7, LargestOfThree
  <2>9. Largest(scores) - Smallest(scores) \in Int
    <3>1. Largest(scores) \in Int /\ Smallest(scores) \in Int
      BY <2>6, <2>8
    <3>2. QED BY <3>1
  <2>10. QED BY <2>9 DEF Fluctuation, scores
<1>10. QED
  BY <1>1, <1>3, <1>4, <1>5, <1>6, <1>8, <1>9

\* The same, of the scores alone.
LEMMA FailedTwiceScores ==
  ASSUME NEW h, IsWindow(h), Len(h) >= 2,
         h[Len(h)].outcome # Passed, h[Len(h) - 1].outcome # Passed
  PROVE  /\ h[Len(h)].change \in Changes
         /\ LatestChange(h) = h[Len(h)].change
         /\ Agreement(h) = h[Len(h)].change.similarity
         /\ TwiceConfidence(h) = 1000 - h[Len(h)].change.progress + h[Len(h)].change.similarity
         /\ Cardinality(Failures(h)) \in {2, 3}
         /\ Cardinality(DOMAIN h \ Failures(h)) \in {0, 1}
         /\ Fluctuation(h) \in Int
<1>1. h[Len(h)].change \in Changes /\ LatestChange(h) = h[Len(h)].change
  <2> DEFINE n == Len(h)
  <2>1. n = Len(h) /\ IsWindow(h) /\ n >= 2 /\ h[n].outcome # Passed /\ h[n - 1].outcome # Passed
    OBVIOUS
  <2> HIDE DEF n
  <2>2. h[n].change \in Changes
    BY ONLY <2>1, FailedTwiceFacts
  <2>3. h[n].change # NoChange /\ DOMAIN h = 1 .. n /\ n \in Nat
    BY ONLY <2>1, <2>2, GovernorAssumption, LenProperties DEF IsWindow
  <2>4. Scored(h) \in SUBSET Int /\ n \in Scored(h) /\ \A i \in Scored(h) : i <= n
    BY <2>1, <2>3 DEF Scored
  <2>5. Largest(Scored(h)) = n
    BY <2>4, LargestIs
  <2>6. LatestChange(h) = h[n].change
    BY <2>4, <2>5 DEF LatestChange
  <2>7. QED BY <2>2, <2>6 DEF n
<1>2. Agreement(h) = h[Len(h)].change.similarity
  BY DEF Agreement
<1>3. TwiceConfidence(h) = 1000 - h[Len(h)].change.progress + h[Len(h)].change.similarity
  <2>1. h[Len(h)].change # NoChange
    BY <1>1, GovernorAssumption
  <2>2. QED BY <1>2, <2>1 DEF TwiceConfidence, Latest
<1>4. Cardinality(Failures(h)) \in {2, 3}
  BY FailedTwiceFacts, ZenonT(30)
<1>5. Cardinality(DOMAIN h \ Failures(h)) \in {0, 1}
  BY FailedTwiceFacts
<1>6. Fluctuation(h) \in Int
  BY FailedTwiceFacts, ZenonT(30)
<1>7. QED BY <1>1, <1>2, <1>3, <1>4, <1>5, <1>6

\* Handed in again without a change, it is refused.
LEMMA RepeatIsRefused ==
  ASSUME NEW h, IsWindow(h), NEW n, n = Len(h), n >= 2,
         h[n].outcome # Passed, h[n - 1].outcome # Passed,
         NEW c, c = h[n].change, c.similarity = 1000, c.progress = 0
  PROVE  EvaluateState(h) = "refuse"
<1> DEFINE missing == Window - Cardinality(DOMAIN h \ Failures(h))
<1>1. /\ c \in Changes /\ LatestChange(h) = c
      /\ TwiceConfidence(h) = 1000 - c.progress + c.similarity
      /\ Cardinality(DOMAIN h \ Failures(h)) \in {0, 1}
  <2>1. /\ IsWindow(h) /\ Len(h) >= 2
        /\ h[Len(h)].outcome # Passed /\ h[Len(h) - 1].outcome # Passed
    OBVIOUS
  <2>2. /\ h[Len(h)].change \in Changes /\ LatestChange(h) = h[Len(h)].change
        /\ TwiceConfidence(h) = 1000 - h[Len(h)].change.progress + h[Len(h)].change.similarity
        /\ Cardinality(DOMAIN h \ Failures(h)) \in {0, 1}
    BY ONLY <2>1, FailedTwiceScores
  <2>3. QED BY <2>2
<1>2. c # NoChange
  <2>1. c \in Changes /\ NoChange \notin Changes
    BY <1>1, GovernorAssumption
  <2>2. QED BY ONLY <2>1
<1>3. TwiceConfidence(h) = 2000
  BY <1>1
<1>4. missing \in {2, 3}
  BY <1>1 DEF Window
<1> HIDE DEF missing
<1>5. TwiceConfidence(h) * missing > 1200 * Window
  BY <1>3, <1>4 DEF Window
<1>6. DriftType(h) = "overreach"
  BY <1>5 DEF DriftType, missing
<1>7. IntentOf(h) = "no_intent"
  BY <1>1, <1>2 DEF IntentOf, Intent
<1>8. Stagnates(h) /\ LatestFailed(h)
  BY <1>6, <1>7 DEF Stagnates, LatestFailed, Latest
<1>9. QED BY <1>8 DEF EvaluateState

\* The same error twice is refused, unless the code has changed in its structure or by
\* much, or the attempts differ in how much they change, or not quite enough.
LEMMA TwinsAreRefused ==
  ASSUME NEW h, IsWindow(h), NEW n, n = Len(h), n >= 2,
         h[n].outcome # Passed, h[n - 1].outcome # Passed,
         h[n].outcome = h[n - 1].outcome,
         NEW c, c = h[n].change,
         NEW s, s = c.similarity, NEW p, p = c.progress,
         ~(Structural(c) > 0), ~(p > 400), ~(Fluctuation(h) > 600), s <= 600 \/ s >= 775
  PROVE  EvaluateState(h) = "refuse"
<1> DEFINE F == Failures(h)
           k == Cardinality(F)
<1>1. /\ n \in {2, 3} /\ DOMAIN h = 1 .. n
      /\ c \in Changes /\ LatestChange(h) = c /\ Agreement(h) = s
      /\ n \in F /\ n - 1 \in F /\ F \in SUBSET (1 .. n)
      /\ k \in {2, 3}
      /\ Fluctuation(h) \in Int
  <2> DEFINE m == Len(h)
  <2>1. /\ IsWindow(h) /\ m >= 2
        /\ h[m].outcome # Passed /\ h[m - 1].outcome # Passed
    OBVIOUS
  <2>2. n \in {2, 3} /\ DOMAIN h = 1 .. n
    BY ONLY IsWindow(h), n = Len(h), n >= 2, LenProperties DEF IsWindow, Window
  <2>3. /\ h[m].change \in Changes /\ LatestChange(h) = h[m].change
        /\ Agreement(h) = h[m].change.similarity
    BY ONLY <2>1, FailedTwiceScores, ZenonT(30)
  <2>4. n \in Failures(h) /\ n - 1 \in Failures(h) /\ Failures(h) \in SUBSET (1 .. n)
    BY <2>2 DEF Failures
  <2>5. Cardinality(Failures(h)) \in {2, 3} /\ Fluctuation(h) \in Int
    BY ONLY <2>1, FailedTwiceScores
  <2>6. m = n
    OBVIOUS
  <2> HIDE DEF m
  <2>7. QED BY <2>2, <2>3, <2>4, <2>5, <2>6
<1>2. c # NoChange /\ c \in Difference
  <2>1. c \in Changes
    BY <1>1
  <2>2. NoChange \notin Changes /\ Changes \subseteq Difference
    BY GovernorAssumption
  <2>3. QED BY ONLY <2>1, <2>2, Zenon
<1>3. /\ s \in Nat /\ s <= 1000 /\ p \in Nat /\ p <= 400
      /\ c.flow \in Nat /\ c.functions \in Nat
  BY <1>2, DifferenceFacts
<1>4. c.flow = 0 /\ c.functions = 0
  <2> DEFINE m == c.flow + c.functions
  <2>1. m \in Nat /\ Structural(c) = IF m >= 2 THEN 1000 ELSE 500 * m
    BY <1>3, SMTT(30) DEF Structural
  <2>2. ~(Structural(c) > 0)
    OBVIOUS
  <2> HIDE DEF m
  <2>3. m = 0
    BY <2>1, <2>2
  <2>4. QED BY <1>3, <2>3 DEF m
<1> HIDE DEF k
<1>7. DriftType(h) # "incoherent"
  <2>1. CASE s <= 600
    <3> DEFINE stuck == IF LatestFailed(h) /\ Cardinality(F) >= 2 THEN Agreement(h) ELSE 0
               fluctuation == Fluctuation(h)
    <3>1. stuck \in Int /\ stuck <= 600
      BY <1>1, <1>3, <2>1
    <3>2. fluctuation \in Int /\ fluctuation <= 600
      BY <1>1
    <3>3. Incoherence(h) = Largest({stuck, fluctuation})
      BY DEF Incoherence
    <3> HIDE DEF stuck, fluctuation
    <3>4. Incoherence(h) \in Int /\ Incoherence(h) <= 600
      BY <3>1, <3>2, <3>3, LargestOfTwo
    <3>5. ~(Incoherence(h) > 600)
      BY <3>4
    <3>6. QED BY <3>5 DEF DriftType
  <2>2. CASE s >= 775
    <3>1. s * s > 600000
      <4>1. s * s >= 775 * s
        BY <1>3, <2>2, SMTT(30)
      <4>2. 775 * s > 600000
        BY <1>3, <2>2
      <4>3. s * s \in Int /\ 775 * s \in Int
        BY <1>3
      <4>4. QED BY <4>1, <4>2, <4>3
    <3>2. Agreement(h) * Agreement(h) > 600000
      BY <1>1, <3>1
    <3>3. QED BY <3>2 DEF DriftType
  <2>3. QED BY <2>1, <2>2
<1>8. ErrorSimilarity(h) > 600
  <2> DEFINE R == {i \in F : \E j \in F \ {i} : h[j].outcome.text = h[i].outcome.text}
             q == Cardinality(R)
  <2>1. n \in R /\ n - 1 \in R /\ R \in SUBSET (1 .. n) /\ R \in SUBSET F /\ n - 1 # n
    BY <1>1
  <2>2. ErrorSimilarity(h) = (1000 * q) \div k
    BY <1>1 DEF ErrorSimilarity, k
  <2>3. q \in {2, 3}
    <3> HIDE DEF R
    <3>1. QED BY <1>1, <2>1, PairToTriple
  <2> HIDE DEF q, R
  <2>4. (1000 * q) \div k > 600
    BY <1>1, <2>3
  <2>5. QED BY <2>2, <2>4
<1>9. ~IsMeant(h)
  BY <1>1, <1>2, <1>3 DEF IsMeant, IntentOf, Intent
<1>10. ~IsRestructured(h)
  BY <1>1, <1>2, <1>4 DEF IsRestructured, SummaryOf, Summary
<1>11. GivesUp(h) = "refuse"
  <2>1. ProgressOf(h) = p
    BY <1>1, <1>2 DEF ProgressOf
  <2>2. ~(ProgressOf(h) > 400)
    BY <1>3, <2>1
  <2>3. Cardinality(Failures(h)) >= 2
    BY <1>1 DEF k
  <2>4. QED BY <1>8, <2>2, <2>3 DEF GivesUp
<1>12. LatestFailed(h)
  BY DEF LatestFailed, Latest
<1>13. QED
  BY <1>7, <1>9, <1>10, <1>11, <1>12 DEF EvaluateState

\* Neither handing in what was handed in before nor failing in the same way with no more
\* than touches is let go on, whatever there is in the window besides:
\* SameErrorNeedsAChange is invariant.
THEOREM StuckLoopsEnd == GovernorSpec => []SameErrorNeedsAChange
<1>1. GovernorInv => SameErrorNeedsAChange
  <2> SUFFICES ASSUME GovernorInv, FailedTwice, verdict # "refuse"
               PROVE  SameErrorNeedsAChange
    BY DEF SameErrorNeedsAChange
  <2> DEFINE n == Len(history)
             c == history[n].change
  <2>1. /\ IsWindow(history) /\ n >= 2 /\ EvaluateState(history) # "refuse"
        /\ history[n].outcome # Passed /\ history[n - 1].outcome # Passed
        /\ Latest(history) = history[n] /\ Before(history) = history[n - 1]
    BY DEF GovernorInv, FailedTwice, Latest, Before
  <2>2. c \in Difference
    BY <2>1, FailedTwiceFacts, GovernorAssumption
  <2>3. /\ c.similarity \in Nat /\ c.similarity <= 1000
        /\ c.progress \in Nat /\ c.progress <= 1000
    BY <2>2, DifferenceFacts
  <2>4. c.similarity < 1000 \/ c.progress > 0
    <3>1. ~(c.similarity = 1000 /\ c.progress = 0)
      BY <2>1, RepeatIsRefused
    <3> HIDE DEF c
    <3>2. QED BY <2>3, <3>1
  <2>5. Latest(history).outcome = Before(history).outcome =>
          \/ Structural(c) > 0 \/ c.progress > 400
          \/ Fluctuation(history) > 600 \/ c.similarity \in 601 .. 774
    <3>1. ASSUME c.similarity \notin 601 .. 774 PROVE c.similarity <= 600 \/ c.similarity >= 775
      <4> HIDE DEF c
      <4>1. QED BY <2>3, <3>1
    <3>2. SUFFICES ASSUME Latest(history).outcome = Before(history).outcome,
                          ~(Structural(c) > 0), ~(c.progress > 400), ~(Fluctuation(history) > 600),
                          c.similarity \notin 601 .. 774
                   PROVE  FALSE
      OBVIOUS
    <3>3. history[n].outcome = history[n - 1].outcome
      BY <2>1, <3>2
    <3>4. EvaluateState(history) = "refuse"
      BY <2>1, <3>1, <3>2, <3>3, TwinsAreRefused, ZenonT(30)
    <3>5. QED BY <2>1, <3>4
  <2>6. QED BY <2>1, <2>4, <2>5 DEF SameErrorNeedsAChange
<1>2. QED
  BY <1>1, GovernorInitInv, GovernorStepInv, PTL DEF GovernorSpec
\* How many there are in a pair, or in less.
LEMMA CountOfFew ==
  ASSUME NEW a, NEW b
  PROVE  /\ Cardinality({}) = 0
         /\ Cardinality({a}) = 1
         /\ Cardinality({a, b}) = IF a = b THEN 1 ELSE 2
<1>1. Cardinality({}) = 0
  BY FS_EmptySet
<1>2. IsFiniteSet({a}) /\ Cardinality({a}) = 1
  BY FS_Singleton
<1>3. CASE a = b
  <2>1. {a, b} = {a}
    BY <1>3
  <2>2. QED BY <1>1, <1>2, <1>3, <2>1
<1>4. CASE a # b
  <2>1. Cardinality({a} \cup {b}) = Cardinality({a}) + 1
    BY <1>2, <1>4, FS_AddElement
  <2>2. {a} \cup {b} = {a, b}
    OBVIOUS
  <2>3. QED BY <1>1, <1>2, <1>4, <2>1, <2>2
<1>5. QED BY <1>3, <1>4

\* Behind an attempt that passed there are two at most.
LEMMA PassedFacts ==
  ASSUME NEW h, IsWindow(h), NEW n, n = Len(h), n >= 1, h[n].outcome = Passed
  PROVE  /\ n \in 1 .. 3
         /\ Failures(h) = {} \/ Failures(h) = {1} \/ Failures(h) = {2} \/ Failures(h) = {1, 2}
         /\ \A i \in Failures(h) : i \in 1 .. n
<1>1. n \in 1 .. 3 /\ DOMAIN h = 1 .. n
  BY LenProperties DEF IsWindow, Window
<1>2. \A i \in Failures(h) : i \in 1 .. n /\ i # n
  BY <1>1 DEF Failures
<1>3. \A i \in Failures(h) : i = 1 \/ i = 2
  BY <1>1, <1>2
<1>4. QED BY <1>1, <1>2, <1>3

\* The scores of such a window: the failures repeat themselves if there are two with one
\* text, and no score is past its scale.
LEMMA PassedScores ==
  ASSUME NEW h, IsWindow(h), NEW n, n = Len(h), n >= 1, h[n].outcome = Passed
  PROVE  /\ FailureRate(h) \in Nat /\ FailureRate(h) <= 666
         /\ Diversity(h) \in Nat /\ Diversity(h) <= 1000
         /\ ErrorSimilarity(h) =
              IF Failures(h) = {1, 2} /\ h[1].outcome.text = h[2].outcome.text THEN 1000 ELSE 0
         /\ Cardinality(Failures(h)) = 2 <=> Failures(h) = {1, 2}
         /\ Cardinality(Failures(h)) \in {0, 1, 2}
<1> DEFINE F == Failures(h)
           k == Cardinality(F)
<1>1. F = {} \/ F = {1} \/ F = {2} \/ F = {1, 2}
  BY PassedFacts
<1> HIDE DEF F
<1>2. /\ F = {} => k = 0
      /\ F = {1} => k = 1
      /\ F = {2} => k = 1
      /\ F = {1, 2} => k = 2
  <2>1. Cardinality({}) = 0 /\ Cardinality({1}) = 1 /\ Cardinality({2}) = 1
    BY CountOfFew
  <2>2. Cardinality({1, 2}) = 2
    BY CountOfFew
  <2>3. QED BY <2>1, <2>2
<1> HIDE DEF k
<1>3. k \in {0, 1, 2} /\ (k = 2 <=> F = {1, 2}) /\ (k = 0 <=> F = {})
  <2>1. {1} # {1, 2} /\ {2} # {1, 2} /\ {} # {1, 2} /\ {1} # {} /\ {2} # {}
    OBVIOUS
  <2>2. CASE F = {}
    BY <1>2, <2>1, <2>2
  <2>3. CASE F = {1}
    BY <1>2, <2>1, <2>3
  <2>4. CASE F = {2}
    BY <1>2, <2>1, <2>4
  <2>5. CASE F = {1, 2}
    BY <1>2, <2>1, <2>5
  <2>6. QED BY <1>1, <2>2, <2>3, <2>4, <2>5
<1>4. FailureRate(h) \in Nat /\ FailureRate(h) <= 666
  <2>1. FailureRate(h) = (1000 * k) \div 3
    BY DEF FailureRate, Window, F, k
  <2>2. QED BY <1>3, <2>1
<1>5. Diversity(h) \in Nat /\ Diversity(h) <= 1000
  <2> DEFINE types == {h[i].outcome.type : i \in F}
             q == Cardinality(types)
  <2>1. Diversity(h) = IF F = {} THEN 0 ELSE (1000 * q) \div k
    BY DEF Diversity, F, k
  <2>2. F # {} => q \in {1, 2} /\ q <= k
    <3>1. ASSUME NEW a, F = {a} PROVE q = 1
      <4>1. types = {h[a].outcome.type}
        BY <3>1
      <4>2. QED BY <4>1, CountOfFew
    <3>2. ASSUME F = {1, 2} PROVE q \in {1, 2}
      <4> DEFINE x == h[1].outcome.type
                 y == h[2].outcome.type
      <4>1. types = {x, y}
        BY <3>2
      <4> HIDE DEF x, y, types
      <4>2. Cardinality({x, y}) = IF x = y THEN 1 ELSE 2
        BY CountOfFew
      <4>3. QED BY <4>1, <4>2
    <3> HIDE DEF q
    <3>3. CASE F = {1, 2}
      BY <1>2, <3>2, <3>3
    <3>4. CASE F # {} /\ F # {1, 2}
      <4>1. PICK a : F = {a}
        BY <1>1, <3>4
      <4>2. k = 1
        BY <4>1, CountOfFew DEF k
      <4>3. q = 1
        BY <3>1, <4>1, Zenon
      <4>4. QED BY <4>2, <4>3
    <3>5. QED BY <3>3, <3>4
  <2> HIDE DEF q
  <2>3. QED BY <1>3, <2>1, <2>2
<1>6. ErrorSimilarity(h) =
        IF F = {1, 2} /\ h[1].outcome.text = h[2].outcome.text THEN 1000 ELSE 0
  <2> DEFINE R == {i \in F : \E j \in F \ {i} : h[j].outcome.text = h[i].outcome.text}
             q == Cardinality(R)
  <2>1. ErrorSimilarity(h) = IF F = {} THEN 0 ELSE (1000 * q) \div k
    BY DEF ErrorSimilarity, F, k
  <2>2. CASE F = {1, 2} /\ h[1].outcome.text = h[2].outcome.text
    <3>1. R = {1, 2}
      BY <2>2
    <3> HIDE DEF R
    <3>2. Cardinality({1, 2}) = 2
      BY CountOfFew
    <3>3. q = 2
      BY <3>1, <3>2
    <3> HIDE DEF q
    <3>4. QED BY <1>2, <2>1, <2>2, <3>3
  <2>3. CASE ~(F = {1, 2} /\ h[1].outcome.text = h[2].outcome.text)
    <3>1. R = {}
      BY <1>1, <2>3
    <3>2. q = 0
      BY <3>1, CountOfFew
    <3> HIDE DEF q, R
    <3>3. QED BY <1>3, <2>1, <2>3, <3>2
  <2>4. QED BY <2>2, <2>3
<1>7. QED BY <1>3, <1>4, <1>5, <1>6 DEF F, k

\* The similarity of the code counts for the failure in the middle alone.
LEMMA PassedSimilarity ==
  ASSUME NEW h, IsWindow(h), NEW n, n = Len(h), n >= 1, h[n].outcome = Passed
  PROVE  Similarity(h) \in Nat /\ Similarity(h) <= 1000
<1> DEFINE again == {i \in 2 .. n : {i - 1, i} \subseteq Failures(h)}
           score(i) == IF i \in again THEN h[i].change.similarity ELSE 0
           a == score(2)
           b == score(3)
<1>1. /\ n \in 1 .. 3
      /\ Failures(h) = {} \/ Failures(h) = {1} \/ Failures(h) = {2} \/ Failures(h) = {1, 2}
      /\ \A i \in Failures(h) : i \in 1 .. n
  BY PassedFacts
<1>2. again = {} \/ again = {2}
  BY <1>1
<1>3. RetrySimilarity(h) = IF again = {} THEN 0 ELSE (a + b) \div Cardinality(again)
  BY DEF RetrySimilarity
<1>4. b = 0
  BY <1>2
<1>5. ASSUME again = {2} PROVE a \in Nat /\ a <= 1000
  <2>1. 2 \in 2 .. n
    BY <1>5
  <2>2. h[2].change \in Difference /\ a = h[2].change.similarity
    BY <1>5, <2>1, GovernorAssumption DEF IsWindow
  <2>3. QED BY <2>2, DifferenceFacts
<1>6. again = {2} => Cardinality(again) = 1
  BY CountOfFew
<1> HIDE DEF again, a, b
<1>7. RetrySimilarity(h) \in Nat /\ RetrySimilarity(h) <= 1000
  <2>1. CASE again = {}
    BY <1>3, <2>1
  <2>2. CASE again = {2}
    <3>1. again # {} /\ Cardinality(again) = 1
      BY <1>6, <2>2
    <3>2. RetrySimilarity(h) = (a + 0) \div 1
      BY <1>3, <1>4, <3>1
    <3>3. QED BY <1>5, <2>2, <3>2
  <2>3. QED BY <1>2, <2>1, <2>2
<1>8. ErrorSimilarity(h) \in Nat /\ ErrorSimilarity(h) <= 1000
  BY PassedScores
<1>9. Similarity(h) =
        IF ErrorSimilarity(h) >= RetrySimilarity(h) THEN ErrorSimilarity(h) ELSE RetrySimilarity(h)
  BY <1>7, <1>8, LargestOfTwo DEF Similarity
<1>10. QED BY <1>7, <1>8, <1>9

\* Of an attempt that passed only the twins behind it are held against it.
LEMMA PassedVerdict ==
  ASSUME NEW h, IsWindow(h), NEW n, n = Len(h), n >= 1, h[n].outcome = Passed
  PROVE  EvaluateState(h) = "refuse" <=>
           Cardinality(Failures(h)) = 2 /\ h[1].outcome.text = h[2].outcome.text
<1> DEFINE R == FailureRate(h)
           D == Diversity(h)
           S == Similarity(h)
           T == Trend(h)
           I == Instability(h)
           E == ErrorSimilarity(h)
           k == Cardinality(Failures(h))
<1>1. ~LatestFailed(h)
  BY DEF LatestFailed, Latest
<1>2. T = 0
  <2> DEFINE failed(r) == IF r.outcome = Passed THEN 0 ELSE 1000
             first == failed(h[1])
  <2>1. failed(Latest(h)) = 0
    BY DEF Latest
  <2>2. T = IF Len(h) < 2 THEN 0 ELSE Clamped(failed(Latest(h)) - first)
    BY DEF Trend
  <2>3. first \in {0, 1000}
    OBVIOUS
  <2> HIDE DEF T, failed, first
  <2>4. Clamped(0 - first) = 0
    BY <2>3 DEF Clamped
  <2>5. QED BY <2>1, <2>2, <2>4
<1>3. I = Clamped((35 * R + 20 * D + 30 * S + 15 * T) \div 100)
  BY DEF Instability
<1>4. /\ R \in Nat /\ R <= 666 /\ D \in Nat /\ D <= 1000
      /\ S \in Nat /\ S <= 1000
  BY PassedScores, PassedSimilarity
<1>5. /\ E = IF Failures(h) = {1, 2} /\ h[1].outcome.text = h[2].outcome.text THEN 1000 ELSE 0
      /\ k = 2 <=> Failures(h) = {1, 2}
      /\ k \in {0, 1, 2}
  BY PassedScores
<1> HIDE DEF R, D, S, T, I, E, k
<1>6. ~(I > 750)
  <2> DEFINE sum == 35 * R + 20 * D + 30 * S + 15 * T
             share == sum \div 100
  <2>1. sum \in Nat /\ sum <= 73310
    BY <1>2, <1>4
  <2> HIDE DEF sum
  <2>2. share \in Nat /\ share <= 733
    BY <2>1
  <2>3. I = Clamped(share)
    BY <1>3 DEF sum
  <2> HIDE DEF share
  <2>4. QED BY <2>2, <2>3 DEF Clamped
<1>7. EvaluateState(h) = IF E > 600 /\ k >= 2 THEN "refuse" ELSE "continue"
  BY <1>1, <1>6 DEF EvaluateState, GivesUp, I, E, k
<1>8. E > 600 /\ k >= 2 <=> k = 2 /\ h[1].outcome.text = h[2].outcome.text
  BY <1>5
<1>9. QED BY <1>7, <1>8 DEF k

\* Whatever else is in the window: PassRefusedAfterTwins is invariant.
THEOREM PassAfterTwins == GovernorSpec => []PassRefusedAfterTwins
<1>1. GovernorInv => PassRefusedAfterTwins
  <2> SUFFICES ASSUME GovernorInv, history # << >>, ~LatestFailed(history)
               PROVE  verdict = "refuse" <=>
                        /\ Cardinality(Failures(history)) = 2
                        /\ history[1].outcome.text = history[2].outcome.text
    BY DEF PassRefusedAfterTwins
  <2>1. IsWindow(history) /\ verdict = EvaluateState(history)
        /\ history[Len(history)].outcome = Passed
    BY DEF GovernorInv, LatestFailed, Latest
  <2>2. Len(history) >= 1
    BY <2>1, LenProperties, EmptySeq DEF IsWindow
  <2>3. QED BY <2>1, <2>2, PassedVerdict
<1>2. QED
  BY <1>1, GovernorInitInv, GovernorStepInv, PTL DEF GovernorSpec
-----------------------------------------------------------------------------
(* The gate of the benchmark.                                              *)

\* The plans executed so far have finitely many words; no run has more retries in a row
\* than failures, and with the gate obeyed there are two at most.
GateInv ==
  /\ scenario \in GateScenarios
  /\ \E T : trace \in Seq(T) /\ \A t \in T : IsFiniteSet(t.plan.words)
  /\ retry_count \in Nat /\ validation_failures \in Nat
  /\ retry_count <= validation_failures
  /\ mode = "rnos" => retry_count <= 2

\* From here on the policy refuses what drifts after two failures.  The bridge's is 7.0.
RefusesDrift == RefuseEntropy <= 7675

\* A quotient is rounded to a natural number, not below its integral part.
LEMMA RoundedIs ==
  ASSUME NEW n \in Nat, NEW d \in Nat \ {0}
  PROVE  Rounded(n, d) \in Nat /\ Rounded(n, d) >= n \div d
<1>1. n \div d \in Nat /\ n % d \in Int
  OBVIOUS
<1>2. QED BY <1>1 DEF Rounded

\* A plan's risk is a number.
LEMMA RiskIsNat ==
  ASSUME NEW plan, plan.tool \in PlanTool
  PROVE  AgentRisk(plan) \in Nat
<1> DEFINE base  == BaseRisk(plan)
           blast == BlastRisk(plan)
           rise  == If(Escalates(plan), 900)
           end   == If(Destructive(plan), 3000)
<1>1. base \in Nat
  BY DEF BaseRisk, PlanTool
<1>2. blast \in Nat
  BY DEF BlastRisk
<1>3. rise \in Nat /\ end \in Nat
  BY DEF If
<1>4. AgentRisk(plan) = Lesser(10000, base + blast + rise + end)
  BY DEF AgentRisk
<1> HIDE DEF base, blast, rise, end
<1>5. QED BY <1>1, <1>2, <1>3, <1>4 DEF Lesser

\* The plan to judge next is one of the scenario's.
LEMMA NextPlan ==
  ASSUME GateInv, Planned
  PROVE  /\ Executed = trace
         /\ Plan.tool \in PlanTool /\ IsFiniteSet(Plan.words)
<1>1. Executed = trace
  BY DEF Planned, Executed
<1>2. PICK T : trace \in Seq(T) /\ \A t \in T : IsFiniteSet(t.plan.words)
  BY DEF GateInv
<1>3. Len(trace) \in Nat
  BY <1>2, LenProperties
<1>4. /\ scenario \in GateScenarios
      /\ DOMAIN scenario.plans = 1 .. Len(scenario.plans) /\ Len(scenario.plans) \in Nat
      /\ \A i \in DOMAIN scenario.plans :
           scenario.plans[i].tool \in PlanTool /\ IsFiniteSet(scenario.plans[i].words)
  BY ScenariosAssumption DEF GateInv
<1>5. Len(trace) < Len(scenario.plans)
  BY <1>1 DEF Planned, attempts
<1>6. Len(trace) + 1 \in DOMAIN scenario.plans
  BY <1>3, <1>4, <1>5
<1>7. Plan = scenario.plans[Len(trace) + 1]
  BY <1>1 DEF Plan, attempts
<1>8. QED BY <1>1, <1>4, <1>6, <1>7

\* Its drift is a number.
LEMMA DriftIsNat ==
  ASSUME GateInv, Planned
  PROVE  AgentDrift(Plan) \in Nat
<1>1. PICK T : trace \in Seq(T) /\ \A t \in T : IsFiniteSet(t.plan.words)
  BY DEF GateInv
<1>2. Executed = trace /\ IsFiniteSet(Plan.words)
  BY NextPlan
<1>3. Len(trace) \in Nat /\ DOMAIN trace = 1 .. Len(trace)
  BY <1>1, LenProperties
<1>4. WordDrift(Plan) \in Nat
  <2> DEFINE before == Last(Executed).plan.words
             both   == before \cup Plan.words
             other  == both \ (before \cap Plan.words)
  <2>1. WordDrift(Plan) = IF Executed = << >> \/ both = {} THEN 0
                          ELSE Rounded(3500 * Cardinality(other), Cardinality(both))
    BY DEF WordDrift
  <2>2. ASSUME Executed # << >>, both # {}
        PROVE  Rounded(3500 * Cardinality(other), Cardinality(both)) \in Nat
    <3>1. Len(trace) \in DOMAIN trace
      BY <1>1, <1>2, <1>3, <2>2, EmptySeq
    <3>2. Last(Executed) \in T
      BY <1>1, <1>2, <3>1, ElementOfSeq DEF Last
    <3>3. IsFiniteSet(before)
      BY <1>1, <3>2
    <3> HIDE DEF before
    <3>4. IsFiniteSet(both)
      BY <1>2, <3>3, FS_Union
    <3>5. IsFiniteSet(other)
      <4>1. other \in SUBSET both
        OBVIOUS
      <4> HIDE DEF other, both
      <4>2. QED BY <3>4, <4>1, FS_Subset
    <3> HIDE DEF other, both
    <3>6. Cardinality(both) \in Nat /\ Cardinality(other) \in Nat
      BY <3>4, <3>5, FS_CardinalityType
    <3>7. Cardinality(both) # 0
      BY <2>2, <3>4, FS_EmptySet
    <3> DEFINE m == 3500 * Cardinality(other)
    <3>8. m \in Nat
      BY <3>6
    <3> HIDE DEF m
    <3>9. Rounded(m, Cardinality(both)) \in Nat
      BY <3>6, <3>7, <3>8, RoundedIs
    <3>10. QED BY <3>9 DEF m
  <2> HIDE DEF both, other
  <2>3. QED BY <2>1, <2>2
<1>5. FailedEdits(Plan) \in Nat
  <2> DEFINE failed == {i \in DOMAIN Executed : /\ Executed[i].plan.tool = "edit_file"
                                                /\ Executed[i].plan.target = Plan.target
                                                /\ ~Executed[i].success}
  <2>1. failed \in SUBSET (1 .. Len(trace))
    BY <1>2, <1>3
  <2>2. FailedEdits(Plan) = IF Plan.tool # "edit_file" \/ Plan.target = "" THEN 0
                            ELSE Cardinality(failed)
    BY DEF FailedEdits
  <2> HIDE DEF failed
  <2>3. IsFiniteSet(1 .. Len(trace))
    BY <1>3, FS_Interval
  <2>4. IsFiniteSet(failed)
    BY <2>1, <2>3, FS_Subset
  <2>5. Cardinality(failed) \in Nat
    BY <2>4, FS_CardinalityType
  <2>6. FailedEdits(Plan) = 0 \/ FailedEdits(Plan) = Cardinality(failed)
    BY <2>2
  <2>7. QED BY <2>5, <2>6
<1>6. TargetShift(Plan) \in Nat
  BY DEF TargetShift
<1> DEFINE edits  == Lesser(1700 * FailedEdits(Plan), 3500)
           strays == If(Plan.strays, 2000)
<1>7. edits \in Nat /\ strays \in Nat
  BY <1>5 DEF Lesser, If
<1>8. AgentDrift(Plan) = Lesser(10000, WordDrift(Plan) + TargetShift(Plan) + edits + strays)
  BY DEF AgentDrift
<1> HIDE DEF edits, strays
<1>9. QED BY <1>4, <1>6, <1>7, <1>8 DEF Lesser

\* A drift after two failures in a row is worth more than 7.6.
LEMMA DriftAfterTwo ==
  ASSUME NEW c, c.entropy \in Nat, c.tool_risk \in Nat,
         c.drift_score \in Nat, c.drift_score > 4500,
         c.retry_count = 2, c.validation_failures \in Nat, c.validation_failures >= 2
  PROVE  Composed(c) \in Nat /\ Composed(c) >= 7675
<1> DEFINE retries  == Lesser(900 * c.retry_count, 2700)
           failures == Lesser(1300 * c.validation_failures, 3900)
           stuck    == If(c.retry_count >= 2 /\ c.validation_failures >= 2, 1700)
           rising   == If(c.risk_escalation, 800)
           sum      == c.entropy + 55 * c.tool_risk + 35 * c.drift_score
                         + 100 * (retries + failures + stuck + rising)
<1>1. retries = 1800
  BY DEF Lesser
<1>2. failures \in Nat /\ failures >= 2600
  BY DEF Lesser
<1>3. stuck = 1700
  BY DEF If
<1>4. rising \in Nat
  BY DEF If
<1>5. Composed(c) = Lesser(10000, Rounded(sum, 100))
  BY DEF Composed
<1> HIDE DEF retries, failures, stuck, rising
<1>6. sum \in Nat /\ sum >= 767535
  BY <1>1, <1>2, <1>3, <1>4
<1> HIDE DEF sum
<1>7. sum \div 100 >= 7675
  BY <1>6
<1>8. Rounded(sum, 100) \in Nat /\ Rounded(sum, 100) >= sum \div 100
  <2>1. sum \in Nat /\ 100 \in Nat \ {0}
    BY <1>6
  <2>2. QED BY ONLY <2>1, RoundedIs
<1>9. QED BY <1>5, <1>6, <1>7, <1>8 DEF Lesser

\* The third try after two failures is refused: as fatal, as given up, or as a drift.
LEMMA ThirdTryIsRefused ==
  ASSUME RefusesDrift, GateInv, Planned, retry_count = 2
  PROVE  Gate(GateContext(Plan)).action = "REFUSE"
<1> DEFINE c == GateContext(Plan)
<1>1. /\ c.entropy = 0 /\ c.retry_count = 2 /\ c.retry_limit = 2
      /\ c.drift_score \in Nat /\ c.tool_risk \in Nat
      /\ c.validation_failures \in Nat /\ c.validation_failures >= 2
  BY DriftIsNat, RiskIsNat, NextPlan DEF GateContext, GateInv
<1> HIDE DEF c
<1>2. CASE Fatal(c)
  BY <1>2 DEF Gate, Answer, c
<1>3. CASE ~Fatal(c) /\ InRecovery(c)
  <2>1. GivenUp(c, Composed(c))
    BY <1>1 DEF GivenUp
  <2>2. QED BY <1>3, <2>1 DEF Gate, Answer, c
<1>4. CASE ~Fatal(c) /\ ~InRecovery(c)
  <2>1. FailureSignal(c)
    BY <1>1 DEF FailureSignal
  <2>2. FailureType(c) \notin Recoverable /\ FailureType(c) # "fatal_risk"
    BY <1>4, <2>1 DEF InRecovery, Fatal
  <2>3. c.drift_score > 4500
    BY <2>2 DEF FailureType, Recoverable
  <2>4. Composed(c) \in Nat /\ Composed(c) >= 7675
    BY <1>1, <2>3, DriftAfterTwo
  <2>5. Composed(c) >= RefuseEntropy
    BY <2>4, PolicyAssumption DEF RefusesDrift
  <2>6. \A trust : Policy(Composed(c), trust) = "REFUSE"
    BY <2>5 DEF Policy
  <2>7. QED BY <1>4, <2>6 DEF Gate, Answer, c
<1>5. QED BY <1>2, <1>3, <1>4

\* One step more keeps the trace a sequence of steps with finitely many words.
LEMMA TraceGrows ==
  ASSUME GateInv, Planned, NEW step, step.plan = Plan, trace' = Append(trace, step)
  PROVE  \E T : trace' \in Seq(T) /\ \A t \in T : IsFiniteSet(t.plan.words)
<1>1. PICK T : trace \in Seq(T) /\ \A t \in T : IsFiniteSet(t.plan.words)
  BY DEF GateInv
<1> DEFINE U == T \cup {step}
<1>2. IsFiniteSet(step.plan.words)
  BY NextPlan
<1>3. \A t \in U : IsFiniteSet(t.plan.words)
  BY <1>1, <1>2
<1>4. trace \in Seq(U) /\ step \in U
  BY <1>1
<1> HIDE DEF U
<1>5. Append(trace, step) \in Seq(U)
  BY <1>4, AppendProperties
<1>6. QED BY <1>3, <1>5

\* The invariant of the benchmark holds to begin with, from whichever scenario.
LEMMA GateInitInv == GateRunInit(GateScenarios) => GateInv
<1> SUFFICES ASSUME GateRunInit(GateScenarios) PROVE GateInv
  OBVIOUS
<1>1. scenario \in GateScenarios /\ trace = << >> /\ retry_count = 0
      /\ validation_failures = 0
  BY DEF GateRunInit
<1>2. trace \in Seq({}) /\ \A t \in {} : IsFiniteSet(t.plan.words)
  BY <1>1
<1>3. QED BY <1>1, <1>2 DEF GateInv

\* A refusal, an executed step and the end of a run keep it.
LEMMA GateStepInv ==
  ASSUME RefusesDrift
  PROVE  GateInv /\ [GateRunNext]_gateRunVars => GateInv'
<1> SUFFICES ASSUME GateInv, [GateRunNext]_gateRunVars PROVE GateInv'
  OBVIOUS
<1>1. CASE RefuseStep
  <2>1. /\ Planned
        /\ trace' = Append(trace, Trace(Plan, Gate(GateContext(Plan)), "-", FALSE, TRUE))
        /\ scenario' = scenario /\ mode' = mode /\ retry_count' = retry_count
        /\ validation_failures' = validation_failures
    BY <1>1 DEF RefuseStep, agentVars
  <2> DEFINE step == Trace(Plan, Gate(GateContext(Plan)), "-", FALSE, TRUE)
  <2>2. step.plan = Plan
    BY DEF Trace
  <2> HIDE DEF step
  <2>3. \E T : trace' \in Seq(T) /\ \A t \in T : IsFiniteSet(t.plan.words)
    BY <2>1, <2>2, TraceGrows DEF step
  <2>4. QED BY <2>1, <2>3 DEF GateInv
<1>2. CASE ExecuteStep
  <2> DEFINE answer      == Gate(GateContext(Plan))
             constrained == mode = "rnos" /\ answer.action \in {"DEGRADE", "RECOVER"}
             executable  == IF constrained THEN ConstrainPlan(Plan) ELSE Plan
             success     == Succeeds(executable)
             step        == Trace(Plan, answer, executable.tool, success, FALSE)
  <2>1. /\ Planned
        /\ mode = "naive" \/ answer.action # "REFUSE"
        /\ retry_count' = IF success THEN 0 ELSE retry_count + 1
        /\ validation_failures' = validation_failures + If(~success, 1)
        /\ trace' = Append(trace, step)
        /\ scenario' = scenario /\ mode' = mode
    BY <1>2 DEF ExecuteStep
  <2>2. step.plan = Plan
    BY DEF Trace
  <2> HIDE DEF step, success, executable, constrained
  <2>3. \E T : trace' \in Seq(T) /\ \A t \in T : IsFiniteSet(t.plan.words)
    BY <2>1, <2>2, TraceGrows
  <2>4. mode = "rnos" => retry_count # 2
    BY <2>1, ThirdTryIsRefused
  <2>5. /\ retry_count \in Nat /\ validation_failures \in Nat
        /\ retry_count <= validation_failures /\ (mode = "rnos" => retry_count <= 2)
        /\ scenario \in GateScenarios
    BY DEF GateInv
  <2> HIDE DEF answer
  <2>6. /\ retry_count' \in Nat /\ validation_failures' \in Nat
        /\ retry_count' <= validation_failures'
        /\ mode' = "rnos" => retry_count' <= 2
    <3>1. CASE success
      <4>1. retry_count' = 0 /\ validation_failures' = validation_failures + 0 /\ mode' = mode
        BY <2>1, <3>1 DEF If
      <4>2. QED BY <2>5, <4>1
    <3>2. CASE ~success
      <4>1. /\ retry_count' = retry_count + 1 /\ mode' = mode
            /\ validation_failures' = validation_failures + 1
        BY <2>1, <3>2 DEF If
      <4>2. QED BY <2>4, <2>5, <4>1
    <3>3. QED BY <3>1, <3>2
  <2>7. QED BY <2>1, <2>3, <2>5, <2>6 DEF GateInv
<1>3. CASE FinishRun
  <2>1. trace' = << >> /\ retry_count' = 0 /\ validation_failures' = 0 /\ scenario' = scenario
    BY <1>3 DEF FinishRun
  <2>2. \E T : trace' \in Seq(T) /\ \A t \in T : IsFiniteSet(t.plan.words)
    <3> DEFINE T == {}
    <3>1. trace' \in Seq(T) /\ \A t \in T : IsFiniteSet(t.plan.words)
      BY <2>1
    <3> HIDE DEF T
    <3>2. QED BY <3>1
  <2>3. scenario' \in GateScenarios
    BY <2>1 DEF GateInv
  <2>4. /\ retry_count' \in Nat /\ validation_failures' \in Nat
        /\ retry_count' <= validation_failures' /\ retry_count' <= 2
    BY <2>1
  <2>5. QED BY <2>2, <2>3, <2>4 DEF GateInv
<1>4. CASE UNCHANGED gateRunVars
  BY <1>4 DEF GateInv, gateRunVars, agentVars
<1>5. QED BY <1>1, <1>2, <1>3, <1>4 DEF GateRunNext

\* Under a policy that refuses what drifts after two failures, no scenario gets past them:
\* DriftIsNoWayOut is invariant.
THEOREM TwoRetriesAtMost ==
  ASSUME RefusesDrift
  PROVE  GateRunSpec => []DriftIsNoWayOut
<1>1. GateInv => DriftIsNoWayOut
  BY DEF GateInv, DriftIsNoWayOut
<1>2. QED
  BY <1>1, GateInitInv, GateStepInv, PTL DEF GateRunSpec
-----------------------------------------------------------------------------
(* The two programs side by side.                                          *)

\* A behaviour of either is, seen from the other, one in which nothing happens: what is
\* proved of each on its own holds of both.
THEOREM ProgramsKeepApart ==
  ASSUME GateScenarios # {}
  PROVE  RuntimeSpec => GateRunSpec /\ GovernorSpec
<1>1. RuntimeInit => GateRunInit(GateScenarios) /\ GovernorInit
  <2> DEFINE some == CHOOSE s \in GateScenarios : TRUE
  <2>1. some \in GateScenarios
    OBVIOUS
  <2> HIDE DEF some
  <2>2. GateRunInit({some}) => GateRunInit(GateScenarios)
    BY <2>1 DEF GateRunInit
  <2>3. GateRunInit(IF program = "gate" THEN GateScenarios ELSE {some})
          => GateRunInit(GateScenarios)
    BY <2>2
  <2>4. QED BY <2>3 DEF RuntimeInit, some
<1>2. [RuntimeNext]_runtimeVars => [GateRunNext]_gateRunVars
  BY DEF RuntimeNext, runtimeVars
<1>3. [RuntimeNext]_runtimeVars => [GovernorNext]_governorVars
  BY DEF RuntimeNext, runtimeVars
<1>4. QED
  BY <1>1, <1>2, <1>3, PTL DEF RuntimeSpec, GateRunSpec, GovernorSpec
=============================================================================
