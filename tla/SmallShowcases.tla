--------------------------- MODULE SmallShowcases ---------------------------
(***************************************************************************)
(* The three showcases without a runtime: hybrid_showcase, slow_drift_     *)
(* showcase and retry_storm_showcase.  The first two run structural        *)
(* entropy, a sliding window and both over one list of outcomes; the third *)
(* expands failed calls breadth first, with and without a budget.          *)
(***************************************************************************)
EXTENDS Integers, Sequences, FiniteSets

Domain == INSTANCE DomainControllers WITH
  CbWindow <- 5, CbThreshold <- 60, PersistWindow <- 10, PersistDegrade <- 30,
  PersistRefuse <- 50, RnosDegrade <- 8000, RnosRefuse <- 10000

\* PHASE1_STEPS, and PHASE2_MAX_STREAK or MAX_STREAK
Phase1Steps == 12
MaxStreak == 2

\* The list's position, the failures in a row where they are capped, the breaker's
\* window, and the steps at which RNOS, the breaker and the two together stopped.
NewMonitors == [step |-> 0, streak |-> 0, window |-> << >>, rnos |-> 0, cb |-> 0, hybrid |-> 0]

\* generate_sequence: the second phase forces a success after two failures, the
\* first draws freely.
HybridOutcomes(m) ==
  IF m.step >= Phase1Steps /\ m.streak >= MaxStreak THEN {TRUE} ELSE BOOLEAN

\* generate_failures
DriftOutcomes(m) == IF m.streak >= MaxStreak THEN {TRUE} ELSE BOOLEAN

\* structural_entropy: the call graph grows in the first phase only; the formula is
\* the microservice controller's.
StructuralEntropy(global_step) ==
  LET grown == IF global_step \div 2 <= 5 THEN 2 ^ (global_step \div 2) ELSE 32
      first == global_step <= Phase1Steps
  IN  Domain!MsEntropy([ depth |-> IF first THEN global_step ELSE 1,
                         fanout |-> IF first THEN grown ELSE 1, total_requests |-> global_step ])

\* rnos_entropy
FlatEntropy(step) == Domain!MsEntropy([depth |-> 1, fanout |-> 1, total_requests |-> step])

Refusing(entropy) == entropy >= 10000

\* run_cb: a full window, more than 60% of it failures.
Dense(window) == Len(window) = 5 /\ Domain!FailuresOf(window) > 3

\* run_hybrid: the entropy before the call, the window after it.
CombinedStep(step, entropy, window) ==
  IF Refusing(entropy) \/ Dense(window) THEN step ELSE 0

First(stopped, now) == IF stopped # 0 THEN stopped ELSE now

\* One more outcome for run_rnos, run_cb and run_hybrid.
Watched(m, success, entropy) ==
  LET step   == m.step + 1
      window == Domain!Slid(m.window, 5, success)
  IN  [ step |-> step, window |-> window, streak |-> IF success THEN 0 ELSE m.streak + 1,
        rnos |-> First(m.rnos, IF Refusing(entropy) THEN step ELSE 0),
        cb |-> First(m.cb, IF Dense(window) THEN step ELSE 0),
        hybrid |-> First(m.hybrid, CombinedStep(step, entropy, window)) ]

\* The cap of failures in a row starts with the second phase.
HybridWatched(m, success) ==
  LET next == Watched(m, success, StructuralEntropy(m.step + 1))
  IN  [next EXCEPT !.streak = IF m.step < Phase1Steps THEN 0 ELSE @]

DriftWatched(m, success) == Watched(m, success, FlatEntropy(m.step + 1))
-----------------------------------------------------------------------------
\* A retry storm: the depths of the calls to make, the calls made, the budget left in
\* tenths, and how many calls RNOS had admitted when it refused; -1 while it has not.
NewStorm == [queue |-> <<0>>, total_calls |-> 0, entropy_remaining |-> 500, refused_at |-> -1]

\* operation_cost
OperationCost(depth) == 10 + 5 * depth

Fanout == 2

Affordable(storm) == OperationCost(Head(storm.queue)) <= storm.entropy_remaining

\* run_baseline, which goes on where run_rnos refuses: until then they make the same
\* calls, both being seeded alike.
Stormed(storm, success) ==
  LET depth    == Head(storm.queue)
      refused  == storm.refused_at >= 0 \/ ~Affordable(storm)
      children == [i \in 1..(IF success THEN 0 ELSE Fanout) |-> depth + 1]
  IN  [ queue |-> Tail(storm.queue) \o children,
        total_calls |-> storm.total_calls + 1,
        entropy_remaining |-> IF refused THEN storm.entropy_remaining
                              ELSE storm.entropy_remaining - OperationCost(depth),
        refused_at |-> IF refused /\ storm.refused_at < 0 THEN storm.total_calls
                       ELSE storm.refused_at ]
=============================================================================
