---------------------------- MODULE WorkflowGate ----------------------------
(***************************************************************************)
(* The hybrid compute gate of the CI pipeline: scripts/hybrid_gate.ps1,    *)
(* update_state.ps1 and simulate_failure.ps1, driven by the steps of       *)
(* .github/workflows/rnos-hybrid-gate.yml or by the loop README.md gives   *)
(* for running it locally.  Each pipeline step records its outcome in      *)
(* .rnos/state.json and then asks the gate, as two programs that share     *)
(* nothing but that file; in the workflow either can end in an error.      *)
(*                                                                         *)
(* Entropies are in hundredths, as are the thresholds of rnos-policy.json. *)
(***************************************************************************)
EXTENDS Integers, Sequences, FiniteSets

CONSTANTS
  RefuseEntropy,  \* refuse_entropy
  DegradeEntropy, \* degrade_entropy
  CbWindowSize,   \* cb_window_size
  CbRate,    \* cb_threshold
  Steps,          \* the workflow's pipeline steps
  MaxErrors       \* bound: programs that end in an error

ASSUME WorkflowAssumption ==
  /\ RefuseEntropy \in Nat /\ DegradeEntropy \in Nat
  /\ CbWindowSize \in Nat /\ CbRate \in Nat
  /\ Steps \in Nat /\ Steps >= 4 /\ MaxErrors \in Nat

VARIABLES
  driver,  \* "workflow" or "local"
  simulated, \* whether the pipeline's outcomes are simulate_failure.ps1's
  given,   \* the pipeline's outcomes so far, 1 for a failure
  phase,   \* what runs next: "update", "gate", or "ended"
  state,   \* .rnos/state.json
  outcome, \* the outcomes of the workflow's steps so far
  verdict, \* the gate's decision in each of them
  job      \* "running", "success" or "failure"

workflowVars == <<driver, simulated, given, phase, state, outcome, verdict, job>>

Capped(score, cap) == IF score <= cap THEN score ELSE cap

Sum(s) == Cardinality({i \in DOMAIN s : s[i] = 1})

\* simulate_failure.ps1
SimulateFailure(step) ==
  LET sequence == <<0, 1, 1, 1, 1, 0, 1, 0, 1, 0>>
  IN  IF step \in DOMAIN sequence THEN sequence[step] ELSE 0

\* update_state.ps1 -Init
EmptyState ==
  [ jobsSpawned |-> 0, consecutiveFailures |-> 0, repeatedTargetFailures |-> 0,
    computeMinutes |-> 0, failureHistory |-> << >> ]

\* update_state.ps1: a failure costs two retry jobs, and only the streak forgets.
UpdateState(raw, failure) ==
  LET history == Append(raw.failureHistory, failure)
  IN  [ jobsSpawned            |-> raw.jobsSpawned + 1 + failure,
        consecutiveFailures    |-> IF failure = 1 THEN raw.consecutiveFailures + 1 ELSE 0,
        repeatedTargetFailures |-> raw.repeatedTargetFailures + failure,
        computeMinutes         |-> raw.computeMinutes + 2,
        failureHistory         |-> IF Len(history) > CbWindowSize THEN Tail(history)
                                   ELSE history ]

Entropy(st) ==
  Capped(80 * st.consecutiveFailures, 300) + Capped(40 * st.jobsSpawned, 500)
    + Capped(50 * st.repeatedTargetFailures, 200) + Capped(5 * st.computeMinutes, 100)

CbTripped(st) ==
  LET history == st.failureHistory
  IN  Len(history) >= CbWindowSize /\ 100 * Sum(history) > CbRate * Len(history)

\* hybrid_gate.ps1: RNOS is asked before the breaker.
HybridGate(st) ==
  IF Entropy(st) >= RefuseEntropy       THEN [decision |-> "REFUSE", trigger |-> "RNOS"]
  ELSE IF CbTripped(st)                 THEN [decision |-> "REFUSE", trigger |-> "CB"]
  ELSE IF Entropy(st) >= DegradeEntropy THEN [decision |-> "DEGRADE", trigger |-> "RNOS"]
  ELSE [decision |-> "ALLOW", trigger |-> "NONE"]

NoVerdict == [decision |-> "NONE", trigger |-> "NONE"]
-----------------------------------------------------------------------------
WorkflowInit ==
  /\ driver \in {"workflow", "local"}
  /\ simulated \in BOOLEAN
  /\ given = << >> /\ outcome = << >> /\ verdict = << >>
  /\ phase = "update"
  /\ state = EmptyState
  /\ job = "running"

step == Len(outcome) + 1

\* Slip: the steps after the fourth have no condition of their own.
RunsUnconditionally(n) ==
  IF driver = "local" THEN \A i \in 1 .. n - 1 : outcome[i] = "success"
  ELSE \A i \in 1 .. n - 1 : i # 4 => outcome[i] # "failure"

\* Whether step n runs.  The local loop breaks at the first exit code; a step of
\* the workflow needs that none failed before, the fourth excepted, which may fail
\* (continue-on-error) and whose outcome the later ones ask for.
Runs(n) ==
  IF driver = "local" THEN \A i \in 1 .. n - 1 : outcome[i] = "success"
  ELSE /\ \A i \in 1 .. n - 1 : i # 4 => outcome[i] # "failure"
       /\ n > 4 => outcome[4] # "failure"

StepEnds(result, v) ==
  /\ outcome' = Append(outcome, result)
  /\ verdict' = Append(verdict, v)

\* Slip: an outcome is only recorded if it is a success.
UpdateSuccess(failure) ==
  /\ phase = "update" /\ step <= Steps /\ Runs(step)
  /\ simulated => failure = SimulateFailure(step)
  /\ given' = Append(given, failure)
  /\ state' = IF failure = 0 THEN UpdateState(state, failure) ELSE state
  /\ phase' = "gate"
  /\ UNCHANGED <<driver, simulated, outcome, verdict, job>>

\* The step's outcome is recorded ...
Update(failure) ==
  /\ phase = "update" /\ step <= Steps /\ Runs(step)
  /\ simulated => failure = SimulateFailure(step)
  /\ given' = Append(given, failure)
  /\ state' = UpdateState(state, failure)
  /\ phase' = "gate"
  /\ UNCHANGED <<driver, simulated, outcome, verdict, job>>

\* ... and the gate is asked; its exit code is the step's.
Judge ==
  /\ phase = "gate"
  /\ LET v == HybridGate(state)
     IN  StepEnds(IF v.decision = "REFUSE" THEN "failure" ELSE "success", v)
  /\ phase' = "update"
  /\ UNCHANGED <<driver, simulated, given, state, job>>

\* One of the two programs ends in an error, and with it the step.
Err ==
  /\ driver = "workflow" /\ phase \in {"update", "gate"} /\ step <= Steps /\ Runs(step)
  /\ Cardinality({i \in DOMAIN outcome : outcome[i] = "failure" /\ verdict[i] = NoVerdict})
       < MaxErrors
  /\ StepEnds("failure", NoVerdict)
  /\ phase' = "update"
  /\ UNCHANGED <<driver, simulated, given, state, job>>

Skip ==
  /\ phase = "update" /\ step <= Steps /\ ~Runs(step)
  /\ StepEnds("skipped", NoVerdict)
  /\ UNCHANGED <<driver, simulated, given, phase, state, job>>

\* Slip: only the outcomes of the steps are asserted.
ExpectedOutcomes ==
  /\ \A i \in 1 .. 3 : outcome[i] = "success"
  /\ outcome[4] = "failure"

\* "Assert Expected Gate Behavior", which runs always.
Expected ==
  /\ \A i \in 1 .. 3 : outcome[i] = "success"
  /\ outcome[4] = "failure"
  /\ state.failureHistory = <<0, 1, 1, 1>>
  /\ state.consecutiveFailures = 3

\* The job passes if the assertion does and no step failed for good.
Finish ==
  /\ phase = "update" /\ step > Steps
  /\ job' = IF /\ driver = "workflow" => Expected
               /\ \A i \in 1 .. Steps : (driver = "local" \/ i # 4) => outcome[i] # "failure"
            THEN "success" ELSE "failure"
  /\ phase' = "ended"
  /\ UNCHANGED <<driver, simulated, given, state, outcome, verdict>>

WorkflowNext ==
  \/ \E failure \in {0, 1} : Update(failure)
  \/ Judge
  \/ Err
  \/ Skip
  \/ Finish

WorkflowSpec == WorkflowInit /\ [][WorkflowNext]_workflowVars
-----------------------------------------------------------------------------
Refused(i) == verdict[i].decision = "REFUSE"

\* README: "The gate enforces a hard execution boundary: once refused, no subsequent
\* step runs."  Nothing is recorded and nobody is asked after a refusal, wherever in
\* the pipeline it came and although the job goes on after the fourth step.
NothingRunsAfterRefusal ==
  \A i \in DOMAIN verdict : Refused(i) =>
    /\ Len(given) = i
    /\ phase # "gate"
    /\ \A j \in i + 1 .. Len(outcome) : outcome[j] = "skipped"

\* The workflow is green only if the pipeline went wrong the way the workflow is
\* simulated for, and then always, unless a program failed.
GreenOnlyOnTheBurst ==
  LET burst == given = <<0, 1, 1, 1>>
  IN  driver = "workflow" /\ phase = "ended" =>
        /\ job = "success" => burst
        /\ burst /\ (\E i \in DOMAIN verdict : Refused(i)) => job = "success"

\* The counts RNOS adds up are never forgiven.  Three failures, however far apart,
\* close the gate before the tenth step is over, and one alone never does; and though
\* the two signals are called orthogonal, after the fifth step, the first with a full
\* window, the breaker closes the gate at no step, RNOS having closed it before.
ThreeFailuresCloseTheGate ==
  /\ phase = "ended" /\ Sum(given) >= 3 => "failure" \in {outcome[i] : i \in DOMAIN outcome}
  /\ (\E i \in DOMAIN verdict : Refused(i)) => Sum(given) >= 2
  /\ \A i \in DOMAIN verdict : verdict[i] = [decision |-> "REFUSE", trigger |-> "CB"] => i = 5
=============================================================================
