# RNOS runtime: formal specifications

RNOS is a gate that stands between an agent and the tools it calls. Before every call it scores the
run so far and answers ALLOW, DEGRADE (a caution window) or REFUSE. The repository compares it with
two circuit breakers, merges it with one of them, carries it over to CI, database, microservice and
scheduler control, puts it in front of agents that edit a repository, attacks it with simulated
adversaries, and streams what happens to a live dashboard. These modules model those parts as state
machines, TLC checks them on small instances, and TLAPS proves the central facts for every value of
the constants.

Paths below are relative to `src/`. `PROJECT.json` maps each definition to the lines it stands for.

- [1. The system](#1-the-system)
- [2. The modules](#2-the-modules)
- [3. The runs](#3-the-runs)
- [4. Fairness](#4-fairness)
- [5. What is proved](#5-what-is-proved)
- [6. Findings](#6-findings)
- [7. What is not modelled](#7-what-is-not-modelled)
- [8. Plan](#8-plan)

## 1. The system

Almost every program of the repository is a single-threaded loop: *plan, ask the gate, stop or
execute, record the outcome*. Nothing runs concurrently inside it. What is hard is the **sequence**:
five or six counters with different windows and different resets meet in one decision, and the
environment (a planner, a tool, a test suite) may answer anything at any time. Many of the programs
also *compare*: several controllers are run over the same outcomes, and what the repository claims of
them are relations between runs. The live streaming is the exception: several publishers, several
viewers and one asyncio server overlap, time out and die.

### Components

| Component | State it keeps | Operations | Talks to |
|---|---|---|---|
| Circuit breaker, `baselines/circuit_breaker.py` | state, consecutive failures, cooldown left and its limit, blocked count | `should_execute`, `record_result`, `tick` | called by the loop; knows neither steps nor tools |
| Adaptive breaker, `baselines/adaptive_circuit_breaker.py` | the same over a window of outcomes, plus an adapted threshold | the same three | experiments, hybrid controller, showcases, audits |
| RNOS gate, `rnos/` | history of (tool, success), running failure average | `assess`, `record_outcome` | called by every loop |
| Hybrid controller, `rnos/hybrid.py` | an RNOS gate, an adaptive breaker, a window of step records | `evaluate`, `record_outcome`, `tick` | both detectors, merged by severity |
| Agent loop, `scripts/run_agent.py` | step, retry count, executed steps, degrade budget, stop reason | one iteration per step | planner, gate or breaker, tool |
| Experiments 2 to 5 and comparison, `experiments/`, `scripts/run_comparison.py` | per strategy: step, retry count, latency, first intervention, log | one step per call of a simulated API; metrics over the logs | gate, breaker, both or none |
| Experiment 6, `scripts/run_experiment_6.py` | accumulator, trace, controllers | one planned addition per step; coherence analysis afterwards | gate, breaker, hybrid |
| Domain controllers, `experiments/{ci,db,microservice,scheduler}_control` | breaker window, persistence window, latch | `evaluate`, `record_outcome` over a list of domain states | three parts, merged by severity |
| Pipeline gate, `scripts/*.ps1`, `.github/workflows/rnos-hybrid-gate.yml` | `.rnos/state.json` | update, judge | steps of a job, through a file and exit codes |
| RNOS bridge, `agent_runtime/rnos_bridge.py` | none of its own: it judges a context | `evaluate`, `classify_failure` | real loop, scenario runner |
| Scenario runner, `agent_runtime/runner.py` | retries, validation failures, trace | one plan per step, naive and then gated | bridge, risk and drift models |
| Retry governor, `agent_runtime/{rnos_adapter,cevak,intent_signal}.py` | the last three attempts | one attempt per step | `run_task`, the LangChain demonstration |
| Real repository loop, `agent_runtime/real_loop/` | plans so far, retry count, validation failures, retry budget, risk scores, the sandbox | one plan per step, rollback at the end | bridge, patcher, test runner |
| Sandbox patcher, `real_loop/patcher.py` | the files of the sandbox and its snapshot | apply, line-edit fallback, rollback | real loop |
| Live streaming, `agent_runtime/live/`, `event_stream.py` | publisher: disabled; server: recent events, clients; viewer: socket | emit, ingest, broadcast, join, leave | HTTP and web sockets |
| Showcases, `experiments/*_showcase` | an agent, a graph of services, a controller | one action per step; a refusal does not end the run | gate, breaker, hybrid |
| Audits, `audit/` | variants of gate and breaker over the first adversary | the same loop | gate, breaker |
| CEVAK, `rnos_cevak/` | calibration, references, one window of actions | record, calibrate, set baseline, evaluate | the evasion experiment |

The other parts (reports, tuning, language models, query tool) are listed in section 7.

### What makes each correct, and what is hard about it

- **Breakers.** A caller relies on four states and the moves between them, on one probe per
  half-open period, on exactly the announced cooldown, on a hard stop when the
  budget of blocked requests is spent. Hard: the class counts no probes and answers each question in
  `half_open` with another one, so only the *order of the caller's calls* keeps the promise;
  the tick comes before the question; the adaptive breaker keeps the outage in its window when a
  probe closes it.
- **Agent loop under RNOS.** DEGRADE grants one degraded call, and an ALLOW in between resets it;
  seven scores move in different directions when a call fails. Correct: no caution window spends
  more than its budget, a failure never loosens the next decision, the stop reason is the true one.
- **Experiments.** Correct: an outage is refused within a fixed number of calls whatever came
  before, the merged controller is never later than its parts, the matched pairs really are
  indistinguishable until they part, the scores are what the designs say. Hard: the strategies see
  the same API at different calls, and the failure average remembers what the windows forget.
- **Domain controllers.** Correct: the merged run ends exactly with the first of its parts, and names
  it. Hard: a part inside the merged controller and the same part alone learn from different runs.
- **Pipeline gate.** Correct: nothing runs after a refusal; green only if the failure that was
  planned is the one that was caught. Hard: two programs per step that share a file and an exit
  code, either of which may die; `continue-on-error`.
- **Agent runtime.** Correct: neither drifting nor exploring is a way around the limit of retries.
  Hard: a ladder of exits, each reading other scores; a window that outlives what is in it.
- **Real loop.** Correct: no dangerous edit goes in, a failing agent is stopped, the repository ends
  as it began whatever raises. Hard: counters that are never reset, a budget that shrinks while tests
  pass, exceptions out of the middle of a step.
- **Patcher.** Correct: does what the diff means, writes nothing if unsafe. Hard: files are written
  one by one; hunks are searched for in a file that has drifted.
- **Live streaming.** Correct: a connected viewer misses nothing and sees nothing twice. Hard: the
  broadcast awaits each viewer while others join, leave or broadcast; a POST times out while it is
  still being delivered; the server restarts.
- **Showcases, audits, CEVAK.** Correct: refusals wear off where they should and not where
  they should not, variants that are compared differ, a reference is frozen once. Hard: an agent that
  reacts to refusals, a breaker whose probe nobody hears of, state shared between task classes.

Each hazard is in `PROJECT.json` at its line, with the properties that would catch it going wrong.

## 2. The modules

| Module | Extends, instantiates | Proofs | Run |
|---|---|---|---|
| `BreakerProtocol` | | implemented by both breakers | |
| `CircuitBreaker` | instance of `BreakerProtocol` | `BreakerProofs` | through `BreakerLoop` |
| `BreakerLoop` | `CircuitBreaker` | `BreakerProofs` | `breaker_loop` |
| `AdaptiveCircuitBreaker` | instance of `BreakerProtocol` | `AdaptiveProofs` | through all its users |
| `AdaptiveLoop` | `AdaptiveCircuitBreaker` | `AdaptiveProofs` | `adaptive_loop` |
| `Rnos` | | | through all its users |
| `RnosLoop` | `Rnos` | `RnosLoopProofs` | `rnos_loop` |
| `Hybrid` | `Rnos` | `ExperimentsProofs` | through the experiments and showcases |
| `ConfigurableApi`, `Experiment2`, `Experiment3`, `Experiment5` | `Hybrid`, each the one before; instances of the breaker | `ExperimentsProofs` | through `Experiments` |
| `Experiments` | `Experiment5` | `ExperimentsProofs` | `experiments` |
| `TriModal`, `DomainControllers`, `DomainRun` | each the one before | `ControllersProofs` | through `Controllers` |
| `WorkflowGate` | | `ControllersProofs` | through `Controllers` |
| `Controllers` | `DomainRun`, `WorkflowGate` | `ControllersProofs` | `controllers` |
| `RnosBridge` | `Rnos` | | through its two callers |
| `AgentGate` | `RnosBridge` | `AgentRuntimeProofs` | through `AgentRuntime` |
| `RetryGovernor` | | `AgentRuntimeProofs` | through `AgentRuntime` |
| `AgentRuntime` | `AgentGate`, `RetryGovernor` | `AgentRuntimeProofs` | `agent_runtime` |
| `RealRun` | `RnosBridge` | `RealRunProofs` | `real_run` |
| `Patcher` | | `RealRunProofs` | `patcher`, `patcher_drift` |
| `LiveStream` | | `LiveStreamProofs` | `live` |
| `ShowcaseLoop`, `AdversarialShowcase`, `SmolderingShowcase`, `SmallShowcases` | `Hybrid`; `DomainControllers` | `ExperimentsProofs` | through `Showcases` |
| `Audit` | `AdversarialShowcase`, `Rnos`, the breaker | `ExperimentsProofs` | through `Showcases` |
| `Experiment6`, `Cevak` | `Hybrid`; none | `ExperimentsProofs` (`Cevak`) | through `Showcases` |
| `Showcases` | all of the last three rows | `ExperimentsProofs` | `showcases`, `cevak_isolation` |

Detectors:

- **`BreakerProtocol`** is what a caller of either breaker relies on: the state it sees and the count
  of blocked requests. Four states, five moves, a budget whose last unit is the stop.
- **`CircuitBreaker`**: one record `cb` with the fields of the class and `reply`, the latest reason.
  `should_execute`, `record_result` and `tick` are functions from record to record, so a loop can
  compose them as the code does, and each is an action. The `Spec` lets a caller make the calls in
  any order: what is proved of it holds for any caller. **`AdaptiveCircuitBreaker`**: the same; rates
  are whole percents, and a window is compared by cross-multiplication, not division.
- **`Rnos`**: entropy, trust and policy as operators over a history (the last ten outcomes and the
  failure average, all that any score reads). Numbers are the code's floats times a thousand,
  the average in a finer unit with the code's rounding, so that the thresholds are exact.
- **`Hybrid`**: the pure part of the merged controller, the coherence proxy and the merge.

Loops:

- **`BreakerLoop`**, **`AdaptiveLoop`**: the breaker branch of `run_agent`, and the comparison over the
  adaptive breaker. `Blocked` and `Admitted` are one iteration up to the answer (tick, then ask),
  `Execute` is the tool and `record_result`. History: `waited`, the iterations skipped.
- **`RnosLoop`**: the default branch of `run_agent`. The four answers are the actions `Refuse`,
  `DegradeExhausted`, `Degrade`, `Allow`; `Execute` records the outcome in the history, the counters
  and the degrade budget. History: `degraded_calls`.
- **`ConfigurableApi`** has one definition per factory of a schedule. A schedule lists what each
  call does; a call with a probability strictly between 0 and 1 may go either way.
  **`Experiment2`, `Experiment3`, `Experiment5`** are the runners as operators from run record to run
  record (`RnosStep`, `BreakerStep`, ...) with the metrics over their logs. **`Experiments`** is the
  program: `Iterate` gives the next outcome to every strategy still running, in lockstep (every
  strategy restarts the API with the same seed, so the *k*-th call meets the *k*-th outcome);
  `Finish` keeps the results and starts the next scenario.
- **`TriModal`** is what the four domains' copies of the controller code have in common;
  **`DomainControllers`** has each domain's entropy, severity and scenarios; **`DomainRun`** runs all
  five modes over one list of domain states in step. A list has the outcomes its scenario writes
  (`written`), or the scenario's structure with any outcomes.
- **`WorkflowGate`**: `Update` runs `update_state.ps1`, `Judge` runs `hybrid_gate.ps1`, `Err` is either
  of them ending in an error, `Skip` a step whose condition is false, `Finish` the assertion at the
  end of the job. `driver` tells the workflow from the local loop of the README.
- **`RnosBridge`**: `classify_failure` and `RNOSBridge.evaluate` as operators on a context.
  **`AgentGate`**: `run_agent_gate_scenario`, naive and then with RNOS; a plan is a record of the words
  and names its risk and drift scores look at. **`RetryGovernor`**: the governor of `run_task` over the
  scores of an attempt. **`RealRun`**: `run_real_scenario`; `Finally` rolls back and, if nothing is
  being raised, saves the log.
- **`Patcher`**: files as sequences of lines. `Submit` is the check of the whole patch,
  `ApplyFile` one file of it, `Mismatch` and `Fallback` the line-edit way, `Rollback` the end.
- **`LiveStream`**: the server is one asyncio loop, so each action is a stretch of a handler between
  two awaits: `Ingest` (remember, list the clients), one `Send` or `SendFails` per awaited send,
  `Answer`; `Join` adds the viewer and sends the snapshot. `TimeOut` gives up on a POST without
  taking it back; `Restart` loses all the server's memory.
- **`ShowcaseLoop`** is the loop both adversaries share, with the mode's way of cutting an action
  down as a parameter; the two showcases add their agents. What an agent finds attractive and
  whether a loaded service fails are the environment's choice. **`Audit`** runs *groups* of variants
  against the same agent and outcomes, so that a property can compare them. **`Experiment6`** has the
  accumulator, its four modes and the offline coherence analysis, **`Cevak`** the monitor, with
  logarithms from a table. **`Showcases`** is one program: each behaviour is of one show.

Modules named `MC...` give the constants their values. Definitions commented "Slip:" are
wrong variants of the definition that follows, each a plausible bug. They are not part of any
specification: each is put in place of its definition to see that a property notices.

## 3. The runs

`tlc -config <cfg> <module>`; a violation run is one where the documentation says something the code
does not do. Every passing run finishes within three minutes.

| Run | Specification, bounds | Why these bounds are enough |
|---|---|---|
| `breaker_loop` | threshold 3, cooldown 1 to 8, budget 30 | `run_agent`'s own values, but for the budget: with its default of 10 the cooldown never reaches its ceiling (1 + 2 + 4 + 8 ticks are more). The budget bounds every counter: no other bound is needed |
| `adaptive_loop` | window 5, rate 60 %, floor 40 %, step 5, cooldown 2 to 10, budget 20 | the values of experiments 2 to 4, in place of the class's own defaults; the windows mix several outages |
| `rnos_loop` | thresholds 10.0 / 7.5, 10 steps, latency score 0 or 1.0, two tools | the thresholds of the experiments, for under the defaults (6.0 / 3.0) every run is over by step four (a theorem, section 5). At 10 steps windows open, close and open again |
| `experiments` | the suites as written, `MaxLuck` 2 failures drawn in a scenario that draws; `FreeSteps` 16 against an API without a script, latency 80 or 410 | the longest window of any score is 10: 16 steps hold a full window of any schedule and a whole outage after it. The drawing scenarios draw at most 10 % a call |
| `controllers` | the scenarios' 20 steps as written; `FreeSteps` 13 with any outcomes; 10 pipeline steps, `MaxErrors` 2 | the longest window (persistence) is 10 and fills before step 13; two errors hit two steps or two programs of one step |
| `agent_runtime` | the four demo scenarios, every three of fifteen plans, every four of those that edit or test; `MaxAttempts` 5 of ten changes and four outcomes | the gate stops a failing run by step four; the governor sees three attempts, and five turn its window over |
| `real_run` | 7.0 / 4.5, both modes, 4 steps, up to 2 failing tests, ten shapes of plan, `TextDrift` 2.0 | a failing run under the gate is over after two failing steps, and four hold a fix before or after them. The ten plans are the shapes the gate tells apart |
| `patcher` | every file of at most 3 lines over three texts; every hunk of at most two lines, pairs of hunks, two-file patches; `MaxPatches` 1 | the search for a hunk and the fallback's conditions compare at most three neighbouring lines |
| `patcher_drift` | the same | expected to fail: section 6 |
| `live` | 2 streams, 2 events in all (`MaxEvents`), 2 viewers, one remembered event, `MaxRestarts` 1 | two of each overlap in every way; one remembered event makes the deque drop the other; a viewer that reconnects is another viewer. No symmetry, which would be unsound for liveness |
| `showcases` | the shows' own budgets; `MaxTurns` 2, two `Targets`, lists of `MaxListed` 24, traces of `MaxRows` 3, `MaxOps` 6 calls of a monitor, storms of `MaxStormCalls` 32 | two turns are an outage and its recovery, or a change of target inside an outage; 24 outcomes go twice through a persistence window; the coherence analysis compares two neighbouring rows; CEVAK's window holds ten actions and, where classes are compared, three |
| `cevak_isolation` | three turns, else the same, one show | expected to fail: section 6 |

What they show:

- **`breaker_loop`.** A probe comes after exactly limit - 1 skipped iterations
  (`ProbeAfterFullCooldown`). The loop implements `BreakerProtocol` (`ImplementsProtocol`: the
  refinement maps the protocol's `mode` and `blocked` to fields of `cb`). A tool that stays broken stops
  the loop (`OutageStopsTheLoop`); one that stays healthy closes the breaker for good
  (`RecoversWithTheTool`).
- **`adaptive_loop`.** `AdaptationIsInert`: a closed breaker always judges at the *initial* rate, so
  the adaptation never changes an answer. `RecoversWithTheApi`: closed or stopped in the end.
- **`rnos_loop`.** The degrade budget over reopening windows (`BudgetIsHonoured`); after a failure,
  with the same planner, the next decision is at least as strict (`FailureNeverLoosens`).
- **`experiments`.** `HybridNeverLater`: never later than its parts, whatever the API does; its
  breaker never probes and its coherence proxy never leaves the healthy band. `OutagesAreRefused`: after
  five failures in a row by RNOS, four by the merged controller, whatever came before. `PairsAreMatched`: the matched pairs get the same entropies until one recovers.
  `ScoresAsMeasured`: the selectivity of every labelled suite and the phase transition by length.
  `ScoresAsMeasured` also says which scenarios the comparison gets wrong, for every draw.
  `DamageIsOrdered`: RNOS wastes no more than the breaker, smoldering failures excepted.
  `NoiseIsForgiven`: streaks of at most two failures are never refused by RNOS, however long they go
  on, and two successes bring it back to ALLOW.
- **`controllers`.** `HybridIsEarliest`, `TriggerNamesTheFirst`: the merged controller ends with the
  first of its parts and names exactly those that would have refused alone.
  `EachAxisWinsItsScenario`: as the scenarios are written. `NothingRunsAfterRefusal`: no step of the
  pipeline runs after a refusal, whichever program dies. `GreenOnlyOnTheBurst`: the job is green only
  if the pipeline failed as planned. `ThreeFailuresCloseTheGate`: RNOS's counts are never forgiven,
  and the breaker decides at one step only.
- **`agent_runtime`.** `DriftIsNoWayOut`: never a third retry, though recoverable failures are
  treated gently. `SameErrorNeedsAChange`: an attempt handed in again and failing again ends the run.
  `PassRefusedAfterTwins`: an attempt that *passes* is refused exactly if the two before it failed with
  one message.
- **`real_run`.** Under the gate no large or destructive patch goes in, over any sequence of plans
  (`DangerousEditsStopped`); two failing steps in a row are the last (`RunawayRetriesStopped`);
  every ending is rolled back (`EndsRolledBack`), in both modes, also when reading a file raises.
- **`patcher`.** An unsafe patch writes nothing (`UnsafePatchWritesNothing`); one whose hunks stand
  where their headers say does exactly what the diff means (`FittingPatchIsExact`, against a
  reference that splices the hunks from the last to the first).
- **`live`.** What a connected viewer was sent, plus what broadcasts still owe it, is exactly what was
  remembered when it joined and everything since, each once (`ExactlyOnce`). The server's log of a
  stream has no holes, and without a restart or a publisher that gave up it is complete
  (`NoSilentGap`). A viewer that stays gets every event taken up while it is connected
  (`ViewersCatchUp`).
- **`showcases`.** `TripsAreReportedLate`: a summary's first trip of a breaker is one step after the
  observer's. `RefusalsWearOff`: RNOS refuses no more steps in a row than calls have failed in a row
  before, because the streak fades with each step held back, until failures fill two thirds of its long
  memory or all of the last ten outcomes: from there on it can refuse without a streak, and a target that
  never recovers stays refused. `RefusedForGood`: in the audit's scripted scenarios, which count no streak, a
  refusal is for the rest of the run. `ProbesAreNeverHeard`: the smoldering showcase's merged breaker
  never recovers from half-open. `NothingIsNoticed`: the accumulator ends at the wrong point
  unnoticed in every mode. `TwinsNeverDiffer`: 36 breaker configurations are 21, and two ablations are
  no control at all. `CoherenceReports`: what the offline analysis can never report.
  `EvasionTakesFiveActions`: the verdicts of the evasion experiment. `ReferenceIsSetOnce`: a frozen
  reference never moves.

`CHECK_DEADLOCK FALSE` stands in every configuration because every run ends: a stopped loop has no
next step, and streams that have emitted everything to viewers that have left have none either.

Bounds that are not in the code: `MaxLuck`, `FreeSteps`, `FreeLatency`, `MaxErrors`, `MaxAttempts`,
`MaxEvents`, `MaxRestarts`, `MaxPatches`, `MaxFailures`, `MaxTurns`, `MaxListed`, `MaxRows`, `MaxOps`,
`MaxStormCalls`, `MaxSteps` where the code takes it from a scenario, and the finite sets `Latency`,
`Plans`, `Patches`, `Baselines`, `Targets`, `GateScenarios`, `Changes`, `Errors`. `TextDrift` is the
drift score of two different plan texts: the code takes the similarity of two texts, whose score
lies in 0 to 2.0; `real_run` takes the worst case.

## 4. Fairness

- `FairLoopSpec` of `BreakerLoop` and `AdaptiveLoop`: weak fairness of the iteration. The loops are
  plain `for` statements around synchronous calls: while the run has not stopped, the next statement
  runs. Nothing forces the tool or API to change, the planner to answer well or the run to
  stop. The step bound (`Exhausted`) may come at any time, so a liveness property says what happens *if
  the run is not cut off*, with `stopped` as the other way out.
- `LiveFairSpec`: an asyncio loop runs every handler that is ready; a send that is awaited ends, by
  delivering or by the socket's being given up; a request reaches a handler or fails. Publishers and
  viewers are free: nothing makes an event be emitted, a viewer connect or close.

All other properties are safety properties and are checked without fairness.

## 5. What is proved

TLAPS proves these for **every** value of the constants that the named assumptions admit. TLC
evaluates each assumption in every run of a module that extends it.

| Module | Assumption | Theorems |
|---|---|---|
| `BreakerProofs` | `BreakerAssumption`: four positive naturals | `TypeCorrect`, `BreakerSafety`, `RefinesProtocol`, `StopsForGood`; of the loop `SingleProbe`, `ExactCooldown`, `CountersAgree`, `LoopRefinesProtocol` |
| `AdaptiveProofs` | `AdaptiveAssumption`: positive window, cooldowns and budget; floor at most the initial rate | `AdaptiveTypeCorrect`, `AdaptiveSafety`, `ThresholdNeverAdapts`, `AdaptiveRefinesProtocol`; of the loop `RunNeverAdapts`, `ProbesWaitTheirTurn`, `RunRefinesProtocol` |
| `RnosLoopProofs` | `PolicyAssumption`: integer thresholds in any order; `LoopAssumption` | `RnosLoopTypeCorrect`, `DegradeBudget`, `ReasonIsTrue`, `FloorBindsEveryRun`, `DefaultsStopByStepFour`, `FailureIsNeverRewarded` |
| `ControllersProofs` | `TriModalAssumption`, `DomainAssumption` | `HybridEarliest`, `TriggerNamed` |
| | `WorkflowAssumption` | `RefusalIsFinal`; with a window of four or more `GreenMeansTheBurst`; with the code's thresholds, window and ten steps (`DefaultPolicy`) `ThreeAreTooMany` |
| | | `EachOnItsOwn` |
| `LiveStreamProofs` | `LiveAssumption`: a finite set of publishers, any viewers, any number of events and restarts | `NoGap`, `OnceEach` |
| `AgentRuntimeProofs` | `GovernorAssumption` | `StuckLoopsEnd`, `PassAfterTwins` |
| | `ScenariosAssumption`; a policy that refuses at 7.675 or below (`RefusesDrift`; the bridge refuses from 7.0) | `TwoRetriesAtMost` |
| | there is a scenario | `ProgramsKeepApart` |
| `RealRunProofs` | `PlanAssumption`: plans are records with natural counts; `RealRunAssumption`: two texts drift by at most 2.0; `PolicyAssumption` | `RealTypeCorrect`, `RetriesStop`, `RollsBack`; with `DegradesInTime` also `DangerStops` |
| | none | of the patcher `UnsafePatchIsRefused`, `OnlyNamedFilesAreWritten` |
| | `PatchAssumption`, `BaselineAssumption`: patches are parsed diffs, files are lists of lines | of the patcher `FittingPatches`, `FittingPatchesAreTaken` |
| `ExperimentsProofs` | none | `MergedIsEarliest` |
| | `ExperimentsAssumption`: the experiments are those of the code, latencies are naturals; a policy that refuses at 10 or below (the code's: 10.0) | `OutagesEnd` |
| | the same; the experiments' own policy (`PlainPolicy`: refuses from 10.0, degrades from 7.5 or later, looks at no trust), free latencies of at most 500 ms | `NoiseIsBorne` |
| | `ShowcasesAssumption`: targets are services; bounds are naturals | `TripReportedLate`, `NothingAfterTheTrip`, `FrozenForGood`, `RefusalsFade`, `ARefusalIsForGood`, `TwinsAreNeverTold`, `ReportsAreFew` |

- **Breaker.** The three methods can be called in any order, so the proof is about the record: each
  function maps a sound record to a sound record, and the loop's proof reuses these lemmas. The
  invariant is the type, *closed exactly below the threshold*, *waiting exactly while open* and
  *stopped exactly when the budget is spent*. They lean on one another: a refusal keeps
  the count within the budget because an open breaker has some of it left, a failed probe reopens a
  breaker that is still above the threshold because `half_open` is, and a tick leaves `open` with
  nothing to wait for only because it waits exactly while open.
  `RefinesProtocol` shows that each call is a step of `BreakerProtocol` or a stutter.
- **Loop.** `SingleProbe` and `ExactCooldown` are false of the class (a second question in
  `half_open` gets a second probe) and true of the loop. The invariant adds `WaitedSoFar`: while
  open, skipped iterations plus ticks left are the limit less the tick to come. `LoopRefinesProtocol`: one
  iteration makes two calls, a tick and then a question, and the pair is at most one move of the
  protocol: a tick that half-opens the breaker is followed by a question that changes nothing.
- **Adaptive breaker.** `ThresholdNeverAdapts`: the invariant is that a closed breaker's threshold is the
  initial one and any other's is tightened once; the only way back to closed
  loosens it by the same step, cut at the initial rate. It holds for all steps and floors, so the
  docstring's "tightens under sustained stress" is not something the code can do; it is also why
  breaker configurations that need the same number of failures are twins (`TwinsNeverDiffer`). The loop's
  `RunNeverAdapts` is the same fact of every run. `ProbesWaitTheirTurn`: a probe comes only after the
  cooldown now in force, which a reopening may have lengthened, so the wait cannot be read off the
  breaker. `Waiting` says it by a sum: skipped steps and ticks left add up to the cooldown, or to one more
  when the breaker opened on the step just taken, for it refuses once before its first tick.
- **RNOS loop.** `IInv` is types, *where the loop is* (`Placed`), the budget, the reason, and
  `LastHeavy`: if depth and repetition alone reach the degrading threshold before call *n*, the loop
  is in or past its one degraded call. Depth never falls, so a degraded call is not followed by ALLOW
  from there on. Hence `FloorBindsEveryRun`, and with the default thresholds
  `DefaultsStopByStepFour`: three calls at most, all-successful runs included, as the README says.
  The bound of the failure average (it never leaves 0..1) is integer arithmetic over the rounding.
- **A failure is never rewarded.** `FailureIsNeverRewarded`, for thresholds in any order. After a failed
  call the window of recent calls slides by one failure, so no part of the entropy falls and the
  success rate does not rise; both are rounded, so this needs that the rounding is monotonic, which is
  proved of `Rounded` for all numerators. The auxiliary invariant `Judged` recovers what the step compares:
  the last decision was the evaluation of the history without the outcome recorded since.
- **Domains.** `HybridEarliest` and `TriggerNamed`, for lists of any length with any outcomes, windows
  and thresholds. The inductive invariant relates the merged run to the three separate ones: while the
  merged run goes on, each of its parts *is* the part that runs alone, for a merged refusal is the
  first refusal of any part and until then no part has been told anything the lone one was not. The
  argument is made once over the shared operators and then instantiated for each domain.
- **Experiments.** `MergedIsEarliest`, for any API, costs, thresholds and cooldowns and each of the
  experiments' runners. As in the domains, while the merged run goes on its two parts *are* the lone RNOS
  and the lone breaker (`SideBySide`): they were asked the same and told the same, and the merge refuses
  whatever either refuses (`MergeIsAsSevere`). The part about the coherence proxy is of its own: a
  refusal ends the run, so the only outcomes ever known are those of permitted steps, and each of those
  is worth at least 400/720 however it ended (`ProxyIsHealthy`).
- **Pipeline.** `RefusalIsFinal`: a refusal fails its step, a failed step makes every later one's
  condition false, whatever its number and whichever of the two programs ended in an error.
  The other two need to know what the state file holds. It is counted from the outcomes recorded so far
  (`Counted`: failures, streak and window are those of the outcomes), and every judged step keeps what was
  judged (`RecordInv`), so that a step's verdict is a function of which steps failed. For
  `GreenMeansTheBurst` the window must hold the first four steps: a shorter one lets a pipeline that
  failed otherwise be refused at the step the assertion looks at. `ThreeAreTooMany` takes the numbers of
  the code (`DefaultPolicy`), for it is a statement about them.
- **Live stream.** Two invariants of each stream and one of each viewer. `InTurn`: what
  the server took up of a stream has no holes, and a post on its way has the next number; `Current`: while
  publishing is on, the publisher waits for whatever of its own is under way, so that giving up, which
  turns publishing off, is the only way to leave an event behind; `Fresh`: nothing is on its way that
  was taken up before, unless it is being broadcast. A viewer (`Told`) has been sent, or is still owed
  by the broadcasts that have it ahead of them, the set of events due to it, and both numbers add up, so that
  nothing came twice. The sum is why an inductive invariant by sets alone is not enough. A broadcast lists
  its clients when it begins and a viewer that joins while it runs is not among them, but gets its event
  with the snapshot: `Owed` and the snapshot never overlap, since an event is remembered before its
  broadcast begins and nothing is awaited in between.
- **Patcher.** `PatcherInv`: no file is written but after the check of the whole patch
  (`Safe`), and the files that differ are the ones written so far and, after the fallback, its target
  (`Named`). *What* is written is a fold over the hunks from the first to the last, `FittingPatchIsExact`
  compares it with one from the last to the first, and `FittingPatches` shows them equal for any lines
  and any number of hunks: what the first has written, followed by what the second makes of
  the rest of the file, is the same after each hunk (`HunkInPlace`, `FittingPatchMeans`). Both are
  recursive functions over positions, so the induction is over a set of positions: the least one where
  the claim failed would follow one where it holds (`Counting`, from well-foundedness). `FilesInv` carries
  it to the sandbox: a patch of one file applied a moment ago wrote what it makes of the file as it
  was before. `FittingPatchesAreTaken`: such a patch is never rejected, and never left to the fallback.
- **Governor.** `IsWindow`: the history is the last three attempts, each compared with the one before, and
  the verdict is what the window decides. An identical attempt scores the same in every measure; lemmas
  about the largest, the smallest and the span of up to three scores then decide each branch of the
  verdict for all possible scores of the attempt before.
- **Gated agent.** `GateInv`: retries never outnumber validation failures, and under the gate never exceed
  two. With two retries spent and a third failure, the entropy of whatever plan comes is at least 7.675
  (`ThirdTryIsRefused`): a drift that is classified as recoverable is made gentler by less than the
  two failures cost. So the limit holds of every scenario, not the four demonstrations only, and of each
  policy that refuses from there on.
- **Compositions.** `EachOnItsOwn` and `ProgramsKeepApart`: a behaviour of a composed module is one of each
  program in it, so that what is proved of each on its own holds of the composition, which the runs check.
- **Real loop.** `RealInv`, for any set of plans. `RetriesStop` needs no assumption about the policy's
  thresholds: with two retries spent the classifier could only let a plan past the recovery branch by
  calling the failure a drift, and a plan's drift score ends at 4.5, where that verdict begins.
  `DangerStops` needs the policy to degrade from 4.9 on (`DegradesInTime`; the bridge degrades from 4.5):
  a destructive edit is fatal; a large one scores at least 4.9 by itself and so is never allowed as it
  is; a degraded or recovering edit becomes a look unless it is harmless. `RollsBack` includes exceptions.
- **Outages.** `OutagesEnd`, for every scenario, any outcomes and latencies and any number of steps. It
  needs a lower bound on a sum of rounded terms, after every past. `Heard` says that a run that is not
  over has recorded each of its calls: the streak it counts is the one in its history, and the failure
  average is at least 0.1 after one failure in a row and 0.19 after two, whatever it was before
  (`Attentive`). Five failures in a row then bring the entropy to 10 and four to 9.1 (`StreakEntropy`). The
  merged run's breaker has the same outcomes in its window (`Mirrored`): a full window with seven failures
  trips it, a filling one does not. Four failures in a row end the run, so that the seven then lie
  scattered among nine calls, the latest of them a failure (`ScatteredFailures`), and the entropy is 7.3
  at least (`ScatteredEntropy`). The breaker's failure rate lowers RNOS's threshold below either
  (`LoweredRefuses`). That latencies are naturals is shown of every scenario of the suites.
- **Noise.** `NoiseIsBorne`, for every scenario of the suites with whatever draws, and for an API
  without a script. Upper bounds are wanted now, so nothing may be missing from the history: `Calm`, on top
  of `Heard`, says that it *is* the last ten outcomes, with each call's latency, as long as the run goes on.
  Without three failures in a row the failure average stays at or below 0.64 after a success, 0.676 after
  one failure and 0.709 after two (`Settled`: the average is a function of the past that the streak
  alone bounds); one call in three at least has succeeded. The entropy is then 9.993 at most, below the
  threshold by a rounding step, and 7.495 after two successes. A late answer costs up to half a
  point more than one of 500 ms: of the scripts only the runaway cascade has them, and there every
  call fails from the start of the cascade, so that the streak is three before they come
  (`CompoundedProb` is 100 %). The uncontrolled run, at whose streak the script looks, has RNOS's own streak.
- **Showcases.** `TripReportedLate`, for any targets and any number of turns. The code keeps two clocks:
  the observer of the modes without a breaker notes the step whose outcome fills the window with
  failures, the mode with one notes its first blocked call. `ReportInv` ties them: until a block is
  reported the breaker is closed, its window is the observer's, and either the window does not trip or
  the observer noted it in the step just taken. `NothingAfterTheTrip`: the merged decision is at least
  as severe as the breaker's, which allows only while it is closed, and what is degraded for the breaker's
  sake runs no call; so nothing is recorded and the breaker never closes (`SteadyInv`).
  `RefusalsFade`: the streak and the refusals in a row together are no more than the latest calls that
  failed, unless failures last (`WearInv`). A refusal moves one from the streak to the refusals; a call
  adds to the streak what it adds to the failures; and with no streak left the other terms of the
  entropy reach the refusing threshold only when the long memory holds two thirds (`StreaklessRefusal`).
- **CEVAK.** `FrozenForGood`: a reference that is set *is* the calibration corpus of its class
  (`MonitorInv`), which no later action is added to, so that setting it again sets the same.
- **Audits.** `ARefusalIsForGood`: with no streak counted, the entropy of the next candidate is that of
  this one as long as the history stays, and a refusal leaves the history as it is (`ScriptedInv`). That
  the showcase policy never refuses is a bound of the entropy without a streak.
  `TwinsAreNeverTold` takes two inductive invariants. Of the gates (`GatesInv`): the entropy that leaves
  out both memories of failure is at most the sum of its capped terms and of the depth's, which stays
  below the threshold only because no service the agent can aim at is deeper than three hops. The depths
  come from a recursion over the graph of services; the proof exhibits its function (`WithinHops`). Of the
  breakers (`TwinsInv`): records of twins are equal but for the threshold, and each threshold is the
  configured one while closed and the tightened one otherwise, as in `ThresholdNeverAdapts`. Only a closed
  breaker's threshold is read, and a window exceeds both configured thresholds or neither
  (`TwinsFailTogether`).
- **Coherence analysis.** `ReportsAreFew`, for traces of any length. Both of its results are folds over
  the rows from the first on; a set of rows on which a claim holds, that has the row after each of its
  own, has them all (`FromZeroOn`, `RowByRow`). Every row agrees in something, what is withheld although
  it was intended in the intention (`SomethingAgrees`), so the search for rows out of step keeps the
  length zero it begins with (`NeverOutOfStep`). The search for rising failures begins a run at the row
  before only (`Neighbouring`), and takes no third row in (`TwoRowsAtMost`).

Stated as definitions, proved but checked by no run: `OneProbePerHalfOpen`, `FailureCountersAgree`,
`SummaryAgreesWithBreaker`, `StoppedIffBudgetSpent`, `ClosedBelowThreshold`, `CooldownMatchesState`,
`StopIsFinal`, `StateIsConsistent`, `OpenRemembersTheOutage`, `ReasonMatchesRun`, `StopsByStepFour`,
`FloorEndsTheRun`, `OnlyNamedFilesChange`, `FittingPatchIsTaken` and the type invariants.

Only model-checked: all liveness (temporal reasoning under fairness and ENABLED are beyond the
prover); what CEVAK's distance computes from a whole history, of which no property speaks in general;
`LinesAccountedFor` is false; and what holds of particular numbers and scripts only
(`EachAxisWinsItsScenario`, `ScoresAsMeasured`, `DamageIsOrdered`, `PairsAreMatched`,
`EvasionTakesFiveActions`, `NothingIsNoticed`), where a proof would be TLC's enumeration again.

## 6. Findings

Each is shown by a run that TLC violates.

1. **`patcher_drift` / `LinesAccountedFor`.** `_resolve_hunk_start` (`patcher.py:252`) takes the header's
   position whenever the hunk fits there, also before what earlier hunks have consumed. When the
   first hunk was found further down, the second rewrites lines already written, removed ones included.
2. **`cevak_isolation` / `ClassesAreIsolated`.** The sliding window of `rnos_cevak/core/ade.py:91` is one
   deque for all task classes, while its docstring says "Drift is tracked independently per task
   class": a class that has shifted passes for unshifted once a busier class has pushed its actions
   out. The test of isolation (`tests/test_ade.py:382`) fills the whole window with the second class,
   which leaves the first a score of 0.

Other places where the words and the code differ; the modules follow the code, and where a run
states the difference it is named:

- Breakers. `adaptive_circuit_breaker.py:13` "tightens under sustained stress": one step per outage,
  undone by the closing probe, never read in between (theorem `ThresholdNeverAdapts`). `:53` "trusting
  that the system has genuinely recovered": the window keeps the outage (`:110`), so the question after
  a successful probe may trip it again.
- Hybrid. `rnos/hybrid.py:12-14`, the coherence proxy "collapses when failures accumulate": over
  permitted steps it does not fall below 0.556, above both thresholds (`HybridNeverLater`).
  `README.md:355` "safety-first merge, the more severe decision wins": the controller also lowers
  RNOS's threshold by the breaker's rate (`rnos/hybrid.py:262`), so it may be stricter than both.
  `experiment_5_hybrid/scenarios.py:118-119` and `README.md:370` "hybrid catches via CB at step 11": it
  refuses at step 9, by RNOS, whose threshold the breaker's partial rate has lowered.
- Experiments. `README.md:258` gives RNOS 3 of 3 in experiment 2, the code 2 of 3; its section on experiment 2.5
  has `matched_collapse` refused at step 9 and 4 of 4, the code at step 8 and 2 of 4
  (`ScoresAsMeasured`). `README.md:345` says the flag of chronic instability "never activates on
  noisy_recovery": it is set from step 11 to 13 (`PairsAreMatched`). `README.md:391` "max entropy ~8.8"
  for streaks of at most two, "regardless of how long the pattern continues": F-F-S-F-F reaches 9.087,
  and F-F-S repeated approaches 9.669 and what its latencies add. The conclusion, that such runs are
  never refused, holds (`NoiseIsForgiven`), for answers within 500 ms (`NoiseIsBorne`); slower ones use up the margin.
- Domains. `scheduler_control/scenarios.py:49` "≤ 4.5 throughout": 4.86 at step 20; `:30` "≤ 5.0": 5.35.
  The two-axis `Hybrid*Controller` classes have no caller. `executions` counts the refused step.
- Pipeline. `simulate_failure.ps1:12-14` has the breaker refusing at step 6: its window trips at step 5.
  A healthy ten-step pipeline is degraded from step 9 on. The workflow's assertion cannot tell a gate
  program that dies at step 4 from a refusal.
- Agent runtime. `demos/agent_gate/README.md` says "Step 2 DEGRADE" where the code answers RECOVER;
  `AgentState.degraded` is never set; to `run_task` the verdicts "retry" and "continue" are the same.
- Real loop. `_update_retry_budget` (`real_runner.py:702`) takes one whenever the number of failures is
  unchanged, zero included, and one failure makes each later step a RECOVER: after a fix, four passing
  steps empty the budget and the run is refused for "no improvement". `real_runner.py:377`: when reading
  a file raises, the sandbox is rolled back (`EndsRolledBack`) but no log is written, which
  `demos/agent_gate_real/README.md:27` promises of each run.
- Experiment 6. Its check for false positives in the recovery after a burst ends inside the burst, at
  step 5 (`NothingIsNoticed`). The coherence analysis' "desynchronized loop" is unreachable, since a
  row's agreement is never zero (`CoherenceReports`).
- Showcases. The smoldering showcase gives a half-open breaker's probe no call at all, so that it is
  stuck half-open (`ProbesAreNeverHeard`).
- Audits. `phase3_ablation.py` describes `rnos_minus_hysteresis` by the two scores it drops, but the long
  memory of failures is gone too, and with it every difference from no control; `minus_coherence` and
  `minus_trust` are the full gate; "CB at +25% threshold" is 0.75 where the tuned breaker's is 0.40; the
  scripted scenarios have no branch for `baseline_no_control`, which runs under the showcase policy, and
  write each outcome into the history twice (`history = runtime.history`, `:467`, `:580`).

## 7. What is not modelled

- **Out of a model checker's reach**: floating-point simulation and statistics (D3 theory, radiation and
  retry-storm simulations, CEVAK and RNOS probe); how a change of Python source comes by its scores.
- **No state or no decision**: reports, charts, benchmarks, recovery tuning, loggers, domain
  legitimacy scoring, the no-gate baseline of the agent loop.
- **Nothing new**: the legacy agent loop (`agent/loop.py`, the gate of `Rnos` without a budget); the
  hybrid branch of `run_agent` (`RnosLoop`'s budget around `Hybrid`, each modelled apart);
  `rnos_gate.ps1` and the two-axis controllers, which nothing calls.
- **Environment**: language models and the parsing of their answers; tools and test suites; HTTP
  and web sockets, beyond what the code assumes of them; what a synthetic agent finds attractive.
- **Unrelated**: the repository query tool over SQLite.
- Within the modelled parts: traces, printing, latency sums, explanations, environment overrides of
  thresholds, aggregation over runs, costs and damage that no decision reads; in `Patcher` the parsing
  of diff text, unterminated last lines and CR/LF; in `LiveStream` payloads and metadata; in `Audit` the
  perturbations that scale calls or lengthen a run; in `Experiment6` a jitter that changes within a run.

Arithmetic: the code's scores are floats, the modules' are integers in thousandths (the
bridge's entropy in hundred-thousandths, the pipeline's in hundredths), rounded where the code rounds.
The failure average is kept to eight places and cut there after each step, where the code keeps a
double; it is rounded to three places before it is compared, so the two can differ only where the
average lies within a millionth of the middle between two such values. `Hybrid` says for which
thresholds its integers decide as the doubles do.

## 8. Plan

Done, the most important behaviour first: breaker and loop with their proofs; adaptive breaker;
RNOS gate and loop; live streaming; the hybrid controller; the experiments; the real repository loop; the
patcher; the domain controllers and the pipeline gate with their proofs; the agent runtime; the
showcases, experiment 6, CEVAK and the audits.

To extend the model:

1. The hybrid branch of `run_agent`: the composition of `RnosLoop`'s budget with `Hybrid`.
2. The legacy loop and `tools/scenarios.py`, as further callers of `Rnos`.

To prove more:

1. The first part of `DamageIsOrdered`, strategy by strategy: that the uncontrolled run does the most damage.
