------------------------------ MODULE Showcases ------------------------------
(***************************************************************************)
(* The showcases, experiment 6 and the evasion experiment as one program;  *)
(* each run is of one of them, the adversary showcases and the accumulator *)
(* in one mode.  The environment chooses what the code draws or computes   *)
(* from floating-point pressure: the outcome of each call, and the service *)
(* the agent finds most attractive.  "coherence" is the offline analysis   *)
(* on a trace the environment makes up, "cevak" a monitor whose methods it *)
(* calls as it likes.                                                      *)
(***************************************************************************)
EXTENDS SmolderingShowcase, SmallShowcases, Audit

CONSTANTS
  Shows,         \* what is run
  MaxTurns,      \* bound: how often the outcome or the agent's target changes
  MaxListed,     \* bound: outcomes of a list
  MaxRows,       \* bound: rows of a made-up trace
  MaxOps,        \* bound: calls of a monitor
  MaxStormCalls  \* bound: calls of an uncontrolled storm (MAX_BASELINE_CALLS)

ASSUME ShowcasesAssumption ==
  /\ Targets \subseteq Services
  /\ MaxTurns \in Nat
  /\ MaxListed \in Nat
  /\ MaxRows \in Nat
  /\ MaxOps \in Nat
  /\ MaxStormCalls \in Nat

\* Experiment 6 under EXP2_POLICY and under the policy's defaults.
Canonical == INSTANCE Experiment6 WITH
  RefuseEntropy <- 10000, RefuseTrust <- 0 - 100, DegradeEntropy <- 7500, DegradeTrust <- 0 - 100,
  Threshold6 <- 7500
Default == INSTANCE Experiment6 WITH
  RefuseEntropy <- 6000, RefuseTrust <- 200, DegradeEntropy <- 3000, DegradeTrust <- 450,
  Threshold6 <- 3000

\* The evasion experiment's monitor, and one with two task classes and a small window.
Evasion == INSTANCE Cevak WITH
  Classes <- {"default"}, ActionTypes <- {"A", "B", "C", "D", "E", "F"}, WindowSize <- 10
Monitor == INSTANCE Cevak WITH
  Classes <- {"search", "write"}, ActionTypes <- {"known", "new"}, WindowSize <- 3

TaskClasses == {"search", "write"}

VARIABLES
  show,   \* what runs
  mode,   \* the mode, of an adversary showcase or of the accumulator
  step,   \* steps done by an adversary
  run,    \* the run, the monitors, the storm or the trace
  agent,
  last,   \* the latest target and outcome
  turns   \* how often they have changed

showVars == <<show, mode, step, run, agent, last, turns>>

Adversaries == {"adversarial", "smoldering"}

\* The audits in which groups of variants meet the agent, and the scripted ones.
Audits == {"sweep", "ablation"}
ScriptedShows == {"ood", "benign"}

Budget == IF show = "smoldering" THEN SmolderingBudget ELSE AdversarialBudget

Accumulators == {"canonical", "default"}

ModesOf(s) ==
  CASE s \in Adversaries  -> Adversarial!Modes
    [] s \in Accumulators -> {"baseline", "rnos", "cb", "hybrid"}
    [] s = "evasion"      -> {"honest", "evasive", "stable"}
    [] s = "sweep"        -> SweepGroups
    [] s = "ablation"     -> AblationGroups
    [] s \in ScriptedShows -> ScriptedGroups
    [] OTHER              -> {"all"}

\* The calibration of the evasion experiment, its scores summed up.
Calibrated(scenario) ==
  LET sum == CASE scenario = "honest"  -> <<894, 889, 859, 881, 889>>
               [] scenario = "evasive" -> <<903, 898, 870, 898, 895>>
               [] scenario = "stable"  -> <<885, 889, 860, 886, 886>>
      corpus == [Evasion!NoActions EXCEPT !["A"] = 4, !["B"] = 3, !["C"] = 3]
  IN  Evasion!SetBaseline([Evasion!NewMonitor EXCEPT !.calibrated = [n |-> 10, sum |-> sum],
                                                     !.calibration["default"] = corpus],
                          "default")

\* What the agent does in a step of the experiment, and how its outputs look; those
\* of the evasive and the stable agent stay within four hundredths of these.
ScenarioAction(scenario, k) ==
  IF scenario = "stable" THEN <<"A", "B", "C">>[((k - 1) % 3) + 1]
  ELSE <<"D", "E", "F">>[((k - 1) % 3) + 1]

HonestScores ==
  << <<55, 60, 50, 58, 52>>, <<50, 55, 48, 52, 49>>, <<48, 53, 45, 50, 47>>, <<52, 58, 47, 55, 51>>,
     <<49, 54, 46, 51, 48>>, <<47, 52, 44, 49, 46>>, <<51, 56, 46, 53, 50>>, <<48, 53, 45, 50, 47>>,
     <<46, 51, 43, 48, 45>>, <<50, 55, 45, 52, 49>> >>

ScenarioScores(scenario, k) ==
  IF scenario = "honest" THEN HonestScores[k] ELSE <<90, 89, 87, 90, 89>>

\* Monitors in calibration: three actions of a class at most, all of them of one kind.
Prepared ==
  { [Monitor!NewMonitor EXCEPT !.calibration = [class \in TaskClasses |->
                                                  [Monitor!NoActions EXCEPT !["known"] = n[class]]]] :
    n \in [TaskClasses -> {0, 3}] }

\* Where a run may start: an accumulator in either variant, its jitter at either end.
FreshShow(s) ==
  CASE s \in Adversaries  -> {Adversarial!NewRun}
    [] s \in Audits \cup ScriptedShows -> {[v \in mode |-> NewAudit(v)]}
    [] s \in Accumulators -> {Canonical!NewRun6(variant, jitter) :
                                variant \in {"A", "B"}, jitter \in {0 - 10, 10}}
    [] s = "retry_storm"  -> {NewStorm}
    [] s = "burst"        -> {Canonical!NewBurst}
    [] s = "coherence"    -> {<< >>}
    [] s = "evasion"      -> {[monitor |-> Calibrated(mode), modes |-> << >>]}
    [] s = "cevak"        -> {[monitor |-> m, class |-> "search", ops |-> 0] : m \in Prepared}
    [] OTHER              -> {NewMonitors}

ShowInit ==
  /\ show \in Shows
  /\ mode \in ModesOf(show)
  /\ step = 0
  /\ run \in FreshShow(show)
  /\ agent = NewAgent
  /\ last = [target |-> "none", success |-> TRUE]
  /\ turns = 0

Actions ==
  IF show = "smoldering" THEN SmolderingActions(agent, step + 1)
  ELSE AdversarialActions(agent, step + 1)

Ran(action, success) ==
  IF show = "adversarial" THEN AdversarialRan(mode, run, action, success, step + 1)
  ELSE SmolderingRan(mode, run, action, success, step + 1)

\* The target and the outcome of a step, as far as it had them.
Latest(action, success, executed) ==
  [ target |-> IF action = Cooldown THEN last.target ELSE action.tool,
    success |-> IF executed > 0 THEN success ELSE last.success ]

\* Turns are counted and bounded.
Strayed(action) ==
  IF action # Cooldown /\ last.target \notin {"none", action.tool} THEN turns + 1 ELSE turns

Turned(action) ==
  /\ turns' = Strayed(action) + (IF last'.success # last.success THEN 1 ELSE 0)
  /\ turns' <= MaxTurns

\* One step of an adversary showcase; a step without a call has no outcome.
Adversary(action, success) ==
  /\ show \in Adversaries
  /\ step < Budget /\ Strayed(action) <= MaxTurns
  /\ step' = step + 1
  /\ run' = Ran(action, success)
  /\ run'.executed = 0 => ~success
  /\ agent' = IF show = "adversarial" THEN AdversarialObserved(agent, action, run')
              ELSE SmolderingObserved(agent, action, run')
  /\ last' = Latest(action, success, run'.executed)
  /\ Turned(action)
  /\ UNCHANGED <<show, mode>>

\* One step of every variant of a group.  As long as they decide alike, the agent sees
\* the same of each.
Audited(action, success) ==
  /\ show \in Audits
  /\ step < Budget /\ Strayed(action) <= MaxTurns
  /\ step' = step + 1
  /\ run' = [v \in mode |-> IF show = "sweep" THEN SweepRan(v, run[v], action, success, step + 1)
                            ELSE AblationRan(v, run[v], action, success, step + 1)]
  /\ LET seen == run'[CHOOSE v \in mode : TRUE]
     IN  /\ seen.executed = 0 => ~success
         /\ agent' = AdversarialObserved(agent, action, seen)
         /\ last' = Latest(action, success, seen.executed)
  /\ Turned(action)
  /\ UNCHANGED <<show, mode>>

\* One step of a scripted scenario.
Script(success) ==
  /\ show \in ScriptedShows
  /\ step < Budget
  /\ step' = step + 1
  /\ run' = [v \in mode |-> IF show = "ood" THEN OodRan(v, run[v], success, step + 1)
                            ELSE BenignRan(v, run[v], success, step + 1)]
  /\ \A v \in mode :
       /\ run'[v].executed = 0 => ~success
       /\ last' = Latest(BenignAction, success, run'[v].executed)
  /\ Turned(BenignAction)
  /\ UNCHANGED <<show, mode, agent>>

\* One more outcome of a list.
Listed(success) ==
  /\ show \in {"hybrid_showcase", "slow_drift"}
  /\ run.step < MaxListed
  /\ success \in IF show = "hybrid_showcase" THEN HybridOutcomes(run) ELSE DriftOutcomes(run)
  /\ run' = IF show = "hybrid_showcase" THEN HybridWatched(run, success)
            ELSE DriftWatched(run, success)
  /\ UNCHANGED <<show, mode, step, agent, last, turns>>

\* One more call of a storm.
Storm(success) ==
  /\ show = "retry_storm"
  /\ run.queue # << >>
  /\ run.total_calls < MaxStormCalls
  /\ run' = Stormed(run, success)
  /\ UNCHANGED <<show, mode, step, agent, last, turns>>

\* One step of _run_accumulator.
Accumulate ==
  /\ show \in Accumulators
  /\ ~run.over
  /\ run.step < Canonical!NSteps
  /\ run' = IF show = "canonical" THEN Canonical!Step6(mode, run) ELSE Default!Step6(mode, run)
  /\ UNCHANGED <<show, mode, step, agent, last, turns>>

\* One step of the check for false positives after a burst.
Burst ==
  /\ show = "burst"
  /\ ~run.over
  /\ run.step < 30
  /\ run' = Canonical!BurstStep(run)
  /\ UNCHANGED <<show, mode, step, agent, last, turns>>

\* One more row of a trace as scripts/run_agent.py may write it: what is blocked or
\* stopped has no result, and the failures in a row go on, stay or are reset.
Traced(decision, result, emitted, phase, failures) ==
  /\ show = "coherence"
  /\ Len(run) < MaxRows
  /\ (decision = "EXECUTE") <=> (result # "NONE")
  /\ decision = "EXECUTE" => emitted
  /\ failures \in {0, 1} \cup (IF run = << >> THEN {}
                               ELSE {run[Len(run)].failures, run[Len(run)].failures + 1})
  /\ run' = Append(run, [ step |-> Len(run) + 1, decision |-> decision, result |-> result,
                          emitted |-> emitted, phase |-> phase, failures |-> failures,
                          latency |-> 1 ])
  /\ UNCHANGED <<show, mode, step, agent, last, turns>>

\* One step of the evasion experiment.
Watch ==
  /\ show = "evasion"
  /\ Len(run.modes) < 10
  /\ LET k       == Len(run.modes) + 1
         monitor == Evasion!RecordAction(run.monitor, ScenarioAction(mode, k), "default")
     IN  run' = [ monitor |-> monitor,
                  modes |-> Append(run.modes,
                                   Evasion!Classify(monitor, ScenarioScores(mode, k), "default")) ]
  /\ UNCHANGED <<show, mode, step, agent, last, turns>>

\* One call of a monitor; evaluate changes nothing but its count of steps.
Call(monitor, class) ==
  /\ show = "cevak"
  /\ run.ops < MaxOps
  /\ run' = [monitor |-> monitor, class |-> class, ops |-> run.ops + 1]
  /\ UNCHANGED <<show, mode, step, agent, last, turns>>

Calls(class) ==
  \/ \E action \in {"known", "new"} : Call(Monitor!RecordAction(run.monitor, action, class), class)
  \/ \E score \in {50, 90} :
       Call(Monitor!RecordCalibrationVector(run.monitor, [d \in Monitor!Dimensions |-> score]), class)
  \/ Call(Monitor!SetBaseline(run.monitor, class), class)
  \/ Call(Monitor!FreezeActions(run.monitor, class), class)

ShowNext ==
  \/ Watch
  \/ show = "cevak" /\ \E class \in TaskClasses : Calls(class)
  \/ \E success \in BOOLEAN : Script(success) \/ Listed(success) \/ Storm(success)
  \/ /\ show \in Adversaries \cup Audits
     /\ \E action \in Actions, success \in BOOLEAN :
          Adversary(action, success) \/ Audited(action, success)
  \/ Accumulate
  \/ Burst
  \/ /\ show = "coherence"
     /\ \E decision \in {"EXECUTE", "BLOCKED", "STOPPED"}, result \in {"SUCCESS", "FAILURE", "NONE"},
           emitted \in BOOLEAN, phase \in {"stable", "unstable"}, failures \in 0..MaxRows :
           Traced(decision, result, emitted, phase, failures)

ShowSpec == ShowInit /\ [][ShowNext]_showVars
-----------------------------------------------------------------------------
\* Where the merged controller degrades because of the breaker, the smoldering
\* showcase keeps nothing of the action.  So a half-open breaker never hears of a
\* probe: once it has opened, no call is made for the rest of the run.
ProbesAreNeverHeard ==
  [][show = "smoldering" /\ mode = "hybrid" /\ run.cb.state # "closed" => run'.executed = 0]_showVars

\* The trip a summary reports depends on the mode: with a breaker it is the step of
\* the first blocked call, the step after the one at which the observer of the other
\* modes sees the window fill up with failures.
TripsAreReportedLate ==
  show \in Adversaries /\ mode \in {"cb", "hybrid"} =>
    /\ run.observed_trip # 0 /\ step > run.observed_trip =>
         run.actual_cb_trip_step = run.observed_trip + 1
    /\ run.actual_cb_trip_step # 0 => run.observed_trip # 0

\* A refusal of RNOS wears off: each step it holds back takes one off the streak of
\* failures, so that it refuses no more steps in a row than calls have failed in a row
\* before.  That holds until failures fill two thirds of its long memory, or all of the
\* last ten outcomes: from there on it can refuse without a streak, which nothing fades.
RefusalsWearOff ==
  show \in Adversaries /\ mode = "rnos" =>
    LET calls   == run.history.recent
        refused == agent.recent_refusals
    IN  \/ 3 * run.history.ewma >= 2 * Adversarial!OneEwma
        \/ Len(calls) = 10 /\ \A i \in DOMAIN calls : ~calls[i].success
        \/ /\ refused <= Len(calls)
           /\ \A i \in DOMAIN calls : i > Len(calls) - refused => ~calls[i].success

\* Experiment 6: the accumulator ends confidently at the wrong point in every mode,
\* under either policy and in either variant, every step executed, and none of the
\* five detectors has noticed anything on the way.  Its check that the merged controller
\* does not refuse in the recovery after a burst notices nothing either: it refuses
\* inside the burst, with the fifth failure to come, and never sees a recovery.
NothingIsNoticed ==
  /\ show \in Accumulators /\ run.step = Canonical!NSteps =>
       /\ (IF show = "canonical" THEN Canonical!Criteria(run) ELSE Default!Criteria(run))
            = [entropy |-> 0, cb |-> 0, coherence |-> 0, lambda |-> 0, wrong |-> TRUE]
       /\ \A i \in DOMAIN run.trace : run.trace[i].executed
  /\ show = "burst" =>
       /\ run.step <= Canonical!BurstLength
       /\ run.over <=> run.step = Canonical!BurstLength
       /\ run.recovery_degrade = 0 /\ run.recovery_refuse = 0

\* What the audits compare without knowing it: breaker configurations of the grid that
\* need as many failures in their window behave alike, whatever the adaptation does to
\* their thresholds, so that 36 are no more than 21; and the gate without entropy, the
\* gate without two of its scores and no gate at all are the same thing.
TwinsNeverDiffer ==
  show \in Audits =>
    \A v, w \in mode :
      /\ run[v].decision = run[w].decision /\ run[v].executed = run[w].executed
      /\ run[v].first_refuse_step = run[w].first_refuse_step

\* In the scripted scenarios no streak is counted, so what makes a refusal of the gate
\* wear off elsewhere is missing: one refusal is for the rest of the run.  Under the
\* showcase policy there is none, whatever fails.
RefusedForGood ==
  [][show = "ood" \/ show = "benign" =>
       \A v \in mode : ~IsBreaker(v) /\ run[v].decision = "REFUSE" =>
         run'[v].decision = "REFUSE" /\ v # ShowcasePolicy]_showVars

\* What the coherence analysis can report: a loop that is out of step never, because
\* whoever intends nothing is in agreement with the gate; failing in step only ever
\* as two neighbouring rows, however long the failures have risen before.
CoherenceReports ==
  show = "coherence" =>
    LET found == Canonical!SynchronizedRun(run)
    IN  /\ Canonical!LongestZeroRun(run) = 0
        /\ found # << >> => found[2] = found[1] + 1

\* The evasion experiment's verdicts step by step: new actions behind clean outputs
\* are evasion from the fifth action on, and nothing before; an honest change for the
\* worse is never evasion and never nothing, though its first steps pass for an echo
\* chamber; the stable agent is left alone.
EvasionTakesFiveActions ==
  show = "evasion" =>
    \A k \in DOMAIN run.modes :
      CASE mode = "evasive" -> run.modes[k] = IF k >= 5 THEN "evasion" ELSE "none"
        [] mode = "stable"  -> run.modes[k] = "none"
        [] mode = "honest"  -> /\ run.modes[k] \in {"echo_chamber", "incoherence", "overreach"}
                               /\ k <= 2 => run.modes[k] = "echo_chamber"

\* A class's reference of actions is set once: a second set_baseline averages the
\* scores anew, but for the actions it finds the corpus it froze the first time, as
\* everything since has gone to the window.
ReferenceIsSetOnce ==
  [][show = "cevak" =>
       \A class \in TaskClasses :
         Monitor!Frozen(run.monitor, class) =>
           run'.monitor.baselines[class] = run.monitor.baselines[class]]_showVars

\* "Drift in one task class must not affect the other", as the tests of the detector
\* have it: a call for one class leaves the judgement of the other's actions alone.
ClassesAreIsolated ==
  [][show = "cevak" =>
       \A class \in TaskClasses \ {run'.class} :
         Monitor!Shifted(run'.monitor, class) <=> Monitor!Shifted(run.monitor, class)]_showVars
=============================================================================
