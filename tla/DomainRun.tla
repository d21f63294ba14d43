------------------------------ MODULE DomainRun ------------------------------
(***************************************************************************)
(* The runners of the domain experiments (run_{ci,db,microservice,         *)
(* scheduler}_experiment.py): one scenario, run in five modes, each with   *)
(* fresh controllers over the same list of states.  The modes share        *)
(* nothing, so that they are run in step here: one state of the list is    *)
(* given to every mode whose loop was not left.                            *)
(*                                                                         *)
(* A list is as the scenario writes it, or the scenario's structure with   *)
(* any outcomes (a controller sees its list only one state at a time).     *)
(***************************************************************************)
EXTENDS DomainControllers

CONSTANTS
  MaxSteps,  \* MAX_STEPS
  FreeSteps  \* the length of a list with any outcomes

ASSUME DomainAssumption == MaxSteps \in Nat /\ FreeSteps \in Nat

VARIABLES
  scenario, \* its name, which fixes the domain
  written,  \* whether the outcomes are the scenario's own
  past,     \* the outcomes of the states given so far
  run       \* mode -> the run in that mode

domainVars == <<scenario, written, past, run>>

Scenario == CiScenario \cup DbScenario \cup MsScenario \cup SchedulerScenario

Mode == {"baseline"} \cup Part \cup {"hybrid"}

\* The repeating outcomes of the scenarios.
Pattern(name) ==
  CASE name \in {"flaky_test_storm", "lock_contention"} -> <<FALSE, FALSE, TRUE>>
    [] name \in {"retry_storm", "failing_jobs_storm"}   -> <<FALSE, FALSE, FALSE, TRUE>>
    [] name \in {"gradual_flakiness", "slow_lock_drift", "latency_drift",
                 "queue_backlog_drift"}                 -> <<FALSE, TRUE>>
    [] OTHER                                            -> <<TRUE>>

\* The next state of the list, and what one mode makes of it.
StateOf(name, success) ==
  CASE name \in CiScenario -> CiState(name, past, success)
    [] name \in DbScenario -> DbState(name, past, success)
    [] name \in MsScenario -> MsState(name, past, success)
    [] OTHER               -> SchedulerState(name, past, success)

CiRun(mode, r, s) ==
  CASE mode = "rnos"        -> CiRunRnos(r, s)
    [] mode = "cb"          -> CiRunCb(r, s)
    [] mode = "persistence" -> CiRunPersistence(r, s)
    [] mode = "hybrid"      -> CiRunHybrid(r, s)
    [] OTHER                -> CiRunBaseline(r, s)

DbRun(mode, r, s) ==
  CASE mode = "rnos"        -> DbRunRnos(r, s)
    [] mode = "cb"          -> DbRunCb(r, s)
    [] mode = "persistence" -> DbRunPersistence(r, s)
    [] mode = "hybrid"      -> DbRunHybrid(r, s)
    [] OTHER                -> DbRunBaseline(r, s)

MsRun(mode, r, s) ==
  CASE mode = "rnos"        -> MsRunRnos(r, s)
    [] mode = "cb"          -> MsRunCb(r, s)
    [] mode = "persistence" -> MsRunPersistence(r, s)
    [] mode = "hybrid"      -> MsRunHybrid(r, s)
    [] OTHER                -> MsRunBaseline(r, s)

SchedulerRun(mode, r, s) ==
  CASE mode = "rnos"        -> SchedulerRunRnos(r, s)
    [] mode = "cb"          -> SchedulerRunCb(r, s)
    [] mode = "persistence" -> SchedulerRunPersistence(r, s)
    [] mode = "hybrid"      -> SchedulerRunHybrid(r, s)
    [] OTHER                -> SchedulerRunBaseline(r, s)

\* The domains' scenarios have different names.
Advanced(mode, r, s) ==
  IF scenario \in CiScenario THEN CiRun(mode, r, s)
  ELSE IF scenario \in DbScenario THEN DbRun(mode, r, s)
  ELSE IF scenario \in MsScenario THEN MsRun(mode, r, s)
  ELSE SchedulerRun(mode, r, s)
-----------------------------------------------------------------------------
DomainInit ==
  /\ scenario \in Scenario
  /\ written \in BOOLEAN
  /\ past = << >>
  /\ run = [mode \in Mode |-> NewRun]

ListLength == IF written THEN MaxSteps ELSE FreeSteps

OutcomesOf(name) ==
  IF written THEN {Pattern(name)[1 + (Len(past) % Len(Pattern(name)))]} ELSE BOOLEAN

\* The next state of the list is judged by every mode still running.
Step(success) ==
  /\ Len(past) < ListLength
  /\ success \in OutcomesOf(scenario)
  /\ run' = [mode \in Mode |->
               IF run[mode].over THEN run[mode]
               ELSE Advanced(mode, run[mode], StateOf(scenario, success))]
  /\ past' = Append(past, success)
  /\ UNCHANGED <<scenario, written>>

DomainNext == \E success \in BOOLEAN : Step(success)

DomainSpec == DomainInit /\ [][DomainNext]_domainVars
-----------------------------------------------------------------------------
\* "By construction, hybrid can never perform worse than the best sub-system": on
\* any list the tri-modal run ends with the first of its parts, neither later nor
\* earlier, though each part learns from a run of its own.
HybridIsEarliest ==
  /\ ~run["hybrid"].over => \A part \in Part : ~run[part].over
  /\ run["hybrid"].over =>
       /\ \E part \in Part :
            run[part].over /\ run[part].executions = run["hybrid"].executions
       /\ \A part \in Part : run[part].executions >= run["hybrid"].executions

\* trigger_source of the refusal names exactly the parts that refuse the same state
\* when they run alone.
TriggerNamesTheFirst ==
  run["hybrid"].over =>
    run["hybrid"].trigger_source =
      {part \in Part : run[part].over /\ run[part].executions = run["hybrid"].executions}

\* Which part each scenario is made for (_print_success_criteria).
Strength(name) ==
  CASE name \in {"pipeline_fanout_explosion", "cascading_query_explosion",
                 "fanout_cascade", "dependency_explosion"}           -> "rnos"
    [] name \in {"flaky_test_storm", "lock_contention", "retry_storm",
                 "failing_jobs_storm"}                               -> "cb"
    [] OTHER                                                         -> "persistence"

\* As written, the part a scenario is made for is the one that ends the tri-modal
\* run, and no other part gets there: RNOS wins, the breaker wins, persistence wins,
\* each at the step the scenarios' comments give.
EachAxisWinsItsScenario ==
  written =>
    /\ run["hybrid"].over => run["hybrid"].trigger_source = {Strength(scenario)}
    /\ Len(past) = MaxSteps =>
         run["hybrid"].final_state = "refused" /\ run["hybrid"].executions =
           CASE scenario \in {"fanout_cascade", "pipeline_fanout_explosion"} -> 6
             [] scenario = "dependency_explosion"                            -> 7
             [] scenario = "cascading_query_explosion"                       -> 8
             [] Strength(scenario) = "cb"                                    -> 6
             [] OTHER                                                        -> 11
=============================================================================
