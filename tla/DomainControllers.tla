-------------------------- MODULE DomainControllers ---------------------------
(***************************************************************************)
(* The controllers and scenarios of the four domain experiments: CI,       *)
(* database, microservices and the scheduler, in this order.               *)
(***************************************************************************)
EXTENDS TriModal
-----------------------------------------------------------------------------
(***************************************************************************)
(* experiments/ci_control: one pipeline tick per step.  Fanout, jobs       *)
(* spawned and retries make the entropy; the persistence window watches    *)
(* that entropy.                                                           *)
(***************************************************************************)

CiScenario == {"pipeline_fanout_explosion", "flaky_test_storm", "gradual_flakiness"}

\* PERSIST_ENTROPY_FLOOR
CiFloor == 3000

\* make_pipeline_fanout_explosion: the tick after those in past.
FanoutExplosion(past, success) ==
  LET n == Len(past) + 1
  IN  [ step |-> n, active_jobs |-> 2 ^ (n - 1), total_jobs_spawned |-> 2 ^ n - 1,
        retry_count |-> IF n >= 2 THEN n - 2 ELSE 0, success |-> success ]

\* make_flaky_test_storm: a tick's own failure is a retry of the next.
FlakyTestStorm(past, success) ==
  LET n == Len(past) + 1
  IN  [ step |-> n, active_jobs |-> 3, total_jobs_spawned |-> 3 * n,
        retry_count |-> FailuresOf(past), success |-> success ]

\* make_gradual_flakiness
GradualFlakiness(past, success) ==
  LET n == Len(past) + 1
  IN  [ step |-> n, active_jobs |-> 2, total_jobs_spawned |-> 2 * n,
        retry_count |-> FailuresOf(past), success |-> success ]

CiState(scenario, past, success) ==
  CASE scenario = "pipeline_fanout_explosion" -> FanoutExplosion(past, success)
    [] scenario = "flaky_test_storm"          -> FlakyTestStorm(past, success)
    [] OTHER                                  -> GradualFlakiness(past, success)

\* RNOSCIController.evaluate
CiEntropy(s) ==
  Least(400 * s.active_jobs, 5000)
    + Least(Log2(s.total_jobs_spawned) \div 2, 3000)
    + Least(800 * s.retry_count, 3000)
-----------------------------------------------------------------------------
\* TriModalCIController.evaluate and record_outcome.
CiEvaluate(tri, s) == Evaluated(tri, CiEntropy(s) > CiFloor)

CiRecord(tri, s) == Learned(tri, s.success)

CiRunBaseline(run, s) == Judged(run, s.step, Alone(0), FALSE, run.tri)

CiRunRnos(run, s) ==
  Judged(run, s.step, Alone(EntropySeverity(CiEntropy(s))), TRUE, run.tri)

\* A refused tick is not recorded.
CiRunCb(run, s) ==
  LET asked    == Asked(run.tri.cb)
      severity == BreakerSeverity(asked)
      told     == IF severity = 2 THEN asked ELSE Told(asked, s.success)
  IN  Judged(run, s.step, Alone(severity), FALSE, WithBreaker(run.tri, told))

\* RNOS only supplies the entropy here.
CiRunPersistence(run, s) ==
  Judged(run, s.step, Alone(PersistenceSeverity(run.tri.seen)), TRUE,
         WithWindow(run.tri, Updated(run.tri.seen, s.success, CiEntropy(s) > CiFloor)))

CiRunHybrid(run, s) ==
  LET tri == CiEvaluate(run.tri, s)
  IN  Judged(run, s.step, Merged(tri, CiEntropy(s)), FALSE, CiRecord(tri, s))
-----------------------------------------------------------------------------
(***************************************************************************)
(* experiments/db_control: one query per step.  Join depth and cost make   *)
(* the entropy, together with the cost of all queries so far, which the    *)
(* RNOS controller adds up itself: here record_outcome feeds RNOS too.     *)
(***************************************************************************)
DbScenario == {"cascading_query_explosion", "lock_contention", "slow_lock_drift"}

\* PERSIST_ENTROPY_FLOOR
DbFloor == 3000

\* make_cascading_query_explosion
QueryExplosion(past, success) ==
  LET n == Len(past) + 1
  IN  [step |-> n, join_depth |-> n, estimated_cost |-> 2 ^ n, success |-> success]

\* make_lock_contention: lock waits differ from those of the drift, and no
\* controller reads them.
LockContention(past, success) ==
  [step |-> Len(past) + 1, join_depth |-> 2, estimated_cost |-> 10, success |-> success]

\* make_slow_lock_drift
SlowLockDrift(past, success) ==
  [step |-> Len(past) + 1, join_depth |-> 2, estimated_cost |-> 10, success |-> success]

DbState(scenario, past, success) ==
  CASE scenario = "cascading_query_explosion" -> QueryExplosion(past, success)
    [] scenario = "lock_contention"           -> LockContention(past, success)
    [] OTHER                                  -> SlowLockDrift(past, success)

\* RNOSDBController.evaluate, after queries that cost so much.
DbEntropy(s, cost) ==
  Least(1000 * s.join_depth, 5000)
    + Least(Log2(s.estimated_cost) \div 2, 4000)
    + Least(10 * cost, 2000)

\* RNOSDBController.record_outcome
DbCharged(tri, s) ==
  [cb |-> tri.cb, seen |-> tri.seen, signal |-> tri.signal, cost |-> tri.cost + s.estimated_cost]
-----------------------------------------------------------------------------
\* TriModalDBController.evaluate and record_outcome.
DbEvaluate(tri, s) == Evaluated(tri, DbEntropy(s, tri.cost) > DbFloor)

\* Slip: the tri-modal controller forgets to tell RNOS.
DbRecordUncharged(tri, s) == Learned(tri, s.success)

DbRecord(tri, s) == Learned(DbCharged(tri, s), s.success)

DbRunBaseline(run, s) == Judged(run, s.step, Alone(0), FALSE, run.tri)

DbRunRnos(run, s) ==
  LET severity == EntropySeverity(DbEntropy(s, run.tri.cost))
  IN  Judged(run, s.step, Alone(severity), TRUE,
             IF severity = 2 THEN run.tri ELSE DbCharged(run.tri, s))

\* A refused query is not recorded.
DbRunCb(run, s) ==
  LET asked    == Asked(run.tri.cb)
      severity == BreakerSeverity(asked)
      told     == IF severity = 2 THEN asked ELSE Told(asked, s.success)
  IN  Judged(run, s.step, Alone(severity), FALSE, WithBreaker(run.tri, told))

\* RNOS supplies the entropy, and is told of every query, the refused one included.
DbRunPersistence(run, s) ==
  LET above == DbEntropy(s, run.tri.cost) > DbFloor
  IN  Judged(run, s.step, Alone(PersistenceSeverity(run.tri.seen)), TRUE,
             WithWindow(DbCharged(run.tri, s), Updated(run.tri.seen, s.success, above)))

DbRunHybrid(run, s) ==
  LET tri == DbEvaluate(run.tri, s)
  IN  Judged(run, s.step, Merged(tri, DbEntropy(s, tri.cost)), FALSE, DbRecord(tri, s))
-----------------------------------------------------------------------------
(***************************************************************************)
(* experiments/microservice_control: one request cycle per step.  Fanout,  *)
(* depth and the requests so far make the entropy; the persistence window  *)
(* watches the change of the latency instead.                              *)
(***************************************************************************)
MsScenario == {"fanout_cascade", "retry_storm", "latency_drift"}

\* PERSIST_LATENCY_FLOOR, in ms per step.
MsFloor == 10

\* make_fanout_cascade
FanoutCascade(past, success) ==
  LET n == Len(past) + 1
  IN  [ step |-> n, fanout |-> 2 ^ (n - 1), depth |-> n, total_requests |-> 2 ^ n - 1,
        latency_trend |-> 0, success |-> success ]

\* make_retry_storm: a failure repeats its requests, and the trend is the change
\* of the latency, 200 ms for a failure and 80 ms for a success.
RetryStorm(past, success) ==
  LET n          == Len(past) + 1
      latency(s) == IF s THEN 80 ELSE 200
  IN  [ step |-> n, fanout |-> 3, depth |-> 2,
        total_requests |-> 3 * (n + FailuresOf(Append(past, success))),
        latency_trend |-> IF n > 1 THEN latency(success) - latency(past[n - 1]) ELSE 0,
        success |-> success ]

\* make_latency_drift
LatencyDrift(past, success) ==
  LET n == Len(past) + 1
  IN  [ step |-> n, fanout |-> 3, depth |-> 2, total_requests |-> 3 * n,
        latency_trend |-> IF n > 1 THEN 20 ELSE 0, success |-> success ]

MsState(scenario, past, success) ==
  CASE scenario = "fanout_cascade" -> FanoutCascade(past, success)
    [] scenario = "retry_storm"    -> RetryStorm(past, success)
    [] OTHER                       -> LatencyDrift(past, success)

\* RNOSMSController.evaluate
MsEntropy(s) ==
  Least((12 * Log2(s.fanout)) \div 10, 5000)
    + Least(600 * s.depth, 4000)
    + Least(Log2(s.total_requests) \div 2, 2000)
-----------------------------------------------------------------------------
\* Slip: the signal is stashed after the outcome is recorded, one step late.
MsEvaluateStale(tri, s) == Evaluated(tri, tri.signal)

\* TriModalMSController.evaluate and record_outcome.
MsEvaluate(tri, s) == Evaluated(tri, s.latency_trend > MsFloor)

MsRecord(tri, s) == Learned(tri, s.success)

MsRunBaseline(run, s) == Judged(run, s.step, Alone(0), FALSE, run.tri)

MsRunRnos(run, s) ==
  Judged(run, s.step, Alone(EntropySeverity(MsEntropy(s))), TRUE, run.tri)

\* The refused cycle is recorded here.
MsRunCb(run, s) ==
  LET asked    == Asked(run.tri.cb)
      severity == BreakerSeverity(asked)
  IN  Judged(run, s.step, Alone(severity), FALSE, WithBreaker(run.tri, Told(asked, s.success)))

\* No entropy at all here: the trend is the signal.
MsRunPersistence(run, s) ==
  Judged(run, s.step, Alone(PersistenceSeverity(run.tri.seen)), TRUE,
         WithWindow(run.tri, Updated(run.tri.seen, s.success, s.latency_trend > MsFloor)))

MsRunHybrid(run, s) ==
  LET tri == MsEvaluate(run.tri, s)
  IN  Judged(run, s.step, Merged(tri, MsEntropy(s)), FALSE, MsRecord(tri, s))
-----------------------------------------------------------------------------
(***************************************************************************)
(* experiments/scheduler_control: one scheduling cycle per step.  Active   *)
(* and spawned jobs and the dependency depth make the entropy; the         *)
(* persistence window watches the change of the queue's waiting time.      *)
(***************************************************************************)
SchedulerScenario == {"dependency_explosion", "failing_jobs_storm", "queue_backlog_drift"}

\* PERSIST_WAIT_TREND_FLOOR
SchedulerFloor == 2

\* make_dependency_explosion
DependencyExplosion(past, success) ==
  LET n == Len(past) + 1
  IN  [ step |-> n, active_jobs |-> 2 ^ (n - 1), dependency_depth |-> n,
        total_jobs_spawned |-> 2 ^ n - 1, wait_time_trend |-> 0, success |-> success ]

\* make_failing_jobs_storm: a failed cycle resubmits its jobs; waiting takes 20
\* units in a failed cycle and 8 in another.
FailingJobsStorm(past, success) ==
  LET n       == Len(past) + 1
      wait(s) == IF s THEN 8 ELSE 20
  IN  [ step |-> n, active_jobs |-> 5, dependency_depth |-> 2,
        total_jobs_spawned |-> 5 * (n + FailuresOf(Append(past, success))),
        wait_time_trend |-> IF n > 1 THEN wait(success) - wait(past[n - 1]) ELSE 0,
        success |-> success ]

\* make_queue_backlog_drift
QueueBacklogDrift(past, success) ==
  LET n == Len(past) + 1
  IN  [ step |-> n, active_jobs |-> 3, dependency_depth |-> 2, total_jobs_spawned |-> 3 * n,
        wait_time_trend |-> IF n > 1 THEN 3 ELSE 0, success |-> success ]

SchedulerState(scenario, past, success) ==
  CASE scenario = "dependency_explosion" -> DependencyExplosion(past, success)
    [] scenario = "failing_jobs_storm"   -> FailingJobsStorm(past, success)
    [] OTHER                             -> QueueBacklogDrift(past, success)

\* 1000 * ln(n)
Ln(n) == (693 * Log2(n)) \div 1000

\* RNOSSchedulerController.evaluate
SchedulerEntropy(s) ==
  Least((12 * Ln(s.active_jobs + 1)) \div 10, 5000)
    + Least(Ln(s.total_jobs_spawned + 1) \div 2, 2000)
    + Least(600 * s.dependency_depth, 4000)
-----------------------------------------------------------------------------
\* TriModalSchedulerController.evaluate and record_outcome.
SchedulerEvaluate(tri, s) == Evaluated(tri, s.wait_time_trend > SchedulerFloor)

SchedulerRecord(tri, s) == Learned(tri, s.success)

SchedulerRunBaseline(run, s) == Judged(run, s.step, Alone(0), FALSE, run.tri)

SchedulerRunRnos(run, s) ==
  Judged(run, s.step, Alone(EntropySeverity(SchedulerEntropy(s))), TRUE, run.tri)

\* The refused cycle is recorded here.
SchedulerRunCb(run, s) ==
  LET asked    == Asked(run.tri.cb)
      severity == BreakerSeverity(asked)
  IN  Judged(run, s.step, Alone(severity), FALSE, WithBreaker(run.tri, Told(asked, s.success)))

\* No entropy at all here: the trend is the signal.
SchedulerRunPersistence(run, s) ==
  Judged(run, s.step, Alone(PersistenceSeverity(run.tri.seen)), TRUE,
         WithWindow(run.tri, Updated(run.tri.seen, s.success, s.wait_time_trend > SchedulerFloor)))

SchedulerRunHybrid(run, s) ==
  LET tri == SchedulerEvaluate(run.tri, s)
  IN  Judged(run, s.step, Merged(tri, SchedulerEntropy(s)), FALSE, SchedulerRecord(tri, s))
=============================================================================
