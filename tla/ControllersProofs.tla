-------------------------- MODULE ControllersProofs --------------------------
(***************************************************************************)
(* Why a domain's tri-modal controller is as early as its parts, for any   *)
(* window sizes, thresholds and list lengths: as long as it runs, its      *)
(* breaker, its window and its cost are those of the parts that run alone, *)
(* so that they refuse the same state; once it has ended nothing moves     *)
(* backwards.  And why nothing in the CI pipeline runs after a refusal,    *)
(* whatever the policy and the length of the pipeline: a step runs only if *)
(* every step before it succeeded, so a refusal is the last outcome that   *)
(* is not a skip.                                                          *)
(***************************************************************************)
EXTENDS Controllers, TLAPS, SequenceTheorems, FiniteSetTheorems
-----------------------------------------------------------------------------
(* The domains.                                                            *)

\* The controllers inside h are those of the single-axis runs a, b and c, and all
\* four have judged equally many states.
InStep(h, a, b, c) ==
  /\ h.tri.cb = b.tri.cb
  /\ h.tri.seen = c.tri.seen
  /\ h.tri.cost = a.tri.cost
  /\ h.tri.cost = c.tri.cost
  /\ a.executions = h.executions
  /\ b.executions = h.executions
  /\ c.executions = h.executions

\* The names of the runs that are over.
Overs(a, b, c) ==
  {part \in Part : \/ part = "rnos" /\ a.over
                   \/ part = "cb" /\ b.over
                   \/ part = "persistence" /\ c.over}

\* What a state given to four runs in step must make of them.
StaysInStep(h, a, b, c) ==
  /\ h.over <=> (a.over \/ b.over \/ c.over)
  /\ h.over => h.trigger_source = Overs(a, b, c)
  /\ a.executions = h.executions
  /\ b.executions = h.executions
  /\ c.executions = h.executions
  /\ ~h.over => InStep(h, a, b, c)

\* The merge refuses if and only if one of the three severities is a refusal.
LEMMA MergeRefuses ==
  ASSUME NEW tri, NEW entropy
  PROVE  (Merged(tri, entropy).severity = 2) <=>
           \/ EntropySeverity(entropy) = 2
           \/ BreakerSeverity(tri.cb) = 2
           \/ PersistenceSeverity(tri.seen) = 2
<1>1. EntropySeverity(entropy) \in {0, 1, 2}
  BY DEF EntropySeverity
<1>2. BreakerSeverity(tri.cb) \in {0, 1, 2}
  BY DEF BreakerSeverity
<1>3. PersistenceSeverity(tri.seen) \in {0, 1, 2}
  BY DEF PersistenceSeverity
<1> QED
  BY <1>1, <1>2, <1>3 DEF Merged, Most

\* ... and then it names them.
LEMMA MergeNames ==
  ASSUME NEW tri, NEW entropy, Merged(tri, entropy).severity = 2
  PROVE  Merged(tri, entropy).trigger_source =
           {part \in Part : \/ part = "rnos" /\ EntropySeverity(entropy) = 2
                            \/ part = "cb" /\ BreakerSeverity(tri.cb) = 2
                            \/ part = "persistence" /\ PersistenceSeverity(tri.seen) = 2}
<1> DEFINE sev == [ rnos        |-> EntropySeverity(entropy),
                    cb          |-> BreakerSeverity(tri.cb),
                    persistence |-> PersistenceSeverity(tri.seen) ]
<1>1. Merged(tri, entropy).trigger_source = {part \in Part : sev[part] = 2}
  BY DEF Merged
<1>2. \A part \in Part : sev[part] = 2 <=>
        \/ part = "rnos" /\ EntropySeverity(entropy) = 2
        \/ part = "cb" /\ BreakerSeverity(tri.cb) = 2
        \/ part = "persistence" /\ PersistenceSeverity(tri.seen) = 2
  BY DEF Part
<1> QED
  BY <1>1, <1>2

\* One state given to the four runs of the CI domain.
LEMMA CiInStep ==
  ASSUME NEW h, NEW a, NEW b, NEW c, NEW s, InStep(h, a, b, c)
  PROVE  StaysInStep(CiRunHybrid(h, s), CiRunRnos(a, s), CiRunCb(b, s), CiRunPersistence(c, s))
<1> DEFINE tri == CiEvaluate(h.tri, s)
<1>1. /\ tri.cb = Asked(b.tri.cb)
      /\ tri.seen = c.tri.seen
      /\ tri.cost = h.tri.cost
      /\ tri.signal = (CiEntropy(s) > CiFloor)
  BY DEF InStep, CiEvaluate, Evaluated
<1>2. (CiRunHybrid(h, s).over) <=> (Merged(tri, CiEntropy(s)).severity = 2)
  BY DEF CiRunHybrid, Judged
<1>3. /\ CiRunRnos(a, s).over <=> (EntropySeverity(CiEntropy(s)) = 2)
      /\ CiRunCb(b, s).over <=> (BreakerSeverity(tri.cb) = 2)
      /\ CiRunPersistence(c, s).over <=> (PersistenceSeverity(tri.seen) = 2)
  BY <1>1 DEF CiRunRnos, CiRunCb, CiRunPersistence, Judged, Alone
<1>4. CiRunHybrid(h, s).over <=>
        \/ CiRunRnos(a, s).over
        \/ CiRunCb(b, s).over
        \/ CiRunPersistence(c, s).over
  BY <1>2, <1>3, MergeRefuses
<1>5. /\ CiRunRnos(a, s).executions = CiRunHybrid(h, s).executions
      /\ CiRunCb(b, s).executions = CiRunHybrid(h, s).executions
      /\ CiRunPersistence(c, s).executions = CiRunHybrid(h, s).executions
  BY DEF InStep, CiRunHybrid, CiRunRnos, CiRunCb, CiRunPersistence, Judged
<1>6. ASSUME ~CiRunHybrid(h, s).over
      PROVE  InStep(CiRunHybrid(h, s), CiRunRnos(a, s), CiRunCb(b, s), CiRunPersistence(c, s))
  <2>1. BreakerSeverity(Asked(b.tri.cb)) # 2
    BY <1>1, <1>3, <1>4, <1>6
  <2>2. CiRunHybrid(h, s).tri.cb = CiRunCb(b, s).tri.cb
    BY <1>1, <2>1 DEF CiRunHybrid, CiRunCb, CiRecord, Judged, Learned, WithBreaker
  <2>3. CiRunHybrid(h, s).tri.seen = CiRunPersistence(c, s).tri.seen
    BY <1>1 DEF CiRunHybrid, CiRunPersistence, CiRecord, Judged, Learned, WithWindow
  <2>4. /\ CiRunHybrid(h, s).tri.cost = CiRunRnos(a, s).tri.cost
        /\ CiRunHybrid(h, s).tri.cost = CiRunPersistence(c, s).tri.cost
    BY <1>1 DEF InStep, CiRunHybrid, CiRunRnos, CiRunPersistence, CiRecord, Judged, Learned,
                WithWindow
  <2> QED
    BY <1>5, <2>2, <2>3, <2>4 DEF InStep
<1>7. ASSUME CiRunHybrid(h, s).over
      PROVE  CiRunHybrid(h, s).trigger_source =
               Overs(CiRunRnos(a, s), CiRunCb(b, s), CiRunPersistence(c, s))
  <2>1. CiRunHybrid(h, s).trigger_source = Merged(tri, CiEntropy(s)).trigger_source
    BY DEF CiRunHybrid, Judged
  <2> QED
    BY <1>2, <1>3, <1>7, <2>1, MergeNames DEF Overs
<1> QED
  BY <1>4, <1>5, <1>6, <1>7 DEF StaysInStep

\* One state given to the four runs of the database domain, whose entropy also
\* depends on the cost each controller has added up.
LEMMA DbInStep ==
  ASSUME NEW h, NEW a, NEW b, NEW c, NEW s, InStep(h, a, b, c)
  PROVE  StaysInStep(DbRunHybrid(h, s), DbRunRnos(a, s), DbRunCb(b, s), DbRunPersistence(c, s))
<1> DEFINE tri == DbEvaluate(h.tri, s)
<1>1. /\ tri.cb = Asked(b.tri.cb)
      /\ tri.seen = c.tri.seen
      /\ tri.cost = a.tri.cost
      /\ tri.cost = c.tri.cost
      /\ tri.signal = (DbEntropy(s, c.tri.cost) > DbFloor)
  BY DEF InStep, DbEvaluate, Evaluated
<1>2. (DbRunHybrid(h, s).over) <=> (Merged(tri, DbEntropy(s, tri.cost)).severity = 2)
  BY DEF DbRunHybrid, Judged
<1>3. /\ DbRunRnos(a, s).over <=> (EntropySeverity(DbEntropy(s, tri.cost)) = 2)
      /\ DbRunCb(b, s).over <=> (BreakerSeverity(tri.cb) = 2)
      /\ DbRunPersistence(c, s).over <=> (PersistenceSeverity(tri.seen) = 2)
  BY <1>1 DEF DbRunRnos, DbRunCb, DbRunPersistence, Judged, Alone
<1>4. DbRunHybrid(h, s).over <=>
        \/ DbRunRnos(a, s).over
        \/ DbRunCb(b, s).over
        \/ DbRunPersistence(c, s).over
  BY <1>2, <1>3, MergeRefuses
<1>5. /\ DbRunRnos(a, s).executions = DbRunHybrid(h, s).executions
      /\ DbRunCb(b, s).executions = DbRunHybrid(h, s).executions
      /\ DbRunPersistence(c, s).executions = DbRunHybrid(h, s).executions
  BY DEF InStep, DbRunHybrid, DbRunRnos, DbRunCb, DbRunPersistence, Judged
<1>6. ASSUME ~DbRunHybrid(h, s).over
      PROVE  InStep(DbRunHybrid(h, s), DbRunRnos(a, s), DbRunCb(b, s), DbRunPersistence(c, s))
  <2>1. /\ BreakerSeverity(Asked(b.tri.cb)) # 2
        /\ EntropySeverity(DbEntropy(s, a.tri.cost)) # 2
    BY <1>1, <1>3, <1>4, <1>6
  <2>2. DbRunHybrid(h, s).tri.cb = DbRunCb(b, s).tri.cb
    BY <1>1, <2>1 DEF DbRunHybrid, DbRunCb, DbRecord, DbCharged, Judged, Learned, WithBreaker
  <2>3. DbRunHybrid(h, s).tri.seen = DbRunPersistence(c, s).tri.seen
    BY <1>1 DEF DbRunHybrid, DbRunPersistence, DbRecord, DbCharged, Judged, Learned, WithWindow
  <2>4. DbRunHybrid(h, s).tri.cost = DbRunRnos(a, s).tri.cost
    BY <1>1, <2>1 DEF DbRunHybrid, DbRunRnos, DbRecord, DbCharged, Judged, Learned
  <2>5. DbRunHybrid(h, s).tri.cost = DbRunPersistence(c, s).tri.cost
    BY <1>1 DEF DbRunHybrid, DbRunPersistence, DbRecord, DbCharged, Judged, Learned, WithWindow
  <2> QED
    BY <1>5, <2>2, <2>3, <2>4, <2>5 DEF InStep
<1>7. ASSUME DbRunHybrid(h, s).over
      PROVE  DbRunHybrid(h, s).trigger_source =
               Overs(DbRunRnos(a, s), DbRunCb(b, s), DbRunPersistence(c, s))
  <2>1. DbRunHybrid(h, s).trigger_source = Merged(tri, DbEntropy(s, tri.cost)).trigger_source
    BY DEF DbRunHybrid, Judged
  <2> QED
    BY <1>2, <1>3, <1>7, <2>1, MergeNames DEF Overs
<1> QED
  BY <1>4, <1>5, <1>6, <1>7 DEF StaysInStep

\* One state given to the four runs of the microservice domain.
LEMMA MsInStep ==
  ASSUME NEW h, NEW a, NEW b, NEW c, NEW s, InStep(h, a, b, c)
  PROVE  StaysInStep(MsRunHybrid(h, s), MsRunRnos(a, s), MsRunCb(b, s), MsRunPersistence(c, s))
<1> DEFINE tri == MsEvaluate(h.tri, s)
<1>1. /\ tri.cb = Asked(b.tri.cb)
      /\ tri.seen = c.tri.seen
      /\ tri.cost = h.tri.cost
      /\ tri.signal = (s.latency_trend > MsFloor)
  BY DEF InStep, MsEvaluate, Evaluated
<1>2. (MsRunHybrid(h, s).over) <=> (Merged(tri, MsEntropy(s)).severity = 2)
  BY DEF MsRunHybrid, Judged
<1>3. /\ MsRunRnos(a, s).over <=> (EntropySeverity(MsEntropy(s)) = 2)
      /\ MsRunCb(b, s).over <=> (BreakerSeverity(tri.cb) = 2)
      /\ MsRunPersistence(c, s).over <=> (PersistenceSeverity(tri.seen) = 2)
  BY <1>1 DEF MsRunRnos, MsRunCb, MsRunPersistence, Judged, Alone
<1>4. MsRunHybrid(h, s).over <=>
        \/ MsRunRnos(a, s).over
        \/ MsRunCb(b, s).over
        \/ MsRunPersistence(c, s).over
  BY <1>2, <1>3, MergeRefuses
<1>5. /\ MsRunRnos(a, s).executions = MsRunHybrid(h, s).executions
      /\ MsRunCb(b, s).executions = MsRunHybrid(h, s).executions
      /\ MsRunPersistence(c, s).executions = MsRunHybrid(h, s).executions
  BY DEF InStep, MsRunHybrid, MsRunRnos, MsRunCb, MsRunPersistence, Judged
<1>6. InStep(MsRunHybrid(h, s), MsRunRnos(a, s), MsRunCb(b, s), MsRunPersistence(c, s))
  <2>1. MsRunHybrid(h, s).tri.cb = MsRunCb(b, s).tri.cb
    BY <1>1 DEF MsRunHybrid, MsRunCb, MsRecord, Judged, Learned, WithBreaker
  <2>2. MsRunHybrid(h, s).tri.seen = MsRunPersistence(c, s).tri.seen
    BY <1>1 DEF MsRunHybrid, MsRunPersistence, MsRecord, Judged, Learned, WithWindow
  <2>3. /\ MsRunHybrid(h, s).tri.cost = MsRunRnos(a, s).tri.cost
        /\ MsRunHybrid(h, s).tri.cost = MsRunPersistence(c, s).tri.cost
    BY <1>1 DEF InStep, MsRunHybrid, MsRunRnos, MsRunPersistence, MsRecord, Judged, Learned,
                WithWindow
  <2> QED
    BY <1>5, <2>1, <2>2, <2>3 DEF InStep
<1>7. ASSUME MsRunHybrid(h, s).over
      PROVE  MsRunHybrid(h, s).trigger_source =
               Overs(MsRunRnos(a, s), MsRunCb(b, s), MsRunPersistence(c, s))
  <2>1. MsRunHybrid(h, s).trigger_source = Merged(tri, MsEntropy(s)).trigger_source
    BY DEF MsRunHybrid, Judged
  <2> QED
    BY <1>2, <1>3, <1>7, <2>1, MergeNames DEF Overs
<1> QED
  BY <1>4, <1>5, <1>6, <1>7 DEF StaysInStep

\* One state given to the four runs of the scheduler domain.
LEMMA SchedulerInStep ==
  ASSUME NEW h, NEW a, NEW b, NEW c, NEW s, InStep(h, a, b, c)
  PROVE  StaysInStep(SchedulerRunHybrid(h, s), SchedulerRunRnos(a, s), SchedulerRunCb(b, s), SchedulerRunPersistence(c, s))
<1> DEFINE tri == SchedulerEvaluate(h.tri, s)
<1>1. /\ tri.cb = Asked(b.tri.cb)
      /\ tri.seen = c.tri.seen
      /\ tri.cost = h.tri.cost
      /\ tri.signal = (s.wait_time_trend > SchedulerFloor)
  BY DEF InStep, SchedulerEvaluate, Evaluated
<1>2. (SchedulerRunHybrid(h, s).over) <=> (Merged(tri, SchedulerEntropy(s)).severity = 2)
  BY DEF SchedulerRunHybrid, Judged
<1>3. /\ SchedulerRunRnos(a, s).over <=> (EntropySeverity(SchedulerEntropy(s)) = 2)
      /\ SchedulerRunCb(b, s).over <=> (BreakerSeverity(tri.cb) = 2)
      /\ SchedulerRunPersistence(c, s).over <=> (PersistenceSeverity(tri.seen) = 2)
  BY <1>1 DEF SchedulerRunRnos, SchedulerRunCb, SchedulerRunPersistence, Judged, Alone
<1>4. SchedulerRunHybrid(h, s).over <=>
        \/ SchedulerRunRnos(a, s).over
        \/ SchedulerRunCb(b, s).over
        \/ SchedulerRunPersistence(c, s).over
  BY <1>2, <1>3, MergeRefuses
<1>5. /\ SchedulerRunRnos(a, s).executions = SchedulerRunHybrid(h, s).executions
      /\ SchedulerRunCb(b, s).executions = SchedulerRunHybrid(h, s).executions
      /\ SchedulerRunPersistence(c, s).executions = SchedulerRunHybrid(h, s).executions
  BY DEF InStep, SchedulerRunHybrid, SchedulerRunRnos, SchedulerRunCb, SchedulerRunPersistence, Judged
<1>6. InStep(SchedulerRunHybrid(h, s), SchedulerRunRnos(a, s), SchedulerRunCb(b, s), SchedulerRunPersistence(c, s))
  <2>1. SchedulerRunHybrid(h, s).tri.cb = SchedulerRunCb(b, s).tri.cb
    BY <1>1 DEF SchedulerRunHybrid, SchedulerRunCb, SchedulerRecord, Judged, Learned, WithBreaker
  <2>2. SchedulerRunHybrid(h, s).tri.seen = SchedulerRunPersistence(c, s).tri.seen
    BY <1>1 DEF SchedulerRunHybrid, SchedulerRunPersistence, SchedulerRecord, Judged, Learned, WithWindow
  <2>3. /\ SchedulerRunHybrid(h, s).tri.cost = SchedulerRunRnos(a, s).tri.cost
        /\ SchedulerRunHybrid(h, s).tri.cost = SchedulerRunPersistence(c, s).tri.cost
    BY <1>1 DEF InStep, SchedulerRunHybrid, SchedulerRunRnos, SchedulerRunPersistence, SchedulerRecord, Judged, Learned,
                WithWindow
  <2> QED
    BY <1>5, <2>1, <2>2, <2>3 DEF InStep
<1>7. ASSUME SchedulerRunHybrid(h, s).over
      PROVE  SchedulerRunHybrid(h, s).trigger_source =
               Overs(SchedulerRunRnos(a, s), SchedulerRunCb(b, s), SchedulerRunPersistence(c, s))
  <2>1. SchedulerRunHybrid(h, s).trigger_source = Merged(tri, SchedulerEntropy(s)).trigger_source
    BY DEF SchedulerRunHybrid, Judged
  <2> QED
    BY <1>2, <1>3, <1>7, <2>1, MergeNames DEF Overs
<1> QED
  BY <1>4, <1>5, <1>6, <1>7 DEF StaysInStep
-----------------------------------------------------------------------------
\* The parts that ended with the tri-modal run.
First(r) ==
  {part \in Part : r[part].over /\ r[part].executions = r["hybrid"].executions}

\* As long as the tri-modal run goes on its parts do too, in step with it; when it
\* ends one of them ends with it, and none can have ended, or end, before.
DomainInv ==
  /\ run = [mode \in Mode |-> run[mode]]
  /\ run["hybrid"].executions \in Nat
  /\ \A part \in Part : run[part].executions \in Nat
  /\ ~run["hybrid"].over =>
       /\ \A part \in Part : ~run[part].over
       /\ InStep(run["hybrid"], run["rnos"], run["cb"], run["persistence"])
  /\ run["hybrid"].over =>
       /\ \E part \in Part :
            run[part].over /\ run[part].executions = run["hybrid"].executions
       /\ \A part \in Part : run[part].executions >= run["hybrid"].executions
       /\ run["hybrid"].trigger_source = First(run)

\* Whatever the domain, four runs in step stay in step.
LEMMA AdvancedInStep ==
  ASSUME NEW h, NEW a, NEW b, NEW c, NEW s, InStep(h, a, b, c)
  PROVE  StaysInStep(Advanced("hybrid", h, s), Advanced("rnos", a, s),
                     Advanced("cb", b, s), Advanced("persistence", c, s))
<1>1. CASE scenario \in CiScenario
  BY <1>1, CiInStep DEF Advanced, CiRun
<1>2. CASE scenario \notin CiScenario /\ scenario \in DbScenario
  BY <1>2, DbInStep DEF Advanced, DbRun
<1>3. CASE scenario \notin CiScenario /\ scenario \notin DbScenario /\ scenario \in MsScenario
  BY <1>3, MsInStep DEF Advanced, MsRun
<1>4. CASE scenario \notin CiScenario /\ scenario \notin DbScenario /\ scenario \notin MsScenario
  BY <1>4, SchedulerInStep DEF Advanced, SchedulerRun
<1> QED
  BY <1>1, <1>2, <1>3, <1>4

\* Every runner counts the state it judges.
LEMMA AdvancedCounts ==
  ASSUME NEW mode \in Part \cup {"hybrid"}, NEW r, NEW s
  PROVE  Advanced(mode, r, s).executions = r.executions + 1
<1>1. CiRun(mode, r, s).executions = r.executions + 1
  BY DEF Part, CiRun, CiRunRnos, CiRunCb, CiRunPersistence, CiRunHybrid, CiRunBaseline, Judged
<1>2. DbRun(mode, r, s).executions = r.executions + 1
  BY DEF Part, DbRun, DbRunRnos, DbRunCb, DbRunPersistence, DbRunHybrid, DbRunBaseline, Judged
<1>3. MsRun(mode, r, s).executions = r.executions + 1
  BY DEF Part, MsRun, MsRunRnos, MsRunCb, MsRunPersistence, MsRunHybrid, MsRunBaseline, Judged
<1>4. SchedulerRun(mode, r, s).executions = r.executions + 1
  BY DEF Part, SchedulerRun, SchedulerRunRnos, SchedulerRunCb, SchedulerRunPersistence,
         SchedulerRunHybrid, SchedulerRunBaseline, Judged
<1> QED
  BY <1>1, <1>2, <1>3, <1>4 DEF Advanced

\* Fresh controllers are in step.
LEMMA DomainInitInv == DomainInit => DomainInv
<1> SUFFICES ASSUME DomainInit PROVE DomainInv
  OBVIOUS
<1>1. \A mode \in Mode : run[mode] = NewRun
  BY DEF DomainInit
<1>2. /\ run["hybrid"] = NewRun
      /\ run["rnos"] = NewRun
      /\ run["cb"] = NewRun
      /\ run["persistence"] = NewRun
  BY <1>1 DEF Mode, Part
<1>3. NewRun.executions = 0 /\ NewRun.over = FALSE
  BY DEF NewRun
<1>4. InStep(run["hybrid"], run["rnos"], run["cb"], run["persistence"])
  BY <1>2 DEF InStep
<1>5. run = [mode \in Mode |-> run[mode]]
  BY DEF DomainInit
<1> QED
  BY <1>2, <1>3, <1>4, <1>5 DEF DomainInv, Part

\* A state of the list keeps the invariant, and so does doing nothing.
LEMMA DomainStepInv == DomainInv /\ [DomainNext]_domainVars => DomainInv'
<1> SUFFICES ASSUME DomainInv, [DomainNext]_domainVars PROVE DomainInv'
  OBVIOUS
<1>1. CASE UNCHANGED domainVars
  BY <1>1 DEF DomainInv, InStep, First, domainVars
<1>2. CASE DomainNext
  <2>1. PICK success \in BOOLEAN : Step(success)
    BY <1>2 DEF DomainNext
  <2> DEFINE s == StateOf(scenario, success)
  <2> HIDE DEF s
  <2>2. run' = [mode \in Mode |->
                  IF run[mode].over THEN run[mode] ELSE Advanced(mode, run[mode], s)]
    BY <2>1 DEF Step, s
  <2>3. \A mode \in Mode :
          run'[mode] = IF run[mode].over THEN run[mode] ELSE Advanced(mode, run[mode], s)
    BY <2>2
  <2>4. run' = [mode \in Mode |-> run'[mode]]
    BY <2>2
  <2>5. \A mode \in Part \cup {"hybrid"} :
          /\ run'[mode].executions \in Nat
          /\ run'[mode].executions >= run[mode].executions
    <3>1. TAKE mode \in Part \cup {"hybrid"}
    <3>2. run[mode].executions \in Nat
      BY DEF DomainInv
    <3>3. mode \in Mode
      BY DEF Mode
    <3>4. CASE run[mode].over
      <4>1. run'[mode] = run[mode]
        BY <2>3, <3>3, <3>4
      <4> QED
        BY <3>2, <4>1
    <3>5. CASE ~run[mode].over
      <4>1. run'[mode] = Advanced(mode, run[mode], s)
        BY <2>3, <3>3, <3>5
      <4>2. run'[mode].executions = run[mode].executions + 1
        BY <4>1, AdvancedCounts
      <4> QED
        BY <3>2, <4>2
    <3> QED
      BY <3>4, <3>5
  <2>6. CASE run["hybrid"].over
    <3>1. run'["hybrid"] = run["hybrid"]
      BY <2>3, <2>6 DEF Mode
    <3>2. \A part \in Part : run[part].over => run'[part] = run[part]
      BY <2>3 DEF Mode
    <3>3. \A part \in Part : run'[part].executions >= run'["hybrid"].executions
      BY <2>5, <2>6, <3>1 DEF DomainInv, Part
    <3>4. \E part \in Part :
            run'[part].over /\ run'[part].executions = run'["hybrid"].executions
      BY <2>6, <3>1, <3>2 DEF DomainInv
    <3>5. \A part \in Part : part \in First(run') <=> part \in First(run)
      <4>1. TAKE part \in Part
      <4>2. CASE run[part].over
        BY <3>1, <3>2, <4>2 DEF First
      <4>3. CASE ~run[part].over
        <5>1. run'[part] = Advanced(part, run[part], s)
          BY <2>3, <4>3 DEF Mode
        <5>2. run'[part].executions = run[part].executions + 1
          BY <5>1, AdvancedCounts
        <5>3. /\ run[part].executions \in Nat
              /\ run["hybrid"].executions \in Nat
              /\ run[part].executions >= run["hybrid"].executions
          BY <2>6 DEF DomainInv
        <5>4. run'[part].executions # run'["hybrid"].executions
          BY <3>1, <5>2, <5>3
        <5> QED
          BY <4>3, <5>4 DEF First
      <4> QED
        BY <4>2, <4>3
    <3>6. First(run') = First(run)
      BY <3>5 DEF First
    <3>7. run'["hybrid"].trigger_source = First(run')
      BY <2>6, <3>1, <3>6 DEF DomainInv
    <3> QED
      BY <2>4, <2>5, <2>6, <3>1, <3>3, <3>4, <3>7 DEF DomainInv
  <2>7. CASE ~run["hybrid"].over
    <3>1. /\ \A part \in Part : ~run[part].over
          /\ InStep(run["hybrid"], run["rnos"], run["cb"], run["persistence"])
      BY <2>7 DEF DomainInv
    <3>2. /\ run'["hybrid"] = Advanced("hybrid", run["hybrid"], s)
          /\ run'["rnos"] = Advanced("rnos", run["rnos"], s)
          /\ run'["cb"] = Advanced("cb", run["cb"], s)
          /\ run'["persistence"] = Advanced("persistence", run["persistence"], s)
      BY <2>3, <2>7, <3>1 DEF Mode, Part
    <3>3. StaysInStep(run'["hybrid"], run'["rnos"], run'["cb"], run'["persistence"])
      BY <3>1, <3>2, AdvancedInStep
    <3>4. CASE run'["hybrid"].over
      <4>1. \E part \in Part :
              run'[part].over /\ run'[part].executions = run'["hybrid"].executions
        BY <3>3, <3>4 DEF StaysInStep, Part
      <4>2. \A part \in Part : run'[part].executions >= run'["hybrid"].executions
        BY <2>5, <3>3 DEF StaysInStep, Part
      <4>3. run'["hybrid"].trigger_source = First(run')
        BY <3>3, <3>4 DEF StaysInStep, Overs, First, Part
      <4> QED
        BY <2>4, <2>5, <3>4, <4>1, <4>2, <4>3 DEF DomainInv
    <3>5. CASE ~run'["hybrid"].over
      BY <2>4, <2>5, <3>3, <3>5 DEF DomainInv, StaysInStep, Part
    <3> QED
      BY <3>4, <3>5
  <2> QED
    BY <2>6, <2>7
<1> QED
  BY <1>1, <1>2

\* "By construction, hybrid can never perform worse than the best sub-system", in
\* every domain and whatever the thresholds: HybridIsEarliest is invariant.
THEOREM HybridEarliest == DomainSpec => []HybridIsEarliest
<1>1. DomainInv => HybridIsEarliest
  BY DEF DomainInv, HybridIsEarliest
<1> QED
  BY <1>1, DomainInitInv, DomainStepInv, PTL DEF DomainSpec

\* The refusal's trigger_source names the parts that refuse the same state alone:
\* TriggerNamesTheFirst is invariant.
THEOREM TriggerNamed == DomainSpec => []TriggerNamesTheFirst
<1>1. DomainInv => TriggerNamesTheFirst
  BY DEF DomainInv, First, TriggerNamesTheFirst
<1> QED
  BY <1>1, DomainInitInv, DomainStepInv, PTL DEF DomainSpec
-----------------------------------------------------------------------------
(* The pipeline.                                                           *)

Outcome == {"success", "failure", "skipped"}
Verdict == [decision : {"NONE", "ALLOW", "DEGRADE", "REFUSE"}, trigger : {"NONE", "RNOS", "CB"}]

\* Every outcome has its verdict.
WorkflowTypeOK ==
  /\ outcome \in Seq(Outcome)
  /\ verdict \in Seq(Verdict)
  /\ Len(verdict) = Len(outcome)
  /\ given \in Seq({0, 1})

AllSucceeded == \A i \in 1 .. Len(outcome) : outcome[i] = "success"

\* A step is skipped because one before it failed; the gate is only asked when none
\* did, and then one outcome is recorded for each step and one more for this one.
WorkflowInv ==
  /\ WorkflowTypeOK
  /\ \A i \in 1 .. Len(outcome) :
       outcome[i] = "skipped" => \E j \in 1 .. i - 1 : outcome[j] = "failure"
  /\ phase = "gate" => AllSucceeded
  /\ AllSucceeded => Len(given) = IF phase = "gate" THEN Len(outcome) + 1 ELSE Len(outcome)
  /\ \A i \in 1 .. Len(outcome) : Refused(i) =>
       /\ outcome[i] = "failure"
       /\ Len(given) = i
       /\ \A j \in i + 1 .. Len(outcome) : outcome[j] = "skipped"

\* The gate's answer is a verdict.
LEMMA GateAnswers == ASSUME NEW st PROVE HybridGate(st) \in Verdict
  BY DEF HybridGate, Verdict

\* A step that may run follows only successes.
LEMMA RunsAfterSuccess ==
  ASSUME WorkflowInv, Runs(step)
  PROVE  AllSucceeded
<1>1. \A i \in 1 .. Len(outcome) : outcome[i] # "failure"
  BY DEF Runs, step, WorkflowInv, WorkflowTypeOK
<1>2. \A i \in 1 .. Len(outcome) : outcome[i] # "skipped"
  BY <1>1 DEF WorkflowInv
<1> QED
  BY <1>1, <1>2 DEF AllSucceeded, WorkflowInv, WorkflowTypeOK, Outcome

\* A step that ends after successes only keeps the invariant, if a refusal is a
\* failure that was given its outcome.
LEMMA EndsWell ==
  ASSUME WorkflowInv, AllSucceeded, given' \in Seq({0, 1}), phase' = "update",
         NEW result \in {"success", "failure"}, NEW v \in Verdict, StepEnds(result, v),
         result = "success" => Len(given') = Len(outcome) + 1,
         v.decision = "REFUSE" => result = "failure" /\ Len(given') = Len(outcome) + 1
  PROVE  WorkflowInv'
<1> DEFINE n == Len(outcome) + 1
<1>1. /\ outcome' \in Seq(Outcome) /\ Len(outcome') = n
      /\ verdict' \in Seq(Verdict) /\ Len(verdict') = n
      /\ outcome'[n] = result /\ verdict'[n] = v
      /\ \A i \in 1 .. Len(outcome) : outcome'[i] = outcome[i] /\ verdict'[i] = verdict[i]
  BY DEF StepEnds, WorkflowInv, WorkflowTypeOK, Outcome
<1>2. \A i \in 1 .. n : outcome'[i] # "skipped"
  BY <1>1 DEF AllSucceeded, WorkflowInv, WorkflowTypeOK
<1>3. AllSucceeded' => Len(given') = Len(outcome')
  BY <1>1 DEF AllSucceeded, WorkflowInv, WorkflowTypeOK
<1>4. \A i \in 1 .. Len(outcome) : ~ Refused(i)
  BY DEF AllSucceeded, WorkflowInv
<1>5. \A i \in 1 .. n : Refused(i)' => i = n /\ v.decision = "REFUSE"
  <2>1. Len(outcome) \in Nat
    BY DEF WorkflowInv, WorkflowTypeOK
  <2>2. TAKE i \in 1 .. n
  <2>3. CASE i = n
    BY <1>1, <2>3 DEF Refused
  <2>4. CASE i # n
    <3>1. i \in 1 .. Len(outcome)
      BY <2>1, <2>4
    <3>2. ~Refused(i) /\ verdict'[i] = verdict[i]
      BY <1>1, <1>4, <3>1
    <3> QED
      BY <3>2 DEF Refused
  <2> QED
    BY <2>3, <2>4
<1>6. \A i \in 1 .. Len(outcome') : Refused(i)' =>
        /\ outcome'[i] = "failure"
        /\ Len(given') = i
        /\ \A j \in i + 1 .. Len(outcome') : outcome'[j] = "skipped"
  BY <1>1, <1>5 DEF WorkflowInv, WorkflowTypeOK
<1> QED
  BY <1>1, <1>2, <1>3, <1>6 DEF WorkflowInv, WorkflowTypeOK

\* An empty log satisfies it.
LEMMA WorkflowInitInv == WorkflowInit => WorkflowInv
  BY DEF WorkflowInit, WorkflowInv, WorkflowTypeOK, AllSucceeded

\* Every step keeps it.
LEMMA WorkflowStepInv == WorkflowInv /\ [WorkflowNext]_workflowVars => WorkflowInv'
<1> SUFFICES ASSUME WorkflowInv, [WorkflowNext]_workflowVars PROVE WorkflowInv'
  OBVIOUS
<1>1. ASSUME NEW failure \in {0, 1}, Update(failure) PROVE WorkflowInv'
  <2>1. AllSucceeded
    BY <1>1, RunsAfterSuccess DEF Update
  <2>2. /\ UNCHANGED <<outcome, verdict>> /\ phase' = "gate" /\ phase = "update"
        /\ given' = Append(given, failure)
    BY <1>1 DEF Update
  <2>3. given' \in Seq({0, 1}) /\ Len(given') = Len(given) + 1
    BY <2>2 DEF WorkflowInv, WorkflowTypeOK
  <2>4. Len(given') = Len(outcome') + 1
    BY <2>1, <2>2, <2>3 DEF WorkflowInv
  <2>5. \A i \in 1 .. Len(outcome') : ~ Refused(i)'
    BY <2>1, <2>2 DEF AllSucceeded, WorkflowInv, Refused
  <2>6. AllSucceeded'
    BY <2>1, <2>2 DEF AllSucceeded
  <2> QED
    BY <2>2, <2>3, <2>4, <2>5, <2>6 DEF WorkflowInv, WorkflowTypeOK
<1>2. CASE Judge
  <2> DEFINE v == HybridGate(state)
  <2>1. v \in Verdict
    BY GateAnswers
  <2>2. AllSucceeded /\ Len(given) = Len(outcome) + 1
    BY <1>2 DEF Judge, WorkflowInv
  <2>3. PICK result \in {"success", "failure"} :
          /\ StepEnds(result, v)
          /\ result = "failure" <=> v.decision = "REFUSE"
    BY <1>2 DEF Judge
  <2>4. given' = given /\ phase' = "update"
    BY <1>2 DEF Judge
  <2>5. given' \in Seq({0, 1}) /\ Len(given') = Len(outcome) + 1
    BY <2>2, <2>4 DEF WorkflowInv, WorkflowTypeOK
  <2> HIDE DEF v
  <2> QED
    BY <2>1, <2>2, <2>3, <2>4, <2>5, EndsWell
<1>3. CASE Err
  <2>1. AllSucceeded
    BY <1>3, RunsAfterSuccess DEF Err
  <2>2. StepEnds("failure", NoVerdict) /\ given' = given /\ phase' = "update"
    BY <1>3 DEF Err
  <2>3. NoVerdict \in Verdict /\ NoVerdict.decision # "REFUSE"
    BY DEF NoVerdict, Verdict
  <2>4. given' \in Seq({0, 1})
    BY <2>2 DEF WorkflowInv, WorkflowTypeOK
  <2> QED
    BY <2>1, <2>2, <2>3, <2>4, EndsWell
<1>4. CASE Skip
  <2> DEFINE n == Len(outcome) + 1
  <2>1. StepEnds("skipped", NoVerdict) /\ UNCHANGED <<given, phase>> /\ phase = "update"
    BY <1>4 DEF Skip
  <2>2. NoVerdict \in Verdict /\ NoVerdict.decision # "REFUSE"
    BY DEF NoVerdict, Verdict
  <2>3. /\ outcome' \in Seq(Outcome) /\ Len(outcome') = n
        /\ verdict' \in Seq(Verdict) /\ Len(verdict') = n
        /\ outcome'[n] = "skipped" /\ verdict'[n] = NoVerdict
        /\ \A i \in 1 .. Len(outcome) : outcome'[i] = outcome[i] /\ verdict'[i] = verdict[i]
    BY <2>1, <2>2 DEF StepEnds, WorkflowInv, WorkflowTypeOK, Outcome
  <2>4. PICK j \in 1 .. Len(outcome) : outcome[j] # "success"
    <3>1. ~Runs(n)
      BY <1>4 DEF Skip, step
    <3>2. \E i \in 1 .. n - 1 : outcome[i] # "success"
      BY <3>1 DEF Runs, WorkflowInv, WorkflowTypeOK
    <3> QED
      BY <3>2 DEF WorkflowInv, WorkflowTypeOK
  <2>5. \E i \in 1 .. Len(outcome) : outcome[i] = "failure"
    <3>1. outcome[j] \in Outcome
      BY DEF WorkflowInv, WorkflowTypeOK
    <3> QED
      BY <2>4, <3>1 DEF Outcome, WorkflowInv, WorkflowTypeOK
  <2>6. ~AllSucceeded'
    <3>1. n \in 1 .. Len(outcome')
      BY <2>3 DEF WorkflowInv, WorkflowTypeOK
    <3>2. outcome'[n] # "success"
      BY <2>3
    <3> QED
      BY <3>1, <3>2 DEF AllSucceeded
  <2>7. \A i \in 1 .. n : outcome'[i] = "skipped" => \E k \in 1 .. i - 1 : outcome'[k] = "failure"
    <3>1. SUFFICES ASSUME NEW i \in 1 .. n, outcome'[i] = "skipped"
                   PROVE  \E k \in 1 .. i - 1 : outcome'[k] = "failure"
      OBVIOUS
    <3>2. CASE i = n
      BY <2>3, <2>5, <3>2 DEF WorkflowInv, WorkflowTypeOK
    <3>3. CASE i # n
      <4>0. i \in 1 .. Len(outcome)
        BY <3>3 DEF WorkflowInv, WorkflowTypeOK
      <4>1. i \in 1 .. Len(outcome) /\ outcome[i] = "skipped"
        BY <2>3, <3>1, <4>0
      <4>2. PICK k \in 1 .. i - 1 : outcome[k] = "failure"
        BY <4>1 DEF WorkflowInv
      <4>3. k \in 1 .. Len(outcome)
        BY <4>1, <4>2 DEF WorkflowInv, WorkflowTypeOK
      <4> QED
        BY <2>3, <4>2, <4>3
    <3> QED
      BY <3>2, <3>3
  <2>8. \A i \in 1 .. n : Refused(i)' =>
          /\ outcome'[i] = "failure"
          /\ Len(given') = i
          /\ \A k \in i + 1 .. n : outcome'[k] = "skipped"
    <3>1. SUFFICES ASSUME NEW i \in 1 .. n, Refused(i)'
                   PROVE  /\ outcome'[i] = "failure"
                          /\ Len(given') = i
                          /\ \A k \in i + 1 .. n : outcome'[k] = "skipped"
      OBVIOUS
    <3>2. i \in 1 .. Len(outcome) /\ Refused(i)
      <4>1. i # n
        BY <2>2, <2>3, <3>1 DEF Refused
      <4>2. i \in 1 .. Len(outcome)
        BY <4>1 DEF WorkflowInv, WorkflowTypeOK
      <4> QED
        BY <2>3, <3>1, <4>2 DEF Refused
    <3>3. /\ outcome[i] = "failure" /\ Len(given) = i
          /\ \A k \in i + 1 .. Len(outcome) : outcome[k] = "skipped"
      BY <3>2 DEF WorkflowInv
    <3>4. \A k \in i + 1 .. n : outcome'[k] = "skipped"
      BY <2>3, <3>2, <3>3 DEF WorkflowInv, WorkflowTypeOK
    <3> QED
      BY <2>1, <2>3, <3>2, <3>3, <3>4
  <2> QED
    BY <2>1, <2>3, <2>6, <2>7, <2>8 DEF WorkflowInv, WorkflowTypeOK
<1>5. CASE Finish
  <2>1. UNCHANGED <<given, outcome, verdict>> /\ phase' = "ended" /\ phase = "update"
    BY <1>5 DEF Finish
  <2> QED
    BY <2>1 DEF WorkflowInv, WorkflowTypeOK, AllSucceeded, Refused
<1>6. CASE UNCHANGED workflowVars
  BY <1>6 DEF WorkflowInv, WorkflowTypeOK, AllSucceeded, Refused, workflowVars
<1> QED
  BY <1>1, <1>2, <1>3, <1>4, <1>5, <1>6 DEF WorkflowNext

\* "Once refused, no subsequent step runs", for every policy, every number of steps
\* and any number of errors: NothingRunsAfterRefusal is invariant.
THEOREM RefusalIsFinal == WorkflowSpec => []NothingRunsAfterRefusal
<1>1. WorkflowInv => NothingRunsAfterRefusal
  <2> SUFFICES ASSUME WorkflowInv, NEW i \in 1 .. Len(outcome), Refused(i)
               PROVE  /\ Len(given) = i /\ phase # "gate"
                      /\ \A j \in i + 1 .. Len(outcome) : outcome[j] = "skipped"
    BY DEF NothingRunsAfterRefusal, WorkflowInv, WorkflowTypeOK
  <2> QED
    BY DEF WorkflowInv, AllSucceeded
<1> QED
  BY <1>1, WorkflowInitInv, WorkflowStepInv, PTL DEF WorkflowSpec

-----------------------------------------------------------------------------
(* What .rnos/state.json says of the pipeline.                              *)

\* The counts of st are those of the outcomes g, its streak is the failures g ends in, and
\* its history the last outcomes of g.
Counted(st, g) ==
  /\ st.jobsSpawned = Len(g) + Sum(g)
  /\ st.repeatedTargetFailures = Sum(g)
  /\ st.computeMinutes = 2 * Len(g)
  /\ st.consecutiveFailures \in Nat /\ st.consecutiveFailures <= Len(g)
  /\ \A i \in Len(g) - st.consecutiveFailures + 1 .. Len(g) : g[i] = 1
  /\ st.consecutiveFailures < Len(g) => g[Len(g) - st.consecutiveFailures] = 0
  /\ st.failureHistory \in Seq({0, 1})
  /\ Len(st.failureHistory) = IF Len(g) <= CbWindowSize THEN Len(g) ELSE CbWindowSize
  /\ \A i \in 1 .. Len(st.failureHistory) :
       st.failureHistory[i] = g[Len(g) - Len(st.failureHistory) + i]

\* Counting the failures of one outcome more.
LEMMA SumAppend ==
  ASSUME NEW g \in Seq({0, 1}), NEW x \in {0, 1}
  PROVE  Sum(g) \in Nat /\ Sum(g) <= Len(g) /\ Sum(Append(g, x)) = Sum(g) + x
<1> DEFINE ones == {i \in DOMAIN g : g[i] = 1}
           more == {i \in DOMAIN Append(g, x) : Append(g, x)[i] = 1}
           n == Len(g)
<1>1. n \in Nat /\ DOMAIN g = 1..n
  BY LenProperties
<1>2. /\ DOMAIN Append(g, x) = 1..(n + 1) /\ Append(g, x)[n + 1] = x
      /\ \A i \in 1..n : Append(g, x)[i] = g[i]
  BY AppendProperties, LenProperties
<1>3. IsFiniteSet(1..n) /\ Cardinality(1..n) = n
  BY <1>1, FS_Interval
<1>4. ones \in SUBSET (1..n)
  BY <1>1
<1>5. IsFiniteSet(ones) /\ Cardinality(ones) <= n /\ Cardinality(ones) \in Nat
  BY <1>3, <1>4, FS_Subset, FS_CardinalityType
<1>6. Cardinality(more) = Cardinality(ones) + x
  <2>1. CASE x = 1
    <3>1. more = ones \cup {n + 1} /\ n + 1 \notin ones
      BY <1>1, <1>2, <2>1
    <3> HIDE DEF more, ones, n
    <3>2. QED BY <1>5, <2>1, <3>1, FS_AddElement
  <2>2. CASE x = 0
    <3>1. more = ones
      BY <1>1, <1>2, <2>2
    <3> HIDE DEF more, ones, n
    <3>2. QED BY <1>5, <2>2, <3>1
  <2>3. QED BY <2>1, <2>2
<1>7. Sum(g) = Cardinality(ones) /\ Sum(Append(g, x)) = Cardinality(more)
  BY DEF Sum
<1> HIDE DEF ones, more
<1>8. QED BY <1>5, <1>6, <1>7

\* update_state.ps1 counts right, whatever was recorded before.
LEMMA UpdateCounts ==
  ASSUME NEW g \in Seq({0, 1}), NEW x \in {0, 1}, NEW st, Counted(st, g)
  PROVE  Counted(UpdateState(st, x), Append(g, x))
<1> DEFINE n == Len(g)
           h == st.failureHistory
           k == Len(h)
           longer == Append(h, x)
           next == UpdateState(st, x)
           c == st.consecutiveFailures
<1>1. n \in Nat /\ k \in Nat /\ h \in Seq({0, 1}) /\ CbWindowSize \in Nat
  BY LenProperties, WorkflowAssumption DEF Counted
<1>2. /\ Len(Append(g, x)) = n + 1 /\ Append(g, x)[n + 1] = x
      /\ \A i \in 1..n : Append(g, x)[i] = g[i]
  BY AppendProperties
<1>3. /\ longer \in Seq({0, 1}) /\ Len(longer) = k + 1 /\ longer[k + 1] = x
      /\ \A i \in 1..k : longer[i] = h[i]
  BY <1>1, AppendProperties
<1>4. Sum(Append(g, x)) = Sum(g) + x /\ Sum(g) \in Nat
  BY SumAppend
<1>5. /\ next.jobsSpawned = (n + 1) + Sum(Append(g, x))
      /\ next.repeatedTargetFailures = Sum(Append(g, x))
      /\ next.computeMinutes = 2 * (n + 1)
  BY <1>1, <1>4 DEF UpdateState, Counted
<1>6. next.consecutiveFailures = IF x = 1 THEN c + 1 ELSE 0
  BY DEF UpdateState
<1>7. c \in Nat /\ c <= n /\ (\A i \in n - c + 1 .. n : g[i] = 1) /\ (c < n => g[n - c] = 0)
  BY DEF Counted
<1>8. next.failureHistory = IF k + 1 > CbWindowSize THEN Tail(longer) ELSE longer
  BY <1>3 DEF UpdateState
<1>9. /\ k = IF n <= CbWindowSize THEN n ELSE CbWindowSize
      /\ \A i \in 1 .. k : h[i] = g[n - k + i]
  BY DEF Counted
<1> HIDE DEF n, h, k, longer, next, c
<1>10. /\ next.consecutiveFailures \in Nat /\ next.consecutiveFailures <= n + 1
       /\ \A i \in (n + 1) - next.consecutiveFailures + 1 .. n + 1 : Append(g, x)[i] = 1
       /\ next.consecutiveFailures < n + 1 =>
            Append(g, x)[(n + 1) - next.consecutiveFailures] = 0
  <2>1. CASE x = 1
    BY <1>1, <1>2, <1>6, <1>7, <2>1
  <2>2. CASE x = 0
    BY <1>1, <1>2, <1>6, <1>7, <2>2
  <2>3. QED BY <2>1, <2>2
<1>11. /\ next.failureHistory \in Seq({0, 1})
       /\ Len(next.failureHistory) = IF n + 1 <= CbWindowSize THEN n + 1 ELSE CbWindowSize
       /\ \A i \in 1 .. Len(next.failureHistory) :
            next.failureHistory[i] = Append(g, x)[(n + 1) - Len(next.failureHistory) + i]
  <2>1. CASE n < CbWindowSize
    <3>1. k = n /\ next.failureHistory = longer /\ n + 1 <= CbWindowSize
      BY <1>1, <1>8, <1>9, <2>1
    <3>2. \A i \in 1 .. n + 1 : longer[i] = Append(g, x)[(n + 1) - (n + 1) + i]
      <4>1. \A i \in 1 .. n : longer[i] = g[i]
        BY <1>1, <1>3, <1>9, <3>1
      <4>2. \A i \in 1 .. n + 1 : longer[i] = Append(g, x)[i]
        BY <1>1, <1>2, <1>3, <3>1, <4>1
      <4>3. \A i \in 1 .. n + 1 : (n + 1) - (n + 1) + i = i
        BY <1>1
      <4>4. QED BY <4>2, <4>3
    <3>3. QED BY <1>3, <3>1, <3>2
  <2>2. CASE ~(n < CbWindowSize)
    <3>1. k = CbWindowSize /\ next.failureHistory = Tail(longer) /\ ~(n + 1 <= CbWindowSize)
      BY <1>1, <1>8, <1>9, <2>2
    <3>2. /\ Tail(longer) \in Seq({0, 1}) /\ Len(Tail(longer)) = k
          /\ \A i \in 1 .. k : Tail(longer)[i] = longer[i + 1]
      <4>1. longer # << >>
        BY <1>1, <1>3
      <4>2. QED BY <1>1, <1>3, <4>1, HeadTailProperties
    <3>3. \A i \in 1 .. k : longer[i + 1] = Append(g, x)[(n + 1) - k + i]
      <4>1. ASSUME NEW i \in 1 .. k PROVE longer[i + 1] = Append(g, x)[(n + 1) - k + i]
        <5>1. CASE i = k
          <6>1. (n + 1) - k + i = n + 1
            BY <1>1, <5>1
          <6>2. QED BY <1>2, <1>3, <5>1, <6>1
        <5>2. CASE i # k
          <6>1. i + 1 \in 1..k /\ n - k + (i + 1) = (n + 1) - k + i /\ (n + 1) - k + i \in 1..n
            BY <1>1, <2>2, <3>1, <5>2
          <6>2. longer[i + 1] = h[i + 1] /\ h[i + 1] = g[n - k + (i + 1)]
            BY <1>3, <1>9, <6>1
          <6>3. Append(g, x)[(n + 1) - k + i] = g[(n + 1) - k + i]
            BY <1>2, <6>1
          <6>4. QED BY <6>1, <6>2, <6>3
        <5>3. QED BY <5>1, <5>2
      <4>2. QED BY <4>1
    <3>4. QED BY <3>1, <3>2, <3>3
  <2>3. QED BY <2>1, <2>2
<1>12. QED
  BY <1>2, <1>5, <1>10, <1>11 DEF Counted, n, next

-----------------------------------------------------------------------------
(* When the workflow is green.                                              *)

\* What the assertion reads is what the pipeline did: the state counts the outcomes
\* given, none is given after a step that failed, and the job's result is decided
\* from that once, at the end.
RecordInv ==
  /\ Counted(state, given)
  /\ Len(outcome) <= Steps
  /\ phase = "gate" => Len(given) <= Steps
  /\ \A i \in 1 .. Len(outcome) : outcome[i] = "failure" => Len(given) <= i
  /\ phase = "ended" =>
       /\ Len(outcome) = Steps
       /\ job = "success" <=>
            /\ driver = "workflow" => Expected
            /\ \A i \in 1 .. Steps : (driver = "local" \/ i # 4) => outcome[i] # "failure"

\* A step that ends after successes, with no more outcomes given than steps, keeps it.
LEMMA EndsRecorded ==
  ASSUME WorkflowInv, RecordInv, AllSucceeded, UNCHANGED <<given, state>>,
         phase' = "update", Len(outcome) < Steps,
         NEW result \in {"success", "failure"}, NEW v, StepEnds(result, v)
  PROVE  RecordInv'
<1> DEFINE n == Len(outcome) + 1
<1>1. /\ n \in Nat /\ Len(outcome') = n /\ outcome'[n] = result
      /\ \A i \in 1 .. Len(outcome) : outcome'[i] = outcome[i]
  BY DEF StepEnds, WorkflowInv, WorkflowTypeOK, Outcome
<1>2. Len(given) \in Nat /\ Len(given) <= n
  BY DEF WorkflowInv, WorkflowTypeOK
<1>3. \A i \in 1 .. Len(outcome') : outcome'[i] = "failure" => Len(given') <= i
  <2>1. ASSUME NEW i \in 1 .. n, outcome'[i] = "failure" PROVE i = n
    <3>1. CASE i \in 1 .. Len(outcome)
      BY <1>1, <2>1, <3>1 DEF AllSucceeded
    <3>2. QED BY <1>1, <2>1, <3>1
  <2>2. QED BY <1>1, <1>2, <2>1
<1>4. Counted(state, given)'
  BY DEF RecordInv, Counted
<1>5. Steps \in Nat /\ Len(outcome') <= Steps
  BY <1>1, WorkflowAssumption DEF WorkflowInv, WorkflowTypeOK
<1>6. QED
  BY <1>3, <1>4, <1>5 DEF RecordInv

\* An empty state counts no outcomes.
LEMMA RecordInitInv == WorkflowInit => RecordInv
<1> SUFFICES ASSUME WorkflowInit PROVE RecordInv
  OBVIOUS
<1>1. given = << >> /\ outcome = << >> /\ phase = "update" /\ state = EmptyState
  BY DEF WorkflowInit
<1>2. Sum(<< >>) = 0
  <2>1. {i \in DOMAIN << >> : << >>[i] = 1} = {}
    OBVIOUS
  <2>2. QED BY <2>1, FS_EmptySet DEF Sum
<1>3. Counted(EmptyState, << >>)
  BY <1>2, WorkflowAssumption DEF Counted, EmptyState
<1>4. QED
  BY <1>1, <1>3, WorkflowAssumption DEF RecordInv

\* Every step keeps it.
LEMMA RecordStepInv ==
  WorkflowInv /\ RecordInv /\ [WorkflowNext]_workflowVars => RecordInv'
<1> SUFFICES ASSUME WorkflowInv, RecordInv, [WorkflowNext]_workflowVars PROVE RecordInv'
  OBVIOUS
<1>0. Len(outcome) \in Nat /\ given \in Seq({0, 1}) /\ Steps \in Nat
  BY WorkflowAssumption DEF WorkflowInv, WorkflowTypeOK
<1>1. ASSUME NEW failure \in {0, 1}, Update(failure) PROVE RecordInv'
  <2>1. AllSucceeded
    BY <1>1, RunsAfterSuccess DEF Update
  <2>2. /\ UNCHANGED outcome /\ phase' = "gate" /\ phase = "update"
        /\ given' = Append(given, failure) /\ state' = UpdateState(state, failure)
        /\ Len(outcome) + 1 <= Steps
    BY <1>1 DEF Update, step
  <2>3. Counted(state', given')
    BY <1>0, <2>2, UpdateCounts DEF RecordInv
  <2>4. Len(given') = Len(outcome) + 1
    BY <1>0, <2>1, <2>2 DEF WorkflowInv
  <2>5. \A i \in 1 .. Len(outcome') : outcome'[i] # "failure"
    BY <2>1, <2>2 DEF AllSucceeded
  <2>6. Counted(state, given)'
    BY <2>3 DEF Counted
  <2>7. QED
    BY <1>0, <2>2, <2>4, <2>5, <2>6 DEF RecordInv
<1>2. CASE Judge
  <2> DEFINE v == HybridGate(state)
             result == IF v.decision = "REFUSE" THEN "failure" ELSE "success"
  <2>1. AllSucceeded /\ Len(given) = Len(outcome) + 1 /\ Len(given) <= Steps
    BY <1>2 DEF Judge, WorkflowInv, RecordInv
  <2>2. StepEnds(result, v) /\ UNCHANGED <<given, state>> /\ phase' = "update"
    BY <1>2 DEF Judge
  <2>3. result \in {"success", "failure"} /\ Len(outcome) < Steps
    BY <1>0, <2>1
  <2> HIDE DEF v, result
  <2>4. QED
    BY <2>1, <2>2, <2>3, EndsRecorded
<1>3. CASE Err
  <2>1. AllSucceeded
    BY <1>3, RunsAfterSuccess DEF Err
  <2>2. StepEnds("failure", NoVerdict) /\ UNCHANGED <<given, state>> /\ phase' = "update"
    BY <1>3 DEF Err
  <2>3. Len(outcome) < Steps
    BY <1>0, <1>3 DEF Err, step
  <2>4. QED
    BY <2>1, <2>2, <2>3, EndsRecorded
<1>4. CASE Skip
  <2>1. /\ outcome' = Append(outcome, "skipped") /\ Len(outcome) + 1 <= Steps
        /\ UNCHANGED <<given, state>> /\ phase' = "update"
    BY <1>4 DEF Skip, StepEnds, step
  <2>2. /\ Len(outcome') = Len(outcome) + 1 /\ outcome'[Len(outcome) + 1] = "skipped"
        /\ \A i \in 1 .. Len(outcome) : outcome'[i] = outcome[i]
    BY <2>1 DEF WorkflowInv, WorkflowTypeOK, Outcome
  <2>3. \A i \in 1 .. Len(outcome') : outcome'[i] = "failure" => Len(given') <= i
    <3>1. ASSUME NEW i \in 1 .. Len(outcome'), outcome'[i] = "failure"
          PROVE  Len(given') <= i
      <4>1. i \in 1 .. Len(outcome)
        BY <1>0, <2>2, <3>1
      <4>2. QED BY <2>1, <2>2, <3>1, <4>1 DEF RecordInv
    <3>2. QED BY <3>1
  <2>4. Counted(state, given)'
    BY <2>1 DEF RecordInv, Counted
  <2>5. QED
    BY <2>1, <2>2, <2>3, <2>4 DEF RecordInv
<1>5. CASE Finish
  <2>1. /\ UNCHANGED <<driver, given, state, outcome>> /\ phase' = "ended"
        /\ Len(outcome) + 1 > Steps
    BY <1>5 DEF Finish, step
  <2>2. job' = "success" <=>
          /\ driver = "workflow" => Expected
          /\ \A i \in 1 .. Steps : (driver = "local" \/ i # 4) => outcome[i] # "failure"
    BY <1>5 DEF Finish
  <2>3. Counted(state, given)'
    BY <2>1 DEF RecordInv, Counted
  <2>4. Len(outcome) = Steps
    BY <1>0, <2>1 DEF RecordInv
  <2>5. (\A i \in 1 .. Len(outcome) : outcome[i] = "failure" => Len(given) <= i)'
    BY <2>1 DEF RecordInv
  <2>6. Expected' <=> Expected
    BY <2>1 DEF Expected
  <2>7. QED
    BY <1>0, <2>1, <2>2, <2>3, <2>4, <2>5, <2>6 DEF RecordInv
<1>6. CASE UNCHANGED workflowVars
  BY <1>6 DEF RecordInv, Counted, Expected, workflowVars
<1>7. QED
  BY <1>1, <1>2, <1>3, <1>4, <1>5, <1>6 DEF WorkflowNext

\* The assertion passes on no other outcomes than those it is written for, and on those
\* whenever the gate refused: GreenOnlyOnTheBurst holds of every policy whose window
\* keeps the four outcomes the assertion expects of the history.
THEOREM GreenMeansTheBurst ==
  ASSUME CbWindowSize >= 4
  PROVE  WorkflowSpec => []GreenOnlyOnTheBurst
<1>1. ASSUME WorkflowInv, RecordInv PROVE GreenOnlyOnTheBurst
  <2> DEFINE burst == <<0, 1, 1, 1>>
             h == state.failureHistory
             c == state.consecutiveFailures
             n == Len(given)
  <2>0. /\ n \in Nat /\ CbWindowSize \in Nat /\ Len(outcome) \in Nat /\ given \in Seq({0, 1})
        /\ Steps \in Nat /\ Steps >= 4
    BY <1>1, WorkflowAssumption DEF WorkflowInv, WorkflowTypeOK
  <2>1. /\ h \in Seq({0, 1})
        /\ Len(h) = IF n <= CbWindowSize THEN n ELSE CbWindowSize
        /\ \A i \in 1 .. Len(h) : h[i] = given[n - Len(h) + i]
        /\ c \in Nat /\ c <= n
        /\ \A i \in n - c + 1 .. n : given[i] = 1
        /\ c < n => given[n - c] = 0
    BY <1>1 DEF RecordInv, Counted
  <2>2. Len(burst) = 4 /\ burst \in Seq({0, 1})
        /\ burst[1] = 0 /\ burst[2] = 1 /\ burst[3] = 1 /\ burst[4] = 1
    OBVIOUS
  <2>3. ASSUME n = 4 PROVE h = given
    <3>1. Len(h) = 4
      BY <1>1, <2>0, <2>1, <2>3
    <3>2. \A i \in 1 .. 4 : h[i] = given[i]
      <4>1. \A i \in 1 .. 4 : n - Len(h) + i = i
        BY <2>3, <3>1
      <4>2. QED BY <2>1, <3>1, <4>1
    <3>3. QED BY <2>0, <2>1, <2>3, <3>1, <3>2, SeqEqual
  <2>4. ASSUME driver = "workflow", phase = "ended", job = "success" PROVE given = burst
    <3>1. Expected /\ Len(outcome) = Steps
      BY <1>1, <2>4 DEF RecordInv
    <3>2. n <= 4
      <4>1. outcome[4] = "failure" /\ 4 \in 1 .. Len(outcome)
        BY <2>0, <3>1 DEF Expected
      <4>2. QED BY <1>1, <4>1 DEF RecordInv
    <3>3. h = burst
      BY <3>1 DEF Expected
    <3>4. n = 4
      BY <2>0, <2>1, <2>2, <3>2, <3>3
    <3>5. QED BY <2>3, <3>3, <3>4
  <2>5. ASSUME driver = "workflow", phase = "ended", given = burst,
               NEW i \in DOMAIN verdict, Refused(i)
        PROVE  job = "success"
    <3>1. i \in 1 .. Len(outcome)
      BY <1>1 DEF WorkflowInv, WorkflowTypeOK
    <3>2. /\ n = i /\ outcome[i] = "failure"
          /\ \A j \in i + 1 .. Len(outcome) : outcome[j] = "skipped"
      BY <1>1, <2>5, <3>1 DEF WorkflowInv
    <3>3. i = 4 /\ n = 4 /\ Len(outcome) = Steps
      BY <1>1, <2>2, <2>5, <3>2 DEF RecordInv
    <3>4. \A j \in 1 .. 3 : outcome[j] # "failure" /\ j \in 1 .. Len(outcome)
      BY <1>1, <2>0, <3>3 DEF RecordInv
    <3>5. \A j \in 1 .. 3 : outcome[j] = "success"
      <4>1. TAKE j \in 1 .. 3
      <4>2. outcome[j] \in Outcome
        BY <1>1, <3>4 DEF WorkflowInv, WorkflowTypeOK
      <4>3. outcome[j] # "skipped"
        <5>1. \A k \in 1 .. j - 1 : k \in 1 .. 3
          OBVIOUS
        <5>2. QED BY <1>1, <3>4, <5>1 DEF WorkflowInv
      <4>4. QED BY <3>4, <4>2, <4>3 DEF Outcome
    <3>6. c = 3
      <4>1. c # 4
        BY <2>1, <2>2, <2>5, <3>3
      <4>2. c < 4 /\ given[4 - c] = 0 /\ 4 - c \in 1 .. 4
        BY <2>1, <3>3, <4>1
      <4>3. 4 - c = 1
        BY <2>2, <2>5, <4>2
      <4>4. QED BY <2>1, <4>3
    <3>7. Expected
      BY <2>3, <2>5, <3>2, <3>3, <3>5, <3>6 DEF Expected
    <3>8. \A j \in 1 .. Steps : j # 4 => outcome[j] # "failure"
      <4>1. TAKE j \in 1 .. Steps
      <4>2. j \in 1 .. 3 \/ j = 4 \/ j \in 5 .. Len(outcome)
        BY <2>0, <3>3
      <4>3. QED BY <3>2, <3>3, <3>4, <4>2
    <3>9. QED BY <1>1, <2>5, <3>7, <3>8 DEF RecordInv
  <2>6. QED BY <2>4, <2>5 DEF GreenOnlyOnTheBurst
<1>2. QED
  BY <1>1, WorkflowInitInv, WorkflowStepInv, RecordInitInv, RecordStepInv, PTL
  DEF WorkflowSpec

-----------------------------------------------------------------------------
(* What rnos-policy.json makes of it.                                       *)

\* The policy of the repository, and every one whose window is the same and whose
\* other thresholds lie as much to either side.
DefaultPolicy ==
  /\ RefuseEntropy >= 671 /\ RefuseEntropy <= 740
  /\ CbWindowSize = 5 /\ CbRate >= 60
  /\ Steps = 10

CbVerdict == [decision |-> "REFUSE", trigger |-> "CB"]

\* The gate refuses neither too early nor too late: no four failures in a row were let
\* pass, nor three in the whole pipeline.
PolicyInv ==
  /\ \A i \in 1 .. Len(outcome) : Refused(i) => Sum(given) >= 2
  /\ \A i \in 1 .. Len(outcome) : verdict[i] = CbVerdict => i = 5
  /\ AllSucceeded =>
       \A i \in 4 .. Len(outcome) : \E j \in i - 3 .. i : given[j] = 0
  /\ AllSucceeded /\ Len(outcome) >= Steps => Sum(given) <= 2

\* A set of failures is no larger than their number.
LEMMA SumAtLeast ==
  ASSUME NEW g \in Seq({0, 1}), NEW T \in SUBSET (1 .. Len(g)), \A i \in T : g[i] = 1
  PROVE  IsFiniteSet(T) /\ Cardinality(T) <= Sum(g)
<1> DEFINE ones == {i \in DOMAIN g : g[i] = 1}
<1>1. Len(g) \in Nat /\ DOMAIN g = 1 .. Len(g)
  BY LenProperties
<1>2. IsFiniteSet(1 .. Len(g))
  BY <1>1, FS_Interval
<1>3. ones \in SUBSET (1 .. Len(g)) /\ T \in SUBSET ones
  BY <1>1
<1>4. IsFiniteSet(ones)
  BY <1>2, <1>3, FS_Subset
<1>5. IsFiniteSet(T) /\ Cardinality(T) <= Cardinality(ones)
  BY <1>3, <1>4, FS_Subset
<1>6. QED BY <1>5 DEF Sum

\* The streak is no longer than the failures are many.
LEMMA StreakBound ==
  ASSUME NEW g \in Seq({0, 1}), NEW st, Counted(st, g)
  PROVE  st.consecutiveFailures <= Sum(g)
<1> DEFINE n == Len(g)
           c == st.consecutiveFailures
<1>1. n \in Nat /\ c \in Nat /\ c <= n /\ \A i \in n - c + 1 .. n : g[i] = 1
  BY LenProperties DEF Counted
<1> HIDE DEF c
<1>2. n - c + 1 .. n \in SUBSET (1 .. n)
  BY <1>1
<1>3. Cardinality(n - c + 1 .. n) <= Sum(g)
  BY <1>1, <1>2, SumAtLeast
<1>4. Cardinality(n - c + 1 .. n) = c
  <2>1. n - c + 1 \in Int /\ n \in Int
    BY <1>1
  <2>2. Cardinality(n - c + 1 .. n) = IF n - c + 1 > n THEN 0 ELSE n - (n - c + 1) + 1
    BY <2>1, FS_Interval
  <2>3. QED BY <1>1, <2>2
<1>5. QED BY <1>3, <1>4 DEF c

\* The history holds no failures but those of the pipeline.
LEMMA HistoryBound ==
  ASSUME NEW g \in Seq({0, 1}), NEW st, Counted(st, g)
  PROVE  Sum(st.failureHistory) <= Sum(g)
<1> DEFINE n == Len(g)
           h == st.failureHistory
           k == Len(h)
           S == {i \in DOMAIN h : h[i] = 1}
           T == {i \in DOMAIN g : g[i] = 1}
           f == [i \in S |-> n - k + i]
<1>1. /\ n \in Nat /\ DOMAIN g = 1 .. n
      /\ h \in Seq({0, 1}) /\ k \in Nat /\ DOMAIN h = 1 .. k /\ k <= n
      /\ \A i \in 1 .. k : h[i] = g[n - k + i]
  <2>1. /\ h \in Seq({0, 1})
        /\ k = IF n <= CbWindowSize THEN n ELSE CbWindowSize
        /\ \A i \in 1 .. k : h[i] = g[n - k + i]
    BY DEF Counted
  <2>2. n \in Nat /\ DOMAIN g = 1 .. n /\ CbWindowSize \in Nat
    BY LenProperties, WorkflowAssumption
  <2>3. k \in Nat /\ DOMAIN h = 1 .. k
    BY <2>1, LenProperties
  <2>4. k <= n
    <3> HIDE DEF k, n
    <3>1. QED BY <2>1, <2>2, <2>3
  <2>5. QED BY <2>1, <2>2, <2>3, <2>4
<1> HIDE DEF n, h, k
<1>2. \A i \in S : n - k + i \in T
  <2>1. TAKE i \in S
  <2>2. i \in 1 .. k /\ h[i] = 1
    BY <1>1
  <2>3. n - k + i \in 1 .. n
    BY <1>1, <2>2
  <2>4. QED BY <1>1, <2>2, <2>3
<1>3. S \in SUBSET Int
  BY <1>1
<1>4. f \in [S -> T]
  BY <1>2
<1>5. \A a, b \in S : f[a] = f[b] => a = b
  <2> HIDE DEF S, T
  <2>1. \A a \in S : f[a] = n - k + a
    OBVIOUS
  <2>2. QED BY <1>1, <1>3, <2>1
<1> HIDE DEF S, T, f
<1>6. f \in Injection(S, T)
  BY <1>4, <1>5, Zenon DEF Injection, IsInjective
<1>7. IsFiniteSet(T)
  <2>1. T \in SUBSET (1 .. n)
    BY <1>1 DEF T
  <2>2. IsFiniteSet(1 .. n)
    BY <1>1, FS_Interval
  <2>3. QED BY <2>1, <2>2, FS_Subset
<1>8. Cardinality(S) <= Cardinality(T)
  BY <1>6, <1>7, FS_Injection, Zenon
<1>9. QED BY <1>8 DEF Sum, S, T, h

\* What RNOS adds up: c failures in a row, S in all, n outcomes.
Added(c, n, S) ==
  Capped(80 * c, 300) + Capped(40 * (n + S), 500) + Capped(50 * S, 200) + Capped(10 * n, 100)

\* The entropy of a state is that of its counts.
LEMMA EntropyIs ==
  ASSUME NEW g \in Seq({0, 1}), NEW st, Counted(st, g)
  PROVE  Entropy(st) = Added(st.consecutiveFailures, Len(g), Sum(g))
<1>1. 5 * (2 * Len(g)) = 10 * Len(g)
  BY LenProperties
<1>2. QED
  BY <1>1 DEF Entropy, Added, Counted

\* One failure in ten outcomes adds up to 670 at most ...
LEMMA OneFailureAdds ==
  ASSUME NEW c \in Nat, NEW n \in Nat, NEW S \in Nat, c <= S, S <= 1, n <= 10
  PROVE  Added(c, n, S) <= 670 /\ Added(c, n, S) \in Nat
<1> DEFINE streak == Capped(80 * c, 300)
           jobs == Capped(40 * (n + S), 500)
           repeats == Capped(50 * S, 200)
           minutes == Capped(10 * n, 100)
<1>1. streak \in 0 .. 80
  BY DEF Capped
<1>2. jobs \in 0 .. 440
  BY DEF Capped
<1>3. repeats \in 0 .. 50
  BY DEF Capped
<1>4. minutes \in 0 .. 100
  BY DEF Capped
<1>5. Added(c, n, S) = streak + jobs + repeats + minutes
  BY DEF Added
<1> HIDE DEF streak, jobs, repeats, minutes
<1>6. QED
  BY <1>1, <1>2, <1>3, <1>4, <1>5

\* ... three to 750 at least at the tenth, four to 740 from the sixth on if the last
\* outcome is one, and four in a row to 860.
LEMMA ManyFailuresAdd ==
  ASSUME NEW c \in Nat, NEW n \in Nat, NEW S \in Nat, n <= 10,
         \/ n = 10 /\ S >= 3
         \/ n >= 6 /\ S >= 4 /\ c >= 1
         \/ n >= 4 /\ S >= 4 /\ c >= 4
  PROVE  Added(c, n, S) >= 740
<1>1. CASE n = 10 /\ S >= 3
  <2>1. Capped(80 * c, 300) >= 0 /\ Capped(80 * c, 300) \in Int
    BY DEF Capped
  <2>2. Capped(40 * (n + S), 500) = 500
    BY <1>1 DEF Capped
  <2>3. Capped(50 * S, 200) >= 150 /\ Capped(50 * S, 200) \in Int
    BY <1>1 DEF Capped
  <2>4. Capped(10 * n, 100) = 100
    BY <1>1 DEF Capped
  <2>5. QED BY <2>1, <2>2, <2>3, <2>4 DEF Added
<1>2. CASE n >= 6 /\ S >= 4 /\ c >= 1
  <2>1. Capped(80 * c, 300) >= 80 /\ Capped(80 * c, 300) \in Int
    BY <1>2 DEF Capped
  <2>2. Capped(40 * (n + S), 500) >= 400 /\ Capped(40 * (n + S), 500) \in Int
    BY <1>2 DEF Capped
  <2>3. Capped(50 * S, 200) = 200
    BY <1>2 DEF Capped
  <2>4. Capped(10 * n, 100) >= 60 /\ Capped(10 * n, 100) \in Int
    BY <1>2 DEF Capped
  <2>5. QED BY <2>1, <2>2, <2>3, <2>4 DEF Added
<1>3. CASE n >= 4 /\ S >= 4 /\ c >= 4
  <2>1. Capped(80 * c, 300) = 300
    BY <1>3 DEF Capped
  <2>2. Capped(40 * (n + S), 500) >= 320 /\ Capped(40 * (n + S), 500) \in Int
    BY <1>3 DEF Capped
  <2>3. Capped(50 * S, 200) = 200
    BY <1>3 DEF Capped
  <2>4. Capped(10 * n, 100) >= 40 /\ Capped(10 * n, 100) \in Int
    BY <1>3 DEF Capped
  <2>5. QED BY <2>1, <2>2, <2>3, <2>4 DEF Added
<1>4. QED BY <1>1, <1>2, <1>3

\* The breaker trips on four of its last five outcomes.
LEMMA TrippedOnFour ==
  ASSUME DefaultPolicy, NEW g \in Seq({0, 1}), NEW st, Counted(st, g), CbTripped(st),
         NEW n, n = Len(g), NEW k, k = Len(st.failureHistory),
         NEW s, s = Sum(st.failureHistory)
  PROVE  n >= 5 /\ k = 5 /\ s \in Nat /\ s >= 4 /\ s <= Sum(g)
<1> DEFINE h == st.failureHistory
<1>1. /\ n \in Nat /\ h \in Seq({0, 1}) /\ CbWindowSize = 5
      /\ k = IF n <= CbWindowSize THEN n ELSE CbWindowSize
      /\ k >= CbWindowSize /\ 100 * s > CbRate * k
  BY LenProperties DEF Counted, CbTripped, DefaultPolicy
<1>2. n >= 5 /\ k = 5
  BY <1>1
<1>3. s \in Nat /\ s <= Sum(g)
  BY <1>1, SumAppend, HistoryBound
<1>4. CbRate \in Nat /\ CbRate >= 60
  BY WorkflowAssumption DEF DefaultPolicy
<1>5. 100 * s > CbRate * 5
  BY <1>1, <1>2
<1>6. s >= 4
  BY <1>3, <1>4, <1>5
<1>7. QED BY <1>2, <1>3, <1>6

\* The gate refuses after two failures at least.
LEMMA RefusesForTwo ==
  ASSUME DefaultPolicy, NEW g \in Seq({0, 1}), NEW st, Counted(st, g),
         NEW n \in Nat, n <= 10, n = Len(g), HybridGate(st).decision = "REFUSE"
  PROVE  Sum(g) >= 2
<1>1. Sum(g) \in Nat /\ RefuseEntropy \in Nat /\ RefuseEntropy >= 671
  BY WorkflowAssumption, SumAppend DEF DefaultPolicy
<1>2. CASE CbTripped(st)
  <2>1. Sum(st.failureHistory) >= 4 /\ Sum(st.failureHistory) <= Sum(g)
        /\ Sum(st.failureHistory) \in Nat
    BY <1>2, TrippedOnFour
  <2>2. QED BY <1>1, <2>1
<1>3. CASE ~CbTripped(st)
  <2>1. Entropy(st) >= RefuseEntropy
    BY <1>3 DEF HybridGate
  <2>2. SUFFICES ASSUME ~(Sum(g) >= 2) PROVE FALSE
    OBVIOUS
  <2>3. st.consecutiveFailures \in Nat /\ st.consecutiveFailures <= Sum(g)
    BY StreakBound DEF Counted
  <2>4. Sum(g) <= 1
    BY <1>1, <2>2
  <2>5. Entropy(st) = Added(st.consecutiveFailures, n, Sum(g))
    BY EntropyIs
  <2>6. Entropy(st) \in Nat /\ Entropy(st) <= 670
    <3> DEFINE c == st.consecutiveFailures
               S == Sum(g)
    <3>1. c \in Nat /\ S \in Nat /\ c <= S /\ S <= 1 /\ Entropy(st) = Added(c, n, S)
      BY <1>1, <2>3, <2>4, <2>5
    <3> HIDE DEF c, S
    <3>2. Added(c, n, S) <= 670 /\ Added(c, n, S) \in Nat
      BY <3>1, OneFailureAdds
    <3>3. QED BY <3>1, <3>2
  <2>7. QED BY <1>1, <2>1, <2>6
<1>4. QED BY <1>2, <1>3

\* RNOS refuses three failures at the tenth outcome, four from the sixth on if the last
\* outcome is one, and four in a row.
LEMMA RefusesManyFailures ==
  ASSUME DefaultPolicy, NEW g \in Seq({0, 1}), NEW st, Counted(st, g),
         NEW n \in Nat, n <= 10, n = Len(g),
         \/ n = 10 /\ Sum(g) >= 3
         \/ n >= 6 /\ Sum(g) >= 4 /\ g[n] = 1
         \/ n >= 4 /\ \A i \in n - 3 .. n : g[i] = 1
  PROVE  HybridGate(st) = [decision |-> "REFUSE", trigger |-> "RNOS"]
<1> DEFINE c == st.consecutiveFailures
           S == Sum(g)
<1>1. /\ n \in Nat /\ S \in Nat /\ c \in Nat /\ c <= n /\ c <= S
      /\ c < n => g[n - c] = 0
      /\ RefuseEntropy \in Nat /\ RefuseEntropy <= 740
  BY WorkflowAssumption, LenProperties, SumAppend, StreakBound DEF DefaultPolicy, Counted
<1>2. Entropy(st) = Added(c, n, S)
  BY EntropyIs
<1>3. \/ n = 10 /\ S >= 3
      \/ n >= 6 /\ S >= 4 /\ g[n] = 1
      \/ n >= 4 /\ \A i \in n - 3 .. n : g[i] = 1
  OBVIOUS
<1> HIDE DEF c, S
<1>4. \/ n = 10 /\ S >= 3
      \/ n >= 6 /\ S >= 4 /\ c >= 1
      \/ n >= 4 /\ S >= 4 /\ c >= 4
  <2>1. CASE n >= 6 /\ S >= 4 /\ g[n] = 1
    <3>1. c # 0
      <4>1. ASSUME c = 0 PROVE FALSE
        <5>1. n - c = n /\ c < n
          BY <1>1, <2>1, <4>1
        <5>2. QED BY <1>1, <2>1, <5>1
      <4>2. QED BY <4>1
    <3>2. QED BY <1>1, <2>1, <3>1
  <2>2. CASE n >= 4 /\ \A i \in n - 3 .. n : g[i] = 1
    <3>1. c >= 4
      <4>1. ASSUME ~(c >= 4) PROVE FALSE
        <5>1. c < n /\ n - c \in n - 3 .. n
          BY <1>1, <2>2, <4>1
        <5>2. QED BY <1>1, <2>2, <5>1
      <4>2. QED BY <4>1
    <3>2. QED BY <1>1, <2>2, <3>1
  <2>3. QED BY <1>3, <2>1, <2>2
<1>6. Added(c, n, S) >= 740
  BY <1>1, <1>4, ManyFailuresAdd, ZenonT(30)
<1>7. Added(c, n, S) \in Int
  <2> DEFINE streak == Capped(80 * c, 300)
             jobs == Capped(40 * (n + S), 500)
             repeats == Capped(50 * S, 200)
             minutes == Capped(10 * n, 100)
  <2>1. streak \in Int
    BY <1>1 DEF Capped
  <2>2. jobs \in Int
    BY <1>1 DEF Capped
  <2>3. repeats \in Int
    BY <1>1 DEF Capped
  <2>4. minutes \in Int
    BY <1>1 DEF Capped
  <2>5. Added(c, n, S) = streak + jobs + repeats + minutes
    BY DEF Added
  <2> HIDE DEF streak, jobs, repeats, minutes
  <2>6. QED BY <2>1, <2>2, <2>3, <2>4, <2>5
<1>8. Entropy(st) >= RefuseEntropy
  <2> DEFINE e == Entropy(st)
             a == Added(c, n, S)
             t == RefuseEntropy
  <2>1. e = a
    BY <1>2
  <2>2. a \in Int
    BY <1>7
  <2>3. a >= 740
    BY <1>6
  <2>4. t \in Nat /\ t <= 740
    BY <1>1
  <2> HIDE DEF e, a, t
  <2>5. e >= t
    BY <2>1, <2>2, <2>3, <2>4
  <2>6. QED BY <2>5 DEF e, t
<1>9. QED BY <1>8 DEF HybridGate

\* So the breaker has a gate to close only at the fifth step, unless four failures in a
\* row were let pass before.
LEMMA BreakerAtFive ==
  ASSUME DefaultPolicy, NEW g \in Seq({0, 1}), NEW st, Counted(st, g),
         NEW n \in Nat, n <= 10, n = Len(g), HybridGate(st) = CbVerdict,
         n > 5 => \E j \in n - 4 .. n - 1 : g[j] = 0
  PROVE  n = 5
<1> DEFINE h == st.failureHistory
           k == Len(h)
           s == Sum(h)
           ones == {i \in DOMAIN h : h[i] = 1}
<1>1. CbTripped(st) /\ HybridGate(st) # [decision |-> "REFUSE", trigger |-> "RNOS"]
  BY DEF HybridGate, CbVerdict
<1>2. n >= 5 /\ k = 5 /\ s \in Nat /\ s >= 4 /\ s <= Sum(g) /\ Sum(g) \in Nat
  BY <1>1, TrippedOnFour, SumAppend
<1>3. DOMAIN h = 1 .. k /\ \A i \in 1 .. k : h[i] = g[n - k + i]
  BY LenProperties DEF Counted
<1>4. s = Cardinality(ones)
  BY DEF Sum
<1> HIDE DEF s, k, h
<1>5. SUFFICES ASSUME n # 5 PROVE FALSE
  OBVIOUS
<1>6. n >= 6
  BY <1>2, <1>5
<1>7. g[n] # 1
  BY <1>1, <1>2, <1>6, RefusesManyFailures
<1>8. PICK j \in n - 4 .. n - 1 : g[j] = 0
  BY <1>6
<1>9. PICK m \in 1 .. 4 : j = n - 5 + m
  <2>1. j - n + 5 \in 1 .. 4 /\ j = n - 5 + (j - n + 5)
    BY <1>8
  <2>2. QED BY <2>1
<1>10. \A i \in 1 .. 5 : h[i] = g[n - 5 + i]
  BY <1>2, <1>3
<1>11. h[5] # 1 /\ h[m] = 0
  <2>1. n - 5 + 5 = n
    OBVIOUS
  <2>2. h[5] = g[n - 5 + 5]
    BY <1>10
  <2>3. h[m] = g[n - 5 + m]
    BY <1>9, <1>10, SMTT(30)
  <2>4. QED BY <1>7, <1>8, <1>9, <2>1, <2>2, <2>3
<1> DEFINE r == k - 1
<1>12. r = 4 /\ ones \in SUBSET ((1 .. r) \ {m}) /\ m \in 1 .. r
  BY <1>2, <1>3, <1>9, <1>11
<1> HIDE DEF ones, r
<1>13. IsFiniteSet(1 .. r) /\ Cardinality(1 .. r) = r
  <2>1. r \in Int /\ 1 \in Int
    BY <1>12
  <2>2. IsFiniteSet(1 .. r) /\ Cardinality(1 .. r) = IF 1 > r THEN 0 ELSE r - 1 + 1
    BY <2>1, FS_Interval, Zenon
  <2>3. QED BY <1>12, <2>2
<1>14. IsFiniteSet((1 .. r) \ {m}) /\ Cardinality((1 .. r) \ {m}) = r - 1
  BY <1>12, <1>13, FS_RemoveElement, Zenon
<1>15. Cardinality(ones) \in Nat /\ Cardinality(ones) <= 3
  <2>1. IsFiniteSet(ones) /\ Cardinality(ones) <= Cardinality((1 .. r) \ {m})
    BY <1>12, <1>14, FS_Subset, Zenon
  <2>2. Cardinality(ones) \in Nat
    BY <2>1, FS_CardinalityType, Zenon
  <2>3. QED BY <1>12, <1>14, <2>1, <2>2
<1>16. QED BY <1>2, <1>4, <1>15

\* The empty pipeline.
LEMMA PolicyInitInv == WorkflowInit /\ DefaultPolicy => PolicyInv
  BY DEF WorkflowInit, PolicyInv, DefaultPolicy

\* A step that ends otherwise than by the gate letting it pass only keeps the bounds on
\* what was refused.
LEMMA EndsInBounds ==
  ASSUME WorkflowInv, PolicyInv, given' = given,
         NEW result \in Outcome, NEW v \in Verdict, StepEnds(result, v),
         result # "success",
         v.decision = "REFUSE" => Sum(given) >= 2,
         v = CbVerdict => Len(outcome) + 1 = 5
  PROVE  PolicyInv'
<1> DEFINE n == Len(outcome) + 1
<1>1. /\ n \in Nat /\ Len(outcome') = n /\ outcome'[n] = result /\ verdict'[n] = v
      /\ \A i \in 1 .. Len(outcome) : verdict'[i] = verdict[i]
      /\ \A i \in 1 .. n : i = n \/ i \in 1 .. Len(outcome)
  BY DEF StepEnds, WorkflowInv, WorkflowTypeOK
<1>2. ~ AllSucceeded'
  BY <1>1 DEF AllSucceeded
<1>3. \A i \in 1 .. n : Refused(i)' => Sum(given)' >= 2
  BY <1>1 DEF PolicyInv, Refused
<1>4. \A i \in 1 .. n : verdict'[i] = CbVerdict => i = 5
  BY <1>1 DEF PolicyInv
<1>5. QED
  BY <1>1, <1>2, <1>3, <1>4 DEF PolicyInv

\* Every step keeps it.
LEMMA PolicyStepInv ==
  ASSUME DefaultPolicy
  PROVE  WorkflowInv /\ RecordInv /\ PolicyInv /\ [WorkflowNext]_workflowVars => PolicyInv'
<1> SUFFICES ASSUME WorkflowInv, RecordInv, PolicyInv, [WorkflowNext]_workflowVars
             PROVE  PolicyInv'
  OBVIOUS
<1>0. Len(outcome) \in Nat /\ given \in Seq({0, 1}) /\ Len(given) \in Nat /\ Steps = 10
  BY LenProperties DEF WorkflowInv, WorkflowTypeOK, DefaultPolicy
<1>1. ASSUME NEW failure \in {0, 1}, Update(failure) PROVE PolicyInv'
  <2>1. AllSucceeded /\ phase # "gate"
    BY <1>1, RunsAfterSuccess DEF Update
  <2>2. /\ UNCHANGED <<outcome, verdict>> /\ given' = Append(given, failure)
        /\ Len(outcome) + 1 <= Steps
    BY <1>1 DEF Update, step
  <2>3. Len(given) = Len(outcome)
    BY <2>1 DEF WorkflowInv
  <2>4. \A i \in 1 .. Len(outcome') : ~ Refused(i)'
    BY <2>1, <2>2 DEF AllSucceeded, WorkflowInv, Refused
  <2>5. \A i \in 1 .. Len(outcome') : verdict'[i] = CbVerdict => i = 5
    BY <2>2 DEF PolicyInv
  <2>6. \A j \in 1 .. Len(outcome) : given'[j] = given[j]
    BY <1>0, <2>2, <2>3, AppendProperties
  <2>7. \A i \in 4 .. Len(outcome') : \E j \in i - 3 .. i : given'[j] = 0
    <3>1. ASSUME NEW i \in 4 .. Len(outcome') PROVE \E j \in i - 3 .. i : given'[j] = 0
      <4>1. PICK j \in i - 3 .. i : given[j] = 0
        BY <2>1, <2>2 DEF PolicyInv
      <4>2. j \in 1 .. Len(outcome)
        BY <1>0, <2>2, <3>1
      <4>3. QED BY <2>6, <4>1, <4>2
    <3>2. QED BY <3>1
  <2>8. ~(Len(outcome') >= Steps)
    BY <1>0, <2>2
  <2>9. QED
    BY <2>4, <2>5, <2>7, <2>8 DEF PolicyInv
<1>2. CASE Judge
  <2> DEFINE v == HybridGate(state)
             result == IF v.decision = "REFUSE" THEN "failure" ELSE "success"
             n == Len(given)
  <2>1. AllSucceeded /\ n = Len(outcome) + 1 /\ n <= Steps /\ Counted(state, given)
    BY <1>2 DEF Judge, WorkflowInv, RecordInv
  <2>2. StepEnds(result, v) /\ given' = given
    BY <1>2 DEF Judge
  <2>3. v \in Verdict
    BY GateAnswers
  <2>4. n \in Nat /\ n <= 10
    BY <1>0, <2>1
  <2>5. ASSUME v.decision = "REFUSE" PROVE PolicyInv'
    <3>1. result = "failure"
      BY <2>5
    <3>2. Sum(given) >= 2
      BY <1>0, <2>1, <2>4, <2>5, RefusesForTwo
    <3>3. ASSUME v = CbVerdict PROVE n = 5
      <4>1. ASSUME n > 5 PROVE \E j \in n - 4 .. n - 1 : given[j] = 0
        <5>1. n - 1 \in 4 .. Len(outcome)
          BY <1>0, <2>1, <4>1
        <5>2. \E j \in (n - 1) - 3 .. n - 1 : given[j] = 0
          BY <2>1, <5>1 DEF PolicyInv
        <5>3. (n - 1) - 3 = n - 4
          BY <1>0
        <5>4. QED BY <5>2, <5>3
      <4>2. QED BY <1>0, <2>1, <2>4, <3>3, <4>1, BreakerAtFive
    <3> HIDE DEF v, n, result
    <3>4. QED
      BY <2>1, <2>2, <2>3, <3>1, <3>2, <3>3, EndsInBounds DEF Outcome
  <2>6. ASSUME v.decision # "REFUSE" PROVE PolicyInv'
    <3>1. /\ ~(n = 10 /\ Sum(given) >= 3)
          /\ ~(n >= 4 /\ \A i \in n - 3 .. n : given[i] = 1)
      BY <1>0, <2>1, <2>4, <2>6, RefusesManyFailures
    <3>2. /\ Len(outcome') = n /\ verdict'[n] = v
          /\ \A i \in 1 .. Len(outcome) : outcome'[i] = outcome[i] /\ verdict'[i] = verdict[i]
      <4> HIDE DEF v, result
      <4>1. QED
        BY <2>1, <2>2 DEF StepEnds, WorkflowInv, WorkflowTypeOK
    <3>3. \A i \in 1 .. Len(outcome) : ~ Refused(i)
      BY <2>1 DEF AllSucceeded, WorkflowInv
    <3>4. \A i \in 1 .. n : ~ Refused(i)'
      <4> HIDE DEF v, result, n
      <4>1. \A i \in 1 .. n : i = n \/ i \in 1 .. Len(outcome)
        BY <1>0, <2>1, <2>4
      <4>2. QED BY <2>6, <3>2, <3>3, <4>1 DEF Refused
    <3>5. \A i \in 1 .. n : verdict'[i] # CbVerdict
      BY <3>4 DEF Refused, CbVerdict
    <3>6. \A i \in 4 .. n : \E j \in i - 3 .. i : given[j] = 0
      <4>1. ASSUME NEW i \in 4 .. n PROVE \E j \in i - 3 .. i : given[j] = 0
        <5>1. CASE i = n
          <6>1. PICK j \in n - 3 .. n : given[j] # 1
            BY <2>4, <3>1, <4>1, <5>1
          <6>2. given[j] \in {0, 1}
            <7>1. j \in 1 .. n
              BY <2>4, <4>1, <5>1
            <7>2. QED BY <1>0, <7>1
          <6>3. QED BY <5>1, <6>1, <6>2
        <5>2. CASE i # n
          <6>1. i \in 4 .. Len(outcome)
            BY <1>0, <2>1, <5>2
          <6>2. QED BY <2>1, <6>1 DEF PolicyInv
        <5>3. QED BY <5>1, <5>2
      <4>2. QED BY <4>1
    <3>7. n >= Steps => Sum(given) <= 2
      <4>1. Sum(given) \in Nat
        BY <1>0, SumAppend
      <4>2. n \in Nat /\ ~(n = 10 /\ Sum(given) >= 3) /\ n <= 10
        BY <2>4, <3>1
      <4> HIDE DEF n
      <4>3. QED BY <1>0, <4>1, <4>2
    <3> HIDE DEF v, n, result
    <3>8. QED
      BY <2>2, <3>2, <3>4, <3>5, <3>6, <3>7 DEF PolicyInv
  <2>7. QED BY <2>5, <2>6
<1>3. CASE Err
  <2>1. StepEnds("failure", NoVerdict) /\ given' = given
    BY <1>3 DEF Err
  <2>2. NoVerdict \in Verdict /\ NoVerdict.decision # "REFUSE" /\ NoVerdict # CbVerdict
    BY DEF NoVerdict, Verdict, CbVerdict
  <2>3. QED BY <2>1, <2>2, EndsInBounds DEF Outcome
<1>4. CASE Skip
  <2>1. StepEnds("skipped", NoVerdict) /\ given' = given
    BY <1>4 DEF Skip
  <2>2. NoVerdict \in Verdict /\ NoVerdict.decision # "REFUSE" /\ NoVerdict # CbVerdict
    BY DEF NoVerdict, Verdict, CbVerdict
  <2>3. QED BY <2>1, <2>2, EndsInBounds DEF Outcome
<1>5. CASE Finish
  <2>1. UNCHANGED <<given, outcome, verdict>>
    BY <1>5 DEF Finish
  <2>2. QED BY <2>1 DEF PolicyInv, AllSucceeded, Refused
<1>6. CASE UNCHANGED workflowVars
  BY <1>6 DEF PolicyInv, AllSucceeded, Refused, workflowVars
<1>7. QED
  BY <1>1, <1>2, <1>3, <1>4, <1>5, <1>6 DEF WorkflowNext

\* Under the repository's policy three failures never pass the ten steps, one is never
\* refused, and the breaker is the one to close the gate at the fifth step only, whatever
\* the outcomes: ThreeFailuresCloseTheGate is invariant.
THEOREM ThreeAreTooMany ==
  ASSUME DefaultPolicy
  PROVE  WorkflowSpec => []ThreeFailuresCloseTheGate
<1>1. ASSUME WorkflowInv, RecordInv, PolicyInv PROVE ThreeFailuresCloseTheGate
  <2>0. /\ Len(outcome) \in Nat /\ DOMAIN outcome = 1 .. Len(outcome)
        /\ DOMAIN verdict = 1 .. Len(outcome)
        /\ given \in Seq({0, 1}) /\ Sum(given) \in Nat /\ Steps \in Nat
    BY <1>1, SumAppend, WorkflowAssumption DEF WorkflowInv, WorkflowTypeOK
  <2>1. ASSUME phase = "ended", Sum(given) >= 3
        PROVE  "failure" \in {outcome[i] : i \in DOMAIN outcome}
    <3>1. Len(outcome) = Steps
      BY <1>1, <2>1 DEF RecordInv
    <3>2. ~ AllSucceeded
      <4>1. ASSUME AllSucceeded PROVE FALSE
        <5>1. Sum(given) <= 2
          BY <1>1, <2>0, <3>1, <4>1 DEF PolicyInv
        <5>2. QED BY <2>0, <2>1, <5>1
      <4>2. QED BY <4>1
    <3>3. PICK i \in 1 .. Len(outcome) : outcome[i] # "success"
      BY <3>2 DEF AllSucceeded
    <3>4. outcome[i] = "failure" \/ outcome[i] = "skipped"
      BY <1>1, <3>3 DEF WorkflowInv, WorkflowTypeOK, Outcome
    <3>5. PICK j \in 1 .. Len(outcome) : outcome[j] = "failure"
      <4>1. CASE outcome[i] = "failure"
        BY <4>1
      <4>2. CASE outcome[i] = "skipped"
        <5>1. PICK j \in 1 .. i - 1 : outcome[j] = "failure"
          BY <1>1, <4>2 DEF WorkflowInv
        <5>2. j \in 1 .. Len(outcome)
          BY <2>0
        <5>3. QED BY <5>1, <5>2
      <4>3. QED BY <3>4, <4>1, <4>2
    <3>6. QED BY <2>0, <3>5
  <2>2. QED
    BY <1>1, <2>0, <2>1 DEF ThreeFailuresCloseTheGate, PolicyInv, CbVerdict
<1>2. DefaultPolicy
  OBVIOUS
<1>3. WorkflowInit => PolicyInv
  BY <1>2, PolicyInitInv
<1>4. QED
  BY <1>1, <1>3, WorkflowInitInv, WorkflowStepInv, RecordInitInv, RecordStepInv,
     PolicyStepInv, PTL
  DEF WorkflowSpec
-----------------------------------------------------------------------------
(* The two programs beside each other.                                     *)

\* In the specification that is model-checked, the experiments and the pipeline each take
\* the steps of their own specification, or none: what is proved of either holds of it.
THEOREM EachOnItsOwn == Spec => DomainSpec /\ WorkflowSpec
<1>1. Init => DomainInit /\ WorkflowInit
  BY DEF Init
<1>2. [Next]_vars => [DomainNext]_domainVars /\ [WorkflowNext]_workflowVars
  BY DEF Next, vars
<1>3. QED
  BY <1>1, <1>2, PTL DEF Spec, DomainSpec, WorkflowSpec
=============================================================================
