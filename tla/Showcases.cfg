SPECIFICATION ShowSpec
CONSTANTS
  Shows = {"adversarial", "smoldering", "hybrid_showcase", "slow_drift", "retry_storm", "canonical", "default",
           "burst", "coherence", "evasion", "cevak",
           "sweep", "ablation", "ood", "benign"}
  Targets = {"auth_service", "worker_pool"}
  MaxTurns = 2
  MaxListed = 24
  MaxRows = 3
  MaxOps = 6
  MaxStormCalls = 32
CHECK_DEADLOCK FALSE
INVARIANTS TripsAreReportedLate RefusalsWearOff NothingIsNoticed TwinsNeverDiffer CoherenceReports EvasionTakesFiveActions
PROPERTIES ProbesAreNeverHeard ReferenceIsSetOnce RefusedForGood
