SPECIFICATION RealSpec
CONSTANTS
  RefuseEntropy = 7000
  RefuseTrust <- Disabled
  DegradeEntropy = 4500
  DegradeTrust <- Disabled
  None = None
  Plans <- PlanSet
  Readable = {"app", "test"}
  TextDrift = 2000
  Modes = {"naive", "rnos"}
  MaxFailures = 2
  MaxSteps = 4
CHECK_DEADLOCK FALSE
INVARIANTS DangerousEditsStopped RunawayRetriesStopped EndsRolledBack
