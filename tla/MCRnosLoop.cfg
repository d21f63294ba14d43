SPECIFICATION Spec
CONSTANTS
  RefuseEntropy = 10000
  RefuseTrust <- Disabled
  DegradeEntropy = 7500
  DegradeTrust <- Disabled
  MaxSteps = 10
  Tool = unstable_api
  OtherTool = other
  Latency = {0, 1000}
INVARIANT BudgetIsHonoured
PROPERTY FailureNeverLoosens
CHECK_DEADLOCK FALSE
