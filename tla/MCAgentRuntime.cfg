SPECIFICATION RuntimeSpec
CONSTANTS
  RefuseEntropy = 7000
  RefuseTrust <- Disabled
  DegradeEntropy = 4500
  DegradeTrust <- Disabled
  None = None
  GateScenarios <- AnyScenario
  Changes <- AnyChange
  Errors <- AnyError
  MaxAttempts = 5
  NoChange = NoChange
  Passed = Passed
  Programs = {"gate", "task"}
CHECK_DEADLOCK FALSE
INVARIANTS DriftIsNoWayOut SameErrorNeedsAChange PassRefusedAfterTwins
