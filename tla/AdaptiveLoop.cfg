SPECIFICATION FairLoopSpec
CONSTANTS
  WindowSize = 5
  InitialFailureRate = 60
  MinFailureRate = 40
  AdaptationStep = 5
  InitialCooldown = 2
  MaxCooldown = 10
  MaxTotalBlocked = 20
INVARIANT AdaptationIsInert
PROPERTY RecoversWithTheApi
CHECK_DEADLOCK FALSE
