SPECIFICATION FairLoopSpec
CONSTANTS
  FailureThreshold = 3
  InitialCooldown = 1
  MaxCooldown = 8
  MaxTotalBlocked = 30
INVARIANT ProbeAfterFullCooldown
PROPERTIES ImplementsProtocol OutageStopsTheLoop RecoversWithTheTool
CHECK_DEADLOCK FALSE
