SPECIFICATION Spec
CONSTANTS
  CbWindow = 5
  CbThreshold = 60
  PersistWindow = 10
  PersistDegrade = 30
  PersistRefuse = 50
  RnosDegrade = 8000
  RnosRefuse = 10000
  MaxSteps = 20
  FreeSteps = 13
  RefuseEntropy = 700
  DegradeEntropy = 450
  CbWindowSize = 5
  CbRate = 60
  Steps = 10
  MaxErrors = 2
INVARIANTS HybridIsEarliest TriggerNamesTheFirst EachAxisWinsItsScenario NothingRunsAfterRefusal GreenOnlyOnTheBurst ThreeFailuresCloseTheGate
CHECK_DEADLOCK FALSE
