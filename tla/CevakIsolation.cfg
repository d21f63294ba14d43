SPECIFICATION ShowSpec
CONSTANTS
  Shows = {"cevak"}
  Targets = {"auth_service", "worker_pool"}
  MaxTurns = 3
  MaxListed = 24
  MaxRows = 3
  MaxOps = 6
  MaxStormCalls = 32
CHECK_DEADLOCK FALSE
PROPERTIES ClassesAreIsolated
