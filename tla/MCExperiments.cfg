SPECIFICATION Spec
CONSTANTS
  RefuseEntropy = 10000
  RefuseTrust <- Disabled
  DegradeEntropy = 7500
  DegradeTrust <- Disabled
  Experiment = {"phase_transition", "experiment_2", "experiment_2_5", "experiment_3", "experiment_4", "experiment_5",
                "comparison", "anything"}
  MaxLuck = 2
  FreeSteps = 16
  FreeLatency = {80, 410}
CHECK_DEADLOCK FALSE
INVARIANTS HybridNeverLater OutagesAreRefused PairsAreMatched ScoresAsMeasured DamageIsOrdered NoiseIsForgiven
