SPECIFICATION PatcherSpec
CONSTANTS
  Files = {"app", "test"}
  Baselines <- BaselineSet
  Patches <- PatchSet
  PlanTargets = {"", "app", "test"}
  MaxPatches = 1
CHECK_DEADLOCK FALSE
INVARIANT LinesAccountedFor
