SPECIFICATION LiveFairSpec
CONSTANTS
  Publishers = {p1, p2}
  Viewers = {v1, v2}
  MaxLen = 1
  MaxEvents = 2
  MaxRestarts = 1
INVARIANTS ExactlyOnce NoSilentGap
PROPERTY ViewersCatchUp
CHECK_DEADLOCK FALSE
