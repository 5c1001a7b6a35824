SPECIFICATION Spec
CONSTANTS
  LastFrame = 4
  Synthetic = {101}
  MaxInflight = 3
  MaxAge = 2
  MaxTime = 4
  MaxDelay = 1
CHECK_DEADLOCK FALSE
INVARIANT NothingStale
