SPECIFICATION Spec
CONSTANTS
  LastFrame = 4
  Synthetic = {101}
  MaxInflight = 2
  MaxAge = 1
  MaxTime = 3
  MaxDelay = 1
CHECK_DEADLOCK FALSE
INVARIANTS TypeOK SampledOrPruned
PROPERTIES PrunedForCause
