SPECIFICATION Spec
CONSTANTS
  HasCamera = TRUE
  NeutralSolvable = TRUE
  MaxFrames = 2
  MaxCalls = 4
PROPERTY ManualLeftOnRequest
CHECK_DEADLOCK FALSE
