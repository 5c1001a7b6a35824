SPECIFICATION Spec
CONSTANTS
  Angles = {0, 7}
  MaxThreshold = 3
  ThresholdStep = 3
  StartThreshold = 3
  HistoryRows = 2
  MaxObserved = 3
  TypedSetpoints <- OneSetpoint
  MaxInputs = 3
  MaxFrames = 2
  MaxActs = 1
  WindowThreshold = 3
PROPERTY SignalStopsTracker
CHECK_DEADLOCK FALSE
