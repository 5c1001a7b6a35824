SPECIFICATION Spec
CONSTANTS
  front = front
  left = left
  Legs <- MCLegs
  ServoNeutral <- MCNeutral
  ServoDir <- MCDir
  Poses <- MCPoses
  Frames <- MCFrames
  Thresholds = {0, 103}
  MinPixels = {0, 1, 2}
  ConfidenceScale <- MCScale
  SpotRadius = 0
  Background = 20
  SpotValue = 240
  Noises <- MCNoises
  Width = 4
  Height = 2
  Deadband <- MCDeadband
  KPan <- MCGain
  KTilt <- MCGain
  MaxPan <- MCMax
  MaxTilt <- MCMax
  MinConfidence <- MCMinConfidence
INVARIANTS TypeOK SetpointFollows OkSolvesEveryLeg
PROPERTIES EstimateOfThePicture NearestOutwardBranch
CHECK_DEADLOCK FALSE
