SPECIFICATION Spec
CONSTANTS
  Channels <- MCChannels
  MinOut <- MCMinOut
  MaxOut <- MCMaxOut
  MaxStep <- MCMaxStep
  Ticks = 4096
  Period = 200
  Targets <- MCTargets
  MinDeg <- MCMinDeg
  MaxDeg <- MCMaxDeg
  Neutral <- MCNeutral
  MinPulse = 5
  MaxPulse = 25
  Inverted = {2}
  MaxMissed = 2
INVARIANTS TypeOK HardwareReady LagBounded PulsesInRange
PROPERTIES StopParks MotionLimited
