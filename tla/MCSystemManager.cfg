SPECIFICATION FairSpec
CONSTANTS
  HasCamera = TRUE
  NeutralSolvable = TRUE
  MaxFrames = 3
  MaxCalls = 4
INVARIANTS
  TypeOK
  KinematicsSerialised
  QuietWhenDown
  SpawnsOnlyJoined
  NeutralBeforePowerOff
  NoWriteToStoppedDriver
  EachFrameOnceInOrder
PROPERTIES
  ImplementsLifecycle
  PipelineMoves
CHECK_DEADLOCK FALSE
