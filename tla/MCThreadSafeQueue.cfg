SPECIFICATION FairSpec
CONSTANTS
  t1 = t1
  t2 = t2
  t3 = t3
  Threads <- ThreeThreads
  Capacity = 2
  MaxItems = 4
INVARIANTS
  TypeOK
  NewestInOrder
  NoLostWakeup
  NoMissedStop
PROPERTY ImplementsBuffer
