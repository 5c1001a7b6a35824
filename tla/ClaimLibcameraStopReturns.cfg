SPECIFICATION Spec
CONSTANTS
  MaxStarts = 3
  MaxFrames = 3
  Buffers = {b1, b2}
  Lengths = {3, 8}
  RowBytes = 2
  Rows = 2
CHECK_DEADLOCK FALSE
PROPERTY LibcameraStopReturns
