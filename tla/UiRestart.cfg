SPECIFICATION Spec
CONSTANTS
  BufferCapacity = 2
  MAX_ROWS = 2
  MaxID = 3
  MaxRuns = 2
  MaxDrops = 1
  MaxLogins = 2
INVARIANTS LiveEventStream
CHECK_DEADLOCK FALSE
