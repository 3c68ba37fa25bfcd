CONSTANTS
  MaxSessions = 2
  MaxSequence = 3
  BatchSize = 2
  BufferSize = 1
  Interval = 2
  MaxCalls = 1
SPECIFICATION StreamFairSpec
INVARIANTS
  InLogOrder
  GapsExplained
  CheckpointWasSent
PROPERTIES
  CatchesUp
CHECK_DEADLOCK FALSE
