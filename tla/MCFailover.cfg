CONSTANTS
  a = a
  b = b
  m1 = m1
  m2 = m2
  None = None
  Ids = {a, b}
  Starts <- MCStarts
  Monitors = {m1, m2}
  Threshold = 2
  MaxChanges = 1
SPECIFICATION FairSpec
INVARIANTS
  OnePrimary
  QuorumIsMajority
  OneFailoverAtATime
PROPERTIES
  PrimaryAppears
CHECK_DEADLOCK FALSE
