CONSTANTS
  a = a
  b = b
  c1 = c1
  c2 = c2
  c3 = c3
  None = None
  Callers = {c1, c2, c3}
  Nodes = {a, b}
  ShardCount = 2
  Copies = 1
  Prefer <- MCPrefer
  Bucket <- MCBucket
  Discovered = {a}
  MayChange <- MCMayChange
  MaxCalls = 3
SPECIFICATION FairSpec
INVARIANTS
  ShardsFollowRing
  NodesMatchRing
PROPERTIES
  CallsEnd
CHECK_DEADLOCK FALSE
