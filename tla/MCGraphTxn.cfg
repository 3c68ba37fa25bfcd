CONSTANTS
  n1 = n1
  e1 = e1
  t1 = t1
  t2 = t2
  t3 = t3
  Txns = {t1, t2, t3}
  Managers = {m1, m2}
  Nodes = {n1}
  Edges = {e1}
  Hyperedges = {}
  Values = {x}
  MaxTime = 2
  MayWrite <- MCMayWrite
  None = None
SYMMETRY MCSymmetry
SPECIFICATION Spec
INVARIANTS
  NoDirtyVersion
  CommittedWritesKept
PROPERTIES
  SnapshotStable
CHECK_DEADLOCK FALSE
