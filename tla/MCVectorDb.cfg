CONSTANTS
  c1 = c1
  c2 = c2
  i1 = i1
  i2 = i2
  a = a
  b = b
  u = u
  v = v
  w = w
  m = m
  Absent = Absent
  Threads = {c1, c2}
  Ids = {a, b}
  Instances = {i1, i2}
  Vectors = {u, v, w}
  Metas = {m}
  Options <- MCOptions
  DimOf <- MCDims
  Batches <- MCBatches
  Used = {i1}
  Searchers = {c1}
  MayWrite <- MCMayWrite
  Backends = {"persistent", "memory"}
  MaxPoints = 1
SPECIFICATION FairSpec
INVARIANTS
  TypeOK
  IndexMatchesStorage
  HitsAreStored
  HitsExplained
  NoOrphanMetadata
  ConfigAgrees
PROPERTIES
  OperationsEnd
