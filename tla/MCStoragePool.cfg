CONSTANTS
  c1 = c1
  c2 = c2
  c3 = c3
  p1 = p1
  p2 = p2
  s1 = s1
  s2 = s2
  s3 = s3
  d1 = d1
  d2 = d2
  d3 = d3
  n1 = n1
  n2 = n2
  i1 = i1
  i2 = i2
  i3 = i3
  i4 = i4
  i5 = i5
  None = None
  Clients = {c1, c2, c3}
  Paths = {p1, p2}
  Names = {n1, n2}
  NameOf <- MCDistinctNames
  Slots = {s1, s2, s3}
  Databases = {d1, d2, d3}
  Inodes = {i1, i2, i3, i4, i5}
SYMMETRY MCSymmetry
SPECIFICATION PoolSpec
INVARIANTS
  NoLeakedEntry
  NoSelfLockout
PROPERTIES
  ImplementsSharedFile
