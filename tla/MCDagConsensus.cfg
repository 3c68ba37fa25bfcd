CONSTANTS
  n1 = n1
  n2 = n2
  v1 = v1
  v2 = v2
  v3 = v3
  v4 = v4
  None = None
  Nodes = {n1, n2}
  Vertices = {v1, v2, v3, v4}
  Quorum = 2
  MaxSubmitted <- MCSubmitted
SYMMETRY MCVertices
SPECIFICATION Spec
INVARIANTS
  ClockFollowsDag
  ParentsKnown
  FinalizedHasQuorum
CHECK_DEADLOCK FALSE
