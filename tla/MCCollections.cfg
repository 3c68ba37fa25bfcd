CONSTANTS
  a = a
  b = b
  d = d
  e = e
  x = x
  y = y
  c1 = c1
  c2 = c2
  None = None
  Empty = Empty
  Torn = Torn
  Callers = {c1, c2}
  Names = {a, b, d, e}
  Configs = {x, y}
  MayCall <- MCMayCall
  MaxCalls = 5
  MaxFaults = 2
SPECIFICATION Spec
SYMMETRY Symmetric
INVARIANTS
  TypeOK
  RestartFinds
  NothingComesBack
  AliasesResolve
CHECK_DEADLOCK FALSE
