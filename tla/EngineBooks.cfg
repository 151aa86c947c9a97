SPECIFICATION Spec
CONSTANTS
  Devices = {1, 2}
  Priority <- MCPriority
  Callers = {c1, c2}
  Categories <- MCCategories
  Durations <- MCDurations
  Times <- MCTimes
  ExtraSeconds = {3600}
  MaxGrants = 1
  None = None
  c1 = c1
  c2 = c2
INVARIANTS
  TypeOK
  BooksBalance
  LazyInitSuffices
  OvershootBounded
SYMMETRY MCSymmetry
