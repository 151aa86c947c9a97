SPECIFICATION Spec
CONSTANTS
  Devices = {d1}
  Ids = {r1, r2}
  Callers = {c1, c2}
  Seconds <- MCSeconds
  MaxOverride = 2
  DailyCap = 3
  TicksPerDay = 2
  UtcOffset = 1
  PermittedStart = 1
  PermittedEnd = 1
  MaxTime = 2
  BudgetRows <- MCCalmRows
  NoBudget = NoBudget
  MetaDevices = {d1}
  MqttUp = TRUE
  MaxFaults = 1
  Null = Null
  d1 = d1
  r1 = r1
  r2 = r2
  c1 = c1
  c2 = c2
SYMMETRY MCSymmetry
INVARIANTS
  TypeOK
  AuditConsistent
  AuditOrdered
  NotifiedOnlyIfDecided
  OvershootNeedsOverlap
PROPERTIES
  ResolvedStaysResolved
  VoteResolves
