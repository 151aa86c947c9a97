SPECIFICATION Spec
CONSTANTS
  Devices = {d1}
  Ids = {r1}
  Callers = {c1, c2}
  Seconds <- MCSeconds
  MaxOverride = 2
  DailyCap = 3
  TicksPerDay = 4
  UtcOffset = 1
  PermittedStart = 1
  PermittedEnd = 2
  MaxTime = 2
  BudgetRows <- MCBudgetRows
  NoBudget = NoBudget
  MetaDevices = {d1}
  MqttUp = TRUE
  MaxFaults = 0
  Null = Null
  d1 = d1
  r1 = r1
  c1 = c1
  c2 = c2
SYMMETRY MCSymmetry
PROPERTY DecisionIsFinal
