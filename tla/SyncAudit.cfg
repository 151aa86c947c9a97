SPECIFICATION Spec
CONSTANTS
  Devices = {1, 2}
  Events <- MCPlainEvents
  Workers = {w1, w2}
  Consumer = consumer
  ConsumerRunning = TRUE
  Timely = TRUE
  Skew = 0
  MaxTime = 2
  MaxCrashes = 0
  None = None
  w1 = w1
  w2 = w2
INVARIANT AuditNamesWinner
CHECK_DEADLOCK FALSE
