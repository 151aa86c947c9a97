SPECIFICATION Spec
CONSTANTS
  Devices = {1, 2}
  Events <- MCPlainEvents
  Workers = {w1}
  Consumer = consumer
  ConsumerRunning = FALSE
  Timely = TRUE
  Skew = 0
  MaxTime = 2
  MaxCrashes = 0
  None = None
  w1 = w1
INVARIANT LastWriteWins
CHECK_DEADLOCK FALSE
