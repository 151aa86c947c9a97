SPECIFICATION FairSpec
CONSTANTS
  Devices = {1, 2}
  Events <- MCEvents
  Workers = {w1, w2}
  Consumer = consumer
  ConsumerRunning = TRUE
  Timely = TRUE
  Skew = 1
  MaxTime = 1
  MaxCrashes = 1
  None = None
  w1 = w1
  w2 = w2
INVARIANTS
  TypeOK
  LockExclusive
PROPERTIES
  IngestIsAtomic
  LockFreed
CHECK_DEADLOCK FALSE
