SPECIFICATION FairSpec
CONSTANTS
  Emails = {e1, e2}
  Devices = {d1}
  Callers = {c1, c2}
  Reports = {1}
  Deliveries = {2}
  DeviceOf <- MCDevice
  UserOf <- MCUser
  Seconds <- MCSeconds
  MaxFaults = 1
  None = None
  e1 = e1
  e2 = e2
  d1 = d1
  c1 = c1
  c2 = c2
INVARIANTS
  TypeOK
  AcknowledgedHolds
PROPERTIES
  TablesAreSound
  GoneIsOffline
  PublishedIsRecorded
CHECK_DEADLOCK FALSE
