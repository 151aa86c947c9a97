SPECIFICATION Spec
CONSTANTS
  Updates = {1, 2, 3, 4}
  DeviceOf <- MCDevice
  RoundOf <- MCRound
  DeltaOf <- MCDelta
  DimsOf <- MCDims
  OldShapes <- MCShapes
  Aggregators = {a1, a2}
  MIN_DEVICES_PER_ROUND = 3
  MaxFaults = 0
  None = None
  a1 = a1
  a2 = a2
INVARIANT DriftCoversRound
