SPECIFICATION Spec
CONSTANTS
  Events <- MCEvents
  Replicas = {r1, r2}
  None = None
  r1 = r1
  r2 = r2
INVARIANTS
  HoldsStrongest
  Converges
