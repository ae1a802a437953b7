CONSTANTS
  o1 = o1
  o2 = o2
  NoOne = NoOne
  Runner <- TwoRunners
  Resuming <- TwoRunners
  Lease = 0
  MaxGen = 3
SPECIFICATION Spec
INVARIANTS ProtectedKeepsLock
PROPERTY LastRowStays
SYMMETRY Alike
CHECK_DEADLOCK FALSE
