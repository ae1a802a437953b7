CONSTANTS
  w1 = w1
  w2 = w2
  r1 = r1
  NoOne = NoOne
  Client <- WindowRebuild
  Kind <- KindOf
  Lease <- LeaseOf
  TaskLimit <- Limits
  MaxPolls = 1
  Dims = 2
  Qas = 3
  Rebuilds = 1
SPECIFICATION FairSpec
INVARIANTS AttachedWritersExclusive SuccessIsExclusive LeakHasCause
PROPERTIES EveryRunEnds LockComesBack
