CONSTANTS
  window = window
  rebuild = rebuild
  NoOne = NoOne
  Client <- MCClient
  Lease <- MCLease
  MaxGen = 4
  Workers <- MCWorkers
  RunId <- MCRunId
  MaxStarts = 3
  MaxFailures = 1
  MaxVersions = 2
SPECIFICATION MCSpec
INVARIANTS HolderOwnsObject OriginalIsKept NewestStays
PROPERTY KeepsLeasePromise
CHECK_DEADLOCK FALSE
