\* Three short runs on one sandbox, two retained: the lock and the eviction.
SPECIFICATION SafetySpec
CONSTANTS
  r1 = r1
  r2 = r2
  r3 = r3
  i1 = i1
  None = None
  Nil = Nil
  Watched = i1
  WatchedRun = r1
  Runs <- MCRuns3
  Identifiers <- MCIdentifiers1
  Requests <- MCShortRequests
  MaxRuns = 2
SYMMETRY RunSymmetry
INVARIANTS
  IInv
PROPERTIES
  OldestEvictedFirst
  LockIsFIFOMutex
\* Every run ends and nobody has to submit another.
CHECK_DEADLOCK FALSE
