\* The comment at manager.go:756 against the code.
SPECIFICATION SafetySpec
CONSTANTS
  r1 = r1
  r2 = r2
  r3 = r3
  i1 = i1
  None = None
  Nil = Nil
  Watched = i1
  WatchedRun = r1
  Runs <- MCRuns2
  Identifiers <- MCIdentifiers1
  Requests <- MCEvictRequests
  MaxRuns = 1
INVARIANT
  OnlyCompletedRunsEvicted
CHECK_DEADLOCK FALSE
