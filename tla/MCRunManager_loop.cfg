\* Two runs with two commands each, one retained, on a fair scheduler.
SPECIFICATION Spec
CONSTANTS
  r1 = r1
  r2 = r2
  r3 = r3
  i1 = i1
  None = None
  Nil = Nil
  Watched = i1
  WatchedRun = r1
  Runs <- MCRuns2
  Identifiers <- MCIdentifiers1
  Requests <- MCLoopRequests
  MaxRuns = 1
INVARIANTS
  AccountedOnce
  StreamTellsOutcome
  OutcomeJustified
  ResultsMayBeUsed
PROPERTIES
  FrozenAfterEnd
  LoopAsPromised
  RunsEnd
\* Every run ends and nobody has to submit another.
CHECK_DEADLOCK FALSE
