\* One identifier, daemon calls that fail, restarts, on a fair scheduler.
SPECIFICATION Spec
CONSTANTS
  i1 = i1
  t1 = t1
  t2 = t2
  c1 = c1
  c2 = c2
  None = None
  Reaper = Reaper
  Identifiers <- MCIdentifiers1
  Callers <- MCCallers2
  Calls <- MCCallsAll
  Containers <- MCContainers2
  Policies = {"old", "new"}
  FirstPolicy = "old"
  TTLs = {0}
  DefaultTTL = 1
  MaxTTL = 1
  LastCall = 0
  MaxFaults = 1
  MaxCrashes = 1
  MaxTrouble = 1
INVARIANTS
  OwnSandbox
PROPERTIES
  ReapsOnlyExpired
  NothingIsLeft
\* The reaper never stops; calls do.
CHECK_DEADLOCK FALSE
