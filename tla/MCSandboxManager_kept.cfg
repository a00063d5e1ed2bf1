\* api.go:8 against the reaper.
SPECIFICATION SafetySpec
CONSTANTS
  i1 = i1
  t1 = t1
  t2 = t2
  c1 = c1
  c2 = c2
  None = None
  Reaper = Reaper
  Identifiers <- MCIdentifiers1
  Callers <- MCCallers2
  Calls <- MCCallsEnsure
  Containers <- MCContainers2
  Policies = {"new"}
  FirstPolicy = "new"
  TTLs = {0}
  DefaultTTL = 1
  MaxTTL = 1
  LastCall = 2
  MaxFaults = 0
  MaxCrashes = 0
  MaxTrouble = 0
PROPERTY
  KeptUntilExpiry
\* The reaper never stops; calls do.
CHECK_DEADLOCK FALSE
