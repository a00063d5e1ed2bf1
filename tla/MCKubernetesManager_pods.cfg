\* Two requests for one pod, with one trouble: a call that fails, a context
\* that ends, a pod that stops, or a restart that may change the policy.
SPECIFICATION Spec
CONSTANTS
  i1 = i1
  t1 = t1
  t2 = t2
  None = None
  Reaper = Reaper
  Identifiers <- MCIdentifiers
  Callers <- MCCallers
  Operations = {"Ensure", "Delete", "Restart"}
  Policies = {"old", "new"}
  FirstPolicy = "old"
  TTLs = {0}
  DefaultTTL = 1
  MaxTTL = 1
  LastCall = 0
  MaxFaults = 1
  MaxCrashes = 1
  MaxTrouble = 1
INVARIANTS
  OwnPolicy
PROPERTIES
  ReapsOnlyExpired
  NothingIsLeft
\* The reaper never stops; calls do.
CHECK_DEADLOCK FALSE
