\* One call of each kind beside a short one, on a 4-bit clock, with a signal.
SPECIFICATION Spec
CONSTANTS
  Calls = {1, 2}
  Requests <- MCRequests
  Asks <- MCAsks
  Environments <- MCEnvironments
  Defaults <- MCDefaults
  Backends = {"docker", "kubernetes"}
  MaxDuration = 7
  Millisecond = 2
  Half = 1
  Grace = 1
  DayMs = 2
  None = None
INVARIANTS
  IInv
  AwaitHonoured
  AnsweredInTime
PROPERTIES
  SignalEnds
  CallsAreAnswered
\* The process has ended, or no more calls come.
CHECK_DEADLOCK FALSE
