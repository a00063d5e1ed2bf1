\* Two commands of a run with either executor, and one trouble at any step.
SPECIFICATION Spec
CONSTANTS
  Requests <- MCRequests
  Backends = {"docker", "kubernetes"}
  OtherTTLs = {1}
  MaxBytes = 2
  DefaultTimeout = 1
  Second = 2
  MaxWait = 2
  Chunks = {1, 2}
  Trouble = 1
  None = None
  Torn = Torn
INVARIANTS
  IInv
  StatusIsTrue
  WholeOrMarked
  OneAtATime
  TakenForCause
PROPERTIES
  ToldIsFinal
  LoopAsPromised
  CommandsReturn
\* The run is over.
CHECK_DEADLOCK FALSE
