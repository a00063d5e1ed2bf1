\* Two clients of one run, every interleaving with publisher and eviction.
SPECIFICATION Spec
CONSTANTS
  c1 = c1
  c2 = c2
  Clients <- MCClients
  HistorySize = 2
  Buffer = 2
  LastEvent = 3
INVARIANTS
  IInv
  NothingSlipsThrough
  OnceAndInOrder
PROPERTIES
  HandlersReturn
  OnlyFullChannelsLoseTheEnd
\* A run ends, and clients leave for good.
CHECK_DEADLOCK FALSE
