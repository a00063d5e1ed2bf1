\* Four callers of one lock, three of whom may give up, in every interleaving.
SPECIFICATION Spec
CONSTANTS
  c1 = c1
  c2 = c2
  c3 = c3
  c4 = c4
  Callers <- MCCallers4
  Impatient <- MCCallers3
PROPERTIES
  NoDoubleClose
  ImplementsFIFOMutex
  StarvedOnlyByLostGrant
\* Nobody has to ask for the lock, and a lost grant stops everybody.
CHECK_DEADLOCK FALSE
