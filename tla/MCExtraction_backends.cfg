\* Are the paths of the artifacts the same for both executors?
SPECIFICATION Spec
CONSTANTS
  Sizes = {0, 2, 5}
  MaxInt = 7
  Names <- MCNames
  DotDotNames <- MCDotDotNames
  Trees <- MCTrees
  Limits <- MCLimits
INVARIANT
  SameForEveryBackend
\* An extraction ends.
CHECK_DEADLOCK FALSE
