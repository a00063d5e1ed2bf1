\* Both executors, every tree, limits below, at and above what it holds.
SPECIFICATION Spec
CONSTANTS
  Sizes = {0, 2, 5}
  MaxInt = 7
  Names <- MCNames
  DotDotNames <- MCDotDotNames
  Trees <- MCTrees
  Limits <- MCLimits
INVARIANTS
  DiskWithinLimits
  ListedIsWhole
  FailsForCause
\* An extraction ends.
CHECK_DEADLOCK FALSE
