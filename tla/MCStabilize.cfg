SPECIFICATION FairSpec
CONSTANTS
  N = 3
  Writes = 2
  Values = {0, 1}
  Initial = 0
INVARIANTS ChecksPass OrOfAll StableIsFinal
PROPERTY AllReturn
CHECK_DEADLOCK FALSE
