SPECIFICATION UserFairSpec
CONSTANTS
  N = 3
  Size = 14
  Modes <- working
INVARIANTS LeaderFirst BoundedSkew
PROPERTY AllDone
CHECK_DEADLOCK FALSE
