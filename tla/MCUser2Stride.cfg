SPECIFICATION UserFairSpec
CONSTANTS
  N = 2
  Size = 8
  Modes <- user2Stride
PROPERTY AllDone
CHECK_DEADLOCK FALSE
