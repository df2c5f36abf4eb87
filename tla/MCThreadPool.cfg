SPECIFICATION FairSpec
CONSTANTS
  NExe = 2
  N = 2
  Runs = 2
  MaxThreads = 5
INVARIANTS PoolInv PoolStatus NobodySleeps SetOnce
PROPERTY Termination
