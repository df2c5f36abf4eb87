SPECIFICATION FairSpec
CONSTANTS
  Procs = {p1, p2, p3}
  Rounds = 4
INVARIANT BarrierInv
PROPERTIES ImplementsBarrier AllRoundsDone
CHECK_DEADLOCK FALSE
