SPECIFICATION FairSpec
CONSTANTS
  Procs = {p1, p2, p3}
  Rounds = 4
INVARIANT PbInv
PROPERTIES ImplementsBarrier AllRoundsDone
CHECK_DEADLOCK FALSE
