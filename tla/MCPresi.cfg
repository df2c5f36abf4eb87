SPECIFICATION FairSpec
CONSTANTS
  AVAIL = 4
  N = 2
  NEXE = 2
  nexe = 2
  nruns = 2
  size = 2
  fix = FALSE
  Tests <- scanAndFlat
INVARIANTS OneThreadPerRole FreshVariables SameTimeBase OutcomeOfOneIteration
PROPERTY AllOutcomesLogged
