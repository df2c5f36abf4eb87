SPECIFICATION Spec
CONSTANTS
  INT_MAX = 2097151
  LONG_MAX = 134217727
  Tests <- cTests
  Masks <- cMasks
  Args <- cArgs
  Params <- cParams
  MaxOptions = 2
  MaxInstances = 5
INVARIANTS CommandLine InBounds Balanced PresiParams
