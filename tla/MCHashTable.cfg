SPECIFICATION Spec
CONSTANTS
  o1 = o1
  o2 = o2
  o3 = o3
  o4 = o4
  NoOutcome = NoOutcome
  Outcomes = {o1, o2, o3, o4}
  HASHSZ = 3
  hash <- hash4
  cond = {o2, o3}
  nexe = 2
  iterations = 4
INVARIANTS TableInv NothingLost Report
