CONSTANTS
  Tree = {t0, t1}
  T0 = t0
  NoTree = NoTree
  Proc = {p1}
  Ways <- AllWays
  MaxRuns = 2
  Meddles = TRUE
  CanFail = FALSE
  CanKill = FALSE
SPECIFICATION Spec
INVARIANT AttestedWasReviewed
CHECK_DEADLOCK FALSE
