\* Two commands at a time, which may be killed or fail to write.
CONSTANTS
  Tree = {t0, t1}
  T0 = t0
  NoTree = NoTree
  Proc = {p1, p2}
  Ways <- Reviewers
  MaxRuns = 2
  Meddles = FALSE
  CanFail = TRUE
  CanKill = TRUE
SPECIFICATION FairSpec
PROPERTIES CommandsEnd
CHECK_DEADLOCK FALSE
