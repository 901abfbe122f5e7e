\* One command at a time, three commits: a tree can be committed, reverted and committed again.
CONSTANTS
  Tree = {t0, t1}
  T0 = t0
  NoTree = NoTree
  Proc = {p1}
  Ways <- AllWays
  MaxRuns = 3
  Meddles = TRUE
  CanFail = FALSE
  CanKill = TRUE
SPECIFICATION Spec
INVARIANTS TrailerTells AttestationServesOnce QueuedBeforeForgotten PushedAsDecided
CHECK_DEADLOCK FALSE
