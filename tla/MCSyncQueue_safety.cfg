SPECIFICATION Spec
CONSTANTS
  k1 = k1
  k2 = k2
  p1 = p1
  p2 = p2
  p3 = p3
  NoKey = NoKey
  NoProc = NoProc
  Key = {k1, k2}
  Proc = {p1, p2}
  UserProc = {p1, p2}
  Schedule <- MCSchedule
  MaxPendingAge = 0
  HealthyFrom = 3
  MaxId = 2
  MaxNow = 2
SYMMETRY MCSymmetry
INVARIANTS
  TypeOK
  SyncedWasAccepted
  SnapshotStaysDue
PROPERTIES
  ImplementsCommitSync
