SPECIFICATION FairSpec
CONSTANTS
  k1 = k1
  k2 = k2
  p1 = p1
  p2 = p2
  p3 = p3
  NoKey = NoKey
  NoProc = NoProc
  Key = {k1}
  Proc = {p1, p2}
  UserProc = {p1}
  Schedule <- MCSchedule
  MaxPendingAge = 5
  HealthyFrom = 3
  MaxId = 1
  MaxNow = 4
INVARIANT
  RetryFollowsSchedule
PROPERTY
  EveryItemSettles
