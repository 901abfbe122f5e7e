SPECIFICATION MachineSpec
CONSTANTS
  c1 = c1
  c2 = c2
  c3 = c3
  Command = {c1, c2, c3}
  Kinds <- MCKinds
  MaxVersion = 2
  Size <- MCSize
  MaxFaults = 1
  o1 = o1
  o2 = o2
  o3 = o3
  Op = {o1, o2, o3}
  Plans <- MCPlans
  Hook = {commit}
  Homes <- MCHomes
  MaxMishaps = 1
  Starter = {s1, s2}
  Submitter = {k1, k2}
  MaxDeaths = 1
  a1 = a1
  a2 = a2
  a3 = a3
  Client = {a1, a2, a3}
  AuthPlans <- MCAuthPlans
  Files <- MCFiles
  MaxFailures = 1
  MaxExpiries = 2
INVARIANTS NextCommandHeals UninstallRestores NothingDangles KeyWaits SessionKept CredentialsAgree OneRefreshPerExpiry
PROPERTY InTurnNothingIsLost
CHECK_DEADLOCK FALSE
