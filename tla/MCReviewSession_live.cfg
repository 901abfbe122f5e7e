SPECIFICATION FairSpec
CONSTANTS
  q1 = q1
  m1 = m1
  Blank = Blank
  Req = {q1}
  Setup <- MCHookSetup
  Msg = {Blank, m1}
  CanFail = FALSE
PROPERTY
  AcceptedEndsSession
CHECK_DEADLOCK FALSE
