SPECIFICATION Spec
CONSTANTS
  q1 = q1
  m1 = m1
  Blank = Blank
  Req = {q1}
  Setup <- MCSetup
  Msg = {Blank, m1}
  CanFail = TRUE
INVARIANTS
  CommitAfterReview
  OneWinnerPerRuntime
  DraftFrozenOnAction
  LetThroughIsAttested
  PushAsDecided
CHECK_DEADLOCK FALSE
