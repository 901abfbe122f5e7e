SPECIFICATION Spec
CONSTANTS
  p1 = p1
  q1 = q1
  e1 = e1
  Page = {p1}
  Req = {q1}
  Edit = {e1}
  Cap = 2
  Setup <- MCSetup
  CanFail = TRUE
INVARIANTS
  BlockingCommitWasReviewed
  UploadShown
  AttestedAsDone
  PromptShowsDraft
PROPERTIES
  UploadEnds
  EditorKeepsOthers
CHECK_DEADLOCK FALSE
