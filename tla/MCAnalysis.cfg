SPECIFICATION AnalysisSpec
CONSTANTS
  MaxDepth = 3
  Generated = {"pb.go"}
  TestFile = {}
  Roles <- MCRoles
  Logs <- MCLogs
  Codes <- MCCodes
  Diffs <- MCDiffs
  Sources <- MCSources
  LrcDirs <- MCLrcDirs
  Outages <- MCOutages
INVARIANTS
  CallersAtTheirDistance
  OutageHidesRisk
  HunkHasItsScore
  RenameIsSeen
  RiskKeepsRank
CHECK_DEADLOCK FALSE
