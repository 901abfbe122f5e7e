SPECIFICATION CoverageSpec
CONSTANTS
  app = app
  spaced = spaced
  word = word
  main = main
  topic = topic
  File = {app, spaced}
  Branch = {main, topic}
  Main = main
  FirstTree <- MCTree
  Word <- MCWord
  FirstLine = 3
  Ends = {"reviewed"}
  Decisions = {"vouched"}
  Ignorable = {app}
  Context = 1
  InSubdirectory = TRUE
  Cap <- MCBelow
INVARIANTS
  ChangedIsNotCovered
