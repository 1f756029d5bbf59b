CONSTANTS
    Own = own
    Maps = maps
    Stale = stale
    App <- MCApp
    About <- MCAbout
    File = {f1}
    Query <- MCQuery
    Answers <- MCAnswers
    Nested <- MCNested
    MaxChanges = 2
    Rows = 1
SPECIFICATION LauncherSpec
INVARIANTS
  ListIsTrue
PROPERTIES
  IndexCatchesUp
