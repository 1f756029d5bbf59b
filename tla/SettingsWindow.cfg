SPECIFICATION Spec
CONSTANTS
  Schema <- MCSchema
  Default <- MCDefault
  Files <- MCFiles
  MaxGestures = 4
  MaxKept = 0
  MaxEvents = 2
CHECK_DEADLOCK FALSE
INVARIANTS
  OnlyStaleCarets
  WholeUnlessSpoilt
  SavedIsShownAndRuns
PROPERTIES
  OthersKept
