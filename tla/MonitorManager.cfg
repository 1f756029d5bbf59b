\* Two outputs that come, go and change places.
SPECIFICATION Spec
CONSTANTS
  left = left
  right = right
  third = third
  OutputOrder <- Two
  Fallback = default
  Window = {w}
  None = None
  Places = 2
  NumWorkspaces = 3
  Rule <- Rules
  ReplugWhileOff = FALSE
  MaxRestarts = 1
INVARIANTS
  MonitorSafety
PROPERTIES
  SurvivorsKeepTheirWorkspace
  RestartRestores
