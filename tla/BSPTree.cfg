\* Four windows, a wide and a tall monitor.
SPECIFICATION Spec
CONSTANTS
  Window = {w1, w2, w3, w4}
  None = None
  Areas <- Monitors
  InnerGap = 1
  FloorWidth = 3
  FloorHeight = 2
  Unit = 4
  MaxVotes = 4
  VotedWorkspaces = {1, 2, 3}
SYMMETRY Symmetry
INVARIANTS
  BSPTypeOK
  TilesAreNeighbours
  ReplayRebuilds
  HabitsAreEarned
PROPERTIES
  OthersKeepTheirRoom
