\* Calm gestures: the dragged window does not end, and no command arrives,
\* while a button is held; other windows come and go, and every one misbehaves
\* and goes fullscreen, the dragged one too.  One request that fights its tile
\* is one too many: WM_desktop counts up to it.
SPECIFICATION DragSpec
CONSTANTS
  Window = {w1, w2}
  None = None
  Monitor = {m1, m2}
  NumWorkspaces = 3
  Threshold = 1
  Fallback = "new_workspace"
  Popups = {}
  Thieves = {}
  FullscreenClients = {w1, w2}
  ScratchFullscreen = FALSE
  Disturb = FALSE
  TwoButtons = FALSE
  MidAnimation = FALSE
SYMMETRY Symmetry
INVARIANTS
  DragEndsClean
PROPERTIES
  DroppedWhereItIs
