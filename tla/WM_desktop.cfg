\* Two clients, two monitors, three workspaces; no popup is opened.
SPECIFICATION Spec
CONSTANTS
  Window = {w1, w2}
  None = None
  Monitor = {m1, m2}
  NumWorkspaces = 3
  Threshold = 2
  Fallback = "floating"
  Popups = {}
  Thieves = {}
  FullscreenClients = {w1}
  ScratchFullscreen = FALSE
INVARIANTS
  TypeOK
  WindowsAccountedFor
  MonitorsNeverShare
  MappedMatchesScreen
PROPERTIES
  FocusStaysRight
  StrikesRestart
  NobodyIsDisturbed
