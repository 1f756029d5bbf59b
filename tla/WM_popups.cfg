\* One monitor, two workspaces; every popup, and a client that takes the
\* input focus on its own.
SPECIFICATION LiveSpec
CONSTANTS
  Window = {w1, w2}
  None = None
  Monitor = {m1}
  NumWorkspaces = 2
  Threshold = 0
  Fallback = "floating"
  Popups = {"launcher", "notepad", "powermenu"}
  Thieves = {w1}
  FullscreenClients = {}
  ScratchFullscreen = FALSE
PROPERTIES
  PopupsTakeTurns
  InputReturns
