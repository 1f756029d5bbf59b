CONSTANTS
    None = None
    Proc = {p, q}
    AP = {home}
    Secured = {home}
    Matching = {}
    Texts = {"right", "wrong"}
    Shown = p
    MaxUnread = 1
SPECIFICATION Spec
CHECK_DEADLOCK FALSE
INVARIANTS
  MirrorIsCurrent
  OnlyHeldFieldDangles
  OneWindow
PROPERTIES
  PageCatchesUp
