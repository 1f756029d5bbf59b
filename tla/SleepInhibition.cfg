SPECIFICATION InhibitSpec
CONSTANTS
  Client = {c1, c2}
  MaxCookies = 3
  MaxStray = 1
  EarlyCalls = FALSE
\* All applications may be gone.
CHECK_DEADLOCK FALSE
INVARIANTS
  CookiesKeepAwake
PROPERTIES
  NeverWedged
