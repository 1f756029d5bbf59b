\* One ordinary client and one with _XEMBED_INFO that does not take its window
\* back while it is held back.
SPECIFICATION FairSpec
CONSTANTS
  Window = {w1, w2}
  None = None
  Embedders = {w2}
  GivesUp = FALSE
  MaxQueue = 3
\* Once both windows are destroyed, nothing is left to do.
CHECK_DEADLOCK FALSE
INVARIANTS
  ClosesAreNoticed
  NoneIsLost
PROPERTIES
  HeldBackOnlyForAWhile
