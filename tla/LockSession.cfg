\* Every account and configuration; three failures in a row are too many.
SPECIFICATION FairSpec
CONSTANTS
  MaxFailures = 3
  After = {"never", "suspend", "always"}
  Passwordless = TRUE
  BadConfig = TRUE
INVARIANTS
  LockSafety
PROPERTIES
  KeepsPromise
  StopEnds
  LockedAgain
