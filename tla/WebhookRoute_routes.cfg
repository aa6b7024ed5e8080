CONSTANTS
  j1 = j1  j2 = j2  j3 = j3
  Jobs = {j1, j2}
  Hooked = {j1, j2}
  SlotCap = 1
  MaxAttempts = 2
  Guarded = TRUE
  ResultsExpire = FALSE
  OwnsClient = TRUE
  MaxStops = 1
  StoreFaults = 0
  MayAllow = {FALSE}
  Tolerance = 1
SPECIFICATION FairRouteSpec
INVARIANT ConnectsOnlyWhereAllowed
PROPERTY StaleOnlyIfQueued
PROPERTY EveryOutcomeRecorded
CHECK_DEADLOCK FALSE
