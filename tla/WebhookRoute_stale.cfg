CONSTANTS
  j1 = j1  j2 = j2  j3 = j3
  Jobs = {j1, j2, j3}
  Hooked = {j1, j2, j3}
  SlotCap = 1
  MaxAttempts = 1
  Guarded = TRUE
  ResultsExpire = FALSE
  OwnsClient = TRUE
  MaxStops = 0
  StoreFaults = 0
  MayAllow = {FALSE}
  Tolerance = 3
SPECIFICATION RouteSpec
PROPERTY FreshWhenSent
CHECK_DEADLOCK FALSE
