CONSTANTS
  j1 = j1  j2 = j2  j3 = j3
  Jobs = {j1}
  Hooked = {j1}
  SlotCap = 1
  MaxAttempts = 1
  Guarded = TRUE
  ResultsExpire = TRUE
  OwnsClient = TRUE
  MaxStops = 1
  StoreFaults = 0
SYMMETRY JobSymmetry
SPECIFICATION Spec
INVARIANT NobodyForgotten
CHECK_DEADLOCK FALSE
