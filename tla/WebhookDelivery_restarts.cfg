CONSTANTS
  j1 = j1  j2 = j2  j3 = j3
  Jobs = {j1, j2}
  Hooked = {j1, j2}
  SlotCap = 1
  MaxAttempts = 2
  Guarded = TRUE
  ResultsExpire = TRUE
  OwnsClient = TRUE
  MaxStops = 2
  StoreFaults = 1
SYMMETRY JobSymmetry
SPECIFICATION Spec
INVARIANT DeliveredIsTrue
INVARIANT DuplicatesExplained
INVARIANT OnlyExpiredForgotten
INVARIANT SlotsHeldByRequests
PROPERTY OutcomeIsFinal
CHECK_DEADLOCK FALSE
