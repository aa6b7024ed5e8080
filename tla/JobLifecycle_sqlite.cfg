CONSTANTS
  j1 = j1  j2 = j2  j3 = j3
  c1 = c1  c2 = c2  c3 = c3
  Jobs = {j1, j2}
  Callers = {c1, c2, c3}
  About <- TwoAndOne
  NoCaller = NoCaller
  Unissued = {}
  Hooked = {j1, j2}
  SlotCap = 1
  StoreYields = TRUE
  StoreFaults = 2
  EarlyCancel = FALSE
  Patience = {TRUE, FALSE}
  JobTimeout = TRUE
  Habits = {"ignores"}
SPECIFICATION FairSpec
INVARIANT CancelSticks
INVARIANT NoJobLeftBehind
INVARIANT SlotsConserved
INVARIANT NoCancellingLeak
INVARIANT NoOrphanedWaiter
PROPERTY RefusalIsTrue
PROPERTY CancelledNeverStarts
PROPERTY CancelReturns
PROPERTY EveryJobSettles
CHECK_DEADLOCK FALSE
