CONSTANTS
  j1 = j1  j2 = j2  j3 = j3
  c1 = c1  c2 = c2  c3 = c3
  Jobs = {j1, j2}
  Callers = {c1}
  About <- AllAboutOne
  NoCaller = NoCaller
  Unissued = {}
  Hooked = {j1, j2}
  SlotCap = 1
  StoreYields = FALSE
  StoreFaults = 0
  EarlyCancel = TRUE
  Patience = {TRUE}
  JobTimeout = FALSE
  Habits = {}
SPECIFICATION Spec
INVARIANT NoJobLeftBehind
CHECK_DEADLOCK FALSE
