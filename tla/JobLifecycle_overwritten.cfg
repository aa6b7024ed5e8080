CONSTANTS
  j1 = j1  j2 = j2  j3 = j3
  c1 = c1  c2 = c2  c3 = c3
  Jobs = {j1}
  Callers = {c1}
  About <- AllAboutOne
  NoCaller = NoCaller
  Unissued = {}
  Hooked = {j1}
  SlotCap = 0
  StoreYields = TRUE
  StoreFaults = 0
  EarlyCancel = FALSE
  Patience = {TRUE}
  JobTimeout = FALSE
  Habits = {}
SPECIFICATION Spec
PROPERTY TerminalIsFinal
CHECK_DEADLOCK FALSE
