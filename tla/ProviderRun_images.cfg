CONSTANTS
  j1 = j1  j2 = j2  j3 = j3  j4 = j4
  c1 = c1  c2 = c2  c3 = c3  c4 = c4
  Jobs = {j1, j2, j3, j4}
  Callers = {c1, c2, c3, c4}
  About <- Calls
  NoCaller = NoCaller
  Unissued = {j4}
  Hooked = {j1}
  SlotCap = 1
  StoreYields = FALSE
  StoreFaults = 0
  EarlyCancel = FALSE
  Patience = {TRUE, FALSE}
  JobTimeout = TRUE
  Habits = {"ignores"}
  Images = {j1}
  Media = {j2}
  OwnClient = TRUE
  MaxDownload = 1
SPECIFICATION RunSpec
SYMMETRY Rivals
INVARIANT TypeOK
INVARIANT ImagesAreWhole
INVARIANT NothingLeaks
INVARIANT CountsMatchRecords
PROPERTY KeepsContract
CHECK_DEADLOCK FALSE
