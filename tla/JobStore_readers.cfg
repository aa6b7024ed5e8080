CONSTANTS
  j1 = j1  j2 = j2  j3 = j3  cap = cap  other = other
  Jobs = {j1, j2}
  Capabilities = {cap, other}
  CapabilityOf <- OneOfTwo
  Hooked = {j1}
  Blank = {j2}
  Cancelled = {j1}
  NoFilter = NoFilter
  NoTime = NoTime
  Ttl = 2
  TicksPerSecond = 2
  PageLimit = 1
  Polled = {j1}
  Wants = {"ready", "expired"}
  MaxTime = 2
SPECIFICATION Spec
INVARIANT StoresAgree
INVARIANT TotalIsFromTheCall
INVARIANT PageIsNewest
INVARIANT SlipsOnlyDuringTheCall
INVARIANT AnswersAreOfTheCall
CHECK_DEADLOCK FALSE
