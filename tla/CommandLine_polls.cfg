SPECIFICATION FairCommandSpec
CONSTANTS
  w1 = w1
  c1 = c1
  Waiters <- OneWaiter
  Cancellers <- OneCanceller
  Submitter = w1
  Retries = 3
  Stores = {"sqlite", "memory"}
  MaxRestarts = 1
INVARIANT OutcomeIsTrue
INVARIANT NoFalseTimeout
INVARIANT BlipsTolerated
INVARIANT CallersAgree
INVARIANT ExitIsTrue
PROPERTY WaitReturns
CHECK_DEADLOCK FALSE
