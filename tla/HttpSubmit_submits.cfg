CONSTANTS
  k1 = k1  k2 = k2  a = a  b = b
  s1 = s1  s2 = s2  s3 = s3  s4 = s4
  Calls = {s1, s2, s3, s4}
  Keys = {k1, k2}
  KeyOf <- ThreeAndOne
  RequestOf <- OneDiffers
  NoCall = NoCall
  NoPrint = NoPrint
  Legacy = {s1}
  MaxKeys = 1
  StoreFaults = 1
  MaxCrashes = 1
  Remote = {s3}
  Requests <- UpToOne
  MaxBody = 1
  AllowPrivate = FALSE
SPECIFICATION FairHttpSpec
INVARIANT OneJobPerKey
INVARIANT AnswersMatch
INVARIANT LocksCollected
INVARIANT CountsEachJob
INVARIANT RefusedLeavesNoTrace
INVARIANT AnswersAreHonest
PROPERTY SubmitReturns
CHECK_DEADLOCK FALSE
