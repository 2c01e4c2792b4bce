SPECIFICATION FairSpec
CONSTANTS
  Caller = {c1, c2}
  Token = {k1, k2}
  None = None
  Verdict = {"allow"}
  LeaseTtl = 2
  MaxStall = 1
  MaxCrashes = 1
INVARIANTS StartsUnderLease
PROPERTIES ConsumedIsExecuted CompletedIsResumed
