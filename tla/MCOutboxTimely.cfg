SPECIFICATION MCFairSpec
CONSTANTS
  i1 = i1 p1 = p1 p2 = p2 t1 = t1 t2 = t2 t3 = t3 w1 = w1 w2 = w2
  None = None
  Item = {i1}
  Proc = {p1, p2}
  Thread = {t1, t2, t3}
  Name = {w1, w2}
  ProcOf <- SharedProcOf
  NameOf <- SharedNameOf
  Segments <- TwoSegments
  WantsReceipt = {i1}
  Driver = "postgres"
  ClaimLimit = 2
  MaxAttempts = 2
  RetryOnTimeout = FALSE
  ClaimOutlivesTimeout = FALSE
  MaxClaims = 7
  MaxFaults = 2
  MaxCrashes = 2
  MaxChanges = 1
INVARIANTS MessageTellsOutcome
PROPERTIES KeepsPromise EventuallyCommitted FailureHasReceipt
CHECK_DEADLOCK FALSE
