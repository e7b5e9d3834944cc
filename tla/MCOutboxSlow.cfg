SPECIFICATION MCSpec
CONSTANTS
  i1 = i1 p1 = p1 p2 = p2 t1 = t1 t2 = t2 t3 = t3 w1 = w1 w2 = w2
  None = None
  Item = {i1}
  Proc = {p1, p2}
  Thread = {t1, t2, t3}
  Name = {w1, w2}
  ProcOf <- SharedProcOf
  NameOf <- SharedNameOf
  Segments <- OneSegment
  WantsReceipt = {}
  Driver = "postgres"
  ClaimLimit = 2
  MaxAttempts = 2
  RetryOnTimeout = FALSE
  ClaimOutlivesTimeout = TRUE
  MaxClaims = 2
  MaxFaults = 0
  MaxCrashes = 0
  MaxChanges = 0
INVARIANTS AtMostOneEntry
CHECK_DEADLOCK FALSE
