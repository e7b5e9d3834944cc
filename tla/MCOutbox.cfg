SPECIFICATION MCSpec
CONSTANTS
  i1 = i1 p1 = p1 p2 = p2 t1 = t1 t2 = t2 t3 = t3 w1 = w1 w2 = w2
  None = None
  Item = {i1}
  Proc = {p1, p2}
  Thread = {t1, t2, t3}
  Name = {w1, w2}
  ProcOf <- SharedProcOf
  NameOf <- SharedNameOf
  Segments <- OneSegment
  WantsReceipt = {i1}
  Driver = "postgres"
  ClaimLimit = 2
  MaxAttempts = 2
  RetryOnTimeout = FALSE
  ClaimOutlivesTimeout = TRUE
  MaxClaims = 3
  MaxFaults = 1
  MaxCrashes = 1
  MaxChanges = 1
INVARIANTS OneWorkerIdEnters
PROPERTIES FailClosed OutcomeFinal
CHECK_DEADLOCK FALSE
