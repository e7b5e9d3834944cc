SPECIFICATION MCFairSpec
CONSTANTS
  c1 = c1 c2 = c2 c3 = c3 c4 = c4 c5 = c5 k1 = k1 k2 = k2 p1 = p1 p2 = p2
  Call = {c1, c2, c3, c4, c5}
  Key = {k1, k2}
  NoKey = NoKey
  KeyOf <- KeyMixed
  SizeOf <- SizeMixed
  Limit = 2
  Process = {p1, p2}
  Home <- HomeTwo
  Driver = "postgres"
  None = None
  Refusable = {"tenant_tps", "no_route"}
  MaxReloads = 1
  MaxFaults = 1
  MaxCrashes = 1
  MaxExpiries = 1
INVARIANTS OneIdPerKey QuotaExact
PROPERTIES RetryGetsOriginal CallsAnswered
CHECK_DEADLOCK FALSE
