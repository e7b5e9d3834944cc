SPECIFICATION MCSpec
CONSTANTS
  c1 = c1 c2 = c2 c3 = c3 c4 = c4 c5 = c5 k1 = k1 k2 = k2 p1 = p1 p2 = p2
  Call = {c1, c2, c3}
  None = None
  MaxFaults = 2
  MaxCrashes = 2
  Process = {p1, p2}
  Driver = "postgres"
  Span = 2
  MaxId = 7
  MaxSeq = 10
  MaxFailures = 2
  MaxResets = 1
  NoKey = NoKey
  Emitter = {e1, e2, e3}
  v1 = v1 v2 = v2
  Writer = {v1, v2}
  First = v1
  Buffer = 1
  MaxRecords = 2
  OnFull <- BlockThenDrop
  MaxCdrFaults = 1
  Nil = Nil
INVARIANTS KilledStoreRecovers
CHECK_DEADLOCK FALSE
