SPECIFICATION Spec
CONSTANTS
  NoPdu = NoPdu Nobody = Nobody Nothing = Nothing
  Call = {c1, c2} WindowSize = 1 OutCap = 1 MaxAttempts = 2
  MaxDrops = 1 MaxStalls = 1 MaxDelivers = 1 MayClose = TRUE Enquires = TRUE
  SessionId = {s1, s2, s3} SystemID = {y1} Worker = {w1}
  MaxSessions = 2 MaxSessionsPerSystemID = 2 SessionWindowSize = 2 MaxSubmits = 3
  Delivery = {d1, d2} Job = {j1} SessionOutCap = 1 MaxRequests = 2
SYMMETRY Alike
INVARIANTS SlotsExact UnsentStaysUnsent JobsExact AckIsReal
CHECK_DEADLOCK FALSE
