SPECIFICATION MCSpec
CONSTANTS
  m1 = m1 m2 = m2 m3 = m3 m4 = m4 c1 = c1 p1 = p1 p2 = p2 w1 = w1 w2 = w2 x1 = x1 x2 = x2
  tick1 = tick1 tick2 = tick2 onBind = onBind
  Msg = {m1, m2, m3, m4}
  Segments <- SegmentsOf4
  Kind <- KindOf4
  Client = {c1}
  System <- SystemOf4
  Process = {p1, p2}
  Worker = {w1, w2, x1, x2}
  Flusher = {tick1, tick2, onBind}
  Home <- HomeOf7
  Target <- TargetOf3
  AllClients = AllClients
  Nobody = Nobody
  Bucket <- BucketOf5
  Intermediate = {"ENROUTE"}
  Outcome <- OutcomeOf5
  FlushLimit = 1
  OldestFirst = TRUE
  Age <- AgeOf5
  MaxReceipts = 3
  MaxNacks = 1
  MaxFaults = 1
  MaxCrashes = 1
SYMMETRY WorkerSymmetry
INVARIANTS FinalStateIsTrue FinalIsTold AllFinalIsRecorded
CHECK_DEADLOCK FALSE
