SPECIFICATION Spec
CONSTANTS
  r1 = r1 r2 = r2 v1 = v1 v2 = v2 p1 = p1 Bad = Bad Boot = Boot None = None Unset = Unset
  Editor = {e1, e2} Name = {r1, r2} Val = {v1, v2} Provider = {p1}
  RawConfig <- Raw First <- FirstConfig Seed = None
  MaxEdits = 3 MaxFaults = 1 MaxCrashes = 1
  Request = {q1, q2, q3} Number = {1} Setting <- Limitings Window <- Windows
  SweepTicks = 1 MaxStale = 1 MaxTime = 5
  Sender = {1, 2, 3, 4, 5} Capacity = 2 MaxPeriods = 4
SYMMETRY Alike
INVARIANTS
  PartsAgree SavedIsKept ProvidersExact
  BestRoute
  WindowBound RateBound 
  FindExact VerdictExact
  SegmentsExact PackedIsKept
CHECK_DEADLOCK FALSE
