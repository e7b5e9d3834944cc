SPECIFICATION FairSpec
CONSTANTS
  y1 = y1 w1 = w1 j1 = j1 None = None
  SessionId = {s1, s2}
  Delivery = {d1}
  Emitter = {e1, e2}
  Writer = {v1, v2}
  First = v1
PROPERTIES ClosedDrains SilentEnds SendersReturn CloseEnds
CHECK_DEADLOCK FALSE
