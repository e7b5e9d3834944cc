SPECIFICATION FairSpec
CONSTANTS
  e1 = e1 m1 = m1 m2 = m2 c1 = c1 c2 = c2 p1 = p1 x1 = x1 tick = tick onBind = onBind AllClients = AllClients None = None
PROPERTIES CallsReturn StallHeals ReadyIsFlushed
CHECK_DEADLOCK FALSE
