SPECIFICATION Spec
CONSTANTS
  c1 = c1
  Conns = {}
  MaxActs = 3
PROPERTY OwnTimerOnly
CHECK_DEADLOCK FALSE
