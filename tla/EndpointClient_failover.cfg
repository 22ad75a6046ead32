CONSTANTS
  Servers = {n1, n2}
  Keys = {k}
  Callers = {c1, c2}
  VirtualNodes = 1
  Slots = 2
  MaxPicks = 3
  MaxEndpoints = 2
SPECIFICATION Spec
PROPERTY FailsOver
CHECK_DEADLOCK FALSE
