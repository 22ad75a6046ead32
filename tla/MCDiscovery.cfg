CONSTANTS
  Services = {s1, s2}
  Nodes = {a, b}
  Threads = {t1, t2}
  TimeoutSeconds = 1
  MaxTime = 2
  Servers = {n1, n2, n3}
  Keys = {k}
  VirtualNodes = 2
  Slots = 5
  Endpoints = {e1, e2}
  EndpointVirtualNodes = 1
  EndpointSlots = 2
  Callers = {c1, c2}
  MaxPicks = 3
  MaxEndpoints = 2
  Registries = {r1, r2}
  MaxChanges = 3
  MaxFailures = 1
SPECIFICATION MCSpec
INVARIANTS SerialListenerIsCurrent TurnsReachEveryEndpoint RingIsEndpoints QuietListenerIsCurrent
PROPERTIES RingIsConsistent ListenersCatchUp
CHECK_DEADLOCK FALSE
