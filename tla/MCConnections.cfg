CONSTANTS
  Threads = {t1}
  MaxSends = 2
  MaxRequests = 1
  Shutdowns = TRUE
  Idle = TRUE
  Ops = {"stop", "ensure", "disconnect", "permanent"}
  MaxOps = 3
  MaxOutages = 2
  Fatal = TRUE
  IoLoops = {l1, l2}
  Base = base
  MaxConns = 2
  Peers = {p1, p2, p3}
  Descriptors = 1
  Backlog = 2
SPECIFICATION MCSpec
INVARIANTS OutputIsKept OneConnection KeepsTrying ConnectionsAreKept
PROPERTIES NothingAfterFin ConnectionsComeDown Reconnects ConnectionsComeAndGo
CHECK_DEADLOCK FALSE
