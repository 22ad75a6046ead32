CONSTANTS
  Users = {u1, u2, u3}
  NoUser = NoUser
  N = 2
  MaxBorrows = 1
  MaxLosses = 1
  Borrowers = {k1, k2}
  NoClient = NoClient
  MaxCalls = 1
  Heartbeats = {k1}
SPECIFICATION MCSpec
INVARIANTS AcquireIsSound ClaimGuardsCallbacks OnceOrOwed
PROPERTY PooledCallsComplete
CHECK_DEADLOCK FALSE
