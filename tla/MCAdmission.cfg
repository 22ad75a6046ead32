CONSTANTS
  Rates = {0, 1, 2}
  Capacities = {0, 1, 3}
  MaxTime = 3
  MaxGrants = 5
  Clients = {c1, c2}
  Rate = 1
  Capacity = 2
  Offsets = {0, 1}
  MaxFlushes = 1
  Threads = {t1, t2}
  NoThread = NoThread
  FailureThreshold = 2
  OpenTimeout = 1
  HalfOpenTimeout = 2
  MaxAge = 2
  MaxFailures = 5
  Callers = {a1, a2}
  CallTimeout = 1
  MaxLate = 2
  Chains <- SomeChains
  Token = 2
  BucketSize = 2
SPECIFICATION MCSpec
INVARIANTS RateBound RedisLimits PermitsAreCarried
PROPERTIES OpensAndProbesInOrder NoEarlyHalfOpen KeepsAdmitting ServedAgain
CHECK_DEADLOCK FALSE
