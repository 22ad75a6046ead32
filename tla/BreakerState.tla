--------------------------- MODULE BreakerState ----------------------------
(***************************************************************************)
(* The constants of CircuitBreaker, what is assumed of them, its variables *)
(* and the property that concerns its callers most.                        *)
(***************************************************************************)
EXTENDS Integers

CONSTANTS
  Threads,           \* the threads that share the breaker
  NoThread,          \* "nobody holds mutex_"
  FailureThreshold,  \* failureThreshold_
  OpenTimeout,       \* openTimeout_, in ticks
  HalfOpenTimeout,   \* halfOpenTimeout_ (5000 ms), in ticks
  MaxAge,            \* bound: ages saturate here
  MaxFailures        \* bound on failureCount_

ASSUME BreakerConstants ==
  /\ NoThread \notin Threads
  /\ FailureThreshold \in Nat \ {0}
  /\ OpenTimeout \in Nat /\ HalfOpenTimeout \in Nat
  /\ MaxAge \in Nat /\ MaxAge >= OpenTimeout /\ MaxAge >= HalfOpenTimeout
  /\ MaxFailures \in Nat /\ MaxFailures >= FailureThreshold

VARIABLES
  state,             \* state_
  failureCount,      \* failureCount_
  halfOpenRequests,  \* halfOpenRequests_
  sinceOpened,       \* steady_clock::now() - openedAt_, saturated
  mutex,             \* the holder of mutex_
  pc,                \* where each thread is inside the operation it runs
  ret,               \* what the thread's last allowRequest() returned
  \* history, read by no step of the code
  calm,              \* so far no two operations have overlapped
  streak,            \* recordFailure() calls since the last recordSuccess()
  sinceDecided,      \* age of each thread's decision to open the breaker
  sinceTripped,      \* age of the decision behind the last store of OPEN
  probes             \* requests admitted by HALF_OPEN and not yet given up

\* The breaker leaves OPEN for HALF_OPEN only when openTimeout_ has passed
\* since the failure that opened it: transitionToOpen() stamps openedAt_
\* before it stores OPEN, and mutex_ keeps the stamp from changing between
\* allowRequest()'s comparison and its store of HALF_OPEN.
NoEarlyHalfOpen ==
  [][state = "OPEN" /\ state' = "HALF_OPEN" => sinceTripped >= OpenTimeout]_state
=============================================================================
