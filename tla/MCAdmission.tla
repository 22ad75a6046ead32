---------------------------- MODULE MCAdmission -----------------------------
(***************************************************************************)
(* What may refuse a call: the two rate limiters and the breaker, each by  *)
(* itself with every interleaving of its own steps, and the interceptor    *)
(* chain in which calls meet them, where a call of a limiter or breaker is *)
(* one step.  A behaviour exercises one of the four.                       *)
(***************************************************************************)
EXTENDS TokenBucket, BreakerState, Sequences

CONSTANTS Clients, Rate, Capacity, Offsets, MaxFlushes,  \* of the bucket in Redis
          Callers, CallTimeout, MaxLate,                 \* of the calls
          Chains, Token, BucketSize                      \* of their interceptors

VARIABLES
  subject,  \* what is exercised
  rTokens, rTime, loaded, flushes, fallback, lTokens, lRefill, rPc, stamp,
  offset, rNow, shared, local, tardy,
  chain, breaker, cTokens, at, traced, age, late, up, result

redisVars == <<rTokens, rTime, loaded, flushes, fallback, lTokens, lRefill, rPc, stamp,
               offset, rNow, shared, local, tardy>>
breakerVars == <<state, failureCount, halfOpenRequests, sinceOpened, mutex, pc, ret,
                 calm, streak, sinceDecided, sinceTripped, probes>>
callVars == <<chain, breaker, cTokens, at, traced, age, late, up, result>>

Redis == INSTANCE RedisTokenBucket WITH now <- rNow, pc <- rPc, late <- tardy
Breaker == INSTANCE CircuitBreaker
Calls == INSTANCE Admission WITH tokens <- cTokens, Capacity <- BucketSize

\* A program gives its client at most one breaker; a steady_clock counts from
\* the boot of its host.
ASSUME AdmissionConstants ==
  /\ Clients # {} /\ Rate \in Nat /\ Capacity \in Nat /\ Offsets \subseteq Nat
  /\ \A ch \in Chains : /\ ch \in Seq(Calls!Interceptors)
                        /\ \A i, j \in DOMAIN ch : ch[i] = "breaker" /\ ch[j] = "breaker" => i = j

\* For the runs: no interceptor, and the two orders of breaker and limiter.
SomeChains == {<<>>, <<"breaker", "limiter">>, <<"limiter", "breaker", "trace", "log">>}

MCInit ==
  /\ subject \in {"local", "redis", "breaker", "calls"}
  /\ Init /\ Redis!Init /\ Breaker!Init /\ Calls!Init
  /\ subject # "local" => /\ rate = CHOOSE r \in Rates : TRUE
                          /\ capacity = CHOOSE c \in Capacities : TRUE
  /\ subject # "redis" => /\ fallback = [c \in Clients |-> FALSE]
                          /\ offset = [c \in Clients |-> 0]
  /\ subject # "calls" => chain = <<>>

MCNext ==
  \/ subject = "local" /\ Next /\ UNCHANGED <<subject, redisVars, breakerVars, callVars>>
  \/ subject = "redis" /\ Redis!Next /\ UNCHANGED <<subject, vars, breakerVars, callVars>>
  \/ subject = "breaker" /\ Breaker!Next /\ UNCHANGED <<subject, vars, redisVars, callVars>>
  \/ subject = "calls" /\ Calls!Next /\ UNCHANGED <<subject, vars, redisVars, breakerVars>>

mcVars == <<subject, vars, redisVars, breakerVars, callVars>>

\* The fairness of CircuitBreaker and of Admission.
MCFairness ==
  /\ WF_breakerVars(subject = "breaker" /\ Breaker!Tick)
  /\ \A t \in Threads : /\ WF_breakerVars(subject = "breaker" /\ Breaker!Continue(t))
                        /\ SF_breakerVars(subject = "breaker" /\ Breaker!AllowLoad(t))
  /\ WF_callVars(subject = "calls" /\ Calls!Tick)
  /\ WF_callVars(subject = "calls" /\ Calls!LateTimer)
  /\ \A c \in Callers : /\ WF_callVars(subject = "calls" /\ Calls!Begin(c))
                        /\ WF_callVars(subject = "calls" /\ Calls!Proceed(c))
                        /\ WF_callVars(subject = "calls" /\ Calls!Expire(c))
                        /\ SF_callVars(subject = "calls" /\ up /\ Calls!Reply(c))

MCSpec == MCInit /\ [][MCNext]_mcVars /\ MCFairness

-----------------------------------------------------------------------------
\* Together the processes that share a bucket in Redis get at most a full
\* bucket and what the rate adds, up to the difference of their clocks, across
\* lost answers, fallbacks and reloads of the script, as long as scripts run in
\* the order of the times they carry;
\* and a process that has fallen back gets no more than that by itself.
RedisLimits == Redis!SharedBound /\ Redis!LocalBound

\* While operations do not overlap, only consecutive failures open the breaker,
\* and HALF_OPEN has no more than two probes out: see ConsecutiveFailures and
\* ProbesBounded of CircuitBreaker.
OpensAndProbesInOrder == Breaker!ConsecutiveFailures /\ []Breaker!ProbesBounded

\* The permit of HALF_OPEN along the chain: see Admission!PermitsAreCarried.
PermitsAreCarried == Calls!PermitsAreCarried

\* The breaker never refuses for ever: see CircuitBreaker!KeepsAdmitting.
KeepsAdmitting == subject = "breaker" => Breaker!KeepsAdmitting

\* Calls through the chain are served again: see Admission!ServedAgain.
ServedAgain == subject = "calls" => Calls!ServedAgain
=============================================================================
