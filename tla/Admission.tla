----------------------------- MODULE Admission -----------------------------
(***************************************************************************)
(* What lies between a caller and the connection: asyncCall() takes the    *)
(* request through the interceptor chain (src/interceptor), whose breaker  *)
(* and limiter may refuse it, and doCall() sends it and waits; the reply,  *)
(* or the timer of the call, is recorded with the breaker.                 *)
(*                                                                         *)
(* A call of the breaker or the limiter is one step; CircuitBreaker takes  *)
(* those of the breaker apart.  Callers interleave between interceptors.   *)
(***************************************************************************)
EXTENDS Integers, Sequences, FiniteSetsExt

CONSTANTS
  Callers,           \* threads that share the client, one call at a time each
  Chains,            \* the chains a program may set up: sequences of Interceptors
  FailureThreshold, OpenTimeout, HalfOpenTimeout,  \* of the breaker, in ticks
  Token,             \* one token, in a unit in which the rate is whole
  Capacity, Rate,    \* of the bucket, in that unit, and per tick
  CallTimeout,       \* timeout_ms, in ticks
  MaxLate            \* bound on the timers that outlive their call

Interceptors == {"breaker", "limiter", "trace", "log"}
OldestAge == IF OpenTimeout > HalfOpenTimeout THEN OpenTimeout ELSE HalfOpenTimeout

VARIABLES
  chain,     \* chain_.interceptors_
  breaker,   \* *circuitBreaker_
  tokens,    \* of *rateLimiter_, refilled as time passes
  at,        \* caller -> the interceptor it is at, or one of the places below
  traced,    \* caller -> its request has a trace-id
  age,       \* caller -> how long the timer of its call has run
  late,      \* age -> how many timers of finished calls have that age
  up,        \* the server is reached and healthy (external)
  result     \* caller -> what its last call returned

Idle == 0
Sending == Len(chain) + 1
Waiting == Len(chain) + 2

vars == <<chain, breaker, tokens, at, traced, age, late, up, result>>

Init ==
  /\ chain \in Chains
  /\ breaker = [state |-> "CLOSED", failures |-> 0, permits |-> 0, age |-> OldestAge]
  /\ tokens = Capacity
  /\ at = [c \in Callers |-> Idle]
  /\ traced = [c \in Callers |-> FALSE] /\ age = [c \in Callers |-> 0]
  /\ late = [a \in 0 .. CallTimeout |-> 0]
  /\ up = TRUE /\ result = [c \in Callers |-> "none"]

-----------------------------------------------------------------------------
(* The breaker *)

\* A probe that is too old is given up before the permit is asked for.
GiveUpProbe_Never(b) == b
GiveUpProbe(b) == IF b.age >= HalfOpenTimeout THEN [b EXCEPT !.permits = 0, !.age = 0] ELSE b

\* allowRequest(): what it returns, and the breaker afterwards.
allowRequest(b) ==
  CASE b.state = "CLOSED" -> [yes |-> TRUE, then |-> b]
    [] b.state = "OPEN" /\ b.age >= OpenTimeout ->
         [yes |-> TRUE, then |-> [b EXCEPT !.state = "HALF_OPEN", !.permits = 0]]
    [] b.state = "OPEN" /\ b.age < OpenTimeout -> [yes |-> FALSE, then |-> b]
    [] b.state = "HALF_OPEN" ->
         LET p == GiveUpProbe(b) IN [yes |-> p.permits = 0, then |-> [p EXCEPT !.permits = 1]]

recordSuccess(b) ==
  CASE b.state = "CLOSED" -> [b EXCEPT !.failures = 0]
    [] b.state = "HALF_OPEN" -> [b EXCEPT !.state = "CLOSED", !.failures = 0, !.permits = 0]
    [] b.state = "OPEN" -> b

Opened(b) == [b EXCEPT !.age = 0, !.state = "OPEN"]
recordFailure(b) ==
  CASE b.state = "CLOSED" ->
         LET counted == [b EXCEPT !.failures = @ + 1]
         IN IF counted.failures >= FailureThreshold THEN Opened(counted) ELSE counted
    [] b.state = "HALF_OPEN" -> Opened(b)
    [] b.state = "OPEN" -> b

\* The client tells its breaker, when setCircuitBreaker() gave it one.
HasBreaker == \E i \in DOMAIN chain : chain[i] = "breaker"
Record(b) == breaker' = IF HasBreaker THEN b ELSE breaker

-----------------------------------------------------------------------------
(* A call *)

Move(c, place) == at' = [at EXCEPT ![c] = place]
Finish(c, r) == Move(c, Idle) /\ result' = [result EXCEPT ![c] = r]
Timers == MapThenSumSet(LAMBDA a : late[a], DOMAIN late)

\* asyncCall() in one of its two forms: a new id, a copy of the request, and into the
\* chain.  Without one, only the form that returns a future adds a trace-id (doCall).
Begin(c) ==
  /\ at[c] = Idle /\ Timers < MaxLate
  /\ \E form \in {"future", "callback"} : traced' = [traced EXCEPT ![c] = chain = <<>> /\ form = "future"]
  /\ Move(c, 1) /\ result' = [result EXCEPT ![c] = "none"]
  /\ UNCHANGED <<chain, breaker, tokens, age, late, up>>

\* RpcSyncClient::call() without a connection throws.  With one it is the form that returns
\* a future, which is ready when asyncCall() returns: its wait for timeout_ms never ends in
\* "rpc call timeout".
SyncCallThrows(c) ==
  /\ at[c] = Idle /\ ~up /\ result' = [result EXCEPT ![c] = "thrown"]
  /\ UNCHANGED <<chain, breaker, tokens, at, traced, age, late, up>>

\* preHandle() of the interceptor the call is at; a refusal ends the call.
Blocked(c) == Finish(c, "blocked") /\ UNCHANGED traced
Passed(c) == Move(c, at[c] + 1) /\ UNCHANGED <<result, traced>>

PreBreaker(c) ==
  LET asked == allowRequest(breaker)
  IN /\ breaker' = asked.then /\ UNCHANGED tokens
     /\ (asked.yes /\ Passed(c)) \/ (~asked.yes /\ Blocked(c))

PreLimiter(c) ==
  /\ \/ tokens >= Token /\ tokens' = tokens - Token /\ Passed(c)
     \/ tokens < Token /\ UNCHANGED tokens /\ Blocked(c)
  /\ UNCHANGED breaker

PreTrace(c) ==
  /\ traced' = [traced EXCEPT ![c] = TRUE] /\ Move(c, at[c] + 1)
  /\ UNCHANGED <<breaker, tokens, result>>

PreHandle(c) ==
  /\ at[c] \in DOMAIN chain
  /\ \/ chain[at[c]] = "breaker" /\ PreBreaker(c)
     \/ chain[at[c]] = "limiter" /\ PreLimiter(c)
     \/ chain[at[c]] = "trace" /\ PreTrace(c)
     \/ chain[at[c]] = "log" /\ Passed(c) /\ UNCHANGED <<breaker, tokens>>
  /\ UNCHANGED <<chain, age, late, up>>

\* doCall(): the timer is armed and the request sent.  Without a connection handleTimeout()
\* is called at once, and the timer stays.
DoCall(c) ==
  /\ at[c] = Sending /\ age' = [age EXCEPT ![c] = 0]
  /\ \/ Move(c, Waiting) /\ UNCHANGED <<breaker, late, result>>
     \/ /\ ~up /\ Record(recordFailure(breaker)) /\ Finish(c, "error")
        /\ late' = [late EXCEPT ![0] = @ + 1]
  /\ UNCHANGED <<chain, tokens, traced, up>>

\* handleResponse(), by the status of the reply; then postHandle() in reverse, which
\* changes nothing.  The timer of the call is not cancelled.
Reply(c) ==
  /\ at[c] = Waiting
  /\ \/ up /\ Record(recordSuccess(breaker)) /\ Finish(c, "ok")
     \/ ~up /\ Record(recordFailure(breaker)) /\ Finish(c, "error")
  /\ late' = [late EXCEPT ![age[c]] = @ + 1]
  /\ UNCHANGED <<chain, tokens, traced, age, up>>

\* Fault: a timeout is not recorded.
Expire_Unrecorded(c) ==
  /\ at[c] = Waiting /\ age[c] = CallTimeout /\ Finish(c, "error")
  /\ UNCHANGED <<chain, breaker, tokens, traced, age, late, up>>

\* handleTimeout() of a call that waits, and of one that has ended.
Expire(c) ==
  /\ at[c] = Waiting /\ age[c] = CallTimeout
  /\ Record(recordFailure(breaker)) /\ Finish(c, "error")
  /\ UNCHANGED <<chain, tokens, traced, age, late, up>>

LateTimer ==
  /\ late[CallTimeout] > 0 /\ late' = [late EXCEPT ![CallTimeout] = @ - 1]
  /\ Record(recordFailure(breaker))
  /\ UNCHANGED <<chain, tokens, at, traced, age, up, result>>

-----------------------------------------------------------------------------
\* Time passes (external): ages saturate where the code stops telling them apart.
Tick ==
  /\ breaker' = [breaker EXCEPT !.age = IF @ < OldestAge THEN @ + 1 ELSE @]
  /\ tokens' = IF tokens + Rate > Capacity THEN Capacity ELSE tokens + Rate
  /\ age' = [c \in Callers |-> IF age[c] < CallTimeout THEN age[c] + 1 ELSE age[c]]
  /\ late' = [a \in DOMAIN late |-> (IF a > 0 THEN late[a - 1] ELSE 0)
                                    + (IF a = CallTimeout THEN late[a] ELSE 0)]
  /\ UNCHANGED <<chain, at, traced, up, result>>

\* The server or the connection to it fails, or recovers (external).
Turn == up' = ~up /\ UNCHANGED <<chain, breaker, tokens, at, traced, age, late, result>>

Proceed(c) == PreHandle(c) \/ DoCall(c)
Next == Tick \/ Turn \/ LateTimer
        \/ \E c \in Callers : Begin(c) \/ SyncCallThrows(c) \/ Proceed(c) \/ Reply(c) \/ Expire(c)
Spec == Init /\ [][Next]_vars

\* Time passes, threads run, timers fire, and a server that is up
\* does not miss the timeout of every call.
FairSpec ==
  /\ Spec /\ WF_vars(Tick) /\ WF_vars(LateTimer)
  /\ \A c \in Callers : WF_vars(Begin(c)) /\ WF_vars(Proceed(c)) /\ WF_vars(Expire(c))
                        /\ SF_vars(up /\ Reply(c))

-----------------------------------------------------------------------------
TypeOK ==
  /\ chain \in Chains
  /\ breaker \in [state : {"CLOSED", "OPEN", "HALF_OPEN"}, failures : 0 .. FailureThreshold,
                  permits : {0, 1}, age : 0 .. OldestAge]
  /\ tokens \in 0 .. Capacity /\ at \in [Callers -> 0 .. Waiting]
  /\ traced \in [Callers -> BOOLEAN] /\ age \in [Callers -> 0 .. CallTimeout]
  /\ late \in [0 .. CallTimeout -> Nat] /\ up \in BOOLEAN
  /\ result \in [Callers -> {"none", "ok", "error", "blocked", "thrown"}]

\* The place of the breaker, and whether what comes after it may refuse a call.
Gate == CHOOSE i \in DOMAIN chain : chain[i] = "breaker"
RefusesLater == \E i \in DOMAIN chain : i > Gate /\ chain[i] = "limiter"

\* When nothing behind the breaker refuses, the permit of HALF_OPEN is not lost: it is
\* taken only while a call that passed the breaker is on its way, and the end of any such
\* call, by reply, timeout or a missing connection, takes the breaker out of HALF_OPEN.
PermitsAreCarried ==
  HasBreaker /\ ~RefusesLater /\ breaker.state = "HALF_OPEN" /\ breaker.permits = 1 =>
    \E c \in Callers : at[c] > Gate

\* Calls are served again and again once the server stays up: neither a permit that
\* was taken by a call the limiter then refused, nor tokens spent on calls the breaker
\* then refused, nor failures recorded by timers of answered calls shut callers out
\* for good, in whatever order breaker and limiter were set.
ServedAgain == <>[]up => []<>(\E c \in Callers : result[c] = "ok")

\* README.md:25: a trace-id is injected into the metadata of a request automatically.
EveryRequestTraced == \A c \in Callers : at[c] = Waiting => traced[c]
=============================================================================
