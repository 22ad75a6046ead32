-------------------------- MODULE RedisTokenBucket --------------------------
(***************************************************************************)
(* Processes that share a token bucket kept in Redis, and fall back to a   *)
(* bucket of their own when Redis does not answer.  allow() reads its own  *)
(* steady_clock, then Redis runs the Lua script atomically some time later.*)
(* The epoch of a steady_clock is the boot of its host, so the clocks of   *)
(* two hosts differ by a constant.  Rates are in tokens per tick.          *)
(***************************************************************************)
EXTENDS Integers

CONSTANTS Clients, Rate, Capacity,
          Offsets,    \* what the clocks of the hosts may differ by
          MaxTime,    \* bound: ticks of the clock
          MaxGrants,  \* bound: requests let through
          MaxFlushes  \* bound: times Redis loses its script cache

VARIABLES
  rTokens, rTime,       \* the keys :tokens and :ts in Redis (-1: not set)
  loaded, flushes,      \* whether Redis has the script (external)
  fallback,             \* fallback_
  lTokens, lRefill,     \* localTokens_, localLastRefill_
  pc, stamp,            \* inside allow(): "idle" or "sent", and nowMs
  offset, now,          \* the clocks (external)
  shared, local,        \* requests let through by Redis, and by each fallback
  late                  \* history: a script ran with a time older than the last one's

redisVars == <<rTokens, rTime>>
localVars == <<lTokens, lRefill>>
vars == <<redisVars, loaded, flushes, fallback, localVars, pc, stamp, offset, now, shared, local, late>>

(* The constructor, whose connectRedis may fail; the keys are set by the first script. *)
Init == /\ rTokens = -1 /\ rTime = -1 /\ loaded = TRUE /\ flushes = 0
        /\ fallback \in [Clients -> BOOLEAN]
        /\ lTokens = [c \in Clients |-> Capacity] /\ lRefill = [c \in Clients |-> 0]
        /\ pc = [c \in Clients |-> "idle"] /\ stamp = [c \in Clients |-> 0]
        /\ offset \in [Clients -> Offsets] /\ now = 0
        /\ shared = 0 /\ local = [c \in Clients |-> 0] /\ late = FALSE

Least(a, b) == IF a < b THEN a ELSE b
Most(a, b)  == IF a > b THEN a ELSE b
-----------------------------------------------------------------------------
(* What the script makes of the keys at time t. *)
NewTokens(t) ==
  LET last == IF rTokens = -1 THEN Capacity ELSE rTokens
      then == IF rTime = -1 THEN t ELSE rTime
  IN Least(Capacity, last + Most(0, t - then) * Rate)
Left(t) == IF NewTokens(t) >= 1 THEN NewTokens(t) - 1 ELSE NewTokens(t)

(* A script that only sets the time once. *)
Script_NoStamp(t) == /\ rTokens' = Left(t) /\ rTime' = IF rTime = -1 THEN t ELSE rTime
                     /\ late' = (late \/ t < rTime)

(* The Lua script. *)
Script(t) == rTokens' = Left(t) /\ rTime' = t /\ late' = (late \/ t < rTime)

(* The fallback: localRefill and the local test. *)
AllowLocally(c) ==
  LET new == Least(Capacity, lTokens[c] + Rate * (now - lRefill[c]))
  IN /\ lRefill' = [lRefill EXCEPT ![c] = now]
     /\ \/ /\ new >= 1 /\ lTokens' = [lTokens EXCEPT ![c] = new - 1]
           /\ local' = [local EXCEPT ![c] = @ + 1]
        \/ new < 1 /\ lTokens' = [lTokens EXCEPT ![c] = new] /\ UNCHANGED local

Budget == shared < MaxGrants /\ \A c \in Clients : local[c] < MaxGrants

(* allow() of a process that has fallen back. *)
AllowFallback(c) ==
  /\ pc[c] = "idle" /\ fallback[c] /\ Budget
  /\ AllowLocally(c)
  /\ UNCHANGED <<redisVars, loaded, flushes, fallback, pc, stamp, offset, now, shared, late>>

(* allow(): the clock is read and EVALSHA sent. *)
AllowSend(c) ==
  /\ pc[c] = "idle" /\ ~fallback[c] /\ Budget
  /\ pc' = [pc EXCEPT ![c] = "sent"]
  /\ stamp' = [stamp EXCEPT ![c] = now + offset[c]]
  /\ UNCHANGED <<redisVars, loaded, flushes, fallback, localVars, offset, now, shared, local, late>>

(* Redis runs the script and answers. *)
AllowReply(c) ==
  /\ pc[c] = "sent" /\ loaded
  /\ Script(stamp[c]) /\ pc' = [pc EXCEPT ![c] = "idle"]
  /\ shared' = IF NewTokens(stamp[c]) >= 1 THEN shared + 1 ELSE shared
  /\ UNCHANGED <<loaded, flushes, fallback, localVars, stamp, offset, now, local>>

(* NOSCRIPT: SCRIPT LOAD, then allow() once more, with a new time. *)
AllowNoScript(c) ==
  /\ pc[c] = "sent" /\ ~loaded
  /\ loaded' = TRUE /\ stamp' = [stamp EXCEPT ![c] = now + offset[c]]
  /\ UNCHANGED <<redisVars, flushes, fallback, localVars, pc, offset, now, shared, local, late>>

(* No answer, whether or not the script has run: fallback_ for good, and the
   call is decided locally. *)
AllowLost(c) ==
  /\ pc[c] = "sent"
  /\ fallback' = [fallback EXCEPT ![c] = TRUE] /\ pc' = [pc EXCEPT ![c] = "idle"]
  /\ AllowLocally(c)
  /\ UNCHANGED <<redisVars, late>> \/ (loaded /\ Script(stamp[c]))
  /\ UNCHANGED <<loaded, flushes, stamp, offset, now, shared>>

(* The clock and the script cache of Redis (external). *)
Tick == now < MaxTime /\ now' = now + 1
        /\ UNCHANGED <<redisVars, loaded, flushes, fallback, localVars, pc, stamp, offset, shared, local, late>>
Flush == loaded /\ flushes < MaxFlushes /\ loaded' = FALSE /\ flushes' = flushes + 1
         /\ UNCHANGED <<redisVars, fallback, localVars, pc, stamp, offset, now, shared, local, late>>

Next == \/ Tick \/ Flush
        \/ \E c \in Clients : \/ AllowFallback(c) \/ AllowSend(c) \/ AllowReply(c)
                              \/ AllowNoScript(c) \/ AllowLost(c)

Spec == Init /\ [][Next]_vars

-----------------------------------------------------------------------------
(* The tokens, in Redis and locally, stay between zero and the capacity. *)
TypeOK == /\ rTokens \in -1..Capacity /\ rTime \in {-1} \cup {t + o : t \in 0..MaxTime, o \in Offsets} /\ loaded \in BOOLEAN
          /\ fallback \in [Clients -> BOOLEAN] /\ lTokens \in [Clients -> 0..Capacity]
          /\ lRefill \in [Clients -> 0..MaxTime] /\ pc \in [Clients -> {"idle", "sent"}]
          /\ stamp \in [Clients -> Nat] /\ now \in 0..MaxTime
          /\ shared \in Nat /\ local \in [Clients -> Nat]

(* docs and tests: together the processes get at most a full bucket and what
   the rate adds from Redis. *)
GlobalLimit == shared <= Capacity + Rate * now

(* Across lost answers, fallbacks and reloads of the script, that limit is exceeded by no
   more than what the rate adds while one clock catches up with another, as long as the
   scripts run in the order of the times they carry. *)
SharedBound ==
  ~late => \E a, b \in Clients : shared <= Capacity + Rate * (now + offset[a] - offset[b])

(* The price of a fallback: a process that lost Redis is limited by a bucket of
   its own, full when the process started. *)
LocalBound == \A c \in Clients : local[c] <= Capacity + Rate * now

=============================================================================
