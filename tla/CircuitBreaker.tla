--------------------------- MODULE CircuitBreaker ---------------------------
(***************************************************************************)
(* rpc::CircuitBreaker (src/circuit_breaker/circuit_breaker.{h,cc}).       *)
(*                                                                         *)
(* Any number of threads call allowRequest(), recordSuccess() and          *)
(* recordFailure() on one breaker.  A step of the model is one access to   *)
(* an atomic member, or one critical section of mutex_ that makes at most  *)
(* one such access.  Time is kept as the age of the openedAt_ stamp,       *)
(* saturated at MaxAge: the code only ever compares it with two timeouts.  *)
(* The accesses are interleaved; the code makes them memory_order_relaxed, *)
(* and reorderings that this permits are not modelled.                     *)
(***************************************************************************)
EXTENDS BreakerState, FiniteSets

code == <<state, failureCount, halfOpenRequests, sinceOpened, mutex, pc, ret>>
vars == <<code, calm, streak, sinceDecided, sinceTripped, probes>>

State == {"CLOSED", "OPEN", "HALF_OPEN"}
Age == 0 .. MaxAge
Older(a) == IF a < MaxAge THEN a + 1 ELSE a

Locked == {"lockedCas", "halfOpen1", "halfOpen2"}
PC == {"idle", "allowOpen", "allowHalf", "cas", "resetCount", "close1",
       "close2", "close3", "addFailure", "open1", "open2"} \cup Locked
Ret == {"none", "running", "yes", "no"}

TypeOK ==
  /\ state \in State
  /\ failureCount \in 0 .. MaxFailures
  /\ halfOpenRequests \in {0, 1}
  /\ sinceOpened \in Age
  /\ mutex \in Threads \cup {NoThread}
  /\ pc \in [Threads -> PC]
  /\ ret \in [Threads -> Ret]
  /\ calm \in BOOLEAN
  /\ streak \in 0 .. FailureThreshold
  /\ sinceDecided \in [Threads -> Age]
  /\ sinceTripped \in Age
  /\ probes \in Nat

\* The constructor; openedAt_ is the clock's epoch, long ago.
Init ==
  /\ state = "CLOSED" /\ failureCount = 0 /\ halfOpenRequests = 0
  /\ sinceOpened = MaxAge
  /\ mutex = NoThread
  /\ pc = [t \in Threads |-> "idle"]
  /\ ret = [t \in Threads |-> "none"]
  /\ calm = TRUE /\ streak = 0
  /\ sinceDecided = [t \in Threads |-> MaxAge]
  /\ sinceTripped = MaxAge
  /\ probes = 0

Observe(t) == calm' = (calm /\ \A u \in Threads \ {t} : pc[u] = "idle")
Goto(t, l) == pc' = [pc EXCEPT ![t] = l] /\ Observe(t)
Return(t, r) == Goto(t, "idle") /\ ret' = [ret EXCEPT ![t] = r]
decisions == <<sinceDecided, sinceTripped>>
shared == <<state, failureCount, halfOpenRequests, sinceOpened>>

-----------------------------------------------------------------------------
(* allowRequest() *)

\* The first, unlocked load of state_.
AllowLoad(t) ==
  /\ pc[t] = "idle"
  /\ \/ state = "CLOSED" /\ Return(t, "yes")
     \/ state = "OPEN" /\ Goto(t, "allowOpen") /\ ret' = [ret EXCEPT ![t] = "running"]
     \/ state = "HALF_OPEN" /\ Goto(t, "allowHalf") /\ ret' = [ret EXCEPT ![t] = "running"]
  /\ UNCHANGED <<shared, mutex, streak, decisions, probes>>

\* OPEN was read: take mutex_, load state_ again, compare the age.
AllowOpen(t) ==
  /\ pc[t] = "allowOpen" /\ mutex = NoThread
  /\ \/ state = "CLOSED" /\ Return(t, "yes") /\ UNCHANGED mutex
     \/ state = "HALF_OPEN" /\ Goto(t, "lockedCas") /\ mutex' = t /\ UNCHANGED ret
     \/ /\ state = "OPEN" /\ sinceOpened >= OpenTimeout
        /\ Goto(t, "halfOpen1") /\ mutex' = t /\ UNCHANGED ret
     \/ /\ state = "OPEN" /\ sinceOpened < OpenTimeout
        /\ Return(t, "no") /\ UNCHANGED mutex
  /\ UNCHANGED <<shared, streak, decisions, probes>>

\* Fault: the permit is stored without being tested.
TakePermit_NoTest(t) ==
  /\ halfOpenRequests' = 1 /\ Return(t, "yes")
  /\ probes' = IF state = "HALF_OPEN" THEN probes + 1 ELSE probes

\* compare_exchange_strong(0, 1) on halfOpenRequests_: the probe permit.
TakePermit(t) ==
  \/ /\ halfOpenRequests = 0
     /\ halfOpenRequests' = 1 /\ Return(t, "yes")
     /\ probes' = IF state = "HALF_OPEN" THEN probes + 1 ELSE probes
  \/ /\ halfOpenRequests # 0
     /\ Return(t, "no") /\ UNCHANGED <<halfOpenRequests, probes>>

LockedCas(t) ==
  /\ pc[t] = "lockedCas"
  /\ TakePermit(t) /\ mutex' = NoThread
  /\ UNCHANGED <<state, failureCount, sinceOpened, streak, decisions>>

Cas(t) ==
  /\ pc[t] = "cas"
  /\ TakePermit(t)
  /\ UNCHANGED <<state, failureCount, sinceOpened, mutex, streak, decisions>>

\* transitionToHalfOpen(), two stores, mutex_ held until the second is done.
HalfOpen1(t) ==
  /\ pc[t] = "halfOpen1"
  /\ halfOpenRequests' = 0 /\ Goto(t, "halfOpen2")
  /\ UNCHANGED <<state, failureCount, sinceOpened, mutex, ret, streak, decisions, probes>>

HalfOpen2(t) ==
  /\ pc[t] = "halfOpen2"
  /\ state' = "HALF_OPEN" /\ mutex' = NoThread /\ Return(t, "yes")
  /\ probes' = 1
  /\ UNCHANGED <<failureCount, halfOpenRequests, sinceOpened, streak, decisions>>

\* Fault: an unanswered probe keeps its permit.
AllowHalf_NeverGivesUp(t) ==
  /\ pc[t] = "allowHalf" /\ mutex = NoThread
  /\ Goto(t, "cas")
  /\ UNCHANGED <<shared, mutex, ret, streak, decisions, probes>>

\* HALF_OPEN was read: under mutex_, give up a probe that is too old.
AllowHalf(t) ==
  /\ pc[t] = "allowHalf" /\ mutex = NoThread
  /\ IF sinceOpened >= HalfOpenTimeout
       THEN halfOpenRequests' = 0 /\ sinceOpened' = 0 /\ probes' = 0
       ELSE UNCHANGED <<halfOpenRequests, sinceOpened, probes>>
  /\ Goto(t, "cas")
  /\ UNCHANGED <<state, failureCount, mutex, ret, streak, decisions>>

-----------------------------------------------------------------------------
(* recordSuccess() *)

SuccessLoad(t) ==
  /\ pc[t] = "idle"
  /\ \/ state = "CLOSED" /\ Goto(t, "resetCount")
     \/ state = "HALF_OPEN" /\ Goto(t, "close1")
     \/ state = "OPEN" /\ Goto(t, "idle")
  /\ streak' = 0
  /\ UNCHANGED <<shared, mutex, ret, decisions, probes>>

\* Fault: a success in CLOSED leaves the count.
ResetCount_Skipped(t) ==
  /\ pc[t] = "resetCount" /\ Goto(t, "idle")
  /\ UNCHANGED <<shared, mutex, ret, streak, decisions, probes>>

ResetCount(t) ==
  /\ pc[t] = "resetCount"
  /\ failureCount' = 0 /\ Goto(t, "idle")
  /\ UNCHANGED <<state, halfOpenRequests, sinceOpened, mutex, ret, streak, decisions, probes>>

\* transitionToClosed(), three stores without mutex_.
Close1(t) ==
  /\ pc[t] = "close1"
  /\ state' = "CLOSED" /\ probes' = 0 /\ Goto(t, "close2")
  /\ UNCHANGED <<failureCount, halfOpenRequests, sinceOpened, mutex, ret, streak, decisions>>

Close2(t) ==
  /\ pc[t] = "close2"
  /\ failureCount' = 0 /\ Goto(t, "close3")
  /\ UNCHANGED <<state, halfOpenRequests, sinceOpened, mutex, ret, streak, decisions, probes>>

Close3(t) ==
  /\ pc[t] = "close3"
  /\ halfOpenRequests' = 0 /\ Goto(t, "idle")
  /\ UNCHANGED <<state, failureCount, sinceOpened, mutex, ret, streak, decisions, probes>>

-----------------------------------------------------------------------------
(* recordFailure() *)

Decide(t) == sinceDecided' = [sinceDecided EXCEPT ![t] = 0]

FailureLoad(t) ==
  /\ pc[t] = "idle"
  /\ streak' = IF streak < FailureThreshold THEN streak + 1 ELSE streak
  /\ \/ state = "CLOSED" /\ Goto(t, "addFailure") /\ UNCHANGED sinceDecided
     \/ state = "HALF_OPEN" /\ Goto(t, "open1") /\ Decide(t)
     \/ state = "OPEN" /\ Goto(t, "idle") /\ UNCHANGED sinceDecided
  /\ UNCHANGED <<shared, mutex, ret, sinceTripped, probes>>

AddFailure(t) ==
  /\ pc[t] = "addFailure" /\ failureCount < MaxFailures
  /\ failureCount' = failureCount + 1
  /\ IF failureCount' >= FailureThreshold
       THEN Goto(t, "open1") /\ Decide(t)
       ELSE Goto(t, "idle") /\ UNCHANGED sinceDecided
  /\ UNCHANGED <<state, halfOpenRequests, sinceOpened, mutex, ret, streak, sinceTripped, probes>>

\* Fault: OPEN is stored without a fresh stamp.
Open1_NoStamp(t) ==
  /\ pc[t] = "open1" /\ mutex = NoThread /\ Goto(t, "open2")
  /\ UNCHANGED <<shared, mutex, ret, streak, decisions, probes>>

\* transitionToOpen(): stamp openedAt_ under mutex_, then store OPEN.
Open1(t) ==
  /\ pc[t] = "open1" /\ mutex = NoThread
  /\ sinceOpened' = 0 /\ Goto(t, "open2")
  /\ UNCHANGED <<state, failureCount, halfOpenRequests, mutex, ret, streak, decisions, probes>>

Open2(t) ==
  /\ pc[t] = "open2"
  /\ state' = "OPEN" /\ probes' = 0 /\ Goto(t, "idle")
  /\ sinceTripped' = sinceDecided[t]
  /\ UNCHANGED <<failureCount, halfOpenRequests, sinceOpened, mutex, ret, streak, sinceDecided>>

-----------------------------------------------------------------------------
Tick ==
  /\ sinceOpened' = Older(sinceOpened)
  /\ sinceTripped' = Older(sinceTripped)
  /\ sinceDecided' = [t \in Threads |-> Older(sinceDecided[t])]
  /\ UNCHANGED <<state, failureCount, halfOpenRequests, mutex, pc, ret, calm, streak, probes>>

\* The rest of an operation once it has started.
Continue(t) ==
  \/ AllowOpen(t) \/ LockedCas(t) \/ Cas(t)
  \/ HalfOpen1(t) \/ HalfOpen2(t) \/ AllowHalf(t)
  \/ ResetCount(t) \/ Close1(t) \/ Close2(t) \/ Close3(t)
  \/ AddFailure(t) \/ Open1(t) \/ Open2(t)

Next ==
  \/ Tick
  \/ \E t \in Threads : AllowLoad(t) \/ SuccessLoad(t) \/ FailureLoad(t) \/ Continue(t)

Spec == Init /\ [][Next]_vars

\* Time passes, a started operation is finished by its thread, and every
\* thread keeps asking for permission.
Fairness ==
  /\ WF_vars(Tick)
  /\ \A t \in Threads : WF_vars(Continue(t)) /\ SF_vars(AllowLoad(t))
FairSpec == Spec /\ Fairness

-----------------------------------------------------------------------------
(* Properties *)

\* circuit_breaker.h:15: while operations do not overlap, the breaker opens
\* from CLOSED only after failureThreshold_ consecutive failures, with no
\* success in between.
ConsecutiveFailures ==
  [][calm' /\ state = "CLOSED" /\ state' = "OPEN" => streak >= FailureThreshold]_vars

\* circuit_breaker.h:42: HALF_OPEN lets one probe through until the probe is
\* answered or given up.
SingleProbe == probes <= 1

\* What the permit of HALF_OPEN does guarantee while operations do not
\* overlap: the request that moved the breaker to HALF_OPEN, which takes no
\* permit, and one more.
ProbesBounded == calm => probes <= 2

\* Whatever is recorded, and even when a probe is never answered, callers
\* are admitted again and again: no state of the breaker refuses forever.
KeepsAdmitting == []<>(\E t \in Threads : ret[t] = "yes")
=============================================================================
