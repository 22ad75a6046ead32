--------------------------- MODULE AdmissionProofs --------------------------
(***************************************************************************)
(* The rate limits, the breaker and the permits of calls, for all rates,   *)
(* capacities, thresholds, timeouts and chains, any threads and processes. *)
(***************************************************************************)
EXTENDS MCAdmission, TLAPS

-----------------------------------------------------------------------------
(* TokenBucket *)

(* What the window has left: up to the last refill, the requests let through
   and the tokens in hand together stay within the limit.  A window that no
   refill has reached yet has let nothing through. *)
Budget == /\ (lastRefill < begin => granted = 0)
          /\ (lastRefill >= begin => granted + tokens <= capacity + rate * (lastRefill - begin))

(* All that was let through, the tokens in hand and the refill to come are
   paid for by the first bucket and the ticks so far. *)
Paid == total + tokens + rate * (now - lastRefill) <= earned

IInv == TypeOK /\ Budget /\ Paid

LEMMA ProductUnits == \A r \in Nat : r * 0 = 0 /\ r * 1 = r
  BY SMT

LEMMA ProductNat == \A r, a \in Nat : r * a \in Nat
  BY SMT

(* A product grows with its factor: the refill of a span splits at its middle. *)
LEMMA ProductSplit == \A r, a, b, c \in Nat : a <= b /\ b <= c => r * (c - a) = r * (c - b) + r * (b - a)
  BY SMT

LEMMA RefilledFacts ==
  ASSUME TypeOK
  PROVE  /\ Refilled \in 0..capacity
         /\ Refilled <= tokens + rate * (now - lastRefill)
<1>1. rate * (now - lastRefill) \in Nat
  <2>1. now - lastRefill \in Nat BY DEF TypeOK
  <2> QED BY <2>1, ProductNat DEF TypeOK
<1>2. tokens \in Nat /\ capacity \in Nat BY DEF TypeOK
<1> QED BY <1>1, <1>2 DEF Refilled, AtMost

(* After a refill the window's budget still holds, whatever the old tokens. *)
LEMMA RefilledBudget ==
  ASSUME IInv
  PROVE  granted + Refilled <= capacity + rate * (now - begin)
<1>1. /\ Refilled \in 0..capacity /\ Refilled <= tokens + rate * (now - lastRefill)
  BY RefilledFacts DEF IInv
<1>2. /\ rate \in Nat /\ now \in Nat /\ lastRefill \in Nat /\ begin \in Nat
      /\ lastRefill <= now /\ begin <= now /\ tokens \in Nat /\ capacity \in Nat /\ granted \in Nat
  BY DEF IInv, TypeOK
<1>3. rate * (now - begin) \in Nat /\ rate * (now - lastRefill) \in Nat
  <2>1. now - begin \in Nat /\ now - lastRefill \in Nat BY <1>2
  <2> QED BY <2>1, <1>2, ProductNat
<1>4. CASE lastRefill < begin
  BY <1>1, <1>2, <1>3, <1>4 DEF IInv, Budget
<1>5. CASE lastRefill >= begin
  <2>1. rate * (now - begin) = rate * (now - lastRefill) + rate * (lastRefill - begin)
    BY <1>2, <1>5, ProductSplit
  <2>2. granted + tokens <= capacity + rate * (lastRefill - begin)
    BY <1>5 DEF IInv, Budget
  <2>3. rate * (lastRefill - begin) \in Nat
    <3>1. lastRefill - begin \in Nat BY <1>2, <1>5
    <3> QED BY <3>1, <1>2, ProductNat
  <2> HIDE DEF Refilled
  <2> DEFINE p == rate * (now - lastRefill)
             s == rate * (lastRefill - begin)
             w == rate * (now - begin)
  <2>4. p \in Nat /\ s \in Nat /\ w = p + s /\ Refilled \in Nat /\ Refilled <= tokens + p
        /\ granted + tokens <= capacity + s
    BY <1>1, <1>2, <1>3, <2>1, <2>2, <2>3
  <2> HIDE DEF p, s, w
  <2>5. granted + Refilled <= capacity + w
    BY <2>4, <1>2
  <2> QED BY <2>5 DEF w
<1> QED BY <1>2, <1>4, <1>5

LEMMA InitBudget == Init => IInv
<1> SUFFICES ASSUME Init PROVE IInv
  OBVIOUS
<1>1. TypeOK BY RatesAssumption DEF Init, TypeOK
<1>2. rate \in Nat /\ rate * 0 = 0 BY <1>1, SMT DEF TypeOK
<1>3. Budget BY <1>1, <1>2 DEF Init, Budget, TypeOK
<1>4. now - lastRefill = 0 BY DEF Init
<1>5. rate * (now - lastRefill) = 0 BY <1>2, <1>4, Zenon
<1>6. total + tokens + 0 <= earned BY <1>1 DEF Init, TypeOK
<1>7. Paid BY <1>5, <1>6, Zenon DEF Paid
<1> QED BY <1>1, <1>3, <1>7 DEF IInv

LEMMA NextBudget == IInv /\ [Next]_vars => TypeOK' /\ Budget'
<1> SUFFICES ASSUME IInv, [Next]_vars PROVE TypeOK' /\ Budget'
  OBVIOUS
<1>0. /\ rate \in Nat /\ capacity \in Nat /\ tokens \in 0..capacity /\ now \in Nat
      /\ lastRefill \in 0..now /\ begin \in 0..now /\ granted \in Nat /\ total \in Nat
      /\ earned \in Nat
  BY DEF IInv, TypeOK
<1>1. Refilled \in 0..capacity
  BY RefilledFacts DEF IInv
<1>2. granted + Refilled <= capacity + rate * (now - begin)
  BY RefilledBudget
<1>3. rate * (now - begin) \in Nat
  <2>1. now - begin \in Nat BY <1>0
  <2> QED BY <2>1, <1>0, ProductNat
<1>z. \A r \in Nat, t \in Nat : r * (t - t) = 0
  <2>1. \A t \in Nat : t - t = 0 OBVIOUS
  <2>2. \A r \in Nat : r * 0 = 0 BY SMT
  <2> QED BY <2>1, <2>2
<1>4. CASE Allow
  <2>1. TypeOK' BY <1>0, <1>1, <1>4 DEF Allow, TypeOK
  <2>2. granted' + tokens' <= capacity + rate * (now - begin)
    BY <1>0, <1>1, <1>2, <1>3, <1>4 DEF Allow
  <2>3. UNCHANGED <<rate, capacity, now, begin>> /\ lastRefill' = now
    BY <1>4 DEF Allow
  <2>4. Budget' BY <2>2, <2>3, <1>0 DEF Budget
  <2> QED BY <2>1, <2>4
<1>5. CASE SetRate
  <2>1. PICK r \in Rates, c \in Capacities \cup {-1} :
          /\ rate' = r /\ capacity' = IF c >= 0 THEN c ELSE capacity
          /\ tokens' = AtMost(Refilled, capacity')
    BY <1>5 DEF SetRate
  <2>2. lastRefill' = now /\ begin' = now /\ granted' = 0 /\ UNCHANGED <<now, total, earned>>
    BY <1>5 DEF SetRate
  <2>3. rate' \in Nat /\ capacity' \in Nat
    BY <2>1, <1>0, RatesAssumption
  <2>4. tokens' \in 0..capacity'
    BY <2>1, <2>3, <1>1, <1>0 DEF AtMost
  <2>5. TypeOK' BY <2>2, <2>3, <2>4, <1>0 DEF TypeOK
  <2>6. rate' * (lastRefill' - begin') = 0
    BY <2>2, <2>3, <1>0, <1>z, Zenon
  <2>7. granted' + tokens' <= capacity' + 0
    <3>1. tokens' \in Nat /\ tokens' <= capacity' /\ capacity' \in Nat BY <2>3, <2>4
    <3>2. \A x, y \in Nat : x <= y => 0 + x <= y + 0 OBVIOUS
    <3>3. 0 + tokens' <= capacity' + 0 BY <3>1, <3>2, Zenon
    <3> QED BY <3>3, <2>2
  <2>8. Budget' BY <2>2, <2>6, <2>7 DEF Budget
  <2> QED BY <2>5, <2>8
<1>6. CASE AvailableTokens
  <2>1. TypeOK' BY <1>0, <1>1, <1>6 DEF AvailableTokens, TypeOK
  <2>2. Budget' BY <1>0, <1>1, <1>2, <1>6 DEF AvailableTokens, Budget
  <2> QED BY <2>1, <2>2
<1>7. CASE Tick
  <2>1. TypeOK' BY <1>0, <1>7 DEF Tick, TypeOK
  <2>2. Budget' BY <1>7 DEF Tick, Budget, IInv
  <2> QED BY <2>1, <2>2
<1>8. CASE Watch
  <2>1. TypeOK' BY <1>0, <1>8 DEF Watch, TypeOK
  <2>2. begin' = now /\ granted' = 0 /\ UNCHANGED <<rate, capacity, tokens, lastRefill>>
    BY <1>8 DEF Watch
  <2>3. lastRefill' >= begin' => rate' * (lastRefill' - begin') = 0
    BY <2>2, <1>0, <1>z
  <2>4. Budget' BY <2>2, <2>3, <1>0 DEF Budget
  <2> QED BY <2>1, <2>4
<1>9. CASE UNCHANGED vars
  BY <1>9 DEF vars, IInv, TypeOK, Budget
<1> QED BY <1>4, <1>5, <1>6, <1>7, <1>8, <1>9 DEF Next

LEMMA NextPaid == IInv /\ [Next]_vars => Paid'
<1> SUFFICES ASSUME IInv, [Next]_vars PROVE Paid'
  OBVIOUS
<1>0. /\ rate \in Nat /\ tokens \in Nat /\ now \in Nat /\ lastRefill \in Nat /\ lastRefill <= now
      /\ total \in Nat /\ earned \in Nat
  BY DEF IInv, TypeOK
<1> DEFINE p == rate * (now - lastRefill)
<1>1. p \in Nat
  <2>1. now - lastRefill \in Nat BY <1>0
  <2> QED BY <2>1, <1>0, ProductNat
<1>2. total + tokens + p <= earned
  BY DEF IInv, Paid
<1>3. Refilled \in Nat /\ Refilled <= tokens + p
  BY RefilledFacts DEF IInv
<1>4. TypeOK'
  BY NextBudget
\* A call that refills has nothing more to come.
<1>5. ASSUME lastRefill' = now, now' = now, total' + tokens' <= earned'
      PROVE  Paid'
  <2>1. now' - lastRefill' = 0 BY <1>0, <1>5
  <2>2. rate' \in Nat BY <1>4 DEF TypeOK
  <2>3. rate' * (now' - lastRefill') = 0 BY <2>1, <2>2, ProductUnits, Zenon
  <2>4. total' \in Nat /\ tokens' \in Nat BY <1>4 DEF TypeOK
  <2>5. \A x, y \in Nat : x + y + 0 = x + y OBVIOUS
  <2>6. total' + tokens' + 0 <= earned' BY <2>4, <2>5, <1>5, Zenon
  <2> QED BY <2>3, <2>6, Zenon DEF Paid
<1> HIDE DEF p
<1>6. CASE Allow
  <2>1. total' + tokens' = total + Refilled /\ UNCHANGED earned
    BY <1>0, <1>3, <1>6 DEF Allow
  <2>2. total' + tokens' <= earned'
    BY <2>1, <1>0, <1>1, <1>2, <1>3
  <2> QED BY <2>2, <1>5, <1>6 DEF Allow
<1>7. CASE SetRate
  <2>1. /\ lastRefill' = now /\ UNCHANGED <<now, total, earned>>
        /\ tokens' = AtMost(Refilled, capacity')
    BY <1>7 DEF SetRate
  <2>2. capacity' \in Nat /\ tokens' \in Nat BY <1>4 DEF TypeOK
  <2>3. tokens' <= Refilled BY <2>1, <2>2, <1>3 DEF AtMost
  <2>4. total' + tokens' <= earned'
    BY <2>1, <2>2, <2>3, <1>0, <1>1, <1>2, <1>3
  <2> QED BY <2>1, <2>4, <1>5
<1>8. CASE AvailableTokens
  <2>1. total' + tokens' <= earned'
    BY <1>0, <1>1, <1>2, <1>3, <1>8 DEF AvailableTokens
  <2> QED BY <2>1, <1>5, <1>8 DEF AvailableTokens
<1>9. CASE Tick
  <2>1. /\ now' = now + 1 /\ earned' = earned + rate
        /\ rate' = rate /\ tokens' = tokens /\ lastRefill' = lastRefill /\ total' = total
    BY <1>9 DEF Tick
  <2>2. rate * ((now + 1) - lastRefill) = rate * ((now + 1) - now) + p
    BY <1>0, ProductSplit DEF p
  <2>3. (now + 1) - now = 1 BY <1>0
  <2>4. rate * ((now + 1) - now) = rate BY <2>3, ProductUnits, <1>0, Zenon
  <2>5. rate * ((now + 1) - lastRefill) = rate + p BY <2>2, <2>4, Zenon
  <2>6. rate' * (now' - lastRefill') = rate + p BY <2>1, <2>5, Zenon
  <2>7. total' + tokens' + (rate + p) <= earned'
    BY <2>1, <1>0, <1>1, <1>2
  <2> QED BY <2>6, <2>7, Zenon DEF Paid
<1>10. CASE Watch
  BY <1>10 DEF Watch, IInv, Paid
<1>11. CASE UNCHANGED vars
  BY <1>11 DEF vars, IInv, Paid
<1> QED BY <1>6, <1>7, <1>8, <1>9, <1>10, <1>11 DEF Next

LEMMA NextIInv == IInv /\ [Next]_vars => IInv'
BY NextBudget, NextPaid DEF IInv

LEMMA BudgetBounds == IInv => RateBound
<1> SUFFICES ASSUME IInv PROVE RateBound
  OBVIOUS
<1>1. granted + Refilled <= capacity + rate * (now - begin)
  BY RefilledBudget
<1>2. Refilled \in 0..capacity
  BY RefilledFacts DEF IInv
<1>3. rate * (now - begin) \in Nat
  <2>1. now - begin \in Nat BY DEF IInv, TypeOK
  <2> QED BY <2>1, ProductNat DEF IInv, TypeOK
<1>4. granted \in Nat /\ capacity \in Nat BY DEF IInv, TypeOK
<1>5. granted <= capacity + rate * (now - begin)
  BY <1>1, <1>2, <1>3, <1>4
<1>6. rate * (now - lastRefill) \in Nat
  <2>1. now - lastRefill \in Nat BY DEF IInv, TypeOK
  <2> QED BY <2>1, ProductNat DEF IInv, TypeOK
<1>7. total \in Nat /\ tokens \in Nat /\ earned \in Nat BY DEF IInv, TypeOK
<1>8. total + tokens <= earned BY <1>6, <1>7 DEF IInv, Paid
<1> QED BY <1>5, <1>8 DEF RateBound

(* The tokens stay between zero and the capacity through every call of allow,
   setRate and availableTokens. *)
THEOREM TokensInRange == Spec => []TypeOK
<1>1. IInv => TypeOK BY DEF IInv
<1> QED BY InitBudget, NextIInv, <1>1, PTL DEF Spec

(* The bucket enforces its rate: no schedule of calls and clock ticks lets more
   than a full bucket and the refill of the window through, and no sequence of
   setRate calls lets more through in all than the first bucket and what each
   tick added at the rate of that tick. *)
THEOREM NeverOverRate == Spec => []RateBound
BY InitBudget, NextIInv, BudgetBounds, PTL DEF Spec

-----------------------------------------------------------------------------
(* CircuitBreaker *)

USE BreakerConstants

\* The threads inside the critical section of transitionToHalfOpen().
Tripping == {"halfOpen1", "halfOpen2"}

\* TypeOK and NoEarlyHalfOpen are not inductive: what makes them so is that
\* the stamp is never older than the decision it was made for, and that
\* mutex_ protects the stamp while a thread moves the breaker to HALF_OPEN.
BreakerInv ==
  /\ Breaker!TypeOK
  /\ state = "OPEN" => sinceOpened <= sinceTripped
  /\ \A t \in Threads : pc[t] = "open2" => sinceOpened <= sinceDecided[t]
  /\ \A t \in Threads : pc[t] \in Breaker!Locked => mutex = t
  /\ \A t \in Threads : pc[t] \in Tripping => sinceOpened >= OpenTimeout

LEMMA OlderIsAge == \A a \in Breaker!Age : Breaker!Older(a) \in Breaker!Age /\ Breaker!Older(a) >= a
  BY DEF Breaker!Older, Breaker!Age

LEMMA OlderIsMonotone == \A a, b \in Breaker!Age : a <= b => Breaker!Older(a) <= Breaker!Older(b)
  BY DEF Breaker!Older, Breaker!Age

LEMMA ObserveType == \A t \in Threads : Breaker!Observe(t) => calm' \in BOOLEAN
  BY Zenon DEF Breaker!Observe

LEMMA InitBreakerInv == Breaker!Init => BreakerInv
  BY DEF Breaker!Init, BreakerInv, Breaker!TypeOK, Breaker!State, Breaker!PC, Breaker!Ret, Breaker!Age, Breaker!Locked, Tripping

LEMMA TickBreakerInv == BreakerInv /\ Breaker!Tick => BreakerInv'
<1> SUFFICES ASSUME BreakerInv, Breaker!Tick PROVE BreakerInv'
  OBVIOUS
<1>1. Breaker!TypeOK'
  BY OlderIsAge DEF BreakerInv, Breaker!TypeOK, Breaker!Tick
<1>2. QED
  BY <1>1, OlderIsAge, OlderIsMonotone
  DEF BreakerInv, Breaker!TypeOK, Breaker!Tick, Breaker!Locked, Tripping, Breaker!Age

\* One step of a thread preserves the invariant.
LEMMA ThreadBreakerInv ==
  ASSUME NEW t \in Threads, BreakerInv,
         Breaker!AllowLoad(t) \/ Breaker!SuccessLoad(t) \/ Breaker!FailureLoad(t) \/ Breaker!Continue(t)
  PROVE  BreakerInv'
<1> USE DEF BreakerInv, Breaker!TypeOK, Breaker!State, Breaker!PC, Breaker!Ret, Breaker!Age, Breaker!Locked, Tripping, Breaker!Goto, Breaker!Return,
            Breaker!decisions, Breaker!shared
<1> USE ObserveType
<1>1. CASE Breaker!AllowLoad(t)
  BY <1>1 DEF Breaker!AllowLoad
<1>2. CASE Breaker!SuccessLoad(t)
  BY <1>2 DEF Breaker!SuccessLoad
<1>3. CASE Breaker!FailureLoad(t)
  BY <1>3 DEF Breaker!FailureLoad, Breaker!Decide
<1>4. CASE Breaker!AllowOpen(t)
  BY <1>4 DEF Breaker!AllowOpen
<1>5. CASE Breaker!LockedCas(t)
  BY <1>5 DEF Breaker!LockedCas, Breaker!TakePermit
<1>6. CASE Breaker!Cas(t)
  BY <1>6 DEF Breaker!Cas, Breaker!TakePermit
<1>7. CASE Breaker!HalfOpen1(t)
  BY <1>7 DEF Breaker!HalfOpen1
<1>8. CASE Breaker!HalfOpen2(t)
  BY <1>8 DEF Breaker!HalfOpen2
<1>9. CASE Breaker!AllowHalf(t)
  BY <1>9 DEF Breaker!AllowHalf
<1>10. CASE Breaker!ResetCount(t)
  BY <1>10 DEF Breaker!ResetCount
<1>11. CASE Breaker!Close1(t) \/ Breaker!Close2(t) \/ Breaker!Close3(t)
  BY <1>11 DEF Breaker!Close1, Breaker!Close2, Breaker!Close3
<1>12. CASE Breaker!AddFailure(t)
  BY <1>12 DEF Breaker!AddFailure, Breaker!Decide
<1>13. CASE Breaker!Open1(t)
  BY <1>13 DEF Breaker!Open1
<1>14. CASE Breaker!Open2(t)
  BY <1>14 DEF Breaker!Open2
<1>15. QED
  BY <1>1, <1>2, <1>3, <1>4, <1>5, <1>6, <1>7, <1>8, <1>9, <1>10, <1>11,
     <1>12, <1>13, <1>14, Zenon DEF Breaker!Continue

LEMMA NextBreakerInv == BreakerInv /\ [Breaker!Next]_(Breaker!vars) => BreakerInv'
<1> SUFFICES ASSUME BreakerInv, [Breaker!Next]_(Breaker!vars) PROVE BreakerInv'
  OBVIOUS
<1>1. CASE UNCHANGED Breaker!vars
  BY <1>1 DEF BreakerInv, Breaker!TypeOK, Breaker!vars, Breaker!code, Breaker!Locked, Tripping
<1>2. QED
  BY <1>1, TickBreakerInv, ThreadBreakerInv DEF Breaker!Next

LEMMA SpecBreakerInv == Breaker!Spec => []BreakerInv
  BY InitBreakerInv, NextBreakerInv, PTL DEF Breaker!Spec

\* Every member of the breaker keeps its type in every interleaving, the
\* permit halfOpenRequests_ being 0 or 1.
THEOREM TypeCorrect == Breaker!Spec => []Breaker!TypeOK
<1>1. BreakerInv => Breaker!TypeOK
  BY DEF BreakerInv
<1>2. QED
  BY <1>1, SpecBreakerInv, PTL

\* No interleaving of transitionToOpen() and allowRequest() lets the breaker
\* leave OPEN for HALF_OPEN before openTimeout_ has passed since the failure
\* that opened it.
THEOREM NeverHalfOpenEarly == Breaker!Spec => NoEarlyHalfOpen
<1>1. BreakerInv /\ [Breaker!Next]_(Breaker!vars) =>
        [state = "OPEN" /\ state' = "HALF_OPEN" => sinceTripped >= OpenTimeout]_state
  <2> SUFFICES ASSUME BreakerInv, Breaker!Next, state = "OPEN", state' = "HALF_OPEN"
               PROVE  sinceTripped >= OpenTimeout
    BY SMTT(30) DEF Breaker!vars, Breaker!code
  <2>1. PICK t \in Threads : Breaker!HalfOpen2(t)
    BY DEF Breaker!Next, Breaker!Tick, Breaker!AllowLoad, Breaker!SuccessLoad, Breaker!FailureLoad, Breaker!Continue, Breaker!AllowOpen,
           Breaker!LockedCas, Breaker!Cas, Breaker!HalfOpen1, Breaker!AllowHalf, Breaker!ResetCount, Breaker!Close1, Breaker!Close2,
           Breaker!Close3, Breaker!AddFailure, Breaker!Open1, Breaker!Open2, Breaker!shared
  <2>2. QED
    BY <2>1 DEF Breaker!HalfOpen2, BreakerInv, Breaker!TypeOK, Breaker!Age, Tripping
<1>2. QED
  BY <1>1, SpecBreakerInv, PTL DEF Breaker!Spec, NoEarlyHalfOpen

\* Where the counts of the breaker are about to be changed.
Unsettled == {"addFailure", "resetCount", "close2", "open1", "open2"}

\* While operations do not overlap, a thread finds the state as it read it, the failures
\* counted are no more than those in a row, and HALF_OPEN has let through no more than the
\* request that entered it and the holder of the permit.
Orderly ==
  /\ \A t, u \in Threads : t # u => pc[t] = "idle" \/ pc[u] = "idle"
  /\ \A t \in Threads : pc[t] = "addFailure" =>
       state = "CLOSED" /\ (failureCount < streak \/ streak = FailureThreshold)
  /\ \A t \in Threads : pc[t] \in {"close2", "close3"} => state = "CLOSED"
  /\ \A t \in Threads : pc[t] \in Tripping => state = "OPEN"
  /\ \A t \in Threads : pc[t] = "halfOpen2" => halfOpenRequests = 0
  /\ \A t \in Threads : pc[t] \in {"open1", "open2"} /\ state = "CLOSED" => streak = FailureThreshold
  /\ state = "CLOSED" /\ (\A t \in Threads : pc[t] \notin Unsettled) => failureCount <= streak
  /\ state = "HALF_OPEN" => probes <= 1 + halfOpenRequests

CalmInv == (state # "HALF_OPEN" => probes = 0) /\ (calm => Orderly)

LEMMA CalmStep ==
  ASSUME NEW t \in Threads, Breaker!Observe(t), calm'
  PROVE  calm /\ \A u \in Threads \ {t} : pc[u] = "idle"
  BY ZenonT(30) DEF Breaker!Observe

LEMMA ThreadOrderly ==
  ASSUME NEW t \in Threads, BreakerInv, Orderly, state # "HALF_OPEN" => probes = 0,
         \A u \in Threads \ {t} : pc[u] = "idle",
         \/ Breaker!AllowLoad(t) \/ Breaker!SuccessLoad(t) \/ Breaker!FailureLoad(t)
         \/ Breaker!Continue(t)
  PROVE  Orderly'
<1> USE DEF BreakerInv, Breaker!TypeOK, Breaker!State, Breaker!PC, Breaker!Locked, Tripping,
            Breaker!Goto, Breaker!Return, Breaker!shared, Orderly, Unsettled
<1>1. CASE Breaker!AllowLoad(t)
  BY <1>1 DEF Breaker!AllowLoad
<1>2. CASE Breaker!SuccessLoad(t)
  BY <1>2 DEF Breaker!SuccessLoad
<1>3. CASE Breaker!FailureLoad(t)
  BY <1>3 DEF Breaker!FailureLoad
<1>4. CASE Breaker!AllowOpen(t)
  BY <1>4 DEF Breaker!AllowOpen
<1>5. CASE Breaker!LockedCas(t)
  BY <1>5 DEF Breaker!LockedCas, Breaker!TakePermit
<1>6. CASE Breaker!Cas(t)
  BY <1>6 DEF Breaker!Cas, Breaker!TakePermit
<1>7. CASE Breaker!HalfOpen1(t)
  BY <1>7 DEF Breaker!HalfOpen1
<1>8. CASE Breaker!HalfOpen2(t)
  BY <1>8 DEF Breaker!HalfOpen2
<1>9. CASE Breaker!AllowHalf(t)
  BY <1>9 DEF Breaker!AllowHalf
<1>10. CASE Breaker!ResetCount(t)
  BY <1>10 DEF Breaker!ResetCount
<1>11. CASE Breaker!Close1(t)
  BY <1>11 DEF Breaker!Close1
<1>12. CASE Breaker!Close2(t)
  BY <1>12 DEF Breaker!Close2
<1>13. CASE Breaker!Close3(t)
  BY <1>13 DEF Breaker!Close3
<1>14. CASE Breaker!AddFailure(t)
  BY <1>14 DEF Breaker!AddFailure
<1>15. CASE Breaker!Open1(t)
  BY <1>15 DEF Breaker!Open1
<1>16. CASE Breaker!Open2(t)
  BY <1>16 DEF Breaker!Open2
<1> QED
  BY <1>1, <1>2, <1>3, <1>4, <1>5, <1>6, <1>7, <1>8, <1>9, <1>10, <1>11, <1>12, <1>13, <1>14,
     <1>15, <1>16, Zenon DEF Breaker!Continue

LEMMA ThreadObserves ==
  ASSUME NEW t \in Threads, state # "HALF_OPEN" => probes = 0,
         \/ Breaker!AllowLoad(t) \/ Breaker!SuccessLoad(t) \/ Breaker!FailureLoad(t)
         \/ Breaker!Continue(t)
  PROVE  Breaker!Observe(t) /\ (state' # "HALF_OPEN" => probes' = 0)
<1> USE DEF Breaker!Goto, Breaker!Return, Breaker!shared
<1>1. CASE Breaker!AllowLoad(t) \/ Breaker!SuccessLoad(t) \/ Breaker!FailureLoad(t)
  BY <1>1 DEF Breaker!AllowLoad, Breaker!SuccessLoad, Breaker!FailureLoad
<1>2. CASE Breaker!AllowOpen(t) \/ Breaker!LockedCas(t) \/ Breaker!Cas(t) \/ Breaker!AllowHalf(t)
  BY <1>2 DEF Breaker!AllowOpen, Breaker!LockedCas, Breaker!Cas, Breaker!AllowHalf, Breaker!TakePermit
<1>3. CASE Breaker!HalfOpen1(t) \/ Breaker!HalfOpen2(t) \/ Breaker!ResetCount(t) \/ Breaker!AddFailure(t)
  BY <1>3 DEF Breaker!HalfOpen1, Breaker!HalfOpen2, Breaker!ResetCount, Breaker!AddFailure
<1>4. CASE Breaker!Close1(t) \/ Breaker!Close2(t) \/ Breaker!Close3(t) \/ Breaker!Open1(t) \/ Breaker!Open2(t)
  BY <1>4 DEF Breaker!Close1, Breaker!Close2, Breaker!Close3, Breaker!Open1, Breaker!Open2
<1> QED
  BY <1>1, <1>2, <1>3, <1>4, Zenon DEF Breaker!Continue

LEMMA NextCalm == BreakerInv /\ CalmInv /\ [Breaker!Next]_(Breaker!vars) => CalmInv'
<1> SUFFICES ASSUME BreakerInv, CalmInv, [Breaker!Next]_(Breaker!vars) PROVE CalmInv'
  OBVIOUS
<1>1. CASE UNCHANGED Breaker!vars \/ Breaker!Tick
  <2>1. UNCHANGED <<state, failureCount, halfOpenRequests, pc, calm, streak, probes>>
    BY <1>1 DEF Breaker!vars, Breaker!code, Breaker!Tick
  <2> QED BY <2>1, Zenon DEF CalmInv, Orderly
<1>2. ASSUME NEW t \in Threads, \/ Breaker!AllowLoad(t) \/ Breaker!SuccessLoad(t)
                                \/ Breaker!FailureLoad(t) \/ Breaker!Continue(t)
      PROVE  CalmInv'
  <2>1. Breaker!Observe(t) /\ (state' # "HALF_OPEN" => probes' = 0)
    BY <1>2, ThreadObserves DEF CalmInv
  <2>2. ASSUME calm' PROVE Orderly'
    <3>1. calm /\ \A u \in Threads \ {t} : pc[u] = "idle"
      BY <2>1, <2>2, CalmStep
    <3>2. Orderly
      BY <3>1, Zenon DEF CalmInv
    <3> QED BY <1>2, <3>1, <3>2, ThreadOrderly DEF CalmInv
  <2> QED BY <2>1, <2>2, Zenon DEF CalmInv
<1> QED
  BY <1>1, <1>2 DEF Breaker!Next

\* While operations do not overlap, the breaker opens from CLOSED only after
\* failureThreshold_ failures in a row, and HALF_OPEN has no more than two requests out:
\* for any number of threads and any threshold.
THEOREM BreakerIsOrderly == Breaker!Spec => OpensAndProbesInOrder
<1>1. Breaker!Init => CalmInv
  BY DEF Breaker!Init, CalmInv, Orderly, Tripping, Unsettled
<1>2. Breaker!Spec => [](BreakerInv /\ CalmInv)
  BY <1>1, InitBreakerInv, NextBreakerInv, NextCalm, PTL DEF Breaker!Spec
<1>3. BreakerInv /\ CalmInv => Breaker!ProbesBounded
  <2> SUFFICES ASSUME BreakerInv, CalmInv, calm PROVE probes <= 2
    BY DEF Breaker!ProbesBounded
  <2>1. Orderly
    BY Zenon DEF CalmInv
  <2> QED BY <2>1 DEF Orderly, CalmInv, BreakerInv, Breaker!TypeOK
<1>4. BreakerInv /\ CalmInv /\ [Breaker!Next]_(Breaker!vars) =>
        [calm' /\ state = "CLOSED" /\ state' = "OPEN" => streak >= FailureThreshold]_(Breaker!vars)
  <2> SUFFICES ASSUME BreakerInv, CalmInv, Breaker!Next, calm', state = "CLOSED", state' = "OPEN"
               PROVE  streak >= FailureThreshold
    BY Zenon
  <2>1. PICK t \in Threads : Breaker!Open2(t)
    BY Zenon DEF Breaker!Next, Breaker!Tick, Breaker!AllowLoad, Breaker!SuccessLoad, Breaker!FailureLoad,
           Breaker!Continue, Breaker!AllowOpen, Breaker!LockedCas, Breaker!Cas, Breaker!HalfOpen1,
           Breaker!HalfOpen2, Breaker!AllowHalf, Breaker!ResetCount, Breaker!Close1,
           Breaker!Close2, Breaker!Close3, Breaker!AddFailure, Breaker!Open1, Breaker!shared
  <2>2. Breaker!Observe(t) /\ pc[t] = "open2"
    BY <2>1 DEF Breaker!Open2, Breaker!Goto
  <2>3. Orderly
    BY <2>2, CalmStep, Zenon DEF CalmInv
  <2> QED BY <2>2, <2>3 DEF Orderly
<1> QED
  BY <1>2, <1>3, <1>4, PTL DEF Breaker!Spec, OpensAndProbesInOrder, Breaker!ConsecutiveFailures

-----------------------------------------------------------------------------
(* RedisTokenBucket *)

RedisType ==
  /\ shared \in Nat /\ rNow \in Nat /\ offset \in [Clients -> Nat] /\ stamp \in [Clients -> Nat]
  /\ rPc \in [Clients -> {"idle", "sent"}]
  /\ \A c \in Clients : rPc[c] = "sent" => offset[c] <= stamp[c] /\ stamp[c] <= rNow + offset[c]

\* As long as no script was late, the requests let through and the tokens left are within
\* what the rate adds from the boot of one host to a time that another has reached.
SharedInv ==
  \/ rTime = -1 /\ rTokens = -1 /\ shared = 0
  \/ /\ rTime \in Nat /\ rTokens \in 0 .. Capacity
     /\ ~tardy => \E a, b \in Clients :
          /\ rTime <= rNow + offset[a] /\ offset[b] <= rTime
          /\ shared + rTokens <= Capacity + Rate * (rTime - offset[b])

\* The same for each process by itself, from its start.
LocalInv ==
  /\ lTokens \in [Clients -> 0 .. Capacity] /\ lRefill \in [Clients -> Nat] /\ local \in [Clients -> Nat]
  /\ \A c \in Clients : lRefill[c] <= rNow /\ local[c] + lTokens[c] <= Capacity + Rate * lRefill[c]

\* What the script finds, when the keys were set before and when not.
LEMMA ScriptTokens ==
  ASSUME NEW t \in Nat
  PROVE  /\ rTime = -1 /\ rTokens = -1 => Redis!NewTokens(t) = Capacity
         /\ rTime \in Nat /\ rTokens \in 0 .. Capacity =>
              /\ Redis!NewTokens(t) \in 0 .. Capacity
              /\ t >= rTime => Redis!NewTokens(t) <= rTokens + Rate * (t - rTime)
<1>0. Capacity \in Nat /\ Rate \in Nat
  BY AdmissionConstants
<1>1. ASSUME rTime = -1, rTokens = -1 PROVE Redis!NewTokens(t) = Capacity
  <2>1. Redis!Most(0, t - t) = 0 /\ 0 * Rate = 0
    BY <1>0, SMT DEF Redis!Most
  <2> QED BY <1>0, <1>1, <2>1 DEF Redis!NewTokens, Redis!Least
<1>2. ASSUME rTime \in Nat, rTokens \in 0 .. Capacity
      PROVE  /\ Redis!NewTokens(t) \in 0 .. Capacity
             /\ t >= rTime => Redis!NewTokens(t) <= rTokens + Rate * (t - rTime)
  <2> DEFINE d == Redis!Most(0, t - rTime)
             p == d * Rate
  <2>1. d \in Nat /\ (t >= rTime => d = t - rTime)
    BY <1>2 DEF Redis!Most
  <2> HIDE DEF d
  <2>2. p \in Nat /\ p = Rate * d
    BY <1>0, <2>1, SMT
  <2>3. Redis!NewTokens(t) = Redis!Least(Capacity, rTokens + p)
    BY <1>2 DEF Redis!NewTokens, d
  <2> HIDE DEF p
  <2>4. Redis!NewTokens(t) \in 0 .. Capacity /\ Redis!NewTokens(t) <= rTokens + p
    BY <1>0, <1>2, <2>2, <2>3 DEF Redis!Least
  <2>5. t >= rTime => p = Rate * (t - rTime)
    BY <2>1, <2>2
  <2> QED BY <2>4, <2>5
<1> QED
  BY <1>1, <1>2

LEMMA Within == \A s, t, cap, p \in Nat : s + t <= cap => s + t <= cap + p
  BY SMT

LEMMA WithinLater ==
  \A s, t, u, v, n, cap, x, y \in Nat :
    s + t <= u + n /\ n <= v + x /\ u + v <= cap + y => s + t <= cap + (x + y)
  BY SMT

LEMMA ScriptKeepsLimit ==
  ASSUME RedisType, SharedInv, NEW c \in Clients, rPc[c] = "sent", Redis!Script(stamp[c]),
         shared' = shared \/ (Redis!NewTokens(stamp[c]) >= 1 /\ shared' = shared + 1),
         UNCHANGED <<offset, rNow>>
  PROVE  SharedInv'
<1> DEFINE t == stamp[c]
           n == Redis!NewTokens(t)
<1>0. /\ Capacity \in Nat /\ Rate \in Nat /\ shared \in Nat /\ rNow \in Nat /\ offset \in [Clients -> Nat]
      /\ t \in Nat /\ offset[c] <= t /\ t <= rNow + offset[c] /\ offset[c] \in Nat
  BY AdmissionConstants DEF RedisType
<1>1. /\ rTime' = t /\ rTokens' = IF n >= 1 THEN n - 1 ELSE n
      /\ (~tardy' => ~tardy /\ ~(t < rTime))
  BY ZenonT(30) DEF Redis!Script, Redis!Left
<1> HIDE DEF n
<1>2. CASE rTime = -1 /\ rTokens = -1 /\ shared = 0
  <2>1. n = Capacity
    BY <1>0, <1>2, ScriptTokens, Zenon DEF n
  <2>2. rTokens' \in 0 .. Capacity /\ shared' + rTokens' <= Capacity
    BY <1>0, <1>1, <1>2, <2>1 DEF n
  <2>3. Rate * (t - offset[c]) \in Nat
    <3>1. t - offset[c] \in Nat
      BY <1>0
    <3> QED BY <1>0, <3>1, ProductNat, Zenon
  <2>4. shared' + rTokens' <= Capacity + Rate * (t - offset[c])
    <3>1. shared' \in Nat
      BY <1>0
    <3>2. rTokens' \in Nat
      BY <1>0, <2>2
    <3> QED BY <1>0, <2>2, <2>3, <3>1, <3>2, Within, Zenon
  <2> QED BY <1>0, <1>1, <2>2, <2>4, Zenon DEF SharedInv
<1>3. CASE rTime \in Nat /\ rTokens \in 0 .. Capacity
  <2>1. n \in 0 .. Capacity /\ (t >= rTime => n <= rTokens + Rate * (t - rTime))
    BY <1>0, <1>3, ScriptTokens, SMTT(30) DEF n
  <2>2. rTokens' \in 0 .. Capacity /\ shared' \in Nat /\ shared' + rTokens' <= shared + n
    BY <1>0, <1>1, <2>1 DEF n
  <2>3. ASSUME ~tardy'
        PROVE  \E a, b \in Clients : /\ t <= rNow + offset[a] /\ offset[b] <= t
                                     /\ shared' + rTokens' <= Capacity + Rate * (t - offset[b])
    <3>1. t >= rTime /\ ~tardy
      BY <1>0, <1>1, <1>3, <2>3, SMTT(30)
    <3>2. PICK b \in Clients : offset[b] <= rTime /\ shared + rTokens <= Capacity + Rate * (rTime - offset[b])
      BY <1>3, <3>1 DEF SharedInv
    <3>3. offset[b] \in Nat
      BY <1>0
    <3>4. Rate * (t - offset[b]) = Rate * (t - rTime) + Rate * (rTime - offset[b])
      BY <1>0, <1>3, <3>1, <3>2, <3>3, ProductSplit
    <3> DEFINE x == Rate * (t - rTime)
               y == Rate * (rTime - offset[b])
               z == Rate * (t - offset[b])
    <3>5. x \in Nat /\ y \in Nat /\ z \in Nat
      <4>1. t - rTime \in Nat /\ rTime - offset[b] \in Nat /\ t - offset[b] \in Nat
        BY <1>0, <1>3, <3>1, <3>2, <3>3
      <4> QED BY <1>0, <4>1, ProductNat, Zenon
    <3>6. z = x + y /\ n <= rTokens + x /\ shared + rTokens <= Capacity + y
      BY <2>1, <3>1, <3>2, <3>4, Zenon
    <3> HIDE DEF x, y, z
    <3>7. shared' + rTokens' <= Capacity + z
      <4>1. rTokens' \in Nat /\ rTokens \in Nat /\ n \in Nat
        BY <1>0, <1>3, <2>1, <2>2
      <4>2. shared' + rTokens' <= Capacity + (x + y)
        BY <1>0, <2>2, <3>5, <3>6, <4>1, WithinLater, Zenon
      <4> QED BY <3>6, <4>2, SMTT(30)
    <3>8. offset[b] <= t
      BY <1>0, <1>3, <3>1, <3>2, <3>3
    <3> QED BY <1>0, <3>7, <3>8, Zenon DEF z
  <2> QED BY <1>0, <1>1, <2>2, <2>3, Zenon DEF SharedInv
<1> QED
  BY <1>2, <1>3 DEF SharedInv

LEMMA AllowLocallyKeepsLimit ==
  ASSUME rNow \in Nat, LocalInv, NEW c \in Clients, Redis!AllowLocally(c), UNCHANGED rNow
  PROVE  LocalInv'
<1> DEFINE p == Rate * (rNow - lRefill[c])
           n == Redis!Least(Capacity, lTokens[c] + p)
<1>0. /\ Capacity \in Nat /\ Rate \in Nat /\ lTokens[c] \in 0 .. Capacity /\ lRefill[c] \in Nat
      /\ local[c] \in Nat /\ lRefill[c] <= rNow
      /\ local[c] + lTokens[c] <= Capacity + Rate * lRefill[c]
  BY AdmissionConstants DEF LocalInv
<1>1. rNow - lRefill[c] \in Nat /\ Rate * lRefill[c] \in Nat /\ Rate * rNow \in Nat
  BY <1>0, ProductNat
<1>2. p \in Nat
  BY <1>0, <1>1, ProductNat
<1>3. Rate * rNow = p + Rate * lRefill[c]
  BY <1>0, SMT
<1>4. /\ lRefill' = [lRefill EXCEPT ![c] = rNow]
      /\ \/ n >= 1 /\ lTokens' = [lTokens EXCEPT ![c] = n - 1] /\ local' = [local EXCEPT ![c] = local[c] + 1]
         \/ n < 1 /\ lTokens' = [lTokens EXCEPT ![c] = n] /\ UNCHANGED local
  BY Zenon DEF Redis!AllowLocally
<1> HIDE DEF p
<1>5. n \in 0 .. Capacity /\ n <= lTokens[c] + p
  BY <1>0, <1>2 DEF Redis!Least
<1> DEFINE q == Rate * rNow
           r == Rate * lRefill[c]
<1>6. q \in Nat /\ r \in Nat /\ q = p + r /\ local[c] + lTokens[c] <= Capacity + r
  BY <1>0, <1>1, <1>3, Zenon
<1> HIDE DEF n, q, r
<1>7. local[c] + n <= Capacity + q
  BY <1>0, <1>2, <1>5, <1>6
<1>8. /\ lTokens' \in [Clients -> 0 .. Capacity] /\ lRefill' \in [Clients -> Nat]
      /\ local' \in [Clients -> Nat]
  BY <1>0, <1>4, <1>5 DEF LocalInv
<1>9. ASSUME NEW d \in Clients
      PROVE  lRefill'[d] <= rNow' /\ local'[d] + lTokens'[d] <= Capacity + Rate * lRefill'[d]
  <2>1. CASE d = c
    <3>1. lRefill'[d] = rNow /\ local'[d] + lTokens'[d] <= Capacity + q
      BY <1>0, <1>4, <1>5, <1>6, <1>7, <2>1 DEF LocalInv
    <3> QED BY <3>1 DEF q
  <2>2. CASE d # c
    BY <1>4, <2>2 DEF LocalInv
  <2> QED BY <2>1, <2>2, Zenon
<1> QED
  BY <1>8, <1>9 DEF LocalInv

RedisInv == RedisType /\ SharedInv /\ LocalInv

LEMMA NextRedis == RedisInv /\ [Redis!Next]_(Redis!vars) => RedisInv'
<1> SUFFICES ASSUME RedisInv, [Redis!Next]_(Redis!vars) PROVE RedisInv'
  OBVIOUS
<1>0. RedisType /\ SharedInv /\ LocalInv /\ rNow \in Nat
  BY Zenon DEF RedisInv, RedisType
<1> USE DEF Redis!redisVars, Redis!localVars
<1>1. CASE UNCHANGED Redis!vars
  BY <1>1, <1>0, Zenon DEF Redis!vars, RedisInv, RedisType, SharedInv, LocalInv
<1>2. CASE Redis!Flush
  BY <1>2, <1>0 DEF Redis!Flush, RedisInv, RedisType, SharedInv, LocalInv
<1>3. CASE Redis!Tick
  <2>1. /\ rNow' = rNow + 1
        /\ UNCHANGED <<rTokens, rTime, lTokens, lRefill, rPc, stamp, offset, shared, local, tardy>>
    BY <1>3, SMTT(30) DEF Redis!Tick
  <2>2. RedisType' /\ LocalInv'
    BY <1>0, <2>1, SMTT(30) DEF RedisType, LocalInv
  <2>3. SharedInv'
    BY <1>0, <2>1 DEF RedisType, SharedInv
  <2> QED BY <2>2, <2>3 DEF RedisInv
<1>4. ASSUME NEW c \in Clients, Redis!AllowFallback(c) PROVE RedisInv'
  <2>1. UNCHANGED <<rTokens, rTime, rPc, stamp, offset, rNow, shared, tardy>> /\ Redis!AllowLocally(c)
    BY <1>4, SMTT(30) DEF Redis!AllowFallback
  <2>2. RedisType' /\ SharedInv'
    BY <1>0, <2>1 DEF RedisType, SharedInv
  <2> QED BY <1>0, <2>1, <2>2, AllowLocallyKeepsLimit, SMTT(30) DEF RedisInv
<1>5. ASSUME NEW c \in Clients, Redis!AllowSend(c) \/ Redis!AllowNoScript(c) PROVE RedisInv'
  <2>1. /\ UNCHANGED <<rTokens, rTime, lTokens, lRefill, offset, rNow, shared, local, tardy>>
        /\ stamp' = [stamp EXCEPT ![c] = rNow + offset[c]]
        /\ rPc' = [rPc EXCEPT ![c] = "sent"]
    BY <1>0, <1>5, SMTT(30) DEF Redis!AllowSend, Redis!AllowNoScript, RedisType
  <2>2. SharedInv' /\ LocalInv'
    BY <1>0, <2>1 DEF SharedInv, LocalInv
  <2>3. RedisType'
    BY <1>0, <2>1 DEF RedisType
  <2> QED BY <2>2, <2>3, SMTT(30) DEF RedisInv
<1>6. ASSUME NEW c \in Clients, Redis!AllowReply(c) PROVE RedisInv'
  <2>1. /\ rPc[c] = "sent" /\ Redis!Script(stamp[c]) /\ rPc' = [rPc EXCEPT ![c] = "idle"]
        /\ shared' = IF Redis!NewTokens(stamp[c]) >= 1 THEN shared + 1 ELSE shared
        /\ UNCHANGED <<lTokens, lRefill, stamp, offset, rNow, local>>
    BY <1>6, SMTT(30) DEF Redis!AllowReply
  <2>2. RedisType' /\ LocalInv'
    BY <1>0, <2>1 DEF RedisType, LocalInv
  <2> QED BY <1>0, <2>1, <2>2, ScriptKeepsLimit DEF RedisInv
<1>7. ASSUME NEW c \in Clients, Redis!AllowLost(c) PROVE RedisInv'
  <2>1. /\ rPc[c] = "sent" /\ rPc' = [rPc EXCEPT ![c] = "idle"] /\ Redis!AllowLocally(c)
        /\ UNCHANGED <<rTokens, rTime, tardy>> \/ Redis!Script(stamp[c])
        /\ UNCHANGED <<stamp, offset, rNow, shared>>
    BY <1>7 DEF Redis!AllowLost
  <2>2. RedisType'
    BY <1>0, <2>1 DEF RedisType
  <2>3. LocalInv'
    BY <1>0, <2>1, AllowLocallyKeepsLimit
  <2>4. SharedInv'
    <3>1. CASE UNCHANGED <<rTokens, rTime, tardy>>
      BY <1>0, <2>1, <3>1 DEF SharedInv
    <3>2. CASE Redis!Script(stamp[c])
      BY <1>0, <2>1, <3>2, ScriptKeepsLimit
    <3> QED BY <2>1, <3>1, <3>2, Zenon
  <2> QED BY <2>2, <2>3, <2>4 DEF RedisInv
<1> QED
  BY <1>1, <1>2, <1>3, <1>4, <1>5, <1>6, <1>7 DEF Redis!Next

LEMMA ProductGrows == \A r, a, b \in Nat : a <= b => r * a \in Nat /\ r * b \in Nat /\ r * a <= r * b
<1> SUFFICES ASSUME NEW r \in Nat, NEW a \in Nat, NEW b \in Nat, a <= b
             PROVE  r * a \in Nat /\ r * b \in Nat /\ r * a <= r * b
  OBVIOUS
<1>1. b - a \in Nat
  OBVIOUS
<1>2. r * a \in Nat /\ r * b \in Nat /\ r * (b - a) \in Nat
  BY <1>1, ProductNat
<1>3. r * b = r * a + r * (b - a)
  BY SMT
<1> QED
  BY <1>2, <1>3

LEMMA RedisBounds == RedisInv => RedisLimits
<1> SUFFICES ASSUME RedisInv PROVE Redis!SharedBound /\ Redis!LocalBound
  BY DEF RedisLimits
<1>0. /\ Capacity \in Nat /\ Rate \in Nat /\ shared \in Nat /\ rNow \in Nat
      /\ offset \in [Clients -> Nat] /\ SharedInv /\ LocalInv
  BY AdmissionConstants DEF RedisInv, RedisType
<1>1. ASSUME NEW c \in Clients PROVE local[c] <= Capacity + Rate * rNow
  <2>1. /\ local[c] \in Nat /\ lTokens[c] \in Nat /\ lRefill[c] \in Nat /\ lRefill[c] <= rNow
        /\ local[c] + lTokens[c] <= Capacity + Rate * lRefill[c]
    BY <1>0 DEF LocalInv
  <2>2. Rate * lRefill[c] \in Nat /\ Rate * rNow \in Nat /\ Rate * lRefill[c] <= Rate * rNow
    BY <1>0, <2>1, ProductGrows
  <2> QED BY <1>0, <2>1, <2>2
<1>2. ASSUME ~tardy
      PROVE  \E a, b \in Clients : shared <= Capacity + Rate * (rNow + offset[a] - offset[b])
  <2>1. CASE shared = 0
    <3>1. PICK c : c \in Clients
      BY AdmissionConstants
    <3>2. rNow + offset[c] - offset[c] = rNow /\ Rate * rNow \in Nat
      BY <1>0, <3>1, ProductNat
    <3>3. shared <= Capacity + Rate * (rNow + offset[c] - offset[c])
      BY <1>0, <2>1, <3>2
    <3> QED BY <3>1, <3>3
  <2>2. ASSUME rTime \in Nat, rTokens \in 0 .. Capacity, NEW a \in Clients, NEW b \in Clients,
               rTime <= rNow + offset[a], offset[b] <= rTime,
               shared + rTokens <= Capacity + Rate * (rTime - offset[b])
        PROVE  shared <= Capacity + Rate * (rNow + offset[a] - offset[b])
    <3> DEFINE x == rTime - offset[b]
               y == rNow + offset[a] - offset[b]
    <3>1. x \in Nat /\ y \in Nat /\ x <= y
      BY <1>0, <2>2, SMTT(30)
    <3>2. Rate * x \in Nat /\ Rate * y \in Nat /\ Rate * x <= Rate * y
      BY <1>0, <3>1, ProductGrows
    <3>3. shared + rTokens <= Capacity + Rate * x
      BY <2>2
    <3> HIDE DEF x, y
    <3>4. shared <= Capacity + Rate * y
      BY <1>0, <2>2, <3>2, <3>3
    <3> QED BY <3>4 DEF y
  <2>3. CASE /\ rTime \in Nat /\ rTokens \in 0 .. Capacity
             /\ \E a, b \in Clients : /\ rTime <= rNow + offset[a] /\ offset[b] <= rTime
                                      /\ shared + rTokens <= Capacity + Rate * (rTime - offset[b])
    BY <2>2, <2>3
  <2> QED BY <1>0, <1>2, <2>1, <2>3, Zenon DEF SharedInv
<1> QED
  BY <1>1, <1>2, Zenon DEF Redis!SharedBound, Redis!LocalBound

\* The Lua script enforces the shared rate for any number of processes, whatever answers are
\* lost and however often the script is reloaded, up to the difference of the clocks, as long
\* as scripts run in the order of the times they carry; a fallback enforces it for a process.
THEOREM RedisNeverOverRate == Redis!Spec => []RedisLimits
<1>1. Redis!Init => RedisInv
  <2> SUFFICES ASSUME Redis!Init PROVE RedisInv
    OBVIOUS
  <2>1. Capacity \in Nat /\ Rate \in Nat /\ Rate * 0 = 0 /\ Offsets \subseteq Nat
    BY AdmissionConstants, SMT
  <2>2. RedisType /\ SharedInv
    BY <2>1, Zenon DEF Redis!Init, RedisType, SharedInv
  <2>3. LocalInv
    BY <2>1, SMTT(30) DEF Redis!Init, LocalInv
  <2> QED BY <2>2, <2>3 DEF RedisInv
<1> QED
  BY <1>1, NextRedis, RedisBounds, PTL DEF Redis!Spec

-----------------------------------------------------------------------------
(* The calls of Admission *)

BreakerRec == [state : {"CLOSED", "OPEN", "HALF_OPEN"}, failures : Nat, permits : {0, 1}, age : Nat]

CallsType == chain \in Chains /\ at \in [Callers -> Nat] /\ breaker \in BreakerRec

\* The permit of HALF_OPEN is out.
PermitOut(b) == b.state = "HALF_OPEN" /\ b.permits = 1

\* allowRequest() takes the permit for the call it lets through.
LEMMA AllowedWithPermit ==
  ASSUME NEW b \in BreakerRec
  PROVE  /\ Calls!allowRequest(b).then \in BreakerRec
         /\ PermitOut(Calls!allowRequest(b).then) => Calls!allowRequest(b).yes \/ PermitOut(b)
<1>1. CASE b.state = "CLOSED"
  <2>1. Calls!allowRequest(b) = [yes |-> TRUE, then |-> b]
    BY <1>1, Zenon DEF Calls!allowRequest
  <2> QED BY <1>1, <2>1 DEF PermitOut
<1>2. CASE b.state = "OPEN" /\ b.age >= OpenTimeout
  <2> DEFINE d == [b EXCEPT !.state = "HALF_OPEN", !.permits = 0]
  <2>1. d \in BreakerRec /\ d.permits = 0
    BY Zenon DEF BreakerRec
  <2>2. Calls!allowRequest(b) = [yes |-> TRUE, then |-> d]
    BY <1>2 DEF Calls!allowRequest, BreakerRec
  <2> HIDE DEF d
  <2> QED BY <2>1, <2>2 DEF PermitOut
<1>3. CASE b.state = "OPEN" /\ b.age < OpenTimeout
  <2>1. Calls!allowRequest(b) = [yes |-> FALSE, then |-> b]
    BY <1>3 DEF Calls!allowRequest, BreakerRec
  <2> QED BY <1>3, <2>1 DEF PermitOut
<1>4. CASE b.state = "HALF_OPEN"
  <2> DEFINE p == Calls!GiveUpProbe(b)
  <2>1. Calls!allowRequest(b) = [yes |-> p.permits = 0, then |-> [p EXCEPT !.permits = 1]]
    BY <1>4 DEF Calls!allowRequest
  <2>2. p \in BreakerRec /\ (p.permits # 0 => p = b)
    BY Zenon DEF BreakerRec, Calls!GiveUpProbe
  <2> HIDE DEF p
  <2>3. [p EXCEPT !.permits = 1] \in BreakerRec
    BY <2>2 DEF BreakerRec
  <2>4. p.permits # 0 => PermitOut(b)
    BY <1>4, <2>2 DEF BreakerRec, PermitOut
  <2>5. CASE p.permits = 0
    <3>1. Calls!allowRequest(b) = [yes |-> TRUE, then |-> [p EXCEPT !.permits = 1]]
      BY <2>1, <2>5, Zenon
    <3> QED BY <2>3, <3>1
  <2>6. CASE p.permits # 0
    <3>1. Calls!allowRequest(b).then = [p EXCEPT !.permits = 1]
      BY <2>1
    <3> QED BY <2>3, <2>4, <2>6, <3>1
  <2> QED BY <2>5, <2>6
<1>5. b.state \in {"CLOSED", "OPEN", "HALF_OPEN"} /\ (b.age >= OpenTimeout \/ b.age < OpenTimeout)
  BY SMTT(30) DEF BreakerRec
<1> QED
  BY <1>1, <1>2, <1>3, <1>4, <1>5, Zenon

\* Whatever is recorded ends HALF_OPEN.
LEMMA RecordsEndHalfOpen ==
  ASSUME NEW b \in BreakerRec
  PROVE  /\ Calls!recordSuccess(b) \in BreakerRec /\ Calls!recordSuccess(b).state # "HALF_OPEN"
         /\ Calls!recordFailure(b) \in BreakerRec /\ Calls!recordFailure(b).state # "HALF_OPEN"
<1>1. Calls!recordSuccess(b) \in BreakerRec /\ Calls!recordSuccess(b).state # "HALF_OPEN"
  BY Zenon DEF BreakerRec, Calls!recordSuccess
<1>2. \A d \in BreakerRec : Calls!Opened(d) \in BreakerRec /\ Calls!Opened(d).state = "OPEN"
  BY Zenon DEF BreakerRec, Calls!Opened
<1>3. CASE b.state = "CLOSED"
  <2> DEFINE d == [b EXCEPT !.failures = b.failures + 1]
  <2>1. d \in BreakerRec /\ d.state = "CLOSED"
    BY <1>3 DEF BreakerRec
  <2>2. Calls!recordFailure(b) = IF d.failures >= FailureThreshold THEN Calls!Opened(d) ELSE d
    BY <1>3 DEF Calls!recordFailure
  <2> HIDE DEF d
  <2> QED BY <1>1, <1>2, <2>1, <2>2
<1>4. CASE b.state # "CLOSED"
  <2>1. Calls!recordFailure(b) = IF b.state = "HALF_OPEN" THEN Calls!Opened(b) ELSE b
    BY <1>4 DEF Calls!recordFailure, BreakerRec
  <2> QED BY <1>1, <1>2, <1>4, <2>1
<1> QED
  BY <1>1, <1>3, <1>4

LEMMA OneGate ==
  ASSUME chain \in Chains, Calls!HasBreaker
  PROVE  /\ Calls!Gate \in 1 .. Len(chain) /\ DOMAIN chain = 1 .. Len(chain) /\ Len(chain) \in Nat
         /\ chain[Calls!Gate] = "breaker"
         /\ \A i \in DOMAIN chain : chain[i] = "breaker" => i = Calls!Gate
<1>1. /\ DOMAIN chain = 1 .. Len(chain) /\ Len(chain) \in Nat
      /\ \A i, j \in DOMAIN chain : chain[i] = "breaker" /\ chain[j] = "breaker" => i = j
  BY AdmissionConstants
<1>2. Calls!Gate \in DOMAIN chain /\ chain[Calls!Gate] = "breaker"
  BY DEF Calls!HasBreaker, Calls!Gate
<1> QED
  BY <1>1, <1>2

\* The permit stays with a call behind the breaker.
LEMMA PermitKept ==
  ASSUME CallsType, Calls!PermitsAreCarried, UNCHANGED chain,
         Calls!HasBreaker /\ ~Calls!RefusesLater /\ PermitOut(breaker') =>
           \/ PermitOut(breaker) /\ \A c \in Callers : at[c] > Calls!Gate => at'[c] > Calls!Gate
           \/ \E c \in Callers : at'[c] > Calls!Gate
  PROVE  Calls!PermitsAreCarried'
<1>1. /\ Calls!Gate' = Calls!Gate /\ (Calls!HasBreaker' <=> Calls!HasBreaker)
      /\ (Calls!RefusesLater' <=> Calls!RefusesLater)
  BY SMTT(30) DEF Calls!Gate, Calls!HasBreaker, Calls!RefusesLater
<1> QED
  BY <1>1, Zenon DEF Calls!PermitsAreCarried, PermitOut

LEMMA RecordKeepsPermit ==
  ASSUME CallsType, Calls!PermitsAreCarried, UNCHANGED chain, at' \in [Callers -> Nat],
         NEW b, Calls!Record(b), b = Calls!recordSuccess(breaker) \/ b = Calls!recordFailure(breaker)
  PROVE  CallsType' /\ Calls!PermitsAreCarried'
<1>1. b \in BreakerRec /\ b.state # "HALF_OPEN" /\ breaker' = IF Calls!HasBreaker THEN b ELSE breaker
  BY RecordsEndHalfOpen DEF CallsType, Calls!Record
<1>2. CallsType'
  BY <1>1 DEF CallsType
<1>3. Calls!HasBreaker => ~ PermitOut(breaker')
  BY <1>1, Zenon DEF PermitOut
<1> QED
  BY <1>2, <1>3, PermitKept

LEMMA PreHandleKeepsPermit ==
  ASSUME CallsType, Calls!PermitsAreCarried, NEW c \in Callers, Calls!PreHandle(c)
  PROVE  CallsType' /\ Calls!PermitsAreCarried'
<1> DEFINE i == at[c]
<1>0. /\ i \in DOMAIN chain /\ i \in Nat /\ UNCHANGED chain /\ at \in [Callers -> Nat]
      /\ breaker \in BreakerRec /\ chain \in Chains
  BY DEF Calls!PreHandle, CallsType
<1> USE DEF Calls!Passed, Calls!Blocked, Calls!Finish, Calls!Move, Calls!Idle
<1>1. CASE chain[i] = "breaker" /\ Calls!PreBreaker(c)
  <2>1. /\ breaker' = Calls!allowRequest(breaker).then
        /\ (Calls!allowRequest(breaker).yes /\ Calls!Passed(c)) \/ Calls!Blocked(c)
    BY <1>1, SMTT(30) DEF Calls!PreBreaker
  <2>2. breaker' \in BreakerRec /\ (PermitOut(breaker') => Calls!allowRequest(breaker).yes \/ PermitOut(breaker))
    BY <1>0, <2>1, AllowedWithPermit
  <2>3. CASE Calls!Passed(c)
    <3>1. at' = [at EXCEPT ![c] = i + 1]
      BY <2>3
    <3>2. CallsType'
      BY <1>0, <2>2, <3>1, SMTT(30) DEF CallsType
    <3>3. Calls!HasBreaker => at'[c] > Calls!Gate
      BY <1>0, <1>1, <3>1, OneGate, SMTT(30)
    <3> QED BY <1>0, <3>2, <3>3, PermitKept
  <2>4. CASE Calls!Blocked(c) /\ ~ Calls!allowRequest(breaker).yes
    <3>1. at' = [at EXCEPT ![c] = 0]
      BY <2>4
    <3>2. CallsType'
      BY <1>0, <2>2, <3>1, SMTT(30) DEF CallsType
    <3>3. Calls!HasBreaker => \A d \in Callers : at[d] > Calls!Gate => at'[d] > Calls!Gate
      BY <1>0, <1>1, <3>1, OneGate
    <3>4. PermitOut(breaker') => PermitOut(breaker)
      BY <2>2, <2>4, Zenon
    <3> QED BY <1>0, <3>2, <3>3, <3>4, PermitKept
  <2>5. Calls!Passed(c) \/ (Calls!Blocked(c) /\ ~ Calls!allowRequest(breaker).yes)
    BY <1>1, Zenon DEF Calls!PreBreaker
  <2> QED BY <2>3, <2>4, <2>5, SMTT(30)
<1>2. ASSUME UNCHANGED breaker, at' = [at EXCEPT ![c] = i + 1] PROVE CallsType' /\ Calls!PermitsAreCarried'
  <2>1. CallsType'
    BY <1>0, <1>2 DEF CallsType
  <2>2. Calls!HasBreaker => \A d \in Callers : at[d] > Calls!Gate => at'[d] > Calls!Gate
    BY <1>0, <1>2, OneGate, SMTT(30)
  <2> QED BY <1>0, <1>2, <2>1, <2>2, PermitKept, SMTT(30)
<1>3. CASE chain[i] = "limiter" /\ Calls!PreLimiter(c)
  <2>1. UNCHANGED breaker /\ (Calls!Passed(c) \/ Calls!Blocked(c))
    BY <1>3, SMTT(30) DEF Calls!PreLimiter
  <2>2. CASE Calls!Blocked(c)
    <3>1. at' = [at EXCEPT ![c] = 0]
      BY <2>2
    <3>2. CallsType'
      BY <1>0, <2>1, <3>1, SMTT(30) DEF CallsType
    <3>3. Calls!HasBreaker /\ ~Calls!RefusesLater =>
            \A d \in Callers : at[d] > Calls!Gate => at'[d] > Calls!Gate
      BY <1>0, <1>3, <3>1, OneGate, SMTT(30) DEF Calls!RefusesLater
    <3> QED BY <1>0, <2>1, <3>2, <3>3, PermitKept
  <2> QED BY <1>2, <2>1, <2>2, SMTT(30)
<1>4. CASE Calls!PreTrace(c)
  BY <1>2, <1>4, SMTT(30) DEF Calls!PreTrace
<1>5. CASE Calls!Passed(c) /\ UNCHANGED breaker
  BY <1>2, <1>5
<1> QED
  BY <1>1, <1>3, <1>4, <1>5, SMTT(30) DEF Calls!PreHandle

LEMMA NextPermit ==
  CallsType /\ Calls!PermitsAreCarried /\ [Calls!Next]_(Calls!vars) => CallsType' /\ Calls!PermitsAreCarried'
<1> SUFFICES ASSUME CallsType, Calls!PermitsAreCarried, [Calls!Next]_(Calls!vars)
             PROVE  CallsType' /\ Calls!PermitsAreCarried'
  OBVIOUS
<1>0. at \in [Callers -> Nat] /\ breaker \in BreakerRec /\ chain \in Chains
  BY SMTT(30) DEF CallsType
<1>1. ASSUME UNCHANGED <<chain, breaker, at>> PROVE CallsType' /\ Calls!PermitsAreCarried'
  <2>1. CallsType'
    BY <1>0, <1>1, Zenon DEF CallsType
  <2> QED BY <1>1, <2>1, PermitKept
<1>2. CASE UNCHANGED Calls!vars \/ Calls!Turn
  BY <1>1, <1>2 DEF Calls!vars, Calls!Turn
<1>3. CASE Calls!Tick
  <2>1. /\ breaker' = [breaker EXCEPT !.age = IF breaker.age < Calls!OldestAge THEN breaker.age + 1 ELSE breaker.age]
        /\ UNCHANGED <<chain, at>>
    BY <1>3 DEF Calls!Tick
  <2>2. breaker' \in BreakerRec /\ (PermitOut(breaker') => PermitOut(breaker))
    BY <1>0, <2>1 DEF BreakerRec, PermitOut
  <2>3. CallsType'
    BY <1>0, <2>1, <2>2, Zenon DEF CallsType
  <2> QED BY <2>1, <2>2, <2>3, PermitKept
<1>4. CASE Calls!LateTimer
  BY <1>0, <1>4, RecordKeepsPermit, Zenon DEF Calls!LateTimer
<1> USE DEF Calls!Move, Calls!Finish, Calls!Idle
<1>5. ASSUME NEW c \in Callers, Calls!Begin(c) PROVE CallsType' /\ Calls!PermitsAreCarried'
  <2>1. at[c] = 0 /\ at' = [at EXCEPT ![c] = 1] /\ UNCHANGED <<chain, breaker>>
    BY <1>5 DEF Calls!Begin
  <2>2. CallsType'
    BY <1>0, <2>1, Zenon DEF CallsType
  <2>3. Calls!HasBreaker => \A d \in Callers : at[d] > Calls!Gate => at'[d] > Calls!Gate
    BY <1>0, <2>1, OneGate
  <2> QED BY <2>1, <2>2, <2>3, PermitKept, Zenon
<1>6. ASSUME NEW c \in Callers, Calls!SyncCallThrows(c) PROVE CallsType' /\ Calls!PermitsAreCarried'
  BY <1>1, <1>6, Zenon DEF Calls!SyncCallThrows
<1>7. ASSUME NEW c \in Callers, Calls!DoCall(c) PROVE CallsType' /\ Calls!PermitsAreCarried'
  <2>1. CASE at' = [at EXCEPT ![c] = Len(chain) + 2] /\ UNCHANGED <<chain, breaker>>
    <3>1. Len(chain) \in Nat
      BY <1>0, AdmissionConstants
    <3>2. CallsType'
      BY <1>0, <2>1, <3>1 DEF CallsType
    <3>3. Calls!HasBreaker => at'[c] > Calls!Gate
      BY <1>0, <2>1, <3>1, OneGate
    <3> QED BY <2>1, <3>2, <3>3, PermitKept, SMTT(30)
  <2>2. CASE Calls!Record(Calls!recordFailure(breaker)) /\ at' = [at EXCEPT ![c] = 0] /\ UNCHANGED chain
    BY <1>0, <2>2, RecordKeepsPermit
  <2> QED BY <1>7, <2>1, <2>2, Zenon DEF Calls!DoCall, Calls!Waiting
<1>8. ASSUME NEW c \in Callers, Calls!Reply(c) \/ Calls!Expire(c) PROVE CallsType' /\ Calls!PermitsAreCarried'
  <2>1. /\ at' = [at EXCEPT ![c] = 0] /\ UNCHANGED chain
        /\ \/ Calls!Record(Calls!recordSuccess(breaker)) \/ Calls!Record(Calls!recordFailure(breaker))
    BY <1>8, Zenon DEF Calls!Reply, Calls!Expire
  <2> QED BY <1>0, <2>1, RecordKeepsPermit
<1> QED
  BY <1>2, <1>3, <1>4, <1>5, <1>6, <1>7, <1>8, PreHandleKeepsPermit DEF Calls!Next, Calls!Proceed

\* In any chain with one breaker that nothing behind it refuses, and for any number of
\* callers, the permit of HALF_OPEN is out only while a call that passed the breaker is.
THEOREM PermitIsCarried == Calls!Spec => []PermitsAreCarried
<1>1. Calls!Init => CallsType /\ Calls!PermitsAreCarried
  BY DEF Calls!Init, CallsType, Calls!PermitsAreCarried, BreakerRec, Calls!OldestAge, Calls!Idle
<1> QED
  BY <1>1, NextPermit, PTL DEF Calls!Spec, PermitsAreCarried
=============================================================================
