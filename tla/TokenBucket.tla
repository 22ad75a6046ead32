---------------------------- MODULE TokenBucket ----------------------------
(***************************************************************************)
(* The local token bucket.  Every public method holds mutex_ from its      *)
(* first line to its last, so each is one action.  Tokens and time are     *)
(* whole numbers of the smallest unit: a rate is in tokens per tick.       *)
(***************************************************************************)
EXTENDS Integers

CONSTANTS Rates,       \* rates setRate may choose
          Capacities,  \* capacities setRate may choose
          MaxTime,     \* bound: ticks of the clock
          MaxGrants    \* bound: requests let through

ASSUME RatesAssumption == Rates \subseteq Nat /\ Capacities \subseteq Nat
ASSUME BoundsAssumption == MaxTime \in Nat /\ MaxGrants \in Nat

VARIABLES
  rate, capacity, tokens,  \* rate_, capacity_, tokens_
  lastRefill,              \* lastRefillTime_
  now,                     \* steady_clock (external)
  begin,                   \* start of the window that is being watched
  granted,                 \* requests let through since then
  total,                   \* requests let through in all
  earned                   \* the first bucket, and what each tick added at its own rate

vars == <<rate, capacity, tokens, lastRefill, now, begin, granted, total, earned>>

(* The constructor. *)
Init == /\ rate \in Rates /\ capacity \in Capacities
        /\ tokens = capacity /\ lastRefill = 0
        /\ now = 0 /\ begin = 0 /\ granted = 0 /\ total = 0 /\ earned = capacity

AtMost(n, limit) == IF n > limit THEN limit ELSE n

(* tokens_ after refill. *)
Refilled == AtMost(tokens + rate * (now - lastRefill), capacity)

(* refill does not move lastRefillTime_. *)
Allow_NoStamp ==
  /\ total < MaxGrants
  /\ \/ Refilled >= 1 /\ tokens' = Refilled - 1 /\ granted' = granted + 1 /\ total' = total + 1
     \/ Refilled < 1 /\ tokens' = Refilled /\ UNCHANGED <<granted, total>>
  /\ UNCHANGED <<rate, capacity, now, begin, earned, lastRefill>>

(* allow. *)
Allow ==
  /\ total < MaxGrants
  /\ lastRefill' = now
  /\ \/ Refilled >= 1 /\ tokens' = Refilled - 1 /\ granted' = granted + 1 /\ total' = total + 1
     \/ Refilled < 1 /\ tokens' = Refilled /\ UNCHANGED <<granted, total>>
  /\ UNCHANGED <<rate, capacity, now, begin, earned>>

(* Fault: setRate does not refill, so the ticks before count at the new rate. *)
SetRate_NoRefill ==
  /\ \E r \in Rates, c \in Capacities \cup {-1} :
       /\ rate' = r /\ capacity' = IF c >= 0 THEN c ELSE capacity
       /\ tokens' = AtMost(tokens, capacity')
  /\ begin' = now /\ granted' = 0
  /\ UNCHANGED <<now, total, earned, lastRefill>>

(* setRate; a negative capacity keeps the current one.  A new window starts. *)
SetRate ==
  /\ lastRefill' = now
  /\ \E r \in Rates, c \in Capacities \cup {-1} :
       /\ rate' = r /\ capacity' = IF c >= 0 THEN c ELSE capacity
       /\ tokens' = AtMost(Refilled, capacity')
  /\ begin' = now /\ granted' = 0
  /\ UNCHANGED <<now, total, earned>>

(* availableTokens refills too. *)
AvailableTokens ==
  /\ lastRefill' = now /\ tokens' = Refilled
  /\ UNCHANGED <<rate, capacity, now, begin, granted, total, earned>>

(* The clock, and the choice of another window to watch (external). *)
Tick  == now < MaxTime /\ now' = now + 1 /\ earned' = earned + rate
         /\ UNCHANGED <<rate, capacity, tokens, lastRefill, begin, granted, total>>
Watch == begin' = now /\ granted' = 0
         /\ UNCHANGED <<rate, capacity, tokens, lastRefill, now, total, earned>>

Next == Allow \/ SetRate \/ AvailableTokens \/ Tick \/ Watch

Spec == Init /\ [][Next]_vars
-----------------------------------------------------------------------------
(* The tokens never exceed the capacity, nor fall below zero. *)
TypeOK == /\ rate \in Nat /\ capacity \in Nat /\ tokens \in 0..capacity
          /\ now \in Nat /\ lastRefill \in 0..now /\ begin \in 0..now
          /\ granted \in Nat /\ total \in Nat /\ earned \in Nat

(* The limit itself: over any window in which the parameters did not change,
   allow lets through at most a full bucket and what the rate adds meanwhile.
   Over all time, and across every setRate, the requests let through and the
   tokens left are no more than the first bucket and what each tick added at
   the rate of that tick. *)
RateBound == granted <= capacity + rate * (now - begin) /\ total + tokens <= earned
=============================================================================
