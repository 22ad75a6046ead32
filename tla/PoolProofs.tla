----------------------------- MODULE PoolProofs -----------------------------
(***************************************************************************)
(* Proofs about the pool and its borrowers, for any number of users and    *)
(* connections: borrowed connections are not shared, acquire() gives up    *)
(* only when it must, a pooled connection serves one client at a time, and *)
(* each call through the pool is completed once or has yet to be.          *)
(***************************************************************************)
EXTENDS MCPool, Integers, TLAPS

USE PoolConstants, BorrowerConstants

\* A call is its client and its id; ids are handed out one by one.
LEMMA CallParts ==
  /\ \A c \in Pooled!Calls : c.client \in Borrowers /\ c.id \in Pooled!Ids
                          /\ c = [client |-> c.client, id |-> c.id]
  /\ \A k \in Borrowers, n \in Pooled!Ids :
       /\ [client |-> k, id |-> n] \in Pooled!Calls
       /\ [client |-> k, id |-> n].client = k /\ [client |-> k, id |-> n].id = n
  BY DEF Pooled!Calls

LEMMA NextId ==
  /\ \A m \in Nat \ {0}, n \in Pooled!Ids : n < m + 1 <=> n < m \/ n = m
  /\ \A m \in Nat \ {0} : /\ m + 1 \in Nat \ {0} /\ ~(m < m)
                          /\ m <= MaxCalls => m \in Pooled!Ids
  /\ 1 \in Nat \ {0} /\ \A n \in Pooled!Ids : ~(n < 1)
  /\ 0 + 1 = 1
  BY DEF Pooled!Ids

LEMMA HandlerKinds ==
  ASSUME NEW c, NEW d, NEW k
  PROVE  /\ Pooled!Idle.at = "idle" /\ [at |-> "timeout", call |-> c].at = "timeout"
         /\ [at |-> "reply", to |-> k, call |-> d].at = "reply" /\ [at |-> "beat", of |-> k].at = "beat"
         /\ Pooled!Idle.at # "timeout" /\ [at |-> "beat", of |-> k].at # "timeout"
         /\ [at |-> "reply", to |-> k, call |-> d].at # "timeout"
         /\ [at |-> "timeout", call |-> c].call = c
         /\ [at |-> "reply", to |-> k, call |-> d].to = k /\ [at |-> "reply", to |-> k, call |-> d].call = d
  BY DEF Pooled!Idle

Holding == {"claimed", "live", "clear", "unclaim"}

\* A user between its claim and the release of it is the owner; callbacks
\* are installed and removed by owners only.
OwnerInv ==
  /\ owner \in [Clients -> Users \cup {NoUser}]
  /\ callbacks \in [Clients -> Users \cup {NoUser}]
  /\ ref \in [Users -> Clients \cup {None}]
  /\ fallback \in [Users -> Clients \cup {None}]
  /\ upc \in [Users -> UPC]
  /\ nextIndex \in Nat
  /\ \A u \in Users : upc[u] \in {"test", "wipe"} => released
  /\ \A u \in Users : upc[u] \in Holding \cup {"got", "drop", "back", "test", "wipe"}
                        => ref[u] \in Clients
  /\ \A u \in Users : upc[u] \in Holding => owner[ref[u]] = u
  /\ \A u \in Users : upc[u] = "live" => released \/ callbacks[ref[u]] = u

LEMMA NoneIsNoClient == None \notin Clients
  BY SMTT(30) DEF None, Clients

LEMMA NextOwner == OwnerInv /\ [Next]_vars => OwnerInv'
<1> SUFFICES ASSUME OwnerInv, [Next]_vars PROVE OwnerInv'
  OBVIOUS
<1> USE NoneIsNoClient DEF OwnerInv, Holding, UPC, Goto, clientVars, userVars, poolVars
<1>1. CASE UNCHANGED vars
  BY <1>1 DEF vars
<1>2. CASE CreateReturnsFalse \/ DestroyPool
  BY <1>2 DEF CreateReturnsFalse, DestroyPool
<1>3. ASSUME NEW k \in Clients, CreateNext(k) \/ CreateFails(k) \/ Lose(k) \/ Reconnect(k)
      PROVE  OwnerInv'
  BY <1>3 DEF CreateNext, CreateFails, Lose, Reconnect
<1>4. ASSUME NEW u \in Users, Acquire(u) PROVE OwnerInv'
  BY <1>4 DEF Acquire
<1>5. ASSUME NEW u \in Users, Probe(u) PROVE OwnerInv'
  <2>1. nextIndex % N \in Clients
    BY DEF Clients
  <2>2. QED
    BY <1>5, <2>1 DEF Probe
<1>6. ASSUME NEW u \in Users, Give(u) PROVE OwnerInv'
  BY <1>6 DEF Give
<1>7. ASSUME NEW u \in Users, Claim(u) PROVE OwnerInv'
  BY <1>7 DEF Claim
<1>8. ASSUME NEW u \in Users, SetupCallbacks(u) \/ ClearCallbacks(u) PROVE OwnerInv'
  BY <1>8 DEF SetupCallbacks, ClearCallbacks
<1>9. ASSUME NEW u \in Users, DestroyClient(u) \/ Drop(u) PROVE OwnerInv'
  BY <1>9 DEF DestroyClient, Drop
<1>10. ASSUME NEW u \in Users, ReleaseClaim(u) PROVE OwnerInv'
  BY <1>10 DEF ReleaseClaim
<1>11. ASSUME NEW u \in Users, Release(u) \/ ReleaseTest(u) \/ ReleaseWipe(u)
       PROVE  OwnerInv'
  BY <1>11 DEF Release, ReleaseTest, ReleaseWipe
<1>12. QED
  BY <1>1, <1>2, <1>3, <1>4, <1>5, <1>6, <1>7, <1>8, <1>9, <1>10, <1>11 DEF Next, UserStep

\* Users never share a connection, however their acquire() calls, claims and
\* releases interleave, and unless somebody calls release() the callbacks of
\* a live client stay installed.
THEOREM OneUserPerConnection == Spec => []OwnersAreWired
<1>1. Init => OwnerInv
  BY DEF Init, OwnerInv, Holding, UPC, None, Clients
<1>2. OwnerInv => OwnersAreWired
  BY DEF OwnerInv, OwnersAreWired, Holding
<1>3. QED
  BY <1>1, <1>2, NextOwner, PTL DEF Spec

-----------------------------------------------------------------------------
(* acquire() *)

\* While acquire() runs it has the mutex, so nobody else moves nextIndex: its
\* attempts went through the last tries[u] indices.  A client that was free all
\* the time and was passed by is remembered as the fallback.
ProbeInv ==
  /\ nextIndex \in Nat /\ tries \in [Users -> Nat] /\ freeAll \in [Users -> SUBSET Clients]
  /\ \A u \in Users : upc[u] \in {"probe", "give", "test", "wipe"} => mutex = u
  /\ \A u \in Users : upc[u] \in {"idle", "probe"} => ref[u] = None
  /\ \A u \in Users : upc[u] = "probe" => tries[u] < N
  /\ \A u \in Users : upc[u] \in {"probe", "give"} =>
       /\ tries[u] <= nextIndex /\ freeAll[u] \subseteq Free
       /\ ref[u] = None /\ fallback[u] = None =>
            \A i \in Nat : i < nextIndex /\ nextIndex <= i + tries[u] => i % N \notin freeAll[u]
  /\ \A u \in Users : upc[u] = "give" /\ ref[u] = None => tries[u] = N

\* A number is its remainder and a multiple of N, in one way only.
LEMMA RemainderIsUnique ==
  ASSUME NEW q \in Nat, NEW d \in Nat, NEW k \in 0 .. N - 1, NEW r \in 0 .. N - 1,
         N * q + k = N * d + r
  PROVE  r = k
<1>1. N * q \in Nat /\ N * d \in Nat
  BY SMT
<1>2. N * d - N * q = k - r
  BY <1>1
<1>3. N * d - N * q = N * (d - q)
  BY SMT
<1>4. d - q >= 1 => N * (d - q) >= N
  BY SMT
<1>5. d - q <= -1 => N * (d - q) <= -N
  BY SMT
<1>6. d = q
  BY <1>2, <1>3, <1>4, <1>5
<1> QED
  BY <1>1, <1>2, <1>6

\* N indices in a row reach every client.
LEMMA RoundCovers ==
  ASSUME NEW n \in Nat, N <= n, NEW k \in Clients
  PROVE  \E i \in Nat : i < n /\ n <= i + N /\ i % N = k
<1> DEFINE m == n - 1 - k
           q == m \div N
           i == N * q + k
<1>1. m \in Nat
  BY DEF Clients
<1>2. q \in Nat /\ m = N * q + (m % N) /\ m % N \in 0 .. N - 1
  BY <1>1, SMT
<1>3. N * q \in Nat
  BY <1>2, SMT
<1>4. i % N = k
  <2>1. i = N * (i \div N) + (i % N) /\ i % N \in 0 .. N - 1 /\ i \div N \in Nat
    BY <1>3, SMT DEF Clients
  <2> QED BY <1>2, <2>1, RemainderIsUnique DEF Clients
<1>5. i \in Nat /\ i < n /\ n <= i + N
  BY <1>1, <1>2, <1>3 DEF Clients
<1> QED
  BY <1>4, <1>5

LEMMA ProbeStep ==
  ASSUME OwnerInv, ProbeInv, NEW u \in Users, Probe(u)
  PROVE  ProbeInv'
<1> DEFINE k == nextIndex % N
<1>1. k \in Clients /\ N \in Nat /\ nextIndex \in Nat
  BY DEF ProbeInv, Clients
<1>2. /\ upc[u] = "probe" /\ tries[u] \in Nat /\ tries[u] < N /\ mutex = u /\ ref[u] = None
      /\ nextIndex' = nextIndex + 1 /\ tries' = [tries EXCEPT ![u] = @ + 1]
      /\ UNCHANGED <<mutex, owner, freeAll>>
      /\ upc' = [upc EXCEPT ![u] = upc'[u]] /\ upc'[u] \in {"probe", "give"}
  BY DEF Probe, Goto, clientVars, ProbeInv, OwnerInv, UPC
<1>3. \A v \in Users : v # u => upc[v] \notin {"probe", "give", "test", "wipe"}
  BY <1>2 DEF ProbeInv
<1>4. \A v \in Users : v # u => upc'[v] = upc[v] /\ ref'[v] = ref[v] /\ tries'[v] = tries[v]
  BY DEF Probe, Goto, ProbeInv, OwnerInv
<1>5. nextIndex' \in Nat /\ tries' \in [Users -> Nat] /\ tries'[u] = tries[u] + 1
  BY <1>1, <1>2 DEF ProbeInv
<1>6. freeAll[u] \subseteq Free /\ tries[u] <= nextIndex /\ Free' = Free
  BY <1>2 DEF ProbeInv, Free
<1>7. ref'[u] = None /\ fallback'[u] = None => fallback[u] = None /\ k \notin Free
  BY <1>1, NoneIsNoClient DEF Probe, OwnerInv, Free
<1>8. upc'[u] = "probe" => ref'[u] = None /\ tries'[u] < N
  BY <1>2, <1>5, NoneIsNoClient DEF Probe, OwnerInv, Goto
<1>9. upc'[u] = "give" /\ ref'[u] = None => tries'[u] = N
  BY <1>1, <1>2, <1>5, NoneIsNoClient DEF Probe, OwnerInv, Goto
<1>10. ref'[u] = None /\ fallback'[u] = None =>
         \A i \in Nat : i < nextIndex' /\ nextIndex' <= i + tries'[u] => i % N \notin freeAll[u]
  <2> SUFFICES ASSUME ref'[u] = None, fallback'[u] = None, NEW i \in Nat,
                      i < nextIndex + 1, nextIndex + 1 <= i + tries[u] + 1
               PROVE  i % N \notin freeAll[u]
    BY <1>1, <1>2, <1>5
  <2>1. CASE i = nextIndex
    BY <2>1, <1>6, <1>7
  <2>2. CASE i # nextIndex
    <3>1. i < nextIndex /\ nextIndex <= i + tries[u]
      BY <2>2, <1>1, <1>2
    <3> QED BY <3>1, <1>2, <1>7 DEF ProbeInv
  <2> QED BY <2>1, <2>2
<1> QED
  BY <1>1, <1>2, <1>3, <1>4, <1>5, <1>6, <1>8, <1>9, <1>10 DEF ProbeInv

LEMMA NextProbe == OwnerInv /\ ProbeInv /\ [Next]_vars => ProbeInv'
<1> SUFFICES ASSUME OwnerInv, ProbeInv, [Next]_vars PROVE ProbeInv'
  OBVIOUS
<1> USE NoneIsNoClient DEF OwnerInv, Holding, UPC, Goto, clientVars, userVars, poolVars, ProbeInv, Free
<1>1. CASE UNCHANGED vars
  BY <1>1 DEF vars
<1>2. CASE CreateReturnsFalse \/ DestroyPool
  BY <1>2 DEF CreateReturnsFalse, DestroyPool
<1>3. ASSUME NEW k \in Clients, CreateNext(k) \/ CreateFails(k) \/ Lose(k) \/ Reconnect(k)
      PROVE  ProbeInv'
  BY <1>3, SMTT(30) DEF CreateNext, CreateFails, Lose, Reconnect
<1>4. ASSUME NEW u \in Users, Acquire(u) PROVE ProbeInv'
  BY <1>4 DEF Acquire
<1>5. ASSUME NEW u \in Users, Give(u) PROVE ProbeInv'
  BY <1>5 DEF Give
<1>6. ASSUME NEW u \in Users, Claim(u) PROVE ProbeInv'
  BY <1>6 DEF Claim
<1>7. ASSUME NEW u \in Users, SetupCallbacks(u) \/ ClearCallbacks(u) PROVE ProbeInv'
  <2>1. CASE SetupCallbacks(u)
    BY <2>1 DEF SetupCallbacks
  <2>2. CASE ClearCallbacks(u)
    BY <2>2 DEF ClearCallbacks
  <2> QED BY <1>7, <2>1, <2>2
<1>8. ASSUME NEW u \in Users, DestroyClient(u) \/ Drop(u) PROVE ProbeInv'
  <2>1. CASE DestroyClient(u)
    BY <2>1 DEF DestroyClient
  <2>2. CASE Drop(u)
    BY <2>2 DEF Drop
  <2> QED BY <1>8, <2>1, <2>2, Zenon
<1>9. ASSUME NEW u \in Users, ReleaseClaim(u) PROVE ProbeInv'
  BY <1>9 DEF ReleaseClaim
<1>10. ASSUME NEW u \in Users, Release(u) \/ ReleaseTest(u) \/ ReleaseWipe(u)
       PROVE  ProbeInv'
  BY <1>10 DEF Release, ReleaseTest, ReleaseWipe
<1> QED
  BY <1>1, <1>2, <1>3, <1>4, <1>5, <1>6, <1>7, <1>8, <1>9, <1>10, ProbeStep, Zenon DEF Next, UserStep

\* acquire() returns nullptr only if no connection was unclaimed all the while it ran,
\* for any number of users and any pool size, and wherever nextIndex stood.
THEOREM NullOnlyWhenBusy == Spec => []NullMeansBusy
<1> DEFINE Inv == OwnerInv /\ ProbeInv
<1>1. Init => Inv
  BY DEF Init, OwnerInv, ProbeInv, Holding, UPC, None, Clients
<1>2. Inv /\ [Next]_vars => Inv'
  BY NextOwner, NextProbe
<1>3. Inv => NullMeansBusy
  <2> SUFFICES ASSUME Inv, NEW u \in Users,
                      upc[u] = "give", ref[u] = None, fallback[u] = None, NEW k \in freeAll[u]
               PROVE  FALSE
    BY DEF NullMeansBusy
  <2>1. tries[u] = N /\ tries[u] <= nextIndex /\ nextIndex \in Nat /\ k \in Clients
    BY DEF ProbeInv
  <2>2. PICK i \in Nat : i < nextIndex /\ nextIndex <= i + N /\ i % N = k
    BY <2>1, RoundCovers, Zenon
  <2> QED BY <2>1, <2>2, Zenon DEF ProbeInv
<1> QED
  BY <1>1, <1>2, <1>3, PTL DEF Spec

\* For any number of users and connections: acquire() lends a connection that only one user
\* claims, and gives up only when none was free.
THEOREM PoolLendsSoundly == Spec => []AcquireIsSound
  BY OneUserPerConnection, NullOnlyWhenBusy, PTL DEF AcquireIsSound
-----------------------------------------------------------------------------
(* The clients on a pooled connection *)

Owning == {"claimed", "wiring", "live", "parting", "partConn", "apart", "clearing", "clearConn", "releasing"}
Wired == {"wiring", "live", "parting", "clearing"}

\* From its successful tryClaim() to its destructor's releaseClaim() the claim is the client's,
\* and between setupCallbacks() and clearCallbacks() the callback is its own.
ClaimInv ==
  /\ life \in [Borrowers -> Pooled!Life]
  /\ \A k \in Borrowers : life[k] \in Owning => claim = k
  /\ \A k \in Borrowers : life[k] \in Wired => clientCb = k
  /\ clientCb # NoClient => clientCb \in Borrowers /\ life[clientCb] \in Wired

LEMMA InitClaim == Pooled!Init => ClaimInv
  BY DEF Pooled!Init, ClaimInv, Pooled!Life, Owning, Wired

\* What the destructor has before it, by how it finds its client.
LEMMA AfterDestroy ==
  ASSUME NEW k \in Borrowers, Pooled!Destroy(k)
  PROVE  \/ life[k] = "live" /\ Pooled!Becomes(k, "clearing")
         \/ life[k] = "apart" /\ Pooled!Becomes(k, "draining")
         \/ life[k] = "invalid" /\ Pooled!Becomes(k, "freed")
<1> DEFINE next == [live |-> "clearing", apart |-> "draining", invalid |-> "freed"]
<1>1. next["live"] = "clearing" /\ next["apart"] = "draining" /\ next["invalid"] = "freed"
  OBVIOUS
<1>2. life[k] \in {"live", "apart", "invalid"} /\ Pooled!Becomes(k, next[life[k]])
  BY Zenon DEF Pooled!Destroy
<1> HIDE DEF next
<1> QED BY <1>1, <1>2, Zenon

\* Steps of a client's own thread.
LEMMA ClientClaim ==
  ASSUME NEW k \in Borrowers, ClaimInv,
         Pooled!Claim(k) \/ Pooled!CallInvalid(k) \/ Pooled!Call(k) \/ Pooled!StartHeartbeat(k)
           \/ Pooled!Disconnect(k) \/ Pooled!Destroy(k)
           \/ Pooled!ClientStep(k) \/ Pooled!CollectBeat(k)
  PROVE  ClaimInv'
<1> USE DEF ClaimInv, Pooled!Life, Owning, Wired, Pooled!Becomes
<1>1. CASE Pooled!Claim(k)
  BY <1>1, Zenon DEF Pooled!Claim
<1>2. CASE Pooled!CallInvalid(k) \/ Pooled!Call(k) \/ Pooled!StartHeartbeat(k) \/ Pooled!CollectBeat(k)
  BY <1>2, Zenon DEF Pooled!CallInvalid, Pooled!Call, Pooled!StartHeartbeat, Pooled!CollectBeat, Pooled!tcpVars
<1>3. CASE Pooled!Destroy(k) \/ Pooled!Disconnect(k)
  <2>1. UNCHANGED <<claim, clientCb>>
    BY <1>3, Zenon DEF Pooled!Destroy, Pooled!Disconnect, Pooled!tcpVars
  <2>2. CASE Pooled!Destroy(k)
    BY <2>1, <2>2, AfterDestroy, SMTT(30)
  <2>3. CASE Pooled!Disconnect(k)
    BY <2>1, <2>3 DEF Pooled!Disconnect
  <2> QED BY <1>3, <2>2, <2>3, Zenon
<1>4. CASE Pooled!WireClient(k)
  BY <1>4 DEF Pooled!WireClient
<1>5. CASE Pooled!WireConn(k)
  BY <1>5 DEF Pooled!WireConn
<1>6. CASE Pooled!ClearClient(k)
  BY <1>6 DEF Pooled!ClearClient
<1>7. CASE Pooled!ClearConn(k)
  BY <1>7 DEF Pooled!ClearConn
<1>8. CASE Pooled!ReleaseClaim(k)
  BY <1>8 DEF Pooled!ReleaseClaim
<1>9. CASE Pooled!Drain(k)
  BY <1>9, Zenon DEF Pooled!Drain, Pooled!tcpVars
<1>10. QED
  BY <1>1, <1>2, <1>3, <1>4, <1>5, <1>6, <1>7, <1>8, <1>9 DEF Pooled!ClientStep

\* The loop's thread reads claim and callback and changes neither.
LEMMA NextClaim == ClaimInv /\ [Pooled!Next]_(Pooled!vars) => ClaimInv'
<1> SUFFICES ASSUME ClaimInv, [Pooled!Next]_(Pooled!vars) PROVE ClaimInv'
  OBVIOUS
<1>1. CASE UNCHANGED <<claim, clientCb, life>>
  BY <1>1 DEF ClaimInv
<1>2. QED
  BY <1>1, ClientClaim, Zenon
  DEF Pooled!Next, Pooled!vars, Pooled!tcpVars, Pooled!FireTimer, Pooled!OnMessage, Pooled!Answer, Pooled!TimeoutLocked, Pooled!ResponseLocked,
      Pooled!Beat, Pooled!Lose, Pooled!NewConnection, Pooled!PublishConnection

\* For any number of clients that race for one pooled connection and die in
\* any order, the callbacks of the connection's TcpClient are those of the
\* claim's holder, and a live client keeps both until it is destroyed.
THEOREM ClaimIsExclusive == Pooled!Spec => []ClaimGuardsCallbacks
<1>1. ClaimInv => ClaimGuardsCallbacks
  BY DEF ClaimInv, ClaimGuardsCallbacks, Pooled!ClaimGuardsCallbacks, Owning, Wired
<1>2. QED
  BY <1>1, InitClaim, NextClaim, PTL DEF Pooled!Spec

-----------------------------------------------------------------------------
(* The calls on a pooled connection *)

Ending == {"clearing", "clearConn", "releasing", "draining"}
Made(c) == c.id < nextReqId[c.client]
Entered(c) == c.id \in pending[c.client]
Waking(c) == [at |-> "timeout", call |-> c]

\* What the loop's thread is in the middle of.
HandlerType ==
  \/ handler = Pooled!Idle
  \/ \E c \in Pooled!Calls : handler = Waking(c)
  \/ \E k \in Borrowers, c \in Pooled!Calls : handler = [at |-> "reply", to |-> k, call |-> c]
  \/ \E k \in Borrowers : handler = [at |-> "beat", of |-> k]

CallTypes ==
  /\ DOMAIN life = Borrowers /\ DOMAIN pending = Borrowers /\ DOMAIN completions = Pooled!Calls
  /\ nextReqId \in [Borrowers -> Nat \ {0}]
  /\ connCb \in Borrowers \cup {NoClient} /\ connecting \in Borrowers \cup {NoClient, "no"}
  /\ HandlerType

\* An entry in the table is a call that was made and has no result, of a client that is
\* alive or in its destructor: whoever takes it out is the first to complete the call.
Kept(c) ==
  /\ Entered(c) => Made(c) /\ completions[c] = 0 /\ life[c.client] \in Ending \cup Pooled!Alive
  /\ ~Made(c) => completions[c] = 0
  /\ Made(c) => \/ completions[c] = 1
                \/ Entered(c) /\ (c \in timers \/ handler = Waking(c) \/ life[c.client] \in Ending)
KeptInv == CallTypes /\ \A c \in Pooled!Calls : Kept(c)

\* Steps that move nothing but handler, and do not leave a handleTimeout().
LEMMA HandlerMoves ==
  ASSUME KeptInv, UNCHANGED <<life, nextReqId, pending, timers, completions>>, CallTypes',
         handler' = handler \/ \A c \in Pooled!Calls : handler # Waking(c)
  PROVE  KeptInv'
<1>1. ASSUME NEW c \in Pooled!Calls PROVE Kept(c)'
  <2>1. Kept(c) BY Zenon DEF KeptInv
  <2> QED BY <2>1, Zenon DEF Kept, Made, Entered, Waking
<1> QED BY <1>1, Zenon DEF KeptInv

\* Steps of a constructor, of disconnect(), or of a destructor before the table is drained.
LEMMA LifeMoves ==
  ASSUME KeptInv, NEW k \in Borrowers, NEW l, Pooled!Becomes(k, l),
         UNCHANGED <<nextReqId, pending, timers, handler, completions>>,
         connCb' \in Borrowers \cup {NoClient}, connecting' = connecting,
         life[k] \in Ending => l \in Ending, life[k] \in Pooled!Alive => l \in Ending \cup Pooled!Alive
  PROVE  KeptInv'
<1>1. DOMAIN life' = Borrowers /\ life'[k] = l /\ \A q \in Borrowers \ {k} : life'[q] = life[q]
  BY Zenon DEF Pooled!Becomes, KeptInv, CallTypes
<1>2. CallTypes'
  BY <1>1, Zenon DEF KeptInv, CallTypes, HandlerType, Waking
<1>3. ASSUME NEW c \in Pooled!Calls PROVE Kept(c)'
  <2>1. Kept(c) /\ c.client \in Borrowers
    BY CallParts, Zenon DEF KeptInv
  <2>2. (Made(c)' <=> Made(c)) /\ (Entered(c)' <=> Entered(c)) /\ Waking(c)' = Waking(c)
    BY Zenon DEF Made, Entered, Waking
  <2>3. CASE c.client # k
    BY <1>1, <2>1, <2>2, <2>3, Zenon DEF Kept
  <2>4. CASE c.client = k
    BY <1>1, <2>1, <2>2, <2>4, Zenon DEF Kept
  <2> QED BY <2>3, <2>4, Zenon
<1> QED BY <1>2, <1>3, Zenon DEF KeptInv

\* The entry of one call is taken out of the table and completed, if it is there.
LEMMA ResolveOnce ==
  ASSUME KeptInv, NEW k \in Borrowers, NEW n \in Pooled!Ids, NEW o, Pooled!Resolve(k, n, o),
         UNCHANGED <<life, nextReqId, timers>>, CallTypes',
         \A c \in Pooled!Calls : handler = Waking(c) => c = [client |-> k, id |-> n]
  PROVE  KeptInv'
<1> DEFINE d == [client |-> k, id |-> n]
<1>0. d \in Pooled!Calls /\ d.client = k /\ d.id = n
  BY CallParts, Zenon
<1>1. CASE n \in pending[k]
  <2>1. /\ pending' = [pending EXCEPT ![k] = pending[k] \ {n}]
        /\ completions' = [completions EXCEPT ![d] = completions[d] + 1]
    BY <1>1, Zenon DEF Pooled!Resolve
  <2>2. /\ pending'[k] = pending[k] \ {n} /\ completions'[d] = completions[d] + 1
        /\ \A q \in Borrowers \ {k} : pending'[q] = pending[q]
        /\ \A c \in Pooled!Calls \ {d} : completions'[c] = completions[c]
    BY <1>0, <2>1, Zenon DEF KeptInv, CallTypes
  <2>3. ASSUME NEW c \in Pooled!Calls PROVE Kept(c)'
    <3>1. Kept(c) /\ c.client \in Borrowers /\ c = [client |-> c.client, id |-> c.id]
      BY CallParts, Zenon DEF KeptInv
    <3>2. (Made(c)' <=> Made(c)) /\ Waking(c)' = Waking(c)
      BY Zenon DEF Made, Waking
    <3>3. CASE c = d
      <4>1. Entered(c) /\ ~Entered(c)'
        BY <1>0, <1>1, <2>2, <3>3, Zenon DEF Entered
      <4>2. completions'[c] = 1
        BY <2>2, <3>1, <3>3, <4>1, NextId, Zenon DEF Kept
      <4> QED BY <3>1, <3>2, <4>1, <4>2, Zenon DEF Kept
    <3>4. CASE c # d
      <4>1. Entered(c)' <=> Entered(c)
        BY <2>2, <3>1, <3>4, Zenon DEF Entered
      <4>2. completions'[c] = completions[c] /\ handler # Waking(c)
        BY <2>2, <3>4, Zenon
      <4> QED BY <3>1, <3>2, <4>1, <4>2, Zenon DEF Kept
    <3> QED BY <3>3, <3>4, Zenon
  <2> QED BY <2>3, Zenon DEF KeptInv
<1>2. CASE n \notin pending[k]
  <2>1. UNCHANGED <<pending, completions>>
    BY <1>2, Zenon DEF Pooled!Resolve, Pooled!resultVars
  <2>2. ASSUME NEW c \in Pooled!Calls PROVE Kept(c)'
    <3>1. Kept(c)
      BY Zenon DEF KeptInv
    <3>2. /\ (Made(c)' <=> Made(c)) /\ (Entered(c)' <=> Entered(c)) /\ Waking(c)' = Waking(c)
      BY <2>1, Zenon DEF Made, Entered, Waking
    <3>3. handler = Waking(c) => ~Entered(c)
      BY <1>0, <1>2, Zenon DEF Entered
    <3> QED BY <2>1, <3>1, <3>2, <3>3, Zenon DEF Kept
  <2> QED BY <2>2, Zenon DEF KeptInv
<1> QED BY <1>1, <1>2, Zenon

\* asyncCall(): the call is entered with its timer, or completed at once.
LEMMA CallsAreKept ==
  ASSUME KeptInv, NEW k \in Borrowers, Pooled!Call(k) \/ Pooled!CallInvalid(k)
  PROVE  KeptInv'
<1> PICK n : n = nextReqId[k]
  OBVIOUS
<1> DEFINE d == [client |-> k, id |-> n]
<1>0. n \in Nat \ {0} /\ n <= MaxCalls /\ nextReqId' = [nextReqId EXCEPT ![k] = n + 1]
  BY Zenon DEF Pooled!Call, Pooled!CallInvalid, KeptInv, CallTypes
<1>1. n \in Pooled!Ids /\ d \in Pooled!Calls /\ d.client = k /\ d.id = n
  BY <1>0, NextId, CallParts, Zenon
<1>2. /\ nextReqId' \in [Borrowers -> Nat \ {0}] /\ nextReqId'[k] = n + 1
      /\ \A q \in Borrowers \ {k} : nextReqId'[q] = nextReqId[q]
  BY <1>0, NextId, Zenon DEF KeptInv, CallTypes
<1>3. /\ UNCHANGED <<life, handler, connCb, connecting>>
      /\ timers' = timers \/ timers' = timers \cup {d}
      /\ \/ pending' = pending /\ completions' = [completions EXCEPT ![d] = completions[d] + 1]
         \/ /\ life[k] \in Pooled!Alive /\ pending' = [pending EXCEPT ![k] = pending[k] \cup {n}]
            /\ timers' = timers \cup {d} /\ completions' = completions
  BY <1>1, Zenon DEF Pooled!Call, Pooled!CallInvalid, Pooled!tcpVars, Pooled!loopVars, Pooled!Alive
<1>4. CallTypes'
  BY <1>2, <1>3, Zenon DEF KeptInv, CallTypes, HandlerType, Waking
<1>5. ~Made(d) /\ Made(d)'
  <2>1. ~(n < n) /\ n < n + 1
    BY <1>0, <1>1, NextId, Zenon
  <2> HIDE DEF d
  <2> QED BY <1>1, <1>2, <2>1, Zenon DEF Made
<1>6. completions[d] = 0 /\ ~Entered(d)
  BY <1>1, <1>5, Zenon DEF KeptInv, Kept
<1>7. ASSUME NEW c \in Pooled!Calls \ {d} PROVE Kept(c)'
  <2>1. Kept(c) /\ c.client \in Borrowers /\ c.id \in Pooled!Ids /\ c = [client |-> c.client, id |-> c.id]
    BY <1>7, CallParts, Zenon DEF KeptInv
  <2>2. c.client = k => c.id # n
    BY <1>7, <2>1, Zenon
  <2>3. Made(c)' <=> Made(c)
    <3>1. CASE c.client = k
      <4>1. c.id < n + 1 <=> c.id < n
        BY <1>0, <2>1, <2>2, <3>1, NextId, Zenon
      <4> QED BY <1>2, <3>1, <4>1, Zenon DEF Made
    <3>2. CASE c.client # k
      BY <1>2, <2>1, <3>2, Zenon DEF Made
    <3> QED BY <3>1, <3>2, Zenon
  <2>4. completions'[c] = completions[c] /\ (c \in timers => c \in timers')
    BY <1>1, <1>3, <1>7, Zenon DEF KeptInv, CallTypes
  <2>5. Entered(c)' <=> Entered(c)
    <3>1. CASE pending' = pending
      BY <3>1, Zenon DEF Entered
    <3>2. CASE pending' = [pending EXCEPT ![k] = pending[k] \cup {n}]
      <4>1. pending'[k] = pending[k] \cup {n} /\ \A q \in Borrowers \ {k} : pending'[q] = pending[q]
        BY <3>2, Zenon DEF KeptInv, CallTypes
      <4>2. CASE c.client = k
        BY <2>2, <4>1, <4>2, Zenon DEF Entered
      <4>3. CASE c.client # k
        BY <2>1, <4>1, <4>3, Zenon DEF Entered
      <4> QED BY <4>2, <4>3, Zenon
    <3> QED BY <1>3, <3>1, <3>2, Zenon
  <2> QED BY <1>3, <2>1, <2>3, <2>4, <2>5, Zenon DEF Kept, Waking
<1>8. Kept(d)'
  <2>1. CASE pending' = pending /\ completions' = [completions EXCEPT ![d] = completions[d] + 1]
    <3>1. completions'[d] = 1
      BY <1>1, <1>6, <2>1, NextId, Zenon DEF KeptInv, CallTypes
    <3>2. ~Entered(d)'
      BY <1>6, <2>1, Zenon DEF Entered
    <3> QED BY <1>5, <3>1, <3>2, Zenon DEF Kept
  <2>2. CASE /\ life[k] \in Pooled!Alive /\ pending' = [pending EXCEPT ![k] = pending[k] \cup {n}]
             /\ timers' = timers \cup {d} /\ completions' = completions
    <3>1. Entered(d)'
      BY <1>1, <2>2, Zenon DEF Entered, KeptInv, CallTypes
    <3>2. completions'[d] = 0 /\ life'[d.client] \in Pooled!Alive /\ d \in timers'
      BY <1>1, <1>3, <1>6, <2>2, Zenon
    <3> QED BY <1>5, <3>1, <3>2, Zenon DEF Kept
  <2> QED BY <1>3, <2>1, <2>2, Zenon
<1> QED BY <1>4, <1>7, <1>8, Zenon DEF KeptInv

\* The destructor completes what is left.
LEMMA DrainKeeps ==
  ASSUME KeptInv, NEW k \in Borrowers, Pooled!Drain(k)
  PROVE  KeptInv'
<1> DEFINE left == {c \in Pooled!Calls : c.client = k /\ c.id \in pending[k]}
<1>1. /\ life[k] = "draining" /\ life' = [life EXCEPT ![k] = "freed"]
      /\ pending' = [pending EXCEPT ![k] = {}]
      /\ completions' = [c \in Pooled!Calls |-> IF c \in left THEN completions[c] + 1 ELSE completions[c]]
      /\ UNCHANGED <<nextReqId, timers, handler, connCb, connecting>>
  BY Zenon DEF Pooled!Drain, Pooled!Becomes, Pooled!tcpVars, Pooled!loopVars
<1>2. /\ pending'[k] = {} /\ \A q \in Borrowers \ {k} : pending'[q] = pending[q] /\ life'[q] = life[q]
      /\ CallTypes'
  BY <1>1, Zenon DEF KeptInv, CallTypes, HandlerType, Waking
<1>3. ASSUME NEW c \in Pooled!Calls PROVE Kept(c)'
  <2>1. Kept(c) /\ c.client \in Borrowers
    BY CallParts, Zenon DEF KeptInv
  <2>2. (Made(c)' <=> Made(c)) /\ Waking(c)' = Waking(c)
    BY <1>1, Zenon DEF Made, Waking
  <2>3. CASE c.client = k
    <3>1. ~Entered(c)'
      BY <1>2, <2>3, Zenon DEF Entered
    <3>2. Entered(c) => completions'[c] = 1
      BY <1>1, <2>1, <2>3, NextId, Zenon DEF Entered, Kept
    <3>3. ~Entered(c) => completions'[c] = completions[c]
      BY <1>1, <2>3, Zenon DEF Entered
    <3> QED BY <2>1, <2>2, <3>1, <3>2, <3>3, Zenon DEF Kept
  <2>4. CASE c.client # k
    <3>1. /\ (Entered(c)' <=> Entered(c)) /\ completions'[c] = completions[c]
          /\ life'[c.client] = life[c.client]
      BY <1>1, <1>2, <2>1, <2>4, Zenon DEF Entered
    <3> QED BY <1>1, <2>1, <2>2, <3>1, Zenon DEF Kept
  <2> QED BY <2>3, <2>4, Zenon
<1> QED BY <1>2, <1>3, Zenon DEF KeptInv

\* Steps of the client's thread.
LEMMA ClientKeeps ==
  ASSUME KeptInv, NEW k \in Borrowers,
         Pooled!Claim(k) \/ Pooled!CallInvalid(k) \/ Pooled!Call(k) \/ Pooled!StartHeartbeat(k)
           \/ Pooled!Disconnect(k) \/ Pooled!Destroy(k)
           \/ Pooled!ClientStep(k)
  PROVE  KeptInv'
<1>0. connCb \in Borrowers \cup {NoClient}
  BY Zenon DEF KeptInv, CallTypes
<1>1. CASE Pooled!Claim(k)
  <2>1. PICK l : Pooled!Becomes(k, l)
    BY <1>1, Zenon DEF Pooled!Claim
  <2> QED BY <1>0, <1>1, <2>1, LifeMoves, Zenon DEF Pooled!Claim, Pooled!loopVars, Pooled!resultVars, Ending, Pooled!Alive
<1>2. CASE Pooled!WireClient(k)
  BY <1>0, <1>2, LifeMoves, Zenon DEF Pooled!WireClient, Pooled!loopVars, Pooled!resultVars, Ending, Pooled!Alive
<1>3. CASE Pooled!WireConn(k)
  <2>1. connCb' \in Borrowers \cup {NoClient}
    BY <1>0, <1>3, Zenon DEF Pooled!WireConn
  <2> QED BY <1>3, <2>1, LifeMoves, Zenon DEF Pooled!WireConn, Pooled!loopVars, Pooled!resultVars, Ending, Pooled!Alive
<1>4. CASE Pooled!Destroy(k)
  <2>1. /\ UNCHANGED <<nextReqId, pending, timers, handler, completions, connCb, connecting>>
        /\ \/ life[k] = "live" /\ Pooled!Becomes(k, "clearing")
           \/ life[k] = "apart" /\ Pooled!Becomes(k, "draining")
           \/ life[k] = "invalid" /\ Pooled!Becomes(k, "freed")
    <3>1. UNCHANGED <<nextReqId, pending, timers, handler, completions, connCb, connecting>>
      BY <1>4 DEF Pooled!Destroy, Pooled!tcpVars, Pooled!resultVars
    <3> QED BY <1>4, <3>1, AfterDestroy, Zenon
  <2> QED BY <1>0, <2>1, LifeMoves, Zenon DEF Ending, Pooled!Alive
<1>5. CASE Pooled!ClearClient(k)
  BY <1>0, <1>5, LifeMoves, Zenon DEF Pooled!ClearClient, Pooled!loopVars, Pooled!resultVars, Ending, Pooled!Alive
<1>6. CASE Pooled!ClearConn(k)
  <2>1. connCb' \in Borrowers \cup {NoClient}
    BY <1>0, <1>6, Zenon DEF Pooled!ClearConn
  <2> QED BY <1>6, <2>1, LifeMoves, Zenon DEF Pooled!ClearConn, Pooled!loopVars, Pooled!resultVars, Ending, Pooled!Alive
<1>7. CASE Pooled!ReleaseClaim(k)
  BY <1>0, <1>7, LifeMoves, Zenon DEF Pooled!ReleaseClaim, Pooled!loopVars, Pooled!resultVars, Ending, Pooled!Alive
<1>8. CASE Pooled!StartHeartbeat(k)
  <2>1. UNCHANGED <<life, nextReqId, pending, timers, completions, handler, connCb, connecting>>
    BY <1>8, Zenon DEF Pooled!StartHeartbeat, Pooled!tcpVars, Pooled!resultVars
  <2>2. CallTypes'
    BY <2>1, Zenon DEF KeptInv, CallTypes, HandlerType, Waking
  <2> QED BY <2>1, <2>2, HandlerMoves, Zenon
<1>9. CASE Pooled!Disconnect(k)
  BY <1>0, <1>9, LifeMoves, Zenon
  DEF Pooled!Disconnect, Pooled!tcpVars, Pooled!loopVars, Pooled!resultVars, Ending, Pooled!Alive
<1> QED
  BY <1>1, <1>2, <1>3, <1>4, <1>5, <1>6, <1>7, <1>8, <1>9, CallsAreKept, DrainKeeps, Zenon DEF Pooled!ClientStep

\* A timer falls due: handleTimeout() returns if the destructor has begun, which will
\* complete the call, and goes on to lock the table otherwise.
LEMMA TimerKeeps ==
  ASSUME KeptInv, NEW d \in Pooled!Calls, Pooled!FireTimer(d)
  PROVE  KeptInv'
<1>1. /\ handler = Pooled!Idle /\ timers' = timers \ {d}
      /\ handler' = IF life[d.client] \in Pooled!Alive THEN Waking(d) ELSE Pooled!Idle
      /\ UNCHANGED <<life, nextReqId, pending, completions, connCb, connecting>>
  BY Zenon DEF Pooled!FireTimer, Pooled!tcpVars, Pooled!resultVars, Waking
<1>2. CallTypes'
  BY <1>1, Zenon DEF KeptInv, CallTypes, HandlerType, Waking
<1>3. ASSUME NEW c \in Pooled!Calls PROVE Kept(c)'
  <2>1. Kept(c) /\ handler # Waking(c)
    BY <1>1, HandlerKinds, Zenon DEF KeptInv, Waking
  <2>2. (Made(c)' <=> Made(c)) /\ (Entered(c)' <=> Entered(c)) /\ Waking(c)' = Waking(c)
    BY <1>1, Zenon DEF Made, Entered, Waking
  <2>3. CASE c # d
    BY <1>1, <2>1, <2>2, <2>3, Zenon DEF Kept
  <2>4. CASE c = d
    <3>1. CASE life[d.client] \in Pooled!Alive
      BY <1>1, <2>1, <2>2, <2>4, <3>1, Zenon DEF Kept
    <3>2. CASE life[d.client] \notin Pooled!Alive
      BY <1>1, <2>1, <2>2, <2>4, <3>2, Zenon DEF Kept
    <3> QED BY <3>1, <3>2, Zenon
  <2> QED BY <2>3, <2>4, Zenon
<1> QED BY <1>2, <1>3, Zenon DEF KeptInv

\* The two handlers that look a call up in a table.
LEMMA LookupKeeps ==
  ASSUME KeptInv, Pooled!TimeoutLocked \/ Pooled!ResponseLocked
  PROVE  KeptInv'
<1>0. /\ handler' = Pooled!Idle /\ UNCHANGED <<life, nextReqId, timers, connCb, connecting>>
  BY Zenon DEF Pooled!TimeoutLocked, Pooled!ResponseLocked, Pooled!tcpVars
<1>1. ASSUME NEW k, NEW n, NEW o, Pooled!Resolve(k, n, o) PROVE CallTypes'
  BY <1>0, <1>1, Zenon DEF Pooled!Resolve, Pooled!resultVars, KeptInv, CallTypes, HandlerType
<1>2. CASE Pooled!TimeoutLocked
  <2>1. PICK c \in Pooled!Calls : handler = Waking(c)
    <3>1. handler.at = "timeout" /\ HandlerType
      BY <1>2, Zenon DEF Pooled!TimeoutLocked, KeptInv, CallTypes
    <3>2. handler # Pooled!Idle
      BY <3>1, HandlerKinds, Zenon
    <3>3. ASSUME NEW k, NEW c PROVE handler # [at |-> "reply", to |-> k, call |-> c]
      <4>1. [at |-> "reply", to |-> k, call |-> c].at # "timeout"
        BY HandlerKinds, Zenon
      <4> QED BY <3>1, <4>1, Zenon
    <3>4. ASSUME NEW k PROVE handler # [at |-> "beat", of |-> k]
      <4>1. [at |-> "beat", of |-> k].at # "timeout"
        BY HandlerKinds, Zenon
      <4> QED BY <3>1, <4>1, Zenon
    <3> QED BY <3>1, <3>2, <3>3, <3>4, Zenon DEF HandlerType
  <2>2. handler.call = c /\ \A e : handler = Waking(e) => e = c
    BY <2>1, HandlerKinds, Zenon DEF Waking
  <2>3. Pooled!Resolve(c.client, c.id, Pooled!Error("timeout"))
    BY <1>2, <2>2, Zenon DEF Pooled!TimeoutLocked
  <2>4. c.client \in Borrowers /\ c.id \in Pooled!Ids /\ c = [client |-> c.client, id |-> c.id]
    BY CallParts, Zenon
  <2>5. \A e \in Pooled!Calls : handler = Waking(e) => e = [client |-> c.client, id |-> c.id]
    BY <2>2, <2>4, Zenon
  <2> QED BY <1>0, <1>1, <2>3, <2>4, <2>5, ResolveOnce, Zenon
<1>3. CASE Pooled!ResponseLocked
  <2>1. PICK k \in Borrowers, c \in Pooled!Calls : handler = [at |-> "reply", to |-> k, call |-> c]
    BY <1>3, HandlerKinds, Zenon DEF Pooled!ResponseLocked, KeptInv, CallTypes, HandlerType, Waking
  <2>2. handler.to = k /\ handler.call = c /\ \A e : handler # Waking(e)
    BY <2>1, HandlerKinds, Zenon DEF Waking
  <2>3. CASE UNCHANGED Pooled!resultVars
    <3>1. CallTypes' /\ UNCHANGED <<pending, completions>>
      BY <1>0, <2>3, Zenon DEF Pooled!resultVars, KeptInv, CallTypes, HandlerType
    <3> QED BY <1>0, <2>2, <3>1, HandlerMoves, Zenon
  <2>4. CASE Pooled!Resolve(k, c.id, Pooled!ReplyTo(c))
    <3>1. c.id \in Pooled!Ids
      BY CallParts, Zenon
    <3> QED BY <1>0, <1>1, <2>2, <2>4, <3>1, ResolveOnce, Zenon
  <2> QED BY <1>3, <2>2, <2>3, <2>4, Zenon DEF Pooled!ResponseLocked
<1> QED BY <1>2, <1>3, Zenon

\* The other steps of the loop's thread, the network and the server.
LEMMA LoopKeeps ==
  ASSUME KeptInv, ClaimInv,
         \/ Pooled!Beat \/ Pooled!Lose \/ Pooled!NewConnection \/ Pooled!PublishConnection
         \/ \E c \in Pooled!Calls : Pooled!OnMessage(c) \/ Pooled!Answer(c)
         \/ \E k \in Borrowers : Pooled!CollectBeat(k)
  PROVE  KeptInv'
<1>1. UNCHANGED <<life, nextReqId, pending, timers, completions>>
  BY Zenon DEF Pooled!Beat, Pooled!Lose, Pooled!NewConnection, Pooled!PublishConnection, Pooled!OnMessage,
     Pooled!Answer, Pooled!CollectBeat, Pooled!loopVars, Pooled!resultVars
<1>2. CASE Pooled!Beat \/ (\E c \in Pooled!Calls : Pooled!OnMessage(c)) \/ \E k \in Borrowers : Pooled!CollectBeat(k)
  <2>1. UNCHANGED <<connCb, connecting>>
    BY <1>2, Zenon DEF Pooled!Beat, Pooled!OnMessage, Pooled!CollectBeat, Pooled!tcpVars
  <2>2. \A c \in Pooled!Calls : handler # Waking(c)
    <3>1. handler.at = "beat" \/ handler = Pooled!Idle
      BY <1>2, Zenon DEF Pooled!Beat, Pooled!OnMessage, Pooled!CollectBeat
    <3>2. handler.at # "timeout"
      BY <3>1, HandlerKinds, Zenon
    <3>3. ASSUME NEW c \in Pooled!Calls PROVE handler # Waking(c)
      <4>1. Waking(c).at = "timeout"
        BY HandlerKinds, Zenon DEF Waking
      <4> QED BY <3>2, <4>1, Zenon
    <3> QED BY <3>3, Zenon
  <2>3. HandlerType'
    <3>1. CASE Pooled!Beat
      BY <3>1, Zenon DEF Pooled!Beat, HandlerType
    <3>2. ASSUME NEW c \in Pooled!Calls, Pooled!OnMessage(c) PROVE HandlerType'
      BY <3>2, Zenon DEF Pooled!OnMessage, HandlerType, KeptInv, CallTypes
    <3>3. ASSUME NEW k \in Borrowers, Pooled!CollectBeat(k) PROVE HandlerType'
      BY <3>3, Zenon DEF Pooled!CollectBeat, HandlerType
    <3> QED BY <1>2, <3>1, <3>2, <3>3, Zenon
  <2>4. CallTypes'
    BY <1>1, <2>1, <2>3, Zenon DEF KeptInv, CallTypes
  <2> QED BY <1>1, <2>2, <2>4, HandlerMoves, Zenon
<1>3. CASE Pooled!Lose \/ Pooled!NewConnection \/ Pooled!PublishConnection \/ \E c \in Pooled!Calls : Pooled!Answer(c)
  <2>1. handler' = handler
    BY <1>3, Zenon DEF Pooled!Lose, Pooled!NewConnection, Pooled!PublishConnection, Pooled!Answer, Pooled!loopVars
  <2>2. connCb' \in Borrowers \cup {NoClient} /\ connecting' \in Borrowers \cup {NoClient, "no"}
    BY <1>3, Zenon DEF Pooled!Lose, Pooled!NewConnection, Pooled!PublishConnection, Pooled!Answer,
       Pooled!tcpVars, KeptInv, CallTypes, ClaimInv
  <2>3. CallTypes'
    BY <1>1, <2>1, <2>2, Zenon DEF KeptInv, CallTypes, HandlerType, Waking
  <2> QED BY <1>1, <2>1, <2>3, HandlerMoves, Zenon
<1> QED BY <1>2, <1>3, Zenon

\* For any number of clients on a pooled connection and any number of calls: a call is
\* completed once, or it is in the pending table of its client with a timer, a
\* handleTimeout() or a destructor that is bound to complete it, although replies meant
\* for an earlier borrower, timers and destructors compete for it.
THEOREM PooledCallsOnceOrOwed == Pooled!Spec => []OnceOrOwed
<1> DEFINE Inv == ClaimInv /\ KeptInv
<1>1. Pooled!Init => Inv
  <2> SUFFICES ASSUME Pooled!Init PROVE KeptInv
    BY InitClaim
  <2>1. CallTypes
    BY NextId, Zenon DEF Pooled!Init, CallTypes, HandlerType
  <2>2. ASSUME NEW c \in Pooled!Calls PROVE Kept(c)
    <3>1. c.client \in Borrowers /\ c.id \in Pooled!Ids
      BY CallParts, Zenon
    <3>2. ~Made(c) /\ ~Entered(c) /\ completions[c] = 0
      BY <3>1, NextId, Zenon DEF Pooled!Init, Made, Entered
    <3> QED BY <3>2, Zenon DEF Kept
  <2> QED BY <2>1, <2>2, Zenon DEF KeptInv
<1>2. Inv /\ [Pooled!Next]_(Pooled!vars) => Inv'
  <2> SUFFICES ASSUME ClaimInv, KeptInv, [Pooled!Next]_(Pooled!vars) PROVE KeptInv'
    BY NextClaim
  <2>1. CASE Pooled!Next
    BY <2>1, ClientKeeps, TimerKeeps, LookupKeeps, LoopKeeps, Zenon DEF Pooled!Next
  <2>2. CASE UNCHANGED Pooled!vars
    <3>1. UNCHANGED <<life, nextReqId, pending, timers, completions, handler, connCb, connecting>>
      BY <2>2, Zenon DEF Pooled!vars, Pooled!tcpVars, Pooled!loopVars, Pooled!resultVars
    <3>2. CallTypes'
      BY <3>1, Zenon DEF KeptInv, CallTypes, HandlerType, Waking
    <3> QED BY <3>1, <3>2, HandlerMoves, Zenon
  <2> QED BY <2>1, <2>2, Zenon
<1>3. Inv => OnceOrOwed
  BY Zenon DEF KeptInv, Kept, Made, Entered, Waking, Ending, OnceOrOwed, Pooled!OnceOrOwed, Pooled!Owed
<1> QED BY <1>1, <1>2, <1>3, PTL DEF Pooled!Spec
=============================================================================
