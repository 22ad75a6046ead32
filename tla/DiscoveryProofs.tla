--------------------------- MODULE DiscoveryProofs ---------------------------
(***************************************************************************)
(* Proofs about service discovery (the registry in memory and the one in   *)
(* etcd) and load balancing, for any number of services, nodes, threads    *)
(* and endpoints, and any hash function.                                   *)
(***************************************************************************)
EXTENDS MCDiscovery, FiniteSetTheorems, TLAPS

-----------------------------------------------------------------------------
(* The registry in memory *)

Note == [svc : Services, nodes : SUBSET Nodes]

\* Where no operation overlapped another, what is still to be delivered is what the
\* table says, and a service of which nothing is to be delivered is known as it is.
NotesInv ==
  /\ services \in [Services -> [Nodes -> Int]] /\ view \in [Services -> SUBSET Nodes]
  /\ now \in Nat /\ notes \in [Threads -> Seq(Note)]
  /\ serial =>
       /\ \A t \in Threads : \A i \in 1 .. Len(notes[t]) :
            notes[t][i].nodes = Listed(services, notes[t][i].svc)
       /\ \A s \in Services : \/ view[s] = Listed(services, s)
                              \/ \E t \in Threads : \E i \in 1 .. Len(notes[t]) : notes[t][i].svc = s

LEMMA ListIsSeq == \A S : \A n \in Nat : \A f \in [1 .. n -> S] : f \in Seq(S) /\ Len(f) = n
  OBVIOUS

\* An operation tells of every service whose list it changes.
LEMMA NotifyTells ==
  ASSUME NotesInv, NEW t \in Threads, NEW S \in SUBSET Services, Notify(t, S),
         services' \in [Services -> [Nodes -> Int]],
         \A s \in Services \ S : Listed(services', s) = Listed(services, s)
  PROVE  NotesInv'
<1> DEFINE n == Cardinality(S)
<1>1. n \in Nat
  BY ServicesAssumption, FS_Subset, FS_CardinalityType
<1>2. PICK order \in Bijection(1 .. n, S) :
        notes' = [notes EXCEPT ![t] =
                    [i \in 1 .. n |-> [svc |-> order[i], nodes |-> Listed(services', order[i])]]]
  BY Zenon DEF Notify
<1> DEFINE q == [i \in 1 .. n |-> [svc |-> order[i], nodes |-> Listed(services', order[i])]]
<1>3. order \in [1 .. n -> S] /\ \A s \in S : \E i \in 1 .. n : order[i] = s
  BY DEF Bijection, Surjection
<1>4. /\ notes' = [notes EXCEPT ![t] = q] /\ serial' = (serial /\ Quiet) /\ UNCHANGED <<view, now>>
  BY <1>2, Zenon DEF Notify
<1> HIDE DEF n
<1>5. /\ q \in Seq(Note) /\ Len(q) = n
      /\ \A i \in 1 .. n : q[i].svc = order[i] /\ q[i].nodes = Listed(services', q[i].svc)
  <2>1. \A i \in 1 .. n : q[i] \in Note
    BY <1>3 DEF Note, Listed
  <2>2. q \in [1 .. n -> Note]
    BY <2>1, Zenon
  <2>3. \A i \in 1 .. n : q[i].svc = order[i] /\ q[i].nodes = Listed(services', q[i].svc)
    OBVIOUS
  <2> QED BY <1>1, <2>2, <2>3, ListIsSeq, Zenon
<1> HIDE DEF q
<1>6. notes' \in [Threads -> Seq(Note)] /\ notes'[t] = q /\ \A u \in Threads : u # t => notes'[u] = notes[u]
  BY <1>4, <1>5 DEF NotesInv
<1>7. ASSUME serial'
      PROVE  /\ \A u \in Threads : \A i \in 1 .. Len(notes'[u]) :
                  notes'[u][i].nodes = Listed(services', notes'[u][i].svc)
             /\ \A s \in Services :
                  \/ view'[s] = Listed(services', s)
                  \/ \E u \in Threads : \E i \in 1 .. Len(notes'[u]) : notes'[u][i].svc = s
  <2>1. serial /\ \A u \in Threads : notes[u] = <<>>
    BY <1>4, <1>7, Zenon DEF Quiet, Idle
  <2>2. \A u \in Threads : Len(notes[u]) = 0
    BY <2>1
  <2>3. \A i \in 1 .. Len(q) : q[i].nodes = Listed(services', q[i].svc)
    BY <1>5
  <2>4. ASSUME NEW s \in Services
        PROVE  \/ view'[s] = Listed(services', s)
               \/ \E u \in Threads : \E i \in 1 .. Len(notes'[u]) : notes'[u][i].svc = s
    <3>1. CASE s \in S
      <4>1. PICK i \in 1 .. n : order[i] = s
        BY <1>3, <3>1
      <4> QED BY <4>1, <1>5, <1>6
    <3>2. CASE s \notin S
      <4>1. view[s] = Listed(services, s)
        BY <2>1, <2>2 DEF NotesInv
      <4> QED BY <3>2, <4>1, <1>4
    <3> QED BY <3>1, <3>2
  <2>5. \A u \in Threads : \A i \in 1 .. Len(notes'[u]) :
          notes'[u][i].nodes = Listed(services', notes'[u][i].svc)
    BY <1>6, <2>2, <2>3
  <2> QED BY <2>4, <2>5
<1> QED
  BY <1>4, <1>6, <1>7 DEF NotesInv

LEMMA CallbackTells == ASSUME NotesInv, NEW t \in Threads, Callback(t) PROVE NotesInv'
<1> DEFINE h == Head(notes[t])
<1>1. notes[t] \in Seq(Note) /\ notes[t] # <<>>
  BY DEF Callback, Idle, NotesInv
<1>2. /\ Tail(notes[t]) \in Seq(Note) /\ Len(Tail(notes[t])) = Len(notes[t]) - 1
      /\ \A i \in 1 .. Len(notes[t]) - 1 : Tail(notes[t])[i] = notes[t][i + 1]
      /\ h = notes[t][1] /\ h \in Note /\ Len(notes[t]) \in Nat \ {0}
  BY <1>1
<1>3. /\ view' = [view EXCEPT ![h.svc] = h.nodes] /\ notes' = [notes EXCEPT ![t] = Tail(notes[t])]
      /\ UNCHANGED <<services, now, serial>>
  BY DEF Callback
<1>4. notes' \in [Threads -> Seq(Note)] /\ notes'[t] = Tail(notes[t])
      /\ \A u \in Threads : u # t => notes'[u] = notes[u]
  BY <1>2, <1>3 DEF NotesInv
<1>5. view' \in [Services -> SUBSET Nodes] /\ h.svc \in Services /\ view'[h.svc] = h.nodes
      /\ \A s \in Services : s # h.svc => view'[s] = view[s]
  BY <1>2, <1>3 DEF NotesInv, Note
<1>6. ASSUME serial
      PROVE  /\ \A u \in Threads : \A i \in 1 .. Len(notes'[u]) :
                  notes'[u][i].nodes = Listed(services, notes'[u][i].svc)
             /\ \A s \in Services :
                  \/ view'[s] = Listed(services, s)
                  \/ \E u \in Threads : \E i \in 1 .. Len(notes'[u]) : notes'[u][i].svc = s
  <2>1. \A u \in Threads : \A i \in 1 .. Len(notes[u]) :
          notes[u][i].nodes = Listed(services, notes[u][i].svc)
    BY <1>6 DEF NotesInv
  <2>2. \A u \in Threads : \A i \in 1 .. Len(notes'[u]) :
          notes'[u][i].nodes = Listed(services, notes'[u][i].svc)
    <3>1. \A i \in 1 .. Len(Tail(notes[t])) : i + 1 \in 1 .. Len(notes[t])
      BY <1>2
    <3>2. \A i \in 1 .. Len(Tail(notes[t])) : Tail(notes[t])[i] = notes[t][i + 1]
      BY <1>2
    <3> SUFFICES ASSUME NEW u \in Threads, NEW i \in 1 .. Len(notes'[u])
                 PROVE  notes'[u][i].nodes = Listed(services, notes'[u][i].svc)
      OBVIOUS
    <3>3. CASE u = t
      <4>1. notes'[u][i] = notes[t][i + 1] /\ i + 1 \in 1 .. Len(notes[t])
        BY <1>4, <3>1, <3>2, <3>3, Zenon
      <4> QED BY <2>1, <4>1
    <3>4. CASE u # t
      BY <1>4, <2>1, <3>4
    <3> QED BY <3>3, <3>4
  <2>3. view'[h.svc] = Listed(services, h.svc)
    BY <1>2, <1>5, <2>1
  <2>4. ASSUME NEW s \in Services, s # h.svc
        PROVE  \/ view'[s] = Listed(services, s)
               \/ \E u \in Threads : \E i \in 1 .. Len(notes'[u]) : notes'[u][i].svc = s
    <3>1. CASE view[s] = Listed(services, s)
      BY <1>5, <2>4, <3>1
    <3>2. ASSUME NEW u \in Threads, NEW i \in 1 .. Len(notes[u]), notes[u][i].svc = s
          PROVE  \E v \in Threads : \E j \in 1 .. Len(notes'[v]) : notes'[v][j].svc = s
      <4>1. CASE u # t
        BY <1>4, <3>2, <4>1
      <4>2. CASE u = t
        <5>1. i # 1
          BY <1>2, <2>4, <3>2, <4>2
        <5>2. i - 1 \in 1 .. Len(Tail(notes[t])) /\ Tail(notes[t])[i - 1] = notes[t][i]
          BY <1>2, <4>2, <5>1
        <5> QED BY <1>4, <3>2, <4>2, <5>2, Zenon
      <4> QED BY <4>1, <4>2
    <3> QED BY <1>6, <3>1, <3>2 DEF NotesInv
  <2> QED BY <2>2, <2>3, <2>4
<1>7. services' \in [Services -> [Nodes -> Int]] /\ now' \in Nat /\ services' = services /\ serial' = serial
  BY <1>3 DEF NotesInv
<1> QED
  BY <1>4, <1>5, <1>6, <1>7, Zenon DEF NotesInv

LEMMA NextNotes == NotesInv /\ [Next]_vars => NotesInv'
<1> SUFFICES ASSUME NotesInv, [Next]_vars PROVE NotesInv'
  OBVIOUS
<1>1. CASE UNCHANGED vars \/ Tick
  <2>1. UNCHANGED <<services, notes, view, serial>>
    BY <1>1 DEF vars, Tick
  <2>2. now' \in Nat
    BY <1>1 DEF vars, Tick, NotesInv
  <2> QED BY <2>1, <2>2, Zenon DEF NotesInv
<1>2. ASSUME NEW t \in Threads, NEW s \in Services, NEW n \in Nodes,
             RegisterService(t, s, n) \/ DeregisterService(t, s, n)
      PROVE  NotesInv'
  <2>1. PICK v \in Int : services' = [services EXCEPT ![s][n] = v]
    BY <1>2 DEF RegisterService, DeregisterService, NotesInv, Absent
  <2>2. services' \in [Services -> [Nodes -> Int]]
    BY <2>1 DEF NotesInv
  <2>3. \A r \in Services : r # s => services'[r] = services[r]
    BY <2>1 DEF NotesInv
  <2>4. Notify(t, {s})
    BY <1>2 DEF RegisterService, DeregisterService
  <2>5. \A r \in Services \ {s} : Listed(services', r) = Listed(services, r)
    BY <2>3 DEF Listed
  <2> QED BY <2>2, <2>4, <2>5, NotifyTells
<1>3. ASSUME NEW t \in Threads, NEW s \in Services, NEW n \in Nodes, Heartbeat(t, s, n)
      PROVE  NotesInv'
  <2>1. services' \in [Services -> [Nodes -> Int]] /\ UNCHANGED <<notes, view, now, serial>>
    BY <1>3 DEF Heartbeat, NotesInv
  <2>2. \A r \in Services : Listed(services', r) = Listed(services, r)
    BY <1>3 DEF Heartbeat, NotesInv, Listed, Absent
  <2>3. \A u \in Threads : \A i \in 1 .. Len(notes[u]) : notes[u][i].svc \in Services
    <3> SUFFICES ASSUME NEW u \in Threads, NEW i \in 1 .. Len(notes[u])
                 PROVE  notes[u][i].svc \in Services
      OBVIOUS
    <3>1. notes[u] \in Seq(Note)
      BY DEF NotesInv
    <3>2. notes[u][i] \in Note
      BY <3>1
    <3> QED BY <3>2 DEF Note
  <2>4. now' \in Nat /\ view' \in [Services -> SUBSET Nodes] /\ notes' \in [Threads -> Seq(Note)]
    BY <2>1 DEF NotesInv
  <2> QED BY <2>1, <2>2, <2>3, <2>4, Zenon DEF NotesInv
<1>4. ASSUME NEW t \in Threads, Cleanup(t) PROVE NotesInv'
  <2> DEFINE S == {s \in Services : Listed(services, s) # {}}
  <2>1. services' = Cleaned /\ Notify(t, S)
    BY <1>4 DEF Cleanup
  <2>2. services' \in [Services -> [Nodes -> Int]]
    BY <2>1 DEF Cleaned, Surviving, NotesInv, Absent
  <2>3. \A s \in Services \ S : Listed(services', s) = Listed(services, s)
    BY <2>1 DEF Cleaned, Surviving, NotesInv, Listed, Absent
  <2> QED BY <2>1, <2>2, <2>3, NotifyTells
<1> QED
  BY <1>1, <1>2, <1>3, <1>4, CallbackTells DEF Next

\* A listener of operations that did not overlap has the current list of every service
\* when they are over, for any number of services, nodes and threads: the copy that is
\* made under the lock is enough although the callback runs without it.
THEOREM ListenerIsCurrentAfterSerialCalls == Spec => []SerialListenerIsCurrent
<1>1. Init => NotesInv
  BY DEF Init, NotesInv, Note, Listed, Absent
<1>2. NotesInv => SerialListenerIsCurrent
  <2> SUFFICES ASSUME NotesInv, serial, Quiet, NEW s \in Services
               PROVE  view[s] = Listed(services, s)
    BY DEF SerialListenerIsCurrent, ListenerIsCurrent, Current
  <2>1. \A t \in Threads : Len(notes[t]) = 0
    BY DEF Quiet, Idle
  <2> QED BY <2>1 DEF NotesInv
<1> QED
  BY <1>1, <1>2, NextNotes, PTL DEF Spec

-----------------------------------------------------------------------------
(* Turns *)

Endpoint == [node : Endpoints, linked : BOOLEAN]

\* The index that picks the endpoint next is less than a round ahead, and the picks it
\* missed and those it has to wait for make less than a round together.
TurnsInv ==
  /\ endpoints \in Seq(Endpoint) /\ todo \in Seq(Endpoints) /\ rrIndex \in Nat
  /\ missed \in [1 .. Len(endpoints) -> Nat]
  /\ \A i \in 1 .. Len(endpoints) : \E k \in Nat :
       /\ k % Len(endpoints) = i - 1
       /\ rrIndex <= k /\ k + missed[i] < rrIndex + Len(endpoints)

\* A number is its remainder and a multiple of n, in one way only.
LEMMA RemainderIsUnique ==
  ASSUME NEW n \in Nat \ {0}, NEW q \in Nat, NEW d \in Nat,
         NEW k \in 0 .. n - 1, NEW r \in 0 .. n - 1, n * q + k = n * d + r
  PROVE  r = k /\ q = d
<1>1. n * q \in Nat /\ n * d \in Nat
  BY SMT
<1>2. n * d - n * q = k - r
  BY <1>1
<1>3. n * d - n * q = n * (d - q)
  BY SMT
<1>4. d - q >= 1 => n * (d - q) >= n
  BY SMT
<1>5. d - q <= -1 => n * (d - q) <= -n
  BY SMT
<1>6. d = q
  BY <1>2, <1>3, <1>4, <1>5
<1> QED
  BY <1>1, <1>2, <1>6

LEMMA Division ==
  ASSUME NEW n \in Nat \ {0}, NEW m \in Nat
  PROVE  m \div n \in Nat /\ m % n \in 0 .. n - 1 /\ m = n * (m \div n) + (m % n)
  BY SMT

\* From any index on, a round reaches every remainder.
LEMMA RoundCovers ==
  ASSUME NEW n \in Nat \ {0}, NEW r \in Nat, NEW j \in 0 .. n - 1
  PROVE  \E k \in Nat : k % n = j /\ r <= k /\ k < r + n
<1> DEFINE q == r \div n
           p == r % n
<1>1. q \in Nat /\ p \in 0 .. n - 1 /\ r = n * q + p
  BY Division, Zenon
<1>2. n * q \in Nat /\ n * (q + 1) = n * q + n
  BY <1>1, SMT
<1> HIDE DEF q, p
<1>3. ASSUME NEW c \in Nat, n * c \in Nat PROVE (n * c + j) % n = j
  BY <1>3, Division, RemainderIsUnique
<1>4. CASE p <= j
  <2>1. (n * q + j) % n = j /\ n * q + j \in Nat /\ r <= n * q + j /\ n * q + j < r + n
    BY <1>1, <1>2, <1>3, <1>4
  <2> QED BY <2>1
<1>5. CASE p > j
  <2>1. (n * (q + 1) + j) % n = j
    BY <1>1, <1>2, <1>3
  <2>2. n * (q + 1) + j \in Nat /\ r <= n * (q + 1) + j /\ n * (q + 1) + j < r + n
    BY <1>1, <1>2, <1>5
  <2> QED BY <2>1, <2>2
<1> QED
  BY <1>1, <1>4, <1>5

\* The same endpoint is picked a round later.
LEMMA RoundReturns ==
  ASSUME NEW n \in Nat \ {0}, NEW r \in Nat
  PROVE  (r + n) % n = r % n
<1> DEFINE d == r \div n
           p == r % n
           e == (r + n) \div n
           o == (r + n) % n
<1>1. d \in Nat /\ p \in 0 .. n - 1 /\ r = n * d + p
  BY Division, Zenon
<1>2. e \in Nat /\ o \in 0 .. n - 1 /\ r + n = n * e + o
  <2>1. r + n \in Nat
    OBVIOUS
  <2> QED BY <2>1, Division, Zenon
<1> HIDE DEF d, p, e, o
<1>3. n * (d + 1) = n * d + n /\ n * d \in Nat
  BY <1>1, SMT
<1>4. n * (d + 1) + p = n * e + o
  BY <1>1, <1>2, <1>3
<1>5. o = p
  BY <1>1, <1>2, <1>4, RemainderIsUnique
<1> QED
  BY <1>5 DEF o, p

\* No endpoint has missed a pick of a list that has just changed.
LEMMA TurnsBegin ==
  ASSUME endpoints' \in Seq(Endpoint), todo' \in Seq(Endpoints), rrIndex' \in Nat,
         missed' = [i \in 1 .. Len(endpoints') |-> 0]
  PROVE  TurnsInv'
<1> DEFINE n == Len(endpoints')
<1>1. n \in Nat
  OBVIOUS
<1>2. ASSUME NEW i \in 1 .. n
      PROVE  \E k \in Nat : k % n = i - 1 /\ rrIndex' <= k /\ k + missed'[i] < rrIndex' + n
  <2>1. n \in Nat \ {0} /\ i - 1 \in 0 .. n - 1 /\ missed'[i] = 0
    BY <1>1
  <2>2. PICK k \in Nat : k % n = i - 1 /\ rrIndex' <= k /\ k < rrIndex' + n
    BY <2>1, RoundCovers, Zenon
  <2> QED BY <1>1, <2>1, <2>2
<1> QED
  BY <1>1, <1>2 DEF TurnsInv

LEMMA TurnTaken ==
  ASSUME TurnsInv, NEW c \in Callers, endpoints # <<>>, Client!InTurn(c), UNCHANGED <<endpoints, todo>>
  PROVE  TurnsInv'
<1> DEFINE n == Len(endpoints)
           idx == (rrIndex % n) + 1
<1>1. n \in Nat \ {0} /\ rrIndex \in Nat /\ missed \in [1 .. n -> Nat]
  BY DEF TurnsInv
<1>2. idx \in 1 .. n /\ idx - 1 = rrIndex % n
  BY <1>1, Division
<1>3. /\ rrIndex' = rrIndex + 1
      /\ missed' = [i \in 1 .. n |-> IF i = idx THEN 0 ELSE missed[i] + 1]
  BY <1>1 DEF Client!InTurn
<1> HIDE DEF idx
<1>4. missed' \in [1 .. n -> Nat]
  BY <1>1, <1>3
<1>5. ASSUME NEW i \in 1 .. n
      PROVE  \E k \in Nat : k % n = i - 1 /\ rrIndex' <= k /\ k + missed'[i] < rrIndex' + n
  <2>1. CASE i = idx
    <3>1. (rrIndex + n) % n = rrIndex % n
      BY <1>1, RoundReturns, Zenon
    <3>2. (rrIndex + n) % n = i - 1
      BY <1>2, <2>1, <3>1, Zenon
    <3>3. rrIndex + n \in Nat /\ missed'[i] = 0
      BY <1>1, <1>3, <2>1
    <3> QED BY <1>1, <1>3, <3>2, <3>3
  <2>2. CASE i # idx
    <3>1. PICK k \in Nat : k % n = i - 1 /\ rrIndex <= k /\ k + missed[i] < rrIndex + n
      BY DEF TurnsInv
    <3>2. k # rrIndex
      BY <1>2, <2>2, <3>1
    <3>3. missed'[i] = missed[i] + 1 /\ missed[i] \in Nat
      BY <1>1, <1>3, <2>2
    <3>4. rrIndex' <= k /\ k + missed'[i] < rrIndex' + n
      BY <1>1, <1>3, <3>1, <3>2, <3>3, SMTT(30)
    <3> QED BY <3>1, <3>4
  <2> QED BY <2>1, <2>2
<1> QED
  BY <1>1, <1>3, <1>4, <1>5 DEF TurnsInv

LEMMA TurnsKept ==
  ASSUME TurnsInv, endpoints' \in Seq(Endpoint), Len(endpoints') = Len(endpoints),
         todo' \in Seq(Endpoints), UNCHANGED <<rrIndex, missed>>
  PROVE  TurnsInv'
  BY DEF TurnsInv

LEMMA NextTurns == TurnsInv /\ [Client!Next]_(Client!vars) => TurnsInv'
<1> SUFFICES ASSUME TurnsInv, [Client!Next]_(Client!vars) PROVE TurnsInv'
  OBVIOUS
<1>0. /\ endpoints \in Seq(Endpoint) /\ todo \in Seq(Endpoints) /\ rrIndex \in Nat
      /\ DOMAIN endpoints = 1 .. Len(endpoints)
  BY DEF TurnsInv
<1>1. CASE UNCHANGED Client!vars
  BY <1>0, <1>1, TurnsKept DEF Client!vars
<1>2. CASE Client!Connect
  <2>0. \A S : Client!Cardinality(S) = Cardinality(S)
    BY Zenon DEF Client!Cardinality, Cardinality
  <2>1. PICK S \in SUBSET Endpoints : todo' \in [1 .. Cardinality(S) -> S]
    BY <1>2, <2>0 DEF Client!Connect, Client!Bijection, Client!Surjection
  <2>2. Cardinality(S) \in Nat
    BY RingConstants, FS_Subset, FS_CardinalityType
  <2>3. todo' \in Seq(Endpoints)
    BY <2>1, <2>2
  <2> QED BY <1>0, <1>2, <2>3, TurnsKept DEF Client!Connect
<1>3. CASE Client!ConnectNode
  <2>1. todo # <<>> /\ todo' = Tail(todo) /\ UNCHANGED rrIndex
    BY <1>3 DEF Client!ConnectNode
  <2>2. Head(todo) \in Endpoints /\ todo' \in Seq(Endpoints)
    BY <1>0, <2>1
  <2>3. CASE UNCHANGED <<endpoints, missed>>
    BY <1>0, <2>1, <2>2, <2>3, TurnsKept, Zenon
  <2>4. CASE /\ endpoints' = Append(endpoints, [node |-> Head(todo), linked |-> TRUE])
             /\ missed' = Client!Zeros(endpoints')
    <3>1. endpoints' \in Seq(Endpoint)
      BY <1>0, <2>2, <2>4 DEF Endpoint
    <3>2. missed' = [i \in 1 .. Len(endpoints') |-> 0]
      BY <2>4, <3>1 DEF Client!Zeros
    <3> QED BY <1>0, <2>1, <2>2, <3>1, <3>2, TurnsBegin, Zenon
  <2> QED BY <1>3, <2>3, <2>4, Zenon DEF Client!ConnectNode
<1>4. CASE Client!Disconnect
  <2>1. endpoints' = <<>> /\ missed' = <<>> /\ UNCHANGED <<rrIndex, todo>>
    BY <1>4 DEF Client!Disconnect
  <2>2. endpoints' \in Seq(Endpoint) /\ missed' = [i \in 1 .. Len(endpoints') |-> 0]
    BY <2>1
  <2> QED BY <1>0, <2>1, <2>2, TurnsBegin, Zenon
<1>5. CASE Client!SetLBPolicy
  BY <1>0, <1>5, TurnsKept, Zenon DEF Client!SetLBPolicy
<1>6. ASSUME NEW i \in DOMAIN endpoints, Client!Link(i) PROVE TurnsInv'
  <2>1. PICK e : e = [endpoints[i] EXCEPT !.linked = ~endpoints[i].linked] /\ endpoints' = [endpoints EXCEPT ![i] = e]
    BY <1>6, Zenon DEF Client!Link
  <2>2. e \in Endpoint
    <3>1. endpoints[i] \in Endpoint
      BY <1>0, <1>6
    <3>2. endpoints[i].node \in Endpoints /\ DOMAIN endpoints[i] = {"node", "linked"}
      BY <3>1 DEF Endpoint
    <3>3. e = [node |-> endpoints[i].node, linked |-> ~endpoints[i].linked]
      BY <2>1, <3>1, <3>2, Zenon DEF Endpoint
    <3>4. (~endpoints[i].linked) \in BOOLEAN
      BY Zenon
    <3> QED BY <3>2, <3>3, <3>4, Zenon DEF Endpoint
  <2>3. endpoints' \in Seq(Endpoint) /\ Len(endpoints') = Len(endpoints)
    BY <1>0, <2>1, <2>2
  <2> QED BY <1>0, <1>6, <2>3, TurnsKept, Zenon DEF Client!Link
<1>7. ASSUME NEW c \in Callers, Client!Send(c) PROVE TurnsInv'
  BY <1>0, <1>7, TurnsKept, Zenon DEF Client!Send
<1>8. ASSUME NEW c \in Callers, NEW k \in Keys, Client!GetTcpClient(c, k) PROVE TurnsInv'
  <2>1. UNCHANGED <<endpoints, todo>>
    BY <1>8 DEF Client!GetTcpClient
  <2>2. CASE UNCHANGED <<rrIndex, missed>>
    BY <1>0, <2>1, <2>2, TurnsKept, SMTT(30)
  <2>3. CASE endpoints # <<>> /\ Client!InTurn(c)
    BY <2>1, <2>3, TurnTaken
  <2> QED BY <1>8, <2>2, <2>3, Zenon DEF Client!GetTcpClient
<1> QED
  BY <1>1, <1>2, <1>3, <1>4, <1>5, <1>6, <1>7, <1>8, Zenon DEF Client!Next

\* getTcpClient() in turn reaches every endpoint within a round, for any number of
\* endpoints and calling threads, also across connect() and disconnect(), which leave
\* rrIndex_ where it was.
THEOREM TurnsAreFair == Client!Spec => []TurnsReachEveryEndpoint
<1>1. Client!Init => TurnsInv
  BY DEF Client!Init, Client!InitCalls, TurnsInv
<1>2. TurnsInv => TurnsReachEveryEndpoint
  <2> SUFFICES ASSUME TurnsInv, NEW i \in DOMAIN missed PROVE missed[i] < Len(endpoints)
    BY DEF TurnsReachEveryEndpoint, Client!TurnsReachEveryEndpoint
  <2>1. i \in 1 .. Len(endpoints) /\ missed[i] \in Nat /\ rrIndex \in Nat /\ Len(endpoints) \in Nat
    BY DEF TurnsInv
  <2>2. PICK k \in Nat : rrIndex <= k /\ k + missed[i] < rrIndex + Len(endpoints)
    BY <2>1 DEF TurnsInv
  <2> QED BY <2>1, <2>2
<1> QED
  BY <1>1, <1>2, NextTurns, PTL DEF Client!Spec

-----------------------------------------------------------------------------
(* The ring of the client *)

LEMMA LeastNatural ==
  ASSUME NEW T \in SUBSET Nat, T # {}
  PROVE  \E x \in T : \A y \in T : x <= y
<1>1. \E x \in T : \A y \in T : <<y, x>> \notin OpToRel(<, Nat)
  BY NatLessThanWellFounded, WFMin, Zenon
<1>2. OpToRel(<, Nat) = {p \in Nat \X Nat : p[1] < p[2]}
  BY Zenon DEF OpToRel
<1>3. \E x \in T : \A y \in T : <<y, x>> \notin {p \in Nat \X Nat : p[1] < p[2]}
  BY <1>1, <1>2, Zenon
<1>4. \A x, y \in Nat : y < x => <<y, x>> \in {p \in Nat \X Nat : p[1] < p[2]}
  OBVIOUS
<1>5. \E x \in T : \A y \in T : ~ (y < x)
  BY <1>3, <1>4, Zenon
<1> QED
  BY <1>5

LEMMA GreatestIndex ==
  ASSUME NEW n \in Nat, NEW T \in SUBSET (1 .. n), T # {}
  PROVE  \E x \in T : \A y \in T : x >= y
<1> DEFINE U == {n - y : y \in T}
<1>1. U \in SUBSET Nat /\ U # {}
  <2>1. \A y \in T : n - y \in Nat
    OBVIOUS
  <2> QED BY <2>1, Zenon
<1>2. PICK u \in U : \A w \in U : u <= w
  BY <1>1, LeastNatural, Zenon
<1>3. PICK x \in T : u = n - x
  OBVIOUS
<1>4. \A y \in T : n - x <= n - y
  BY <1>2, <1>3, Zenon
<1> QED
  BY <1>4

\* A hash is a slot, and every node has one.
HashType(S, slots) == hashes \in [S -> SUBSET slots] /\ \A n \in S : hashes[n] # {}

\* Under consistent hashing the ring has the hashes of the endpoints' nodes, all of them,
\* and no others; a slot that two nodes share belongs to one of them.
EndpointRing ==
  /\ HashType(Endpoints, Client!Hash!Slot)
  /\ lbPolicy # "CONSISTENT_HASH" => nodeHashes = [n \in Endpoints |-> {}]
  /\ lbPolicy = "CONSISTENT_HASH" =>
       /\ nodeHashes = [n \in Endpoints |-> IF n \in Client!EndpointNodes THEN hashes[n] ELSE {}]
       /\ DOMAIN ring = Client!Hash!Slot
       /\ \A s \in Client!Hash!Slot : ring[s] # Client!Hash!NoNode =>
            ring[s] \in Client!EndpointNodes /\ s \in hashes[ring[s]]
       /\ \A n \in Client!EndpointNodes : \A s \in hashes[n] : ring[s] # Client!Hash!NoNode

LEMMA HashInit ==
  ASSUME NEW S, NEW slots, NEW m, hashes \in [S -> {T \in SUBSET slots : Cardinality(T) \in 1 .. m}]
  PROVE  HashType(S, slots)
<1>1. Cardinality({}) = 0
  BY FS_EmptySet
<1> QED
  BY <1>1 DEF HashType

LEMMA NodesOfEndpoints ==
  ASSUME endpoints \in Seq(Endpoint)
  PROVE  Client!EndpointNodes \subseteq Endpoints
<1>1. \A i \in DOMAIN endpoints : endpoints[i] \in Endpoint
  OBVIOUS
<1> QED
  BY <1>1 DEF Client!EndpointNodes, Endpoint

LEMMA ConnectKeepsRing == ASSUME TurnsInv, EndpointRing, Client!ConnectNode PROVE EndpointRing'
<1>1. /\ endpoints \in Seq(Endpoint) /\ todo \in Seq(Endpoints) /\ todo # <<>> /\ todo' = Tail(todo)
      /\ UNCHANGED lbPolicy
  BY DEF TurnsInv, Client!ConnectNode
<1>2. todo' \in Seq(Endpoints) /\ Head(todo) \in Endpoints
  BY <1>1
<1>3. CASE UNCHANGED <<endpoints, Client!hashFunc, ring, nodeHashes>>
  <2>1. UNCHANGED <<endpoints, hashes, ring, nodeHashes, lbPolicy>> /\ UNCHANGED Client!EndpointNodes
    BY <1>1, <1>3 DEF Client!hashFunc, Client!EndpointNodes
  <2> QED BY <1>2, <2>1, Zenon DEF EndpointRing, HashType
<1>4. CASE /\ endpoints' = Append(endpoints, [node |-> Head(todo), linked |-> TRUE])
           /\ IF lbPolicy = "CONSISTENT_HASH"
              THEN Client!Hash!AddNode(Head(todo))
              ELSE UNCHANGED <<Client!hashFunc, ring, nodeHashes>>
  <2> DEFINE m == Head(todo)
             e == [node |-> m, linked |-> TRUE]
  <2>1. e \in Endpoint
    BY <1>2 DEF Endpoint
  <2>2. /\ endpoints' \in Seq(Endpoint) /\ DOMAIN endpoints' = (DOMAIN endpoints) \cup {Len(endpoints) + 1}
        /\ \A i \in DOMAIN endpoints : endpoints'[i] = endpoints[i]
        /\ endpoints'[Len(endpoints) + 1] = e /\ e.node = m
    BY <1>1, <1>4, <2>1
  <2>3. Client!EndpointNodes' = Client!EndpointNodes \cup {m}
    BY <2>2, Zenon DEF Client!EndpointNodes
  <2>4. UNCHANGED hashes
    BY <1>4, Zenon DEF Client!Hash!AddNode, Client!hashFunc
  <2>5. CASE lbPolicy # "CONSISTENT_HASH"
    BY <1>1, <1>2, <1>4, <2>2, <2>4, <2>5, Zenon DEF EndpointRing, HashType, Client!hashFunc
  <2>6. CASE lbPolicy = "CONSISTENT_HASH"
    <3>1. /\ ring' = [s \in Client!Hash!Slot |-> IF s \in hashes[m] THEN m
                                                  ELSE IF s \in nodeHashes[m] THEN Client!Hash!NoNode ELSE ring[s]]
          /\ nodeHashes' = [nodeHashes EXCEPT ![m] = hashes[m]]
      BY <1>4, <2>6, SMTT(30) DEF Client!Hash!AddNode, Client!Hash!Erased
    <3>2. m \in Endpoints /\ m # Client!Hash!NoNode /\ hashes[m] \subseteq Client!Hash!Slot
      BY <1>2, RingConstants DEF EndpointRing, HashType, Hash!NoNode, Client!Hash!NoNode
    <3>3. nodeHashes' = [n \in Endpoints |-> IF n \in Client!EndpointNodes' THEN hashes[n] ELSE {}]
      BY <2>3, <2>6, <3>1, <3>2, Zenon DEF EndpointRing
    <3>4. nodeHashes[m] \subseteq hashes[m]
      BY <2>6, <3>2 DEF EndpointRing
    <3>5. \A s \in Client!Hash!Slot : ring'[s] = IF s \in hashes[m] THEN m ELSE ring[s]
      BY <3>1, <3>4, Zenon
    <3>6. \A s \in Client!Hash!Slot : ring'[s] # Client!Hash!NoNode =>
            ring'[s] \in Client!EndpointNodes' /\ s \in hashes[ring'[s]]
      BY <2>3, <2>6, <3>5, SMTT(30) DEF EndpointRing
    <3>7. \A n \in Client!EndpointNodes' : \A s \in hashes[n] : ring'[s] # Client!Hash!NoNode
      <4> SUFFICES ASSUME NEW n \in Client!EndpointNodes', NEW s \in hashes[n]
                   PROVE  ring'[s] # Client!Hash!NoNode
        OBVIOUS
      <4>1. n \in Endpoints /\ s \in Client!Hash!Slot
        BY <1>1, <2>3, <3>2, NodesOfEndpoints, SMTT(30) DEF EndpointRing, HashType
      <4> QED BY <2>3, <2>6, <3>2, <3>5, <4>1, SMTT(30) DEF EndpointRing
    <3>8. DOMAIN ring' = Client!Hash!Slot
      BY <3>1, SMTT(30)
    <3> QED BY <1>1, <1>2, <2>2, <2>4, <2>6, <3>3, <3>6, <3>7, <3>8, SMTT(30) DEF EndpointRing, HashType
  <2> QED BY <2>5, <2>6
<1> QED
  BY <1>3, <1>4 DEF Client!ConnectNode

LEMMA DisconnectKeepsRing == ASSUME TurnsInv, EndpointRing, Client!Disconnect PROVE EndpointRing'
<1>1. /\ endpoints' = <<>> /\ UNCHANGED <<lbPolicy, hashes>>
      /\ Client!EndpointNodes' = {}
  BY DEF Client!Disconnect, Client!hashFunc, Client!EndpointNodes
<1>2. CASE lbPolicy # "CONSISTENT_HASH"
  BY <1>1, <1>2, Zenon DEF EndpointRing, HashType, Client!Disconnect
<1>3. CASE lbPolicy = "CONSISTENT_HASH"
  <2>1. /\ nodeHashes' = [n \in Endpoints |-> IF n \in Client!EndpointNodes THEN {} ELSE nodeHashes[n]]
        /\ ring' = [s \in Client!Hash!Slot |->
                      IF \E n \in Client!EndpointNodes : s \in nodeHashes[n]
                      THEN Client!Hash!NoNode ELSE ring[s]]
    BY <1>3, Zenon DEF Client!Disconnect
  <2>2. \A n \in Endpoints : nodeHashes'[n] = {}
    BY <1>3, <2>1 DEF EndpointRing
  <2>3. ASSUME NEW s \in Client!Hash!Slot, ring[s] # Client!Hash!NoNode
        PROVE  \E n \in Client!EndpointNodes : s \in nodeHashes[n]
    <3>1. ring[s] \in Client!EndpointNodes /\ s \in hashes[ring[s]]
      BY <1>3, <2>3 DEF EndpointRing
    <3>2. ring[s] \in Endpoints
      BY <3>1, NodesOfEndpoints DEF TurnsInv
    <3> QED BY <1>3, <3>1, <3>2, Zenon DEF EndpointRing
  <2>4. \A s \in Client!Hash!Slot : ring'[s] = Client!Hash!NoNode
    BY <2>1, <2>3
  <2>5. nodeHashes' = [n \in Endpoints |-> {}] /\ DOMAIN ring' = Client!Hash!Slot
    BY <2>1, <2>2
  <2> QED BY <1>1, <1>3, <2>4, <2>5, Zenon DEF EndpointRing, HashType
<1> QED
  BY <1>2, <1>3

LEMMA PolicyKeepsRing == ASSUME TurnsInv, EndpointRing, Client!SetLBPolicy PROVE EndpointRing'
<1>1. UNCHANGED <<endpoints, hashes, Client!EndpointNodes>>
  BY DEF Client!SetLBPolicy, Client!hashFunc, Client!EndpointNodes
<1>2. CASE lbPolicy' = "RR" /\ nodeHashes' = Client!NoHashes
  BY <1>1, <1>2 DEF EndpointRing, HashType, Client!NoHashes
<1>3. CASE lbPolicy' = "CONSISTENT_HASH" /\ Client!BuildRing
  <2>0. endpoints \in Seq(Endpoint) /\ Len(endpoints) \in Nat /\ DOMAIN endpoints = 1 .. Len(endpoints)
    BY SMTT(30) DEF TurnsInv
  <2>1. /\ nodeHashes' = [n \in Endpoints |-> IF n \in Client!EndpointNodes THEN hashes[n] ELSE {}]
        /\ ring' = [s \in Client!Hash!Slot |->
                      IF Client!Sharing(s) = {} THEN Client!Hash!NoNode
                      ELSE endpoints[Client!Max(Client!Sharing(s))].node]
    BY <1>3 DEF Client!BuildRing
  <2>2. ASSUME NEW s \in Client!Hash!Slot, Client!Sharing(s) # {}
        PROVE  /\ ring'[s] \in Client!EndpointNodes /\ s \in hashes[ring'[s]]
               /\ ring'[s] # Client!Hash!NoNode
    <3>1. Client!Sharing(s) \in SUBSET (1 .. Len(endpoints))
      BY <2>0 DEF Client!Sharing
    <3>2. \E x \in Client!Sharing(s) : \A y \in Client!Sharing(s) : x >= y
      BY <2>0, <2>2, <3>1, GreatestIndex, Zenon
    <3>3. Client!Max(Client!Sharing(s)) \in Client!Sharing(s)
      BY <3>2 DEF Client!Max
    <3>4. ring'[s] \in Client!EndpointNodes /\ s \in hashes[ring'[s]]
      BY <2>1, <2>2, <3>3, Zenon DEF Client!Sharing, Client!EndpointNodes
    <3> QED
      BY <2>0, <3>4, NodesOfEndpoints, RingConstants, SMTT(30) DEF Hash!NoNode, Client!Hash!NoNode
  <2>3. ASSUME NEW s \in Client!Hash!Slot, Client!Sharing(s) = {}
        PROVE  ring'[s] = Client!Hash!NoNode
    BY <2>1, <2>3, SMTT(30)
  <2>4. ASSUME NEW n \in Client!EndpointNodes, NEW s \in hashes[n]
        PROVE  ring'[s] # Client!Hash!NoNode
    <3>1. s \in Client!Hash!Slot
      BY <2>0, NodesOfEndpoints DEF EndpointRing, HashType
    <3>2. Client!Sharing(s) # {}
      BY DEF Client!Sharing, Client!EndpointNodes
    <3> QED BY <2>2, <3>1, <3>2, SMTT(30)
  <2>5. DOMAIN ring' = Client!Hash!Slot
    BY <2>1, SMTT(30)
  <2>6. \A s \in Client!Hash!Slot : ring'[s] # Client!Hash!NoNode =>
          ring'[s] \in Client!EndpointNodes /\ s \in hashes[ring'[s]]
    BY <2>2, <2>3
  <2> QED BY <1>1, <1>3, <2>1, <2>4, <2>5, <2>6, Zenon DEF EndpointRing, HashType
<1> QED
  BY <1>2, <1>3, SMTT(30) DEF Client!SetLBPolicy

LEMMA RingKept ==
  ASSUME EndpointRing, UNCHANGED <<lbPolicy, hashes, ring, nodeHashes>>,
         Client!EndpointNodes' = Client!EndpointNodes
  PROVE  EndpointRing'
  BY Zenon DEF EndpointRing, HashType

LEMMA NextRing == TurnsInv /\ EndpointRing /\ [Client!Next]_(Client!vars) => EndpointRing'
<1> SUFFICES ASSUME TurnsInv, EndpointRing, [Client!Next]_(Client!vars) PROVE EndpointRing'
  OBVIOUS
<1>1. CASE UNCHANGED Client!vars
  BY <1>1, RingKept, Zenon DEF Client!vars, Client!hashFunc, Client!EndpointNodes
<1>2. CASE Client!Connect
  BY <1>2, RingKept DEF Client!Connect, Client!hashFunc, Client!EndpointNodes
<1>3. CASE Client!ConnectNode
  BY <1>3, ConnectKeepsRing
<1>4. CASE Client!Disconnect
  BY <1>4, DisconnectKeepsRing, Zenon
<1>5. CASE Client!SetLBPolicy
  BY <1>5, PolicyKeepsRing
<1>6. ASSUME NEW i \in DOMAIN endpoints, Client!Link(i) PROVE EndpointRing'
  <2>1. PICK e : e = [endpoints[i] EXCEPT !.linked = ~endpoints[i].linked] /\ endpoints' = [endpoints EXCEPT ![i] = e]
    BY <1>6, Zenon DEF Client!Link
  <2>2. endpoints[i] \in Endpoint /\ e.node = endpoints[i].node
    <3>1. endpoints[i] \in Endpoint
      BY <1>6 DEF TurnsInv
    <3>2. e.node = endpoints[i].node
      BY <2>1, <3>1 DEF Endpoint
    <3> QED BY <3>1, <3>2
  <2>3. /\ DOMAIN endpoints' = DOMAIN endpoints
        /\ \A j \in DOMAIN endpoints : endpoints'[j].node = endpoints[j].node
    BY <2>1, <2>2, SMTT(30) DEF TurnsInv
  <2>4. Client!EndpointNodes' = Client!EndpointNodes
    BY <2>3, Zenon DEF Client!EndpointNodes
  <2> QED BY <1>6, <2>4, RingKept DEF Client!Link, Client!hashFunc
<1>7. ASSUME NEW c \in Callers, Client!Send(c) PROVE EndpointRing'
  BY <1>7, RingKept, Zenon DEF Client!Send, Client!hashFunc, Client!EndpointNodes
<1>8. ASSUME NEW c \in Callers, NEW k \in Keys, Client!GetTcpClient(c, k) PROVE EndpointRing'
  BY <1>8, RingKept DEF Client!GetTcpClient, Client!hashFunc, Client!EndpointNodes
<1> QED
  BY <1>1, <1>2, <1>3, <1>4, <1>5, <1>6, <1>7, <1>8, SMTT(30) DEF Client!Next

\* getNode() takes the least of a set of slots.
LEMMA NodeOfSlot ==
  ASSUME NEW k \in Keys, \E s \in Client!Hash!Slot : ring[s] # Client!Hash!NoNode
  PROVE  \E s \in Client!Hash!Slot : ring[s] # Client!Hash!NoNode /\ Client!Hash!GetNode(k) = ring[s]
<1> DEFINE used == {s \in Client!Hash!Slot : ring[s] # Client!Hash!NoNode}
           after == {s \in used : s >= keyHash[k]}
           chosen == IF after # {} THEN after ELSE used
<1>1. chosen \in SUBSET Nat /\ chosen # {} /\ chosen \subseteq used
  BY RingConstants DEF Client!Hash!Slot
<1>2. Client!Hash!GetNode(k) = ring[Client!Hash!Min(chosen)]
  BY DEF Client!Hash!GetNode
<1> HIDE DEF chosen
<1>3. Client!Hash!Min(chosen) \in chosen
  BY <1>1, LeastNatural, Zenon DEF Client!Hash!Min
<1> QED
  BY <1>1, <1>2, <1>3, Zenon

LEMMA RingServes == ASSUME TurnsInv, EndpointRing PROVE Client!RingIsEndpoints
<1>0. endpoints \in Seq(Endpoint) /\ Client!EndpointNodes \subseteq Endpoints
  BY NodesOfEndpoints, SMTT(30) DEF TurnsInv
<1>1. {n \in Endpoints : nodeHashes[n] # {}}
        = IF lbPolicy = "CONSISTENT_HASH" THEN Client!EndpointNodes ELSE {}
  BY <1>0, SMTT(30) DEF EndpointRing, HashType
<1>2. ASSUME lbPolicy = "CONSISTENT_HASH", endpoints # <<>>, NEW k \in Keys
      PROVE  Client!Hash!GetNode(k) \in Client!EndpointNodes
  <2>1. 1 \in DOMAIN endpoints
    BY <1>0, <1>2, SMTT(30)
  <2>2. endpoints[1].node \in Client!EndpointNodes
    BY <2>1 DEF Client!EndpointNodes
  <2>3. PICK s : s \in hashes[endpoints[1].node]
    BY <1>0, <2>2, SMTT(30) DEF EndpointRing, HashType
  <2>4. s \in Client!Hash!Slot /\ ring[s] # Client!Hash!NoNode
    BY <1>0, <1>2, <2>2, <2>3, SMTT(30) DEF EndpointRing, HashType
  <2> QED BY <1>2, <2>4, NodeOfSlot, SMTT(30) DEF EndpointRing
<1> QED
  BY <1>1, <1>2 DEF Client!RingIsEndpoints

ClientInv == subject = "client" => TurnsInv /\ EndpointRing

LEMMA HashBegins ==
  ASSUME Client!InitCalls, Client!Hash!Init
  PROVE  TurnsInv /\ EndpointRing
<1>1. \A S : Client!Hash!Cardinality(S) = Cardinality(S)
  BY Zenon DEF Client!Hash!Cardinality, Cardinality
<1>2. hashes \in [Endpoints -> {T \in SUBSET Client!Hash!Slot : Cardinality(T) \in 1 .. EndpointVirtualNodes}]
  BY <1>1 DEF Client!Hash!Init
<1>3. HashType(Endpoints, Client!Hash!Slot)
  BY <1>2, HashInit
<1> QED
  BY <1>3 DEF TurnsInv, EndpointRing, Client!InitCalls, Client!Hash!Init

\* Under consistent hashing the ring has exactly the nodes of the endpoints, whenever the
\* policy is set and whatever connect() and disconnect() did, and getTcpClient() finds the
\* endpoint a key is hashed to: for any hash, also one that gives two nodes one slot.
THEOREM RingFollowsEndpoints == MCSpec => []RingIsEndpoints
<1>1. MCInit => ClientInv
  BY HashBegins DEF MCInit, ClientInv
<1>2. ClientInv /\ [MCNext]_mcVars => ClientInv'
  <2> SUFFICES ASSUME ClientInv, [MCNext]_mcVars, subject' = "client" PROVE (TurnsInv /\ EndpointRing)'
    BY DEF ClientInv
  <2>1. subject = "client" /\ [Client!Next]_(Client!vars)
    BY DEF MCNext, mcVars, ringVars, clientVars, Client!vars, Client!hashFunc
  <2> QED BY <2>1, NextTurns, NextRing DEF ClientInv
<1>3. ClientInv => RingIsEndpoints
  BY RingServes DEF ClientInv, RingIsEndpoints
<1> QED
  BY <1>1, <1>2, <1>3, PTL DEF MCSpec

-----------------------------------------------------------------------------
(* The ring by itself *)

KeyType == keyHash \in [Keys -> Hash!Slot]

\* Clockwise from the key, the slot g comes no later than the slot s.
NoLater(k, g, s) == IF s >= keyHash[k] THEN keyHash[k] <= g /\ g <= s
                    ELSE keyHash[k] <= g \/ g <= s

Used(s) == s \in Hash!Slot /\ ring[s] # Hash!NoNode

\* getNode() returns the node of the slot in use that comes first after the key.
FirstSlot ==
  \A k \in Keys :
    \/ Hash!GetNode(k) = Hash!NoNode /\ \A s : ~ Used(s)
    \/ \E g \in Hash!Slot : /\ Used(g) /\ Hash!GetNode(k) = ring[g]
                            /\ \A s \in Hash!Slot : Used(s) => NoLater(k, g, s)

LEMMA GetNodeIsFirst == KeyType => FirstSlot
<1> SUFFICES ASSUME KeyType, NEW k \in Keys, \E s : Used(s)
             PROVE  \E g \in Hash!Slot : /\ Used(g) /\ Hash!GetNode(k) = ring[g]
                                         /\ \A s \in Hash!Slot : Used(s) => NoLater(k, g, s)
  <2>1. ASSUME NEW k \in Keys, \A s : ~ Used(s) PROVE Hash!GetNode(k) = Hash!NoNode
    BY <2>1 DEF Used, Hash!GetNode
  <2> QED BY <2>1 DEF FirstSlot
<1> DEFINE used == {s \in Hash!Slot : ring[s] # Hash!NoNode}
           after == {s \in used : s >= keyHash[k]}
           chosen == IF after # {} THEN after ELSE used
<1>0. Hash!Slot \subseteq Nat /\ keyHash[k] \in Nat /\ \A s \in Hash!Slot : s \in Nat
  BY RingConstants DEF Hash!Slot, KeyType
<1>1. chosen \in SUBSET Nat /\ chosen # {} /\ chosen \subseteq used
  BY <1>0, Zenon DEF Used
<1>2. Hash!GetNode(k) = ring[Hash!Min(chosen)]
  BY <1>1 DEF Hash!GetNode
<1> DEFINE g == Hash!Min(chosen)
<1>3. g \in chosen /\ \A y \in chosen : g <= y
  <2> HIDE DEF chosen
  <2> QED BY <1>1, LeastNatural, Zenon DEF Hash!Min
<1>4. Used(g)
  BY <1>1, <1>3, Zenon DEF Used
<1> HIDE DEF g
<1>5. ASSUME NEW s \in Hash!Slot, Used(s) PROVE NoLater(k, g, s)
  <2>1. CASE after # {}
    BY <1>0, <1>3, <1>5, <2>1, Zenon DEF NoLater, Used
  <2>2. CASE after = {}
    BY <1>0, <1>3, <1>5, <2>2, Zenon DEF NoLater, Used
  <2> QED BY <2>1, <2>2, Zenon
<1> QED
  BY <1>2, <1>4, <1>5, Zenon DEF g, Used

LEMMA FirstIsUnique ==
  ASSUME KeyType, NEW k \in Keys, NEW g \in Hash!Slot, NEW h \in Hash!Slot,
         NoLater(k, g, h), NoLater(k, h, g)
  PROVE  g = h
<1>1. g \in Nat /\ h \in Nat /\ keyHash[k] \in Nat
  BY RingConstants DEF Hash!Slot, KeyType
<1> QED
  BY <1>1 DEF NoLater

LEMMA ClockwiseDistance ==
  ASSUME KeyType, NEW k \in Keys, NEW s \in Hash!Slot
  PROVE  Hash!Distance(k, s) = IF s >= keyHash[k] THEN s - keyHash[k] ELSE s + Slots - keyHash[k]
<1> DEFINE h == keyHash[k]
           x == s + Slots - h
<1>1. /\ Slots \in Nat \ {0} /\ h \in 0 .. Slots - 1 /\ s \in 0 .. Slots - 1 /\ x \in Nat
      /\ Hash!Distance(k, s) = x % Slots
  BY RingConstants DEF Hash!Slot, KeyType, Hash!Distance
<1> HIDE DEF h
<1>2. x \div Slots \in Nat /\ x % Slots \in 0 .. Slots - 1 /\ x = Slots * (x \div Slots) + (x % Slots)
  BY <1>1, Division, Zenon
<1>3. CASE s >= h
  <2>1. x = Slots * 1 + (s - h) /\ s - h \in 0 .. Slots - 1
    BY <1>1, <1>3, SMTT(30)
  <2>2. x % Slots = s - h
    BY <1>1, <1>2, <2>1, RemainderIsUnique, SMTT(30)
  <2> QED BY <1>1, <1>3, <2>2, Zenon DEF h
<1>4. CASE s < h
  <2>1. x = Slots * 0 + x /\ x \in 0 .. Slots - 1
    BY <1>1, <1>4, SMTT(30)
  <2>2. x % Slots = x
    BY <1>1, <1>2, <2>1, RemainderIsUnique, SMTT(30)
  <2> QED BY <1>1, <1>4, <2>2, SMTT(30) DEF h
<1> QED
  BY <1>1, <1>3, <1>4, SMTT(30)

\* A slot belongs to a node that is there and has it; without collisions every slot of
\* every node that is there.
ServerRing ==
  /\ HashType(Servers, Hash!Slot) /\ KeyType
  /\ DOMAIN nodeHashes = Servers /\ \A n \in Servers : nodeHashes[n] = {} \/ nodeHashes[n] = hashes[n]
  /\ \A s \in Hash!Slot : ring[s] # Hash!NoNode => ring[s] \in Hash!Present /\ s \in hashes[ring[s]]
  /\ ~ Hash!Collide => \A n \in Hash!Present : \A s \in hashes[n] : ring[s] = n

LEMMA AddedSlots ==
  ASSUME ServerRing, NEW n \in Servers, Hash!AddNode(n)
  PROVE  /\ \A s \in Hash!Slot : ring'[s] = IF s \in hashes[n] THEN n ELSE ring[s]
         /\ Hash!Present' = Hash!Present \cup {n}
         /\ nodeHashes' = [nodeHashes EXCEPT ![n] = hashes[n]] /\ UNCHANGED <<hashes, keyHash>>
<1>1. nodeHashes[n] \subseteq hashes[n] /\ hashes[n] # {} /\ DOMAIN nodeHashes = Servers
  BY Zenon DEF ServerRing, HashType
<1> QED
  BY <1>1, Zenon DEF Hash!AddNode, Hash!Erased, Hash!Present

LEMMA RemovedSlots ==
  ASSUME ServerRing, NEW n \in Servers, Hash!RemoveNode(n)
  PROVE  /\ \A s \in Hash!Slot : ring'[s] = IF s \in hashes[n] THEN Hash!NoNode ELSE ring[s]
         /\ n \in Hash!Present /\ Hash!Present' = Hash!Present \ {n}
         /\ nodeHashes' = [nodeHashes EXCEPT ![n] = {}] /\ UNCHANGED <<hashes, keyHash>>
<1>1. nodeHashes[n] = hashes[n] /\ DOMAIN nodeHashes = Servers
  BY DEF ServerRing, Hash!RemoveNode
<1> QED
  BY <1>1, Zenon DEF Hash!RemoveNode, Hash!Erased, Hash!Present

LEMMA NextServerRing == ServerRing /\ [Hash!Next]_ringVars => ServerRing'
<1> SUFFICES ASSUME ServerRing, [Hash!Next]_ringVars PROVE ServerRing'
  BY Zenon
<1>0. /\ \A n \in Servers : hashes[n] \subseteq Hash!Slot /\ n # Hash!NoNode
      /\ Hash!Present \subseteq Servers
  BY RingConstants DEF ServerRing, HashType, Hash!Present
<1>1. CASE UNCHANGED ringVars
  <2>1. UNCHANGED <<hashes, keyHash, ring, nodeHashes>> /\ UNCHANGED <<Hash!Present, Hash!Collide>>
    BY <1>1 DEF ringVars, Hash!Present, Hash!Collide
  <2> QED BY <2>1, Zenon DEF ServerRing, HashType, KeyType
<1>2. ASSUME NEW n \in Servers, Hash!AddNode(n) PROVE ServerRing'
  <2>1. /\ \A s \in Hash!Slot : ring'[s] = IF s \in hashes[n] THEN n ELSE ring[s]
        /\ Hash!Present' = Hash!Present \cup {n}
        /\ nodeHashes' = [nodeHashes EXCEPT ![n] = hashes[n]] /\ UNCHANGED <<hashes, keyHash>>
    BY <1>2, AddedSlots, Zenon
  <2>2. HashType(Servers, Hash!Slot)' /\ KeyType' /\ (Hash!Collide' <=> Hash!Collide)
    BY <2>1, Zenon DEF ServerRing, HashType, KeyType, Hash!Collide
  <2>3. /\ DOMAIN nodeHashes' = Servers
        /\ \A m \in Servers : nodeHashes'[m] = {} \/ nodeHashes'[m] = hashes'[m]
    BY <2>1, Zenon DEF ServerRing
  <2>4. \A s \in Hash!Slot : ring'[s] # Hash!NoNode =>
          ring'[s] \in Hash!Present' /\ s \in hashes'[ring'[s]]
    BY <2>1, Zenon DEF ServerRing
  <2>5. ASSUME ~ Hash!Collide, NEW m \in Hash!Present', NEW s \in hashes[m] PROVE ring'[s] = m
    <3>1. m \in Servers /\ s \in Hash!Slot
      BY <1>0, <2>1, Zenon
    <3>2. CASE m = n
      BY <2>1, <3>1, <3>2, Zenon
    <3>3. CASE m # n
      BY <2>1, <2>5, <3>1, <3>3, Zenon DEF ServerRing, Hash!Collide
    <3> QED BY <3>2, <3>3, Zenon
  <2>6. ~ Hash!Collide' => \A m \in Hash!Present' : \A s \in hashes'[m] : ring'[s] = m
    BY <2>1, <2>2, <2>5, Zenon
  <2> QED BY <2>2, <2>3, <2>4, <2>6, Zenon DEF ServerRing
<1>3. ASSUME NEW n \in Servers, Hash!RemoveNode(n) PROVE ServerRing'
  <2>1. /\ \A s \in Hash!Slot : ring'[s] = IF s \in hashes[n] THEN Hash!NoNode ELSE ring[s]
        /\ Hash!Present' = Hash!Present \ {n}
        /\ nodeHashes' = [nodeHashes EXCEPT ![n] = {}] /\ UNCHANGED <<hashes, keyHash>>
    BY <1>3, RemovedSlots, Zenon
  <2>2. HashType(Servers, Hash!Slot)' /\ KeyType' /\ (Hash!Collide' <=> Hash!Collide)
    BY <2>1, Zenon DEF ServerRing, HashType, KeyType, Hash!Collide
  <2>3. /\ DOMAIN nodeHashes' = Servers
        /\ \A m \in Servers : nodeHashes'[m] = {} \/ nodeHashes'[m] = hashes'[m]
    BY <2>1, Zenon DEF ServerRing
  <2>4. \A s \in Hash!Slot : ring'[s] # Hash!NoNode =>
          ring'[s] \in Hash!Present' /\ s \in hashes'[ring'[s]]
    BY <2>1, Zenon DEF ServerRing
  <2>5. ASSUME ~ Hash!Collide, NEW m \in Hash!Present', NEW s \in hashes[m] PROVE ring'[s] = m
    <3>1. m \in Servers /\ m \in Hash!Present /\ m # n /\ s \in Hash!Slot
      BY <1>0, <2>1
    <3> QED BY <2>1, <2>5, <3>1, Zenon DEF ServerRing, Hash!Collide
  <2>6. ~ Hash!Collide' => \A m \in Hash!Present' : \A s \in hashes'[m] : ring'[s] = m
    BY <2>1, <2>2, <2>5, Zenon
  <2> QED BY <2>2, <2>3, <2>4, <2>6, Zenon DEF ServerRing
<1> QED
  BY <1>1, <1>2, <1>3, Zenon DEF Hash!Next

LEMMA NearestIsOwner == ServerRing => Hash!OwnsNearest
<1> SUFFICES ASSUME ServerRing, NEW k \in Keys
             PROVE  /\ Hash!GetNode(k) \in Hash!Present \cup {Hash!NoNode}
                    /\ Hash!Collide \/ \A n \in Hash!Present : Hash!Nearest(k, n) => Hash!GetNode(k) = n
  BY Zenon DEF Hash!OwnsNearest
<1>0. KeyType /\ FirstSlot
  BY GetNodeIsFirst, Zenon DEF ServerRing
<1>1. Hash!GetNode(k) \in Hash!Present \cup {Hash!NoNode}
  <2>1. CASE Hash!GetNode(k) = Hash!NoNode
    BY <2>1, Zenon
  <2>2. CASE \E g \in Hash!Slot : Used(g) /\ Hash!GetNode(k) = ring[g]
    BY <2>2, Zenon DEF ServerRing, Used
  <2> QED BY <1>0, <2>1, <2>2, Zenon DEF FirstSlot
<1>2. ASSUME ~ Hash!Collide, NEW n \in Hash!Present, Hash!Nearest(k, n) PROVE Hash!GetNode(k) = n
  <2>1. PICK s \in hashes[n] : \A m \in Hash!Present : \A r \in hashes[m] :
          Hash!Distance(k, s) <= Hash!Distance(k, r)
    BY <1>2, Zenon DEF Hash!Nearest
  <2>2. n \in Servers /\ n # Hash!NoNode /\ s \in Hash!Slot /\ ring[s] = n
    BY <1>2, RingConstants, Zenon DEF ServerRing, HashType, Hash!Present
  <2>3. PICK g \in Hash!Slot : Used(g) /\ Hash!GetNode(k) = ring[g] /\ NoLater(k, g, s)
    BY <1>0, <2>2, Zenon DEF FirstSlot, Used
  <2>4. Hash!Distance(k, s) <= Hash!Distance(k, g)
    BY <2>1, <2>3, Zenon DEF ServerRing, Used
  <2>5. g \in Nat /\ s \in Nat /\ keyHash[k] \in Nat /\ keyHash[k] < Slots /\ g < Slots /\ s < Slots
    <3>1. keyHash[k] \in Hash!Slot
      BY <1>0, Zenon DEF KeyType
    <3> QED BY <2>2, <2>3, <3>1, RingConstants, SMTT(30) DEF Hash!Slot
  <2>6. g = s
    <3>1. /\ Hash!Distance(k, s) = IF s >= keyHash[k] THEN s - keyHash[k] ELSE s + Slots - keyHash[k]
          /\ Hash!Distance(k, g) = IF g >= keyHash[k] THEN g - keyHash[k] ELSE g + Slots - keyHash[k]
      BY <1>0, <2>2, <2>3, ClockwiseDistance, Zenon
    <3> QED BY <2>3, <2>4, <2>5, <3>1, RingConstants, SMTT(30) DEF NoLater
  <2> QED BY <2>2, <2>3, <2>6, Zenon
<1> QED
  BY <1>1, <1>2

LEMMA FewMove == ServerRing => Hash!FewKeysMoveStep
<1>0. KeyType' => FirstSlot'
  BY GetNodeIsFirst, PTL
<1> SUFFICES ASSUME ServerRing, NEW n \in Servers, NEW k \in Keys
             PROVE  /\ Hash!AddNode(n) => Hash!GetNode(k)' \in {Hash!GetNode(k), n}
                    /\ Hash!RemoveNode(n) =>
                         Hash!Collide \/ Hash!GetNode(k) = n \/ Hash!GetNode(k)' = Hash!GetNode(k)
  BY DEF Hash!FewKeysMoveStep
<1>1. KeyType /\ FirstSlot
  BY GetNodeIsFirst, Zenon DEF ServerRing
<1>2. hashes[n] \subseteq Hash!Slot /\ hashes[n] # {} /\ n # Hash!NoNode
  BY RingConstants DEF ServerRing, HashType
<1>3. ASSUME UNCHANGED keyHash
      PROVE  FirstSlot' /\ \A g, s \in Hash!Slot : NoLater(k, g, s)' <=> NoLater(k, g, s)
  BY <1>0, <1>1, <1>3, Zenon DEF KeyType, NoLater
<1>4. ASSUME Hash!AddNode(n) PROVE Hash!GetNode(k)' \in {Hash!GetNode(k), n}
  <2>1. /\ \A s \in Hash!Slot : ring'[s] = IF s \in hashes[n] THEN n ELSE ring[s]
        /\ UNCHANGED keyHash
    BY <1>4, AddedSlots
  <2>2. \E s \in Hash!Slot : Used(s)'
    BY <1>2, <2>1, Zenon DEF Used
  <2>3. PICK h \in Hash!Slot : /\ Used(h)' /\ Hash!GetNode(k)' = ring'[h]
                               /\ \A s \in Hash!Slot : Used(s)' => NoLater(k, h, s)
    BY <1>3, <2>1, <2>2, Zenon DEF FirstSlot
  <2>4. CASE h \in hashes[n]
    BY <2>1, <2>3, <2>4, Zenon
  <2>5. CASE h \notin hashes[n]
    <3>1. Used(h) /\ Hash!GetNode(k)' = ring[h]
      BY <2>1, <2>3, <2>5, Zenon DEF Used
    <3>2. PICK g \in Hash!Slot : Used(g) /\ Hash!GetNode(k) = ring[g] /\ NoLater(k, g, h)
      BY <1>1, <3>1, Zenon DEF FirstSlot
    <3>3. Used(g)'
      BY <1>2, <2>1, <3>2, Zenon DEF Used
    <3>4. g = h
      BY <1>1, <2>3, <3>2, <3>3, FirstIsUnique, Zenon
    <3> QED BY <3>1, <3>2, <3>4, Zenon
  <2> QED BY <2>4, <2>5, Zenon
<1>5. ASSUME Hash!RemoveNode(n), ~ Hash!Collide, Hash!GetNode(k) # n
      PROVE  Hash!GetNode(k)' = Hash!GetNode(k)
  <2>1. /\ \A s \in Hash!Slot : ring'[s] = IF s \in hashes[n] THEN Hash!NoNode ELSE ring[s]
        /\ n \in Hash!Present /\ UNCHANGED keyHash
    BY <1>5, RemovedSlots
  <2>2. \A s \in Hash!Slot : Used(s)' => Used(s) /\ ring'[s] = ring[s]
    BY <2>1, Zenon DEF Used
  <2>3. CASE Hash!GetNode(k) = Hash!NoNode /\ \A s : ~ Used(s)
    <3>1. \A s : ~ Used(s)'
      BY <2>2, <2>3, Zenon DEF Used
    <3> QED BY <1>3, <2>1, <2>3, <3>1, Zenon DEF FirstSlot
  <2>4. ASSUME NEW g \in Hash!Slot, Used(g), Hash!GetNode(k) = ring[g],
               \A s \in Hash!Slot : Used(s) => NoLater(k, g, s)
        PROVE  Hash!GetNode(k)' = Hash!GetNode(k)
    <3>1. g \notin hashes[n]
      BY <1>5, <2>1, <2>4, Zenon DEF ServerRing
    <3>2. Used(g)' /\ ring'[g] = ring[g]
      BY <2>1, <2>4, <3>1, Zenon DEF Used
    <3>3. PICK h \in Hash!Slot : Used(h)' /\ Hash!GetNode(k)' = ring'[h] /\ NoLater(k, h, g)
      BY <1>3, <2>1, <3>2, Zenon DEF FirstSlot
    <3>4. h = g
      BY <1>1, <2>2, <2>4, <3>3, FirstIsUnique, Zenon
    <3> QED BY <2>4, <3>2, <3>3, <3>4, Zenon
  <2> QED BY <1>1, <2>3, <2>4, Zenon DEF FirstSlot
<1> QED
  BY <1>4, <1>5

RingInv == subject = "ring" => ServerRing

\* For any number of nodes, virtual nodes and slots and any hash: after any additions and
\* removals getNode() returns no node that was removed, and addNode() takes keys only for
\* the new node; where hashes do not collide, getNode() returns the node nearest clockwise
\* and removeNode() moves only the keys of the node removed.
THEOREM RingMovesFewKeys == MCSpec => RingIsConsistent
<1>1. MCInit => RingInv
  <2> SUFFICES ASSUME Hash!Init PROVE ServerRing
    BY DEF MCInit, RingInv
  <2>1. \A S : Hash!Cardinality(S) = Cardinality(S)
    BY Zenon DEF Hash!Cardinality, Cardinality
  <2>2. hashes \in [Servers -> {T \in SUBSET Hash!Slot : Cardinality(T) \in 1 .. VirtualNodes}]
    BY <2>1 DEF Hash!Init
  <2>3. HashType(Servers, Hash!Slot)
    BY <2>2, HashInit
  <2> QED BY <2>3 DEF ServerRing, KeyType, Hash!Init, Hash!Present
<1>2. RingInv /\ [MCNext]_mcVars => RingInv'
  <2> SUFFICES ASSUME RingInv, [MCNext]_mcVars, subject' = "ring" PROVE ServerRing'
    BY DEF RingInv
  <2>1. subject = "ring" /\ [Hash!Next]_ringVars
    BY DEF MCNext, mcVars
  <2> QED BY <2>1, NextServerRing, Zenon DEF RingInv
<1>3. RingInv => (subject = "ring" => Hash!OwnsNearest)
  BY NearestIsOwner DEF RingInv
<1>4. RingInv => (subject = "ring" => Hash!FewKeysMoveStep)
  BY FewMove DEF RingInv
<1> QED
  BY <1>1, <1>2, <1>3, <1>4, PTL DEF MCSpec, RingIsConsistent

-----------------------------------------------------------------------------
(* EtcdRegistry: what a listener knows, and what is under way to it. *)

EtcdTypes ==
  /\ DOMAIN caller = Registries /\ DOMAIN watch = Registries /\ DOMAIN told = Registries
  /\ DOMAIN event = Registries /\ DOMAIN raced = Registries /\ DOMAIN blind = Registries
  /\ DOMAIN found = Registries /\ \A q \in Registries : DOMAIN found[q] = {"caller", "watch"}
  /\ watch \in [Registries -> {"none", "starting", "waiting", "ls", "callback", "ended"}]
  /\ \A q \in Registries :
       /\ caller[q] \in {"out", "idle", "ls", "callback", "watch", "stopped"}
       /\ caller[q] = "out" => watch[q] = "none"

\* The calling thread and the watch thread are not both about to call the listener.  Before
\* there is a watcher nothing has changed since the list was taken; afterwards a change is
\* still to be returned for or to be listed, or what is about to be told, or was told last,
\* is what etcd has.  A successful ls that meets no other notification makes all this true.
Coming(q) == event[q] \/ watch[q] = "ls" \/ caller[q] = "ls"
Settled(q) ==
  /\ caller[q] = "callback" => found[q]["caller"] = Etcd!Listed
  /\ watch[q] = "callback" => found[q]["watch"] = Etcd!Listed
  /\ caller[q] # "callback" /\ watch[q] # "callback" => told[q] = Etcd!Listed
Told(q) ==
  /\ caller[q] = "callback" => watch[q] # "callback"
  /\ watch[q] \in {"none", "starting"} =>
       /\ caller[q] = "callback" => found[q]["caller"] = Etcd!Listed
       /\ caller[q] = "watch" => told[q] = Etcd!Listed
  /\ watch[q] = "starting" /\ caller[q] = "idle" => told[q] = Etcd!Listed
  /\ watch[q] \in {"waiting", "ls", "callback"} => Coming(q) \/ Settled(q)
ToldInv == \A q \in Registries : Etcd!Up(q) /\ Etcd!Undisturbed(q) => Told(q)

\* A change in etcd while no thread of the listener moves, but that of the caller that made it.
LEMMA ChangeIsTold ==
  ASSUME EtcdTypes, ToldInv, NEW r \in Registries, NEW e, Etcd!Change(r, e),
         UNCHANGED <<watch, found, told, blind>>,
         caller' = caller \/ (caller[r] = "idle" /\ caller' = [caller EXCEPT ![r] = "ls"])
  PROVE  EtcdTypes' /\ ToldInv'
<1>1. /\ event' = [q \in Registries |-> event[q] \/ watch[q] \in {"waiting", "ls", "callback"}]
      /\ raced' = [q \in Registries |->
                     \/ raced[q] \/ watch[q] = "starting"
                     \/ watch[q] = "none" /\ caller[q] \in {"callback", "watch"}]
  BY Zenon DEF Etcd!Change
<1>2. EtcdTypes'
  BY <1>1, Zenon DEF EtcdTypes
<1>3. ASSUME NEW q \in Registries, Etcd!Up(q)', ~raced'[q], ~blind'[q] PROVE Told(q)'
  <2>1. /\ event'[q] = (event[q] \/ watch[q] \in {"waiting", "ls", "callback"}) /\ ~raced[q] /\ ~blind[q]
        /\ watch[q] # "starting" /\ (watch[q] = "none" => caller[q] \notin {"callback", "watch"})
    BY <1>1, <1>3, Zenon
  <2>2. caller'[q] = caller[q] \/ (caller[q] = "idle" /\ caller'[q] = "ls")
    BY Zenon DEF EtcdTypes
  <2>3. Told(q)
    BY <1>3, <2>1, <2>2, Zenon DEF ToldInv, Etcd!Undisturbed, Etcd!Up
  <2> QED BY <2>1, <2>2, <2>3, Zenon DEF Told, Coming
<1> QED BY <1>2, <1>3, Zenon DEF ToldInv, Etcd!Undisturbed

\* A step of server r that leaves etcd as it is, and the other servers alone.
LEMMA OwnStepIsTold ==
  ASSUME EtcdTypes, ToldInv, EtcdTypes', NEW r \in Registries, UNCHANGED entries,
         \A q \in Registries \ {r} :
           /\ caller'[q] = caller[q] /\ watch'[q] = watch[q] /\ event'[q] = event[q]
           /\ found'[q] = found[q] /\ told'[q] = told[q]
           /\ raced'[q] = raced[q] /\ blind'[q] = blind[q],
         Etcd!Up(r)' /\ ~raced'[r] /\ ~blind'[r] => Told(r)'
  PROVE  ToldInv'
<1>1. Etcd!Listed' = Etcd!Listed
  BY Zenon DEF Etcd!Listed
<1>2. ASSUME NEW q \in Registries, q # r, Etcd!Up(q)', ~raced'[q], ~blind'[q] PROVE Told(q)'
  <2>1. Told(q)
    BY <1>2, Zenon DEF ToldInv, Etcd!Undisturbed, Etcd!Up
  <2> QED BY <1>1, <1>2, <2>1, Zenon DEF Told, Coming, Settled
<1> QED BY <1>2, Zenon DEF ToldInv, Etcd!Undisturbed

LEMMA CallsAreTold ==
  ASSUME EtcdTypes, ToldInv, NEW r \in Registries,
         \/ Etcd!Construct(r) \/ Etcd!RegisterService(r) \/ Etcd!DeregisterService(r)
         \/ Etcd!Stop(r) \/ Etcd!Expire(r)
  PROVE  EtcdTypes' /\ ToldInv'
<1>1. CASE Etcd!Construct(r)
  <2>1. /\ caller[r] = "out" /\ caller' = [caller EXCEPT ![r] = "idle"]
        /\ UNCHANGED <<entries, watch, event, found, told, raced, blind>>
    BY <1>1, Zenon DEF Etcd!Construct
  <2>2. EtcdTypes' /\ watch[r] = "none" /\ caller'[r] = "idle" /\ \A q \in Registries \ {r} : caller'[q] = caller[q]
    BY <2>1, Zenon DEF EtcdTypes
  <2>3. Told(r)'
    BY <2>1, <2>2, Zenon DEF Told
  <2> QED BY <2>1, <2>2, <2>3, OwnStepIsTold, Zenon
<1>2. CASE Etcd!RegisterService(r) \/ Etcd!DeregisterService(r)
  <2>1. UNCHANGED <<watch, found, told, blind>>
    BY <1>2, Zenon DEF Etcd!RegisterService, Etcd!DeregisterService
  <2>2. CASE UNCHANGED <<entries, event, raced, caller>>
    BY <2>1, <2>2, Zenon DEF EtcdTypes, ToldInv, Told, Coming, Settled, Etcd!Undisturbed, Etcd!Listed, Etcd!Up
  <2>3. CASE /\ \E e : Etcd!Change(r, e)
             /\ caller[r] = "idle" /\ caller' = [caller EXCEPT ![r] = "ls"]
    BY <2>1, <2>3, ChangeIsTold, Zenon
  <2> QED BY <1>2, <2>2, <2>3, Zenon DEF Etcd!RegisterService, Etcd!DeregisterService
<1>3. CASE Etcd!Stop(r)
  <2>1. /\ caller' = [caller EXCEPT ![r] = "stopped"] /\ watch' = [watch EXCEPT ![r] = "none"]
        /\ UNCHANGED <<entries, event, found, told, raced, blind>>
    BY <1>3, Zenon DEF Etcd!Stop
  <2>2. /\ EtcdTypes' /\ caller'[r] = "stopped"
        /\ \A q \in Registries \ {r} : caller'[q] = caller[q] /\ watch'[q] = watch[q]
    BY <2>1, Zenon DEF EtcdTypes
  <2>3. ~Etcd!Up(r)'
    BY <2>2, Zenon DEF Etcd!Up
  <2> QED BY <2>1, <2>2, <2>3, OwnStepIsTold, Zenon
<1>4. CASE Etcd!Expire(r)
  <2>1. Etcd!Change(r, "absent") /\ UNCHANGED <<caller, watch, found, told, blind>>
    BY <1>4, Zenon DEF Etcd!Expire
  <2> QED BY <2>1, ChangeIsTold, Zenon
<1> QED BY <1>1, <1>2, <1>3, <1>4, Zenon

\* The ls of a thread of r: what it found is current, or the list was disturbed.
LEMMA Discovered ==
  ASSUME EtcdTypes, NEW r \in Registries, NEW t \in {"caller", "watch"}, NEW other,
         Etcd!Discover(r, t, other)
  PROVE  /\ DOMAIN found' = Registries /\ \A q \in Registries : DOMAIN found'[q] = {"caller", "watch"}
         /\ DOMAIN raced' = Registries /\ DOMAIN blind' = Registries
         /\ \A q \in Registries \ {r} :
              found'[q] = found[q] /\ raced'[q] = raced[q] /\ blind'[q] = blind[q]
         /\ ~raced'[r] => other # "callback"
         /\ ~blind'[r] => found'[r][t] = Etcd!Listed
         /\ \A u \in {"caller", "watch"} : u # t => found'[r][u] = found[r][u]
<1>1. raced' = [raced EXCEPT ![r] = (other = "callback")]
  BY Zenon DEF Etcd!Discover
<1>2. CASE found' = [found EXCEPT ![r][t] = Etcd!Listed] /\ blind' = [blind EXCEPT ![r] = FALSE]
  BY <1>1, <1>2, Zenon DEF EtcdTypes
<1>3. CASE found' = [found EXCEPT ![r][t] = {}] /\ blind' = [blind EXCEPT ![r] = TRUE]
  BY <1>1, <1>3, Zenon DEF EtcdTypes
<1> QED BY <1>2, <1>3, Zenon DEF Etcd!Discover

LEMMA CallerIsTold ==
  ASSUME EtcdTypes, ToldInv, NEW r \in Registries, Etcd!CallerStep(r)
  PROVE  EtcdTypes' /\ ToldInv'
<1>0. UNCHANGED <<entries, event>> /\ Etcd!Listed' = Etcd!Listed
  BY Zenon DEF Etcd!CallerStep, Etcd!CallerLs, Etcd!CallerCallback, Etcd!StartWatchLoop, Etcd!Listed
<1>1. CASE Etcd!CallerLs(r)
  <2>1. /\ caller[r] = "ls" /\ caller' = [caller EXCEPT ![r] = "callback"]
        /\ Etcd!Discover(r, "caller", watch[r]) /\ UNCHANGED <<watch, told>>
    BY <1>1, Zenon DEF Etcd!CallerLs
  <2>2. caller'[r] = "callback" /\ \A q \in Registries \ {r} : caller'[q] = caller[q]
    BY <2>1, Zenon DEF EtcdTypes
  <2>3. EtcdTypes'
    BY <1>0, <2>1, <2>2, Discovered, Zenon DEF EtcdTypes
  <2>4. ASSUME ~raced'[r], ~blind'[r] PROVE Told(r)'
    <3>1. watch[r] # "callback" /\ found'[r]["caller"] = Etcd!Listed
      BY <2>1, <2>4, Discovered, Zenon
    <3> QED BY <1>0, <2>1, <2>2, <3>1, Zenon DEF Told, Settled
  <2>5. \A q \in Registries \ {r} :
          found'[q] = found[q] /\ raced'[q] = raced[q] /\ blind'[q] = blind[q]
    BY <2>1, Discovered, Zenon
  <2> QED BY <1>0, <2>1, <2>2, <2>3, <2>4, <2>5, OwnStepIsTold, Zenon
<1>2. CASE Etcd!CallerCallback(r)
  <2>1. /\ caller[r] = "callback" /\ told' = [told EXCEPT ![r] = found[r]["caller"]]
        /\ caller' = [caller EXCEPT ![r] = IF first[r] THEN "watch" ELSE "idle"]
        /\ UNCHANGED <<watch, found, raced, blind>>
    BY <1>2, Zenon DEF Etcd!CallerCallback
  <2>2. /\ caller'[r] = "watch" \/ caller'[r] = "idle"
        /\ told'[r] = found[r]["caller"] /\ EtcdTypes'
        /\ \A q \in Registries \ {r} : caller'[q] = caller[q] /\ told'[q] = told[q]
    BY <1>0, <2>1, Zenon DEF EtcdTypes
  <2>3. ASSUME ~raced[r], ~blind[r] PROVE Told(r)'
    <3>1. Told(r)
      BY <2>1, <2>3, Zenon DEF ToldInv, Etcd!Undisturbed, Etcd!Up
    <3>2. watch[r] # "callback"
      BY <2>1, <3>1, Zenon DEF Told
    <3> QED BY <1>0, <2>1, <2>2, <3>1, <3>2, Zenon DEF Told, Settled, Coming
  <2> QED BY <1>0, <2>1, <2>2, <2>3, OwnStepIsTold, Zenon
<1>3. CASE Etcd!StartWatchLoop(r)
  <2>1. /\ caller[r] = "watch" /\ caller' = [caller EXCEPT ![r] = "idle"]
        /\ watch' = [watch EXCEPT ![r] = IF watch[r] = "none" THEN "starting" ELSE watch[r]]
        /\ UNCHANGED <<found, told, raced, blind>>
    BY <1>3, Zenon DEF Etcd!StartWatchLoop
  <2>2. /\ caller'[r] = "idle" /\ watch'[r] = (IF watch[r] = "none" THEN "starting" ELSE watch[r])
        /\ \A q \in Registries \ {r} : caller'[q] = caller[q] /\ watch'[q] = watch[q]
    BY <2>1, Zenon DEF EtcdTypes
  <2>3. EtcdTypes'
    BY <1>0, <2>1, <2>2, Zenon DEF EtcdTypes
  <2>4. ASSUME ~raced[r], ~blind[r] PROVE Told(r)'
    <3>1. Told(r)
      BY <2>1, <2>4, Zenon DEF ToldInv, Etcd!Undisturbed, Etcd!Up
    <3>2. CASE watch[r] = "none"
      <4>1. watch'[r] = "starting"
        BY <2>2, <3>2, Zenon
      <4>2. told'[r] = Etcd!Listed'
        BY <1>0, <2>1, <3>1, <3>2, Zenon DEF Told
      <4> QED BY <2>2, <4>1, <4>2, Zenon DEF Told
    <3>3. CASE watch[r] # "none"
      <4>1. watch'[r] = watch[r]
        BY <2>2, <3>3, Zenon
      <4>2. Coming(r) => Coming(r)'
        BY <1>0, <2>1, <2>2, <4>1, Zenon DEF Coming
      <4>3. Settled(r) => Settled(r)'
        BY <1>0, <2>1, <2>2, <4>1, Zenon DEF Settled
      <4> QED BY <1>0, <2>1, <2>2, <3>1, <3>3, <4>1, <4>2, <4>3, Zenon DEF Told
    <3> QED BY <3>2, <3>3, Zenon
  <2> QED BY <1>0, <2>1, <2>2, <2>3, <2>4, OwnStepIsTold, Zenon
<1> QED BY <1>1, <1>2, <1>3, Zenon DEF Etcd!CallerStep

LEMMA WatcherIsTold ==
  ASSUME EtcdTypes, ToldInv, NEW r \in Registries, Etcd!WatchStep(r)
  PROVE  EtcdTypes' /\ ToldInv'
<1>0. UNCHANGED <<entries, caller>> /\ Etcd!Listed' = Etcd!Listed
  BY Zenon DEF Etcd!WatchStep, Etcd!MakeWatcher, Etcd!WaitReturns, Etcd!WatchLs, Etcd!WatchCallback,
     Etcd!Listed
<1>1. CASE Etcd!MakeWatcher(r)
  <2>1. /\ watch[r] = "starting" /\ watch' = [watch EXCEPT ![r] = "waiting"]
        /\ UNCHANGED <<event, found, told, raced, blind>>
    BY <1>1, Zenon DEF Etcd!MakeWatcher
  <2>2. caller[r] # "out" /\ watch'[r] = "waiting" /\ \A q \in Registries \ {r} : watch'[q] = watch[q]
    BY <2>1, Zenon DEF EtcdTypes
  <2>3. EtcdTypes'
    BY <1>0, <2>1, <2>2, Zenon DEF EtcdTypes
  <2>4. ASSUME Etcd!Up(r), ~raced[r], ~blind[r] PROVE Told(r)'
    <3>1. Told(r)
      BY <2>4, Zenon DEF ToldInv, Etcd!Undisturbed
    <3>2. caller[r] \in {"idle", "ls", "callback", "watch"}
      BY <2>4, Zenon DEF EtcdTypes, Etcd!Up
    <3>3. Coming(r)' \/ Settled(r)'
      <4>1. CASE caller[r] = "ls"
        BY <1>0, <4>1, Zenon DEF Coming
      <4>2. CASE caller[r] # "ls"
        BY <1>0, <2>1, <2>2, <3>1, <3>2, <4>2, Zenon DEF Told, Settled
      <4> QED BY <4>1, <4>2, Zenon
    <3> QED BY <2>2, <3>3, Zenon DEF Told
  <2>5. Etcd!Up(r)' => Etcd!Up(r)
    BY <1>0, Zenon DEF Etcd!Up
  <2> QED BY <1>0, <2>1, <2>2, <2>3, <2>4, <2>5, OwnStepIsTold, Zenon
<1>2. CASE Etcd!WaitReturns(r)
  <2>1. /\ watch[r] = "waiting" /\ watch' = [watch EXCEPT ![r] = "ls"]
        /\ event' = [event EXCEPT ![r] = FALSE] /\ UNCHANGED <<found, told, raced, blind>>
    BY <1>2, Zenon DEF Etcd!WaitReturns
  <2>2. /\ caller[r] # "out" /\ watch'[r] = "ls"
        /\ \A q \in Registries \ {r} : watch'[q] = watch[q] /\ event'[q] = event[q]
    BY <2>1, Zenon DEF EtcdTypes
  <2>3. EtcdTypes'
    BY <1>0, <2>1, <2>2, Zenon DEF EtcdTypes
  <2>4. Told(r)'
    BY <2>2, Zenon DEF Told, Coming
  <2> QED BY <1>0, <2>1, <2>2, <2>3, <2>4, OwnStepIsTold, Zenon
<1>3. CASE Etcd!WatchLs(r)
  <2>1. /\ watch[r] = "ls" /\ watch' = [watch EXCEPT ![r] = "callback"]
        /\ Etcd!Discover(r, "watch", caller[r]) /\ UNCHANGED <<event, told>>
    BY <1>3, Zenon DEF Etcd!WatchLs
  <2>2. caller[r] # "out" /\ watch'[r] = "callback" /\ \A q \in Registries \ {r} : watch'[q] = watch[q]
    BY <2>1, Zenon DEF EtcdTypes
  <2>3. EtcdTypes'
    BY <1>0, <2>1, <2>2, Discovered, Zenon DEF EtcdTypes
  <2>4. ASSUME ~raced'[r], ~blind'[r] PROVE Told(r)'
    <3>1. caller[r] # "callback" /\ found'[r]["watch"] = Etcd!Listed
      BY <2>1, <2>4, Discovered, Zenon
    <3> QED BY <1>0, <2>2, <3>1, Zenon DEF Told, Settled
  <2>5. \A q \in Registries \ {r} :
          found'[q] = found[q] /\ raced'[q] = raced[q] /\ blind'[q] = blind[q]
    BY <2>1, Discovered, Zenon
  <2> QED BY <1>0, <2>1, <2>2, <2>3, <2>4, <2>5, OwnStepIsTold, Zenon
<1>4. CASE Etcd!WatchCallback(r)
  <2>1. /\ watch[r] = "callback" /\ watch' = [watch EXCEPT ![r] = "waiting"]
        /\ told' = [told EXCEPT ![r] = found[r]["watch"]] /\ UNCHANGED <<event, found, raced, blind>>
    BY <1>4, Zenon DEF Etcd!WatchCallback
  <2>2. /\ caller[r] # "out" /\ watch'[r] = "waiting" /\ told'[r] = found[r]["watch"]
        /\ \A q \in Registries \ {r} : watch'[q] = watch[q] /\ told'[q] = told[q]
    BY <2>1, Zenon DEF EtcdTypes
  <2>3. EtcdTypes'
    BY <1>0, <2>1, <2>2, Zenon DEF EtcdTypes
  <2>4. ASSUME Etcd!Up(r), ~raced[r], ~blind[r] PROVE Told(r)'
    <3>1. Told(r)
      BY <2>4, Zenon DEF ToldInv, Etcd!Undisturbed
    <3>2. Coming(r) => Coming(r)'
      BY <1>0, <2>1, <2>2, Zenon DEF Coming
    <3>3. Settled(r) => Settled(r)'
      BY <1>0, <2>1, <2>2, <3>1, Zenon DEF Settled, Told
    <3> QED BY <1>0, <2>1, <2>2, <3>1, <3>2, <3>3, Zenon DEF Told
  <2>5. Etcd!Up(r)' => Etcd!Up(r)
    BY <1>0, Zenon DEF Etcd!Up
  <2> QED BY <1>0, <2>1, <2>2, <2>3, <2>4, <2>5, OwnStepIsTold, Zenon
<1> QED BY <1>1, <1>2, <1>3, <1>4, Zenon DEF Etcd!WatchStep

\* Wait() returned false: the watcher is over, or a change was lost with it and the listener
\* is blind until the next list, or nothing has happened.
LEMMA FailedWaitIsTold ==
  ASSUME EtcdTypes, ToldInv, NEW r \in Registries, Etcd!WaitFails(r)
  PROVE  EtcdTypes' /\ ToldInv'
<1>0. /\ watch[r] = "waiting" /\ UNCHANGED <<entries, caller, found, told, raced>>
      /\ Etcd!Listed' = Etcd!Listed
  BY Zenon DEF Etcd!WaitFails, Etcd!Listed
<1>1. CASE /\ watch' = [watch EXCEPT ![r] = "ended"] /\ event' = [event EXCEPT ![r] = FALSE]
           /\ blind' = blind
  <2>1. /\ caller[r] # "out" /\ watch'[r] = "ended"
        /\ \A q \in Registries \ {r} : watch'[q] = watch[q] /\ event'[q] = event[q]
    BY <1>0, <1>1, Zenon DEF EtcdTypes
  <2>2. EtcdTypes'
    BY <1>0, <1>1, <2>1, Zenon DEF EtcdTypes
  <2>3. Told(r)'
    BY <2>1, Zenon DEF Told
  <2> QED BY <1>0, <1>1, <2>1, <2>2, <2>3, OwnStepIsTold, Zenon
<1>2. CASE /\ event' = [event EXCEPT ![r] = FALSE] /\ blind' = [blind EXCEPT ![r] = TRUE]
           /\ watch' = watch
  <2>1. blind'[r] /\ \A q \in Registries \ {r} : event'[q] = event[q] /\ blind'[q] = blind[q]
    BY <1>2, Zenon DEF EtcdTypes
  <2>2. EtcdTypes'
    BY <1>0, <1>2, Zenon DEF EtcdTypes
  <2> QED BY <1>0, <1>2, <2>1, <2>2, OwnStepIsTold, Zenon
<1>3. CASE UNCHANGED <<watch, event, blind>>
  BY <1>0, <1>3, Zenon DEF EtcdTypes, ToldInv, Told, Coming, Settled, Etcd!Undisturbed, Etcd!Up
<1> QED BY <1>1, <1>2, <1>3, Zenon DEF Etcd!WaitFails

\* The listener of an EtcdRegistry whose caller is idle, and whose watch thread has a working
\* watcher and nothing to return for in Wait(), was told the service as it is in etcd, for
\* any number of servers and any history of registrations, expiries, failed calls and waits,
\* if its last list was undisturbed: the ls did not fail, it was not made while the other
\* thread was about to call the listener, and since then no change fell before the watcher
\* and none was lost with a Wait() that returned false.
THEOREM ListenerAtRestIsCurrent == Etcd!Spec => []QuietListenerIsCurrent
<1>1. Etcd!Init => EtcdTypes /\ ToldInv
  <2> SUFFICES ASSUME Etcd!Init PROVE EtcdTypes /\ ToldInv
    OBVIOUS
  <2>1. EtcdTypes
    BY Zenon DEF Etcd!Init, EtcdTypes
  <2>2. \A q \in Registries : ~Etcd!Up(q)
    BY Zenon DEF Etcd!Init, Etcd!Up
  <2> QED BY <2>1, <2>2, Zenon DEF ToldInv, Etcd!Undisturbed
<1>2. EtcdTypes /\ ToldInv /\ [Etcd!Next]_Etcd!vars => EtcdTypes' /\ ToldInv'
  <2> SUFFICES ASSUME EtcdTypes, ToldInv, [Etcd!Next]_Etcd!vars PROVE EtcdTypes' /\ ToldInv'
    OBVIOUS
  <2>1. CASE Etcd!Next
    BY <2>1, CallsAreTold, CallerIsTold, WatcherIsTold, FailedWaitIsTold, Zenon DEF Etcd!Next
  <2>2. CASE UNCHANGED Etcd!vars
    <3>1. UNCHANGED <<entries, caller, watch, event, found, told, raced, blind>>
      BY <2>2, Zenon DEF Etcd!vars
    <3> QED BY <3>1, Zenon DEF EtcdTypes, ToldInv, Told, Coming, Settled, Etcd!Undisturbed, Etcd!Listed, Etcd!Up
  <2> QED BY <2>1, <2>2, Zenon
<1>3. EtcdTypes /\ ToldInv => QuietListenerIsCurrent
  BY Zenon DEF ToldInv, Told, Coming, Settled, QuietListenerIsCurrent, Etcd!QuietListenerIsCurrent,
               Etcd!Undisturbed, Etcd!Up
<1> QED BY <1>1, <1>2, <1>3, PTL DEF Etcd!Spec
=============================================================================
