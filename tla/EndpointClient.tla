--------------------------- MODULE EndpointClient ---------------------------
(***************************************************************************)
(* RpcAsyncClient with a registry: connectViaRegistry() connects to every  *)
(* node of the service, and each call picks one of these endpoints, in     *)
(* turn or by the hash ring.  Calls of several threads interleave between  *)
(* the choice of the endpoint and the look at its connection; links break  *)
(* and are restored by the TcpClients.  connect(), disconnect() and        *)
(* setLBPolicy() write members that calls read without a lock, and are     *)
(* taken here as single steps between the steps of calls.                  *)
(***************************************************************************)
EXTENDS Integers, Sequences, Functions, FiniteSetsExt

CONSTANTS
  Servers,              \* the nodes a registry may list
  Keys,                 \* "service/method", which a call is hashed by
  Callers,              \* threads that call
  VirtualNodes, Slots,  \* of the ring
  MaxPicks,             \* bound on rrIndex_
  MaxEndpoints          \* bound on endpoints_

VARIABLES
  endpoints,      \* endpoints_: their nodes, and whether connection() is a connection
  lbPolicy,       \* lbPolicy_; consistentHash_ is there exactly with CONSISTENT_HASH
  hashes, keyHash, ring, nodeHashes,  \* *consistentHash_
  rrIndex,        \* rrIndex_
  disconnecting,  \* disconnecting_
  todo,           \* the nodes connectViaRegistry() has still to try
  picked,         \* caller -> the endpoint getTcpClient() returned, or one of those below
  outcome,        \* what became of the last call in sendRequest()
  missed          \* history: for each endpoint, the picks in turn since it was picked

Hash == INSTANCE ConsistentHash WITH Nodes <- Servers

NoCall == -1
NoClient == 0

hashFunc == <<hashes, keyHash>>
vars == <<endpoints, lbPolicy, hashFunc, ring, nodeHashes, rrIndex, disconnecting, todo, picked, outcome, missed>>

NewRing == [s \in Hash!Slot |-> Hash!NoNode]
NoHashes == [n \in Servers |-> {}]

InitCalls ==
  /\ endpoints = <<>> /\ lbPolicy = "RR" /\ rrIndex = 0 /\ disconnecting = FALSE
  /\ todo = <<>> /\ missed = <<>>
  /\ picked = [c \in Callers |-> NoCall] /\ outcome = "none"

Init == InitCalls /\ Hash!Init

EndpointNodes == {endpoints[i].node : i \in DOMAIN endpoints}
Zeros(s) == [i \in DOMAIN s |-> 0]

-----------------------------------------------------------------------------
(* connect(), with what discover() returned: a list of the service's nodes. *)
Connect ==
  /\ todo = <<>> /\ Len(endpoints) < MaxEndpoints
  /\ \E S \in (SUBSET Servers) \ {{}} : todo' \in Bijection(1 .. Cardinality(S), S)
  /\ UNCHANGED <<endpoints, lbPolicy, hashFunc, ring, nodeHashes, rrIndex, disconnecting, picked, outcome, missed>>

\* One turn of its loop: the node is connected to within three seconds and becomes an
\* endpoint, or it is skipped.
ConnectNode ==
  /\ todo # <<>> /\ todo' = Tail(todo)
  /\ \/ /\ Len(endpoints) < MaxEndpoints
        /\ endpoints' = Append(endpoints, [node |-> Head(todo), linked |-> TRUE])
        /\ missed' = Zeros(endpoints')
        /\ IF lbPolicy = "CONSISTENT_HASH"
           THEN Hash!AddNode(Head(todo)) ELSE UNCHANGED <<hashFunc, ring, nodeHashes>>
     \/ UNCHANGED <<endpoints, missed, hashFunc, ring, nodeHashes>>
  /\ UNCHANGED <<lbPolicy, rrIndex, disconnecting, picked, outcome>>

\* disconnect(): every endpoint leaves the ring and is stopped.
Disconnect ==
  /\ todo = <<>> /\ disconnecting' = TRUE
  /\ endpoints' = <<>> /\ missed' = <<>>
  /\ IF lbPolicy = "CONSISTENT_HASH"
     THEN /\ nodeHashes' = [n \in Servers |-> IF n \in EndpointNodes THEN {} ELSE nodeHashes[n]]
          /\ ring' = [s \in Hash!Slot |->
                        IF \E n \in EndpointNodes : s \in nodeHashes[n] THEN Hash!NoNode ELSE ring[s]]
     ELSE UNCHANGED <<ring, nodeHashes>>
  /\ UNCHANGED <<lbPolicy, hashFunc, rrIndex, todo, picked, outcome>>

\* Fault: a new ring starts empty although there are endpoints.
BuildRing_Empty == ring' = NewRing /\ nodeHashes' = NoHashes

\* The endpoints whose nodes have a hash at the slot.
Sharing(s) == {i \in DOMAIN endpoints : s \in hashes[endpoints[i].node]}

\* The ring of setLBPolicy(): all endpoints are added to a new one, in their order, so
\* that a slot is left to the last that has it.
BuildRing ==
  /\ ring' = [s \in Hash!Slot |->
                IF Sharing(s) = {} THEN Hash!NoNode ELSE endpoints[Max(Sharing(s))].node]
  /\ nodeHashes' = [n \in Servers |-> IF n \in EndpointNodes THEN hashes[n] ELSE {}]

SetLBPolicy ==
  /\ todo = <<>>
  /\ \/ lbPolicy' = "CONSISTENT_HASH" /\ BuildRing
     \/ lbPolicy' = "RR" /\ ring' = NewRing /\ nodeHashes' = NoHashes
  /\ UNCHANGED <<endpoints, hashFunc, rrIndex, disconnecting, todo, picked, outcome, missed>>

-----------------------------------------------------------------------------
\* Fault: the index is advanced only when the endpoint has a connection.
InTurn_SkipsNone(c) ==
  LET idx == (rrIndex % Len(endpoints)) + 1
  IN /\ picked' = [picked EXCEPT ![c] = idx]
     /\ rrIndex' = IF endpoints[idx].linked THEN rrIndex + 1 ELSE rrIndex
     /\ missed' = [i \in DOMAIN missed |-> IF i = idx THEN 0 ELSE missed[i] + 1]

\* getTcpClient() in turn: fetch_add on rrIndex_.
InTurn(c) ==
  LET idx == (rrIndex % Len(endpoints)) + 1
  IN /\ picked' = [picked EXCEPT ![c] = idx] /\ rrIndex' = rrIndex + 1
     /\ missed' = [i \in DOMAIN missed |-> IF i = idx THEN 0 ELSE missed[i] + 1]

\* getTcpClient(): the first endpoint with the node of the ring, else the next in turn.
GetTcpClient(c, k) ==
  LET hit == {i \in DOMAIN endpoints : endpoints[i].node = Hash!GetNode(k)}
      hashed == lbPolicy = "CONSISTENT_HASH" /\ hit # {}
  IN /\ picked[c] = NoCall /\ rrIndex < MaxPicks
     /\ \/ /\ endpoints = <<>> /\ picked' = [picked EXCEPT ![c] = NoClient]
           /\ UNCHANGED <<rrIndex, missed>>
        \/ /\ endpoints # <<>> /\ hashed
           /\ picked' = [picked EXCEPT ![c] = CHOOSE i \in hit : \A j \in hit : i <= j]
           /\ UNCHANGED <<rrIndex, missed>>
        \/ endpoints # <<>> /\ ~hashed /\ InTurn(c)
     /\ UNCHANGED <<endpoints, lbPolicy, hashFunc, ring, nodeHashes, disconnecting, todo, outcome>>

\* The rest of sendRequest(): without a connection the call fails at once.
Connected(i) == i \in DOMAIN endpoints /\ endpoints[i].linked
Send(c) ==
  /\ picked[c] # NoCall /\ picked' = [picked EXCEPT ![c] = NoCall]
  /\ outcome' = IF disconnecting \/ ~Connected(picked[c]) THEN "failed" ELSE "sent"
  /\ UNCHANGED <<endpoints, lbPolicy, hashFunc, ring, nodeHashes, rrIndex, disconnecting, todo, missed>>

\* A link breaks, and the TcpClient reconnects (setRetryOnDisconnect) (external).
Link(i) ==
  /\ endpoints' = [endpoints EXCEPT ![i].linked = ~@]
  /\ UNCHANGED <<lbPolicy, hashFunc, ring, nodeHashes, rrIndex, disconnecting, todo, picked, outcome, missed>>

Next ==
  \/ Connect \/ ConnectNode \/ Disconnect \/ SetLBPolicy
  \/ \E i \in DOMAIN endpoints : Link(i)
  \/ \E c \in Callers : Send(c) \/ \E k \in Keys : GetTcpClient(c, k)

Spec == Init /\ [][Next]_vars

-----------------------------------------------------------------------------
TypeOK ==
  /\ endpoints \in Seq([node : Servers, linked : BOOLEAN]) /\ rrIndex \in 0 .. MaxPicks
  /\ lbPolicy \in {"RR", "CONSISTENT_HASH"} /\ disconnecting \in BOOLEAN
  /\ picked \in [Callers -> {NoCall, NoClient} \cup (1 .. MaxEndpoints)]
  /\ outcome \in {"none", "sent", "failed"}

\* connected(): some endpoint has a connection.
Ready == \E i \in DOMAIN endpoints : endpoints[i].linked

\* However many threads call, and whatever links do meanwhile, taking turns passes an
\* endpoint over fewer times in a row than there are endpoints: with one endpoint that
\* works, not every call of a round can fail for want of a connection.
TurnsReachEveryEndpoint == \A i \in DOMAIN missed : missed[i] < Len(endpoints)

\* Under consistent hashing, whenever the policy was set and however often connect()
\* and disconnect() were called, the ring knows exactly the endpoints, so that a call
\* is never sent to another endpoint than the one its key is hashed to.
RingIsEndpoints ==
  /\ {n \in Servers : nodeHashes[n] # {}} = IF lbPolicy = "CONSISTENT_HASH" THEN EndpointNodes ELSE {}
  /\ lbPolicy = "CONSISTENT_HASH" /\ endpoints # <<>> => \A k \in Keys : Hash!GetNode(k) \in EndpointNodes

\* README.md:20: round robin over several nodes fails over automatically: while an
\* endpoint is connected, no call fails because the one it was given is not.
FailsOver ==
  [][\A c \in Callers : Send(c) /\ picked[c] \in DOMAIN endpoints /\ Ready /\ ~disconnecting =>
       outcome' = "sent"]_vars
=============================================================================
