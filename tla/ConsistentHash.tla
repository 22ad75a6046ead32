--------------------------- MODULE ConsistentHash ---------------------------
(***************************************************************************)
(* The consistent hash ring of the load balancer.  The hash is an unknown  *)
(* function, chosen once at the start: it gives a key a slot and a node    *)
(* the slots of its virtual nodes.  Like the 32-bit hash of the code it    *)
(* may give two nodes one slot, or a node fewer slots than virtual nodes.  *)
(***************************************************************************)
EXTENDS Naturals, FiniteSets, FiniteSetsExt

CONSTANTS Nodes, Keys,
          VirtualNodes,  \* virtualNodes_
          Slots          \* the range of the hash: 0 .. Slots - 1

Slot == 0..(Slots - 1)
NoNode == "none"

VARIABLES
  hashes,      \* hashFunc_ on the virtual nodes of each node
  keyHash,     \* hashFunc_ on the keys of requests
  ring,        \* ring_: the slots in use, with their nodes
  nodeHashes   \* nodeHashes_: the nodes, with the slots they were given

vars == <<hashes, keyHash, ring, nodeHashes>>

Init == /\ hashes \in [Nodes -> {S \in SUBSET Slot : Cardinality(S) \in 1..VirtualNodes}]
        /\ keyHash \in [Keys -> Slot]
        /\ ring = [s \in Slot |-> NoNode] /\ nodeHashes = [n \in Nodes |-> {}]
-----------------------------------------------------------------------------
(* ring_.erase for every hash of the node. *)
Erased(n) == [s \in Slot |-> IF s \in nodeHashes[n] THEN NoNode ELSE ring[s]]

(* addNode, of a node that may be there already. *)
AddNode(n) ==
  /\ ring' = [s \in Slot |-> IF s \in hashes[n] THEN n ELSE Erased(n)[s]]
  /\ nodeHashes' = [nodeHashes EXCEPT ![n] = hashes[n]] /\ UNCHANGED <<hashes, keyHash>>

(* An erase of the range from the first to the last hash. *)
RangeErased(n) ==
  [s \in Slot |-> IF \E a, b \in nodeHashes[n] : a <= s /\ s <= b THEN NoNode ELSE ring[s]]

(* removeNode that erases a range of the ring. *)
RemoveNode_RangeErase(n) ==
  /\ nodeHashes[n] # {}
  /\ ring' = RangeErased(n) /\ nodeHashes' = [nodeHashes EXCEPT ![n] = {}]
  /\ UNCHANGED <<hashes, keyHash>>

(* removeNode. *)
RemoveNode(n) ==
  /\ nodeHashes[n] # {}
  /\ ring' = Erased(n) /\ nodeHashes' = [nodeHashes EXCEPT ![n] = {}]
  /\ UNCHANGED <<hashes, keyHash>>

Next == \E n \in Nodes : AddNode(n) \/ RemoveNode(n)
Spec == Init /\ [][Next]_vars

(* getNode that takes the last slot at the end of the ring. *)
GetNode_NoWrap(k) ==
  LET used == {s \in Slot : ring[s] # NoNode}
      after == {s \in used : s >= keyHash[k]}
  IN IF used = {} THEN NoNode ELSE ring[IF after # {} THEN Min(after) ELSE Max(used)]

(* getNode: lower_bound, and from the end back to the beginning. *)
GetNode(k) ==
  LET used == {s \in Slot : ring[s] # NoNode}
      after == {s \in used : s >= keyHash[k]}
  IN IF used = {} THEN NoNode ELSE ring[Min(IF after # {} THEN after ELSE used)]
-----------------------------------------------------------------------------
Present == {n \in Nodes : nodeHashes[n] # {}}

TypeOK == /\ hashes \in [Nodes -> SUBSET Slot] /\ keyHash \in [Keys -> Slot]
          /\ ring \in [Slot -> Nodes \cup {NoNode}] /\ nodeHashes \in [Nodes -> SUBSET Slot]

Collide == \E m, n \in Nodes : m # n /\ hashes[m] \cap hashes[n] # {}
Distance(k, s) == (s + Slots - keyHash[k]) % Slots
Nearest(k, n) == \E s \in hashes[n] : \A m \in Present : \A r \in hashes[m] :
                   Distance(k, s) <= Distance(k, r)

(* Whatever additions and removals led to the ring, getNode returns no node that was
   removed, and where hashes do not collide the node with a virtual node at the
   smallest clockwise distance among the nodes that are present. *)
OwnsNearest ==
  \A k \in Keys : /\ GetNode(k) \in Present \cup {NoNode}
                  /\ Collide \/ \A n \in Present : Nearest(k, n) => GetNode(k) = n

(* tests/test_consistent_hash.cc:41: when a node is removed, only its keys move. *)
OnlyItsKeysMove ==
  [][\A n \in Nodes : RemoveNode(n) =>
       \A k \in Keys : GetNode(k) # n => GetNode(k)' = GetNode(k)]_vars

FewKeysMoveStep ==
  \A n \in Nodes, k \in Keys :
    /\ AddNode(n) => GetNode(k)' \in {GetNode(k), n}
    /\ RemoveNode(n) => Collide \/ GetNode(k) = n \/ GetNode(k)' = GetNode(k)

(* addNode moves keys to the new node only and, where hashes do not collide,
   removeNode moves the keys of the removed node only. *)
FewKeysMove == [][FewKeysMoveStep]_vars
=============================================================================
