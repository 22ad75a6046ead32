---------------------------- MODULE MCDiscovery -----------------------------
(***************************************************************************)
(* The two registries, the hash ring, and the client that balances its     *)
(* calls, side by side.  The code shares no state between them but the     *)
(* ring of the client, which EndpointClient composes, so a behaviour       *)
(* exercises one of the four.                                              *)
(***************************************************************************)
EXTENDS MemoryRegistry

CONSTANTS Servers, Keys, VirtualNodes, Slots,   \* of the ring
          Endpoints, EndpointVirtualNodes, EndpointSlots, Callers, MaxPicks, MaxEndpoints,
          Registries, MaxChanges, MaxFailures

VARIABLES subject, hashes, keyHash, ring, nodeHashes,
          endpoints, lbPolicy, rrIndex, disconnecting, todo, picked, outcome, missed,
          entries, lease, caller, watch, event, first, found, told, changes, failures, raced, blind

Hash == INSTANCE ConsistentHash WITH Nodes <- Servers
Client == INSTANCE EndpointClient WITH Servers <- Endpoints, VirtualNodes <- EndpointVirtualNodes,
                                        Slots <- EndpointSlots
Etcd == INSTANCE EtcdRegistry WITH view <- told

ASSUME RingConstants == /\ Hash!NoNode \notin Servers \cup Endpoints
                        /\ Slots \in Nat /\ EndpointSlots \in Nat /\ IsFiniteSet(Endpoints)

ringVars == <<hashes, keyHash, ring, nodeHashes>>
clientVars == <<endpoints, lbPolicy, rrIndex, disconnecting, todo, picked, outcome, missed>>
etcdVars == <<entries, lease, caller, watch, event, first, found, told, changes, failures, raced, blind>>
mcVars == <<subject, vars, ringVars, clientVars, etcdVars>>

\* The hash is of no interest to the registries: one will do.
MCInit ==
  /\ Init /\ Etcd!Init /\ Client!InitCalls
  /\ \/ subject = "client" /\ Client!Hash!Init
     \/ subject = "ring" /\ Hash!Init
     \/ /\ subject \in {"registry", "etcd"} /\ Hash!Init
        /\ \A n \in Servers : hashes[n] = {0}
        /\ \A k \in Keys : keyHash[k] = 0

MCNext ==
  \/ subject = "registry" /\ Next /\ UNCHANGED <<subject, ringVars, clientVars, etcdVars>>
  \/ subject = "ring" /\ Hash!Next /\ UNCHANGED <<subject, vars, clientVars, etcdVars>>
  \/ subject = "client" /\ Client!Next /\ UNCHANGED <<subject, vars, etcdVars>>
  \/ subject = "etcd" /\ Etcd!Next /\ UNCHANGED <<subject, vars, ringVars, clientVars>>

MCFairness ==
  \A r \in Registries : /\ WF_etcdVars(subject = "etcd" /\ Etcd!CallerStep(r))
                        /\ WF_etcdVars(subject = "etcd" /\ Etcd!WatchStep(r))
                        /\ WF_etcdVars(subject = "etcd" /\ Etcd!Expire(r))

MCSpec == MCInit /\ [][MCNext]_mcVars /\ MCFairness

-----------------------------------------------------------------------------
\* getNode returns the nearest node, and addNode and removeNode move no more keys than
\* they must: see OwnsNearest and FewKeysMove of ConsistentHash.
RingIsConsistent ==
  /\ [](subject = "ring" => Hash!OwnsNearest)
  /\ [][subject = "ring" => Hash!FewKeysMoveStep]_ringVars

\* getTcpClient() in turn: see EndpointClient!TurnsReachEveryEndpoint.
TurnsReachEveryEndpoint == Client!TurnsReachEveryEndpoint

\* setLBPolicy(), connectViaRegistry() and disconnect(): see EndpointClient!RingIsEndpoints.
RingIsEndpoints == subject = "client" => Client!RingIsEndpoints

\* notifyChange() outside any lock: see EtcdRegistry!QuietListenerIsCurrent.
QuietListenerIsCurrent == Etcd!QuietListenerIsCurrent

\* notifyChange() and the watch loop: see EtcdRegistry!ListenersCatchUp.
ListenersCatchUp == Etcd!ListenersCatchUp
=============================================================================
