--------------------------- MODULE MemoryRegistry ---------------------------
(***************************************************************************)
(* MemoryRegistry: every operation changes the table and copies the nodes  *)
(* of the service under mutex_, then calls changeCallback_ with that copy  *)
(* after the lock is released, so the callbacks of two threads may run in  *)
(* the other order.  A listener keeps the last list it was given.          *)
(***************************************************************************)
EXTENDS Integers, Sequences, FiniteSets, Functions

CONSTANTS Services, Nodes, Threads,
          TimeoutSeconds,  \* the argument of cleanupExpiredNodes
          MaxTime          \* bound: ticks of the clock

ASSUME ServicesAssumption == IsFiniteSet(Services)

Absent == -1

VARIABLES
  services,   \* services_: lastHeartbeat of the nodes of each service
  notes,      \* per thread: the notifications it still has to deliver
  view,       \* what the listener was last told of each service
  now,
  serial      \* history: no operation has begun before the last one's callbacks ran

vars == <<services, notes, view, now, serial>>

Init == /\ services = [s \in Services |-> [n \in Nodes |-> Absent]]
        /\ notes = [t \in Threads |-> <<>>] /\ view = [s \in Services |-> {}]
        /\ now = 0 /\ serial = TRUE

Listed(table, s) == {n \in Nodes : table[s][n] # Absent}
Idle(t) == notes[t] = <<>>
Quiet == \A t \in Threads : Idle(t)

\* An operation that changes the table and leaves its thread to notify of S, in the
\* order of the hash table.
Notify(t, S) ==
  /\ \E order \in Bijection(1 .. Cardinality(S), S) :
       notes' = [notes EXCEPT ![t] =
                   [i \in 1 .. Cardinality(S) |-> [svc |-> order[i], nodes |-> Listed(services', order[i])]]]
  /\ serial' = (serial /\ Quiet) /\ UNCHANGED <<view, now>>
-----------------------------------------------------------------------------
(* registerService, under the lock. *)
RegisterService(t, s, n) ==
  /\ Idle(t)
  /\ services' = [services EXCEPT ![s][n] = now] /\ Notify(t, {s})

(* deregisterService, under the lock; nothing happens for an unknown node. *)
DeregisterService(t, s, n) ==
  /\ Idle(t) /\ services[s][n] # Absent
  /\ services' = [services EXCEPT ![s][n] = Absent] /\ Notify(t, {s})

(* heartbeat: no notification. *)
Heartbeat(t, s, n) ==
  /\ Idle(t) /\ services[s][n] # Absent
  /\ services' = [services EXCEPT ![s][n] = now] /\ UNCHANGED <<notes, view, now, serial>>

Surviving(s, n) == IF now - services[s][n] > TimeoutSeconds THEN Absent ELSE services[s][n]
Cleaned == [s \in Services |-> [n \in Nodes |-> Surviving(s, n)]]

(* cleanupExpiredNodes that is silent about a service without nodes. *)
Cleanup_SkipsEmpty(t) ==
  /\ Idle(t) /\ services' = Cleaned
  /\ Notify(t, {s \in Services : Listed(services', s) # {}})

(* cleanupExpiredNodes: every service in the table is notified, also one that has
   lost its last node. *)
Cleanup(t) ==
  /\ Idle(t) /\ services' = Cleaned
  /\ Notify(t, {s \in Services : Listed(services, s) # {}})

(* changeCallback_, outside the lock. *)
Callback(t) ==
  /\ ~Idle(t) /\ view' = [view EXCEPT ![Head(notes[t]).svc] = Head(notes[t]).nodes]
  /\ notes' = [notes EXCEPT ![t] = Tail(@)] /\ UNCHANGED <<services, now, serial>>

(* The clock (external). *)
Tick == now < MaxTime /\ now' = now + 1 /\ UNCHANGED <<services, notes, view, serial>>

Next == \/ Tick
        \/ \E t \in Threads : \/ Cleanup(t) \/ Callback(t)
             \/ \E s \in Services, n \in Nodes : \/ RegisterService(t, s, n)
                                                 \/ DeregisterService(t, s, n)
                                                 \/ Heartbeat(t, s, n)
Spec == Init /\ [][Next]_vars
-----------------------------------------------------------------------------
TypeOK == /\ services \in [Services -> [Nodes -> {Absent} \cup (0..now)]]
          /\ view \in [Services -> SUBSET Nodes] /\ now \in 0..MaxTime /\ serial \in BOOLEAN

Current == \A s \in Services : view[s] = Listed(services, s)

(* The copy for the callback is taken under the lock so that a listener learns of
   every change: with no operation under way it has the current lists. *)
ListenerIsCurrent == Quiet => Current

(* The same when the operations did not overlap, the empty list included that
   cleanupExpiredNodes sends for a service without nodes ("Issue #8 fix"). *)
SerialListenerIsCurrent == serial => ListenerIsCurrent
=============================================================================
