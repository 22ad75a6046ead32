------------------------------ MODULE Acceptor ------------------------------
(***************************************************************************)
(* Acceptor and its listening Socket: epoll reports the socket again and   *)
(* again while the kernel has connections for it, and each report accepts  *)
(* at most one.  Every accepted descriptor is owned by a Socket, whose     *)
(* destructor closes it; the process may run out of descriptors.           *)
(***************************************************************************)
EXTENDS Naturals, Sequences, FiniteSets

CONSTANTS Peers,        \* who connects, once each
          Descriptors,  \* how many connections the process may have open
          Backlog       \* SOMAXCONN

VARIABLES
  listening,  \* listening_: "no", "yes", or "gone" after the destructor
  reading,    \* listenChannel_ is registered for reading
  pending,    \* the queue of the listening socket (external)
  peer        \* each peer: "away", "waiting", "aborted", "open" or "closed"

vars == <<listening, reading, pending, peer>>

\* The constructor, in which TcpServer sets newConnectionCallback_.
Init == /\ listening = "no" /\ reading = FALSE
        /\ pending = <<>> /\ peer = [p \in Peers |-> "away"]

Listen ==
  /\ listening = "no" /\ listening' = "yes" /\ reading' = TRUE
  /\ UNCHANGED <<pending, peer>>

Open == {p \in Peers : peer[p] = "open"}
FreeDescriptor == Cardinality(Open) < Descriptors

\* Fault: an error of accept4 takes the socket out of epoll.
Failed_StopsReading == reading' = FALSE /\ UNCHANGED <<pending, peer>>

\* accept4 fails for want of a descriptor: Socket::accept returns -1 and the connection
\* stays in the queue.
Failed == UNCHANGED <<reading, pending, peer>>

\* handleRead(): a connection its peer has given up is an error too, and leaves the queue.
HandleRead ==
  /\ reading /\ pending # <<>>
  /\ \/ /\ FreeDescriptor /\ pending' = Tail(pending)
        /\ peer' = [peer EXCEPT ![Head(pending)] = IF @ = "aborted" THEN "closed" ELSE "open"]
        /\ UNCHANGED reading
     \/ ~FreeDescriptor /\ Failed
  /\ UNCHANGED listening

\* A connection ends, and ~Socket closes its descriptor.
CloseSocket(p) ==
  /\ peer[p] = "open" /\ peer' = [peer EXCEPT ![p] = "closed"]
  /\ UNCHANGED <<listening, reading, pending>>

\* ~Acceptor: out of epoll, and the socket is closed with what is in its queue.
Destroy ==
  /\ listening # "gone" /\ listening' = "gone" /\ reading' = FALSE /\ pending' = <<>>
  /\ peer' = [p \in Peers |-> IF peer[p] \in {"waiting", "aborted"} THEN "closed" ELSE peer[p]]

\* Peers connect, and give up (external).
Arrive(p) ==
  /\ peer[p] = "away" /\ listening = "yes" /\ Len(pending) < Backlog
  /\ peer' = [peer EXCEPT ![p] = "waiting"] /\ pending' = Append(pending, p)
  /\ UNCHANGED <<listening, reading>>

Abort(p) == /\ peer[p] = "waiting" /\ peer' = [peer EXCEPT ![p] = "aborted"]
            /\ UNCHANGED <<listening, reading, pending>>

Next == \/ Listen \/ HandleRead \/ Destroy
        \/ \E p \in Peers : CloseSocket(p) \/ Arrive(p) \/ Abort(p)
Spec == Init /\ [][Next]_vars

\* The loop runs, and connections end sooner or later.
FairSpec == Spec /\ WF_vars(HandleRead) /\ \A p \in Peers : WF_vars(CloseSocket(p))

-----------------------------------------------------------------------------
TypeOK ==
  /\ listening \in {"no", "yes", "gone"} /\ reading \in BOOLEAN /\ pending \in Seq(Peers)
  /\ peer \in [Peers -> {"away", "waiting", "aborted", "open", "closed"}]

\* docs/network_layer.md:149: after running out of descriptors, or an aborted connection,
\* the server goes on accepting: no peer in the queue is left waiting.
PendingAreAccepted == \A p \in Peers : peer[p] = "waiting" ~> peer[p] # "waiting"
=============================================================================
