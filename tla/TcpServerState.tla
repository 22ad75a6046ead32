--------------------------- MODULE TcpServerState ---------------------------
(***************************************************************************)
(* The constants of TcpServer, what is assumed of them, its variables and  *)
(* the safety properties of its connection map and of the functors.        *)
(***************************************************************************)
EXTENDS Integers, Sequences

CONSTANTS IoLoops,   \* IO threads that threadPool_ may have
          Base,      \* the base loop
          MaxConns   \* bound: connections accepted

ASSUME ServerConstants == Base \notin IoLoops /\ MaxConns \in Nat

VARIABLES
  threads,  \* the IO threads of threadPool_: setThreadNum was given 0 or more
  phase,    \* "up", "joining" (in ~TcpServer), "gone", "exited" (base loop freed)
  conns,    \* connections_
  nextId,   \* nextConnId_
  io,       \* the loop of each connection
  st,       \* TcpConnection::state_
  chan,     \* Channel::index_: "new" (-1), "added" (1), "deleted" (2)
  q,        \* functors posted to each loop
  ioBatch,  \* functors an IO loop has taken and not run yet
  ioAt,     \* where an IO loop is: "poll", "batch", "dead"
  ioQuit,   \* EventLoop::quit_ of each IO loop
  destroyed,\* how often connectDestroyed has run, per connection
  stale,    \* removeConnectionInLoop ran on a server that is gone
  broken    \* the idle scan went on from an erased map entry

(* The map is what keeps a connection alive, and the duplicate removals that
   EPOLLERR, a forced close and a peer's close can produce are ignored: while
   the server is up, every accepted connection that has not closed is in the
   map, connectDestroyed runs at most once, and never for one in the map. *)
MapIsExact ==
  phase = "up" => \A c \in 1..(nextId - 1) : /\ st[c] # "kDisconnected" => c \in conns
                                             /\ c \in conns => destroyed[c] = 0
                                             /\ destroyed[c] <= 1

Holds(fs, f) == \E i \in 1..Len(fs) : fs[i] = f
Awaits(op, c, l) == \/ Holds(q[l], [op |-> op, conn |-> c])
                    \/ l \in IoLoops /\ Holds(ioBatch[l], [op |-> op, conn |-> c])

(* While the server is up, a connection that has to go on has the functor that
   makes it do so waiting for the right loop: connectEstablished after newConnection,
   handleClose after forceClose, the removal after a close and connectDestroyed after
   the removal.  So no connection is leaked between two loops. *)
NoneIsLeaked ==
  phase = "up" => \A c \in 1..(nextId - 1) :
    /\ st[c] = "kConnecting" => Awaits("establish", c, io[c])
    /\ st[c] = "kDisconnecting" => Awaits("close", c, io[c])
    /\ st[c] = "kDisconnected" /\ c \in conns => Awaits("remove", c, Base)
    /\ c \notin conns /\ destroyed[c] = 0 => Awaits("destroy", c, io[c])

(* What the server answers for while it is up: its connections stay in the map as long
   as they live, and are taken on to the end, once. *)
ConnectionsAreKept == MapIsExact /\ NoneIsLeaked
=============================================================================
