----------------------------- MODULE TcpServer -----------------------------
(***************************************************************************)
(* TcpServer with its Acceptor and the life of its TcpConnections: the     *)
(* base loop accepts, scans for idle connections, removes closed ones and  *)
(* destroys the server; each connection lives on an IO loop (the base loop *)
(* itself when there are no IO threads) that runs the functors posted to   *)
(* it in batches.  A connection is held by the map connections_ and by     *)
(* the functors that carry it, and is freed with the last of them.         *)
(***************************************************************************)
EXTENDS TcpServerState, FiniteSets, Functions

connVars == <<io, st, chan, destroyed>>
loopVars == <<q, ioBatch, ioAt, ioQuit>>
vars == <<threads, phase, conns, nextId, connVars, loopVars, stale, broken>>

Conns == 1..MaxConns
Functors == [op : {"establish", "close", "destroy", "remove"}, conn : Conns]
F(op, c) == [op |-> op, conn |-> c]
Post(queues, l, f) == [queues EXCEPT ![l] = Append(@, f)]

Init == /\ threads \in {{}, IoLoops}
        /\ phase = "up" /\ conns = {} /\ nextId = 1
        /\ io = [c \in Conns |-> Base] /\ st = [c \in Conns |-> "kConnecting"]
        /\ chan = [c \in Conns |-> "new"] /\ destroyed = [c \in Conns |-> 0]
        /\ q = [l \in IoLoops \cup {Base} |-> <<>>] /\ ioBatch = [l \in IoLoops |-> <<>>]
        /\ ioAt = [l \in IoLoops |-> "poll"] /\ ioQuit = [l \in IoLoops |-> FALSE]
        /\ stale = FALSE /\ broken = FALSE
-----------------------------------------------------------------------------
(* removeConnectionInLoop forgets the map entry. *)
RemoveInLoop_NoErase(c, queues) ==
  /\ conns' = conns
  /\ q' = Post(queues, io[c], F("destroy", c))

(* removeConnectionInLoop: only the call that erases posts connectDestroyed. *)
RemoveInLoop(c, queues) ==
  /\ conns' = conns \ {c}
  /\ q' = IF c \in conns THEN Post(queues, io[c], F("destroy", c)) ELSE queues

(* handleClose never calls closeCallback_. *)
HandleClose_Silent(c, queues) ==
  /\ st' = [st EXCEPT ![c] = "kDisconnected"]
  /\ chan' = [chan EXCEPT ![c] = "deleted"]
  /\ q' = queues /\ UNCHANGED conns

(* TcpConnection::handleClose on its loop; closeCallback_ is removeConnection,
   which runs at once on the base loop and is posted to it from another. *)
HandleClose(c, queues) ==
  \/ st[c] = "kDisconnected" /\ q' = queues /\ UNCHANGED <<st, chan, conns>>
  \/ /\ st[c] # "kDisconnected"
     /\ st' = [st EXCEPT ![c] = "kDisconnected"]
     /\ chan' = [chan EXCEPT ![c] = "deleted"]
     /\ \/ io[c] = Base /\ RemoveInLoop(c, queues)
        \/ io[c] # Base /\ q' = Post(queues, Base, F("remove", c)) /\ UNCHANGED conns

(* connectDestroyed. *)
ConnectDestroyed(c) ==
  /\ st' = [st EXCEPT ![c] = IF @ = "kConnected" THEN "kDisconnected" ELSE @]
  /\ chan' = [chan EXCEPT ![c] = "new"]
  /\ destroyed' = [destroyed EXCEPT ![c] = @ + 1]

(* connectEstablished. *)
ConnectEstablished(c) ==
  /\ st' = [st EXCEPT ![c] = "kConnected"] /\ chan' = [chan EXCEPT ![c] = "added"]

(* The body of a functor; queues is what is left once it has been taken. *)
Run(f, queues) ==
  \/ /\ f.op = "establish" /\ ConnectEstablished(f.conn)
     /\ q' = queues /\ UNCHANGED <<conns, destroyed, stale>>
  \/ /\ f.op = "close" /\ HandleClose(f.conn, queues)
     /\ UNCHANGED <<destroyed, stale>>
  \/ /\ f.op = "destroy" /\ ConnectDestroyed(f.conn)
     /\ q' = queues /\ UNCHANGED <<conns, stale>>
  \/ /\ f.op = "remove" /\ phase = "up" /\ RemoveInLoop(f.conn, queues)
     /\ UNCHANGED <<st, chan, destroyed, stale>>
  \/ /\ f.op = "remove" /\ phase # "up"
     /\ stale' = TRUE /\ q' = queues /\ UNCHANGED <<conns, st, chan, destroyed>>
-----------------------------------------------------------------------------
(* The base loop. *)

(* Acceptor::handleRead and newConnection: connectEstablished runs at once on
   the base loop and is posted to an IO loop. *)
NewConnection ==
  /\ phase = "up" /\ nextId <= MaxConns
  /\ nextId' = nextId + 1 /\ conns' = conns \cup {nextId}
  /\ \/ /\ threads = {}
        /\ io' = [io EXCEPT ![nextId] = Base] /\ ConnectEstablished(nextId) /\ UNCHANGED q
     \/ \E l \in threads :
          /\ io' = [io EXCEPT ![nextId] = l]
          /\ q' = Post(q, l, F("establish", nextId)) /\ UNCHANGED <<st, chan>>
  /\ UNCHANGED <<threads, phase, destroyed, ioBatch, ioAt, ioQuit, stale, broken>>

(* The base loop runs one of its functors. *)
RunBase ==
  /\ phase \in {"up", "gone"}
  /\ q[Base] # <<>>
  /\ Run(Head(q[Base]), [q EXCEPT ![Base] = Tail(@)])
  /\ UNCHANGED <<threads, phase, nextId, io, ioBatch, ioAt, ioQuit, broken>>

(* The idle scan of start(): checkIdleTimeout of every connection, c being one
   that has been idle for too long.  forceClose moves kConnected to
   kDisconnecting and hands handleClose to the connection's loop. *)
IdleScan ==
  /\ phase = "up"
  /\ \E c \in conns :
       /\ st[c] = "kConnected"
       /\ \/ io[c] = Base /\ HandleClose(c, q) /\ broken' = (conns' # conns)
          \/ /\ io[c] # Base
             /\ st' = [st EXCEPT ![c] = "kDisconnecting"]
             /\ q' = Post(q, io[c], F("close", c)) /\ UNCHANGED <<chan, conns, broken>>
  /\ UNCHANGED <<threads, phase, nextId, io, destroyed, ioBatch, ioAt, ioQuit, stale>>

(* The connections of loop l, in the order in which the map is walked. *)
Dying(order, l) == SelectSeq(order, LAMBDA c : io[c] = l)

(* ~TcpServer: connectDestroyed of every connection runs at once on the base
   loop, or is posted to the IO loop.  Then the members go, connections_ first. *)
DestroyServer ==
  /\ phase = "up"
  /\ phase' = "joining" /\ conns' = {}
  /\ \/ /\ threads = {}
        /\ st' = [c \in Conns |-> IF c \in conns /\ st[c] = "kConnected" THEN "kDisconnected" ELSE st[c]]
        /\ chan' = [c \in Conns |-> IF c \in conns THEN "new" ELSE chan[c]]
        /\ destroyed' = [c \in Conns |-> IF c \in conns THEN destroyed[c] + 1 ELSE destroyed[c]]
        /\ UNCHANGED q
     \/ /\ threads # {}
        /\ \E order \in Bijection(1..Cardinality(conns), conns) :
             q' = [l \in IoLoops \cup {Base} |->
                     q[l] \o [i \in DOMAIN Dying(order, l) |-> F("destroy", Dying(order, l)[i])]]
        /\ UNCHANGED <<st, chan, destroyed>>
  /\ UNCHANGED <<threads, nextId, io, ioBatch, ioAt, ioQuit, stale, broken>>

(* ~EventLoopThreadPool: each thread in turn is told to quit and joined. *)
QuitLoop(l) ==
  /\ phase = "joining" /\ l \in threads /\ ~ioQuit[l]
  /\ \A k \in threads : ioQuit[k] => ioAt[k] = "dead"
  /\ ioQuit' = [ioQuit EXCEPT ![l] = TRUE]
  /\ UNCHANGED <<threads, phase, conns, nextId, connVars, q, ioBatch, ioAt, stale, broken>>

Joined ==
  /\ phase = "joining" /\ \A l \in threads : ioAt[l] = "dead"
  /\ phase' = "gone"
  /\ UNCHANGED <<threads, conns, nextId, connVars, loopVars, stale, broken>>

(* The base loop is destroyed after the server, with the functors left in it. *)
BaseExit ==
  /\ phase = "gone"
  /\ phase' = "exited" /\ q' = [q EXCEPT ![Base] = <<>>]
  /\ UNCHANGED <<threads, conns, nextId, connVars, ioBatch, ioAt, ioQuit, stale, broken>>
-----------------------------------------------------------------------------
(* The loop of a connection: the peer closes, epoll reports it, handleClose. *)
PeerClosed(c) ==
  /\ chan[c] = "added" /\ st[c] \in {"kConnected", "kDisconnecting"}
  /\ \/ io[c] = Base /\ phase \in {"up", "gone"}
     \/ io[c] # Base /\ ioAt[io[c]] = "poll"
  /\ HandleClose(c, q)
  /\ UNCHANGED <<threads, phase, nextId, io, destroyed, ioBatch, ioAt, ioQuit, stale, broken>>

(* doPendingFunctors: the loop takes the whole queue ... *)
TakeBatch(l) ==
  /\ ioAt[l] = "poll" /\ (q[l] # <<>> \/ ioQuit[l])
  /\ ioAt' = [ioAt EXCEPT ![l] = "batch"]
  /\ ioBatch' = [ioBatch EXCEPT ![l] = q[l]] /\ q' = [q EXCEPT ![l] = <<>>]
  /\ UNCHANGED <<threads, phase, conns, nextId, connVars, ioQuit, stale, broken>>

(* ... and runs it. *)
RunIo(l) ==
  /\ ioAt[l] = "batch" /\ ioBatch[l] # <<>>
  /\ ioBatch' = [ioBatch EXCEPT ![l] = Tail(@)]
  /\ Run(Head(ioBatch[l]), q)
  /\ UNCHANGED <<threads, phase, nextId, io, ioAt, ioQuit, broken>>

(* Back to epoll_wait, or out of loop() when told to quit: ~EventLoop drops the
   functors posted in the meantime. *)
EndBatch(l) ==
  /\ ioAt[l] = "batch" /\ ioBatch[l] = <<>>
  /\ ioAt' = [ioAt EXCEPT ![l] = IF ioQuit[l] THEN "dead" ELSE "poll"]
  /\ q' = IF ioQuit[l] THEN [q EXCEPT ![l] = <<>>] ELSE q
  /\ UNCHANGED <<threads, phase, conns, nextId, connVars, ioBatch, ioQuit, stale, broken>>
-----------------------------------------------------------------------------
LoopStep(l) == TakeBatch(l) \/ RunIo(l) \/ EndBatch(l)

Next == \/ NewConnection \/ RunBase \/ IdleScan \/ DestroyServer \/ Joined \/ BaseExit
        \/ \E c \in Conns : PeerClosed(c)
        \/ \E l \in threads : QuitLoop(l) \/ LoopStep(l)

Spec == Init /\ [][Next]_vars

(* Every loop keeps running, and ~TcpServer goes on to its end. *)
FairSpec == /\ Spec /\ WF_vars(RunBase) /\ WF_vars(Joined)
            /\ \A l \in IoLoops : WF_vars(LoopStep(l)) /\ WF_vars(QuitLoop(l))
-----------------------------------------------------------------------------
(* Every variable keeps its type. *)
TypeOK == /\ phase \in {"up", "joining", "gone", "exited"} /\ conns \subseteq Conns
          /\ nextId \in 1..(MaxConns + 1) /\ io \in [Conns -> IoLoops \cup {Base}]
          /\ st \in [Conns -> {"kConnecting", "kConnected", "kDisconnecting", "kDisconnected"}]
          /\ chan \in [Conns -> {"new", "added", "deleted"}] /\ destroyed \in [Conns -> Nat]
          /\ q \in [IoLoops \cup {Base} -> Seq(Functors)] /\ ioBatch \in [IoLoops -> Seq(Functors)]
          /\ ioAt \in [IoLoops -> {"poll", "batch", "dead"}] /\ ioQuit \in [IoLoops -> BOOLEAN]
          /\ stale \in BOOLEAN /\ broken \in BOOLEAN

Carries(fs, c) == \E i \in DOMAIN fs : fs[i].conn = c

(* Somebody still holds the connection. *)
Held(c) == \/ c \in conns
           \/ \E l \in IoLoops \cup {Base} : Carries(q[l], c)
           \/ \E l \in IoLoops : Carries(ioBatch[l], c)

(* A closed connection is given up: removed from the map, unregistered from
   epoll and freed. *)
ClosedAreFreed == \A c \in Conns : (st[c] = "kDisconnected") ~> (~Held(c) \/ phase # "up")

(* The destructor posts connectDestroyed and the connection is only freed once
   its loop has run it. *)
FreedAfterDestroyed == \A c \in 1..(nextId - 1) : ~Held(c) => destroyed[c] > 0

(* No callback reaches the TcpServer after its destruction. *)
NoCallOnDestroyed == ~stale

(* The idle scan never goes on from a map entry that was erased under it. *)
ScanIsSafe == ~broken
=============================================================================
