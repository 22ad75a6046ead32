--------------------------- MODULE TcpConnection ---------------------------
(***************************************************************************)
(* One established TcpConnection with its Channel: user threads send and   *)
(* shut it down, its loop thread runs the posted functors and handles the  *)
(* events epoll reports, the peer sends, half-closes, resets or goes       *)
(* silent, and the idle scan of the server force-closes it.                *)
(*                                                                         *)
(* A message is two bytes, so that every write may be partial.  The kernel *)
(* is external: write takes any prefix while the peer is there, and fails  *)
(* once the peer has reset; reading or failing consumes SO_ERROR.          *)
(***************************************************************************)
EXTENDS Integers, Sequences

CONSTANTS Threads,      \* threads other than the loop thread
          MaxSends,     \* bound: messages each thread sends
          MaxRequests,  \* bound: requests the peer sends
          Shutdowns,    \* whether user threads call shutdown()
          Idle          \* whether the server scans for idle connections

Loop == "loop"

ASSUME BoundsAssumption == /\ Loop \notin Threads /\ MaxSends \in Nat /\ MaxRequests \in Nat
                           /\ Shutdowns \in BOOLEAN /\ Idle \in BOOLEAN

VARIABLES
  state,     \* TcpConnection::state_
  events,    \* Channel::events_: "r" kReadEvent, "w" kWriteEvent
  index,     \* Channel::index_: "new" (-1), "added" (1), "deleted" (2)
  outBuf,    \* outputBuffer_
  queue,     \* functors posted to the loop and not run yet
  lpc,       \* where the loop thread is inside Channel::handleEvent
  pc,        \* where each user thread is inside shutdown()
  sends,     \* how many messages each thread has sent (0: the loop thread)
  owner,     \* TcpServer's or TcpClient's reference: "held", "told", "gone"
  downs,     \* how often connectionCallback_ has reported the disconnection
  wire,      \* bytes the kernel has taken (external)
  fin,       \* shutdownWrite has been called (external)
  inbox,     \* requests not yet read from the socket (external)
  requests,  \* requests the peer has sent (external)
  peer,      \* "open", "fin", "rst" (external)
  soError,   \* SO_ERROR is pending (external)
  quiet      \* the peer does nothing any more (external)

connVars == <<state, events, index, downs, owner>>
kernelVars == <<inbox, requests, peer, quiet>>
vars == <<connVars, outBuf, queue, lpc, pc, sends, wire, fin, soError, kernelVars>>

Senders == Threads \cup {Loop}
Message(t, i) == <<<<t, i, 1>>, <<t, i, 2>>>>
Bytes == Senders \X (1..(MaxSends + MaxRequests)) \X {1, 2}
Functors == [op : {"send"}, msg : Seq(Bytes)] \cup [op : {"shutdown", "close", "destroy", "written"}]

Init == /\ state = "kConnected" /\ events = {"r"} /\ index = "added"
        /\ outBuf = <<>> /\ queue = <<>> /\ lpc = "idle"
        /\ pc = [t \in Threads |-> "idle"] /\ sends = [t \in Senders |-> 0]
        /\ owner = "held" /\ downs = 0 /\ wire = <<>> /\ fin = FALSE
        /\ inbox = 0 /\ requests = 0 /\ peer = "open" /\ soError = FALSE
        /\ quiet = FALSE
-----------------------------------------------------------------------------
(* Channel::update of an emptied events_: an added channel leaves epoll, one
   that already left is added again, with no events of its own. *)
IndexAfterDisable == IF index = "added" THEN "deleted" ELSE "added"

(* The idempotence test of handleClose left out. *)
HandleClose_NoTest ==
  /\ state' = "kDisconnected" /\ events' = {} /\ index' = IndexAfterDisable
  /\ downs' = downs + 1
  /\ owner' = IF owner = "held" THEN "told" ELSE owner

(* handleClose: connectionCallback_ and closeCallback_ are called once the
   state is stored and the channel disabled. *)
HandleClose ==
  \/ state = "kDisconnected" /\ UNCHANGED connVars
  \/ /\ state # "kDisconnected"
     /\ state' = "kDisconnected" /\ events' = {} /\ index' = IndexAfterDisable
     /\ downs' = downs + 1
     /\ owner' = IF owner = "held" THEN "told" ELSE owner

(* handleError after a call that may itself have consumed SO_ERROR. *)
HandleError(pending) ==
  /\ soError' = FALSE
  /\ \/ pending /\ HandleClose
     \/ ~pending /\ UNCHANGED connVars

(* Buffering the whole message again after a partial write. *)
Unsent_All(m, k) == IF k = Len(m) THEN <<>> ELSE m

(* What a write of k bytes leaves of the message. *)
Unsent(m, k) == SubSeq(m, k + 1, Len(m))

(* The rest of a message is buffered without enableWriting. *)
Interest_Kept(rest) == events

(* enableWriting when something had to be buffered. *)
Interest(rest) == IF rest = <<>> THEN events ELSE events \cup {"w"}

(* sendInLoop; q is the functor queue its caller leaves. *)
SendInLoop(m, q) ==
  \/ /\ state = "kDisconnected"
     /\ queue' = q /\ UNCHANGED <<connVars, outBuf, wire, soError>>
  \/ /\ state # "kDisconnected" /\ "w" \notin events /\ outBuf = <<>> /\ peer # "rst"
     /\ \E k \in 0..Len(m) :
          /\ wire' = wire \o SubSeq(m, 1, k)
          /\ outBuf' = Unsent(m, k) /\ events' = Interest(Unsent(m, k))
          /\ queue' = IF k = Len(m) THEN Append(q, [op |-> "written"]) ELSE q
     /\ UNCHANGED <<state, index, downs, owner, soError>>
  \/ /\ state # "kDisconnected" /\ "w" \notin events /\ outBuf = <<>> /\ peer = "rst"
     /\ \E pending \in {FALSE, soError} : HandleError(pending)
     /\ queue' = q /\ UNCHANGED <<outBuf, wire>>
  \/ /\ state # "kDisconnected" /\ ("w" \in events \/ outBuf # <<>>)
     /\ outBuf' = outBuf \o m /\ events' = Interest(m)
     /\ queue' = q /\ UNCHANGED <<state, index, downs, owner, wire, soError>>

(* shutdownInLoop: FIN only once nothing is left to write. *)
ShutdownInLoop(writing) == fin' = (fin \/ ~writing)
-----------------------------------------------------------------------------
(* Calls on user threads. *)

(* send(): tested, then posted. *)
Send(t) ==
  /\ pc[t] = "idle" /\ sends[t] < MaxSends
  /\ sends' = [sends EXCEPT ![t] = @ + 1]
  /\ \/ /\ state = "kConnected"
        /\ queue' = Append(queue, [op |-> "send", msg |-> Message(t, sends'[t])])
     \/ state # "kConnected" /\ UNCHANGED queue
  /\ UNCHANGED <<connVars, outBuf, lpc, pc, wire, fin, soError, kernelVars>>

(* shutdown(), the test of state_ ... *)
ShutdownTest(t) ==
  /\ Shutdowns /\ pc[t] = "idle" /\ state = "kConnected"
  /\ pc' = [pc EXCEPT ![t] = "shut"]
  /\ UNCHANGED <<connVars, outBuf, queue, lpc, sends, wire, fin, soError, kernelVars>>

(* ... and the store and the functor, which another thread may precede. *)
ShutdownStore(t) ==
  /\ pc[t] = "shut"
  /\ pc' = [pc EXCEPT ![t] = "done"]
  /\ state' = "kDisconnecting" /\ queue' = Append(queue, [op |-> "shutdown"])
  /\ UNCHANGED <<events, index, downs, owner, outBuf, lpc, sends, wire, fin, soError, kernelVars>>

(* checkIdleTimeout on the base loop, the connection idle for long enough:
   forceClose moves kConnected to kDisconnecting and posts handleClose. *)
CheckIdleTimeout ==
  /\ Idle /\ owner = "held" /\ state = "kConnected"
  /\ state' = "kDisconnecting" /\ queue' = Append(queue, [op |-> "close"])
  /\ UNCHANGED <<events, index, downs, owner, outBuf, lpc, pc, sends, wire, fin, soError, kernelVars>>

(* The owner reacts to closeCallback_: the first removal posts connectDestroyed. *)
RemoveConnection ==
  /\ owner = "told"
  /\ owner' = "gone" /\ queue' = Append(queue, [op |-> "destroy"])
  /\ UNCHANGED <<state, events, index, downs, outBuf, lpc, pc, sends, wire, fin, soError, kernelVars>>
-----------------------------------------------------------------------------
(* Functors on the loop thread, between two rounds of events. *)

Pop(op) == lpc = "idle" /\ queue # <<>> /\ Head(queue).op = op

(* The posted send runs without testing the state again. *)
RunSend_NoTest ==
  /\ Pop("send")
  /\ SendInLoop(Head(queue).msg, Tail(queue))
  /\ UNCHANGED <<lpc, pc, sends, fin, kernelVars>>

RunSend ==
  /\ Pop("send")
  /\ \/ state = "kConnected" /\ SendInLoop(Head(queue).msg, Tail(queue))
     \/ /\ state # "kConnected"
        /\ queue' = Tail(queue) /\ UNCHANGED <<connVars, outBuf, wire, soError>>
  /\ UNCHANGED <<lpc, pc, sends, fin, kernelVars>>

RunShutdown ==
  /\ Pop("shutdown")
  /\ queue' = Tail(queue) /\ ShutdownInLoop("w" \in events)
  /\ UNCHANGED <<connVars, outBuf, lpc, pc, sends, wire, soError, kernelVars>>

RunClose ==
  /\ Pop("close")
  /\ queue' = Tail(queue) /\ HandleClose
  /\ UNCHANGED <<outBuf, lpc, pc, sends, wire, fin, soError, kernelVars>>

(* writeCompleteCallback_ touches nothing of the connection. *)
RunWritten ==
  /\ Pop("written")
  /\ queue' = Tail(queue)
  /\ UNCHANGED <<connVars, outBuf, lpc, pc, sends, wire, fin, soError, kernelVars>>

(* connectDestroyed. *)
ConnectDestroyed ==
  /\ Pop("destroy")
  /\ queue' = Tail(queue) /\ index' = "new"
  /\ \/ state = "kConnected" /\ state' = "kDisconnected" /\ events' = {} /\ downs' = downs + 1
     \/ state # "kConnected" /\ UNCHANGED <<state, events, downs>>
  /\ UNCHANGED <<owner, outBuf, lpc, pc, sends, wire, fin, soError, kernelVars>>
-----------------------------------------------------------------------------
(* Channel::handleEvent.  EPOLLERR and EPOLLHUP are reported for every added
   descriptor, EPOLLIN and EPOLLOUT for the interest in events. *)

Polled == lpc = "idle" /\ index = "added"
Hup == peer = "rst" \/ (peer = "fin" /\ fin)
In  == "r" \in events /\ (inbox > 0 \/ peer # "open")

(* EPOLLERR: errorCallback_ ... *)
HandleErr ==
  /\ Polled /\ soError
  /\ HandleError(TRUE) /\ lpc' = "err"
  /\ UNCHANGED <<outBuf, queue, pc, sends, wire, fin, kernelVars>>

(* ... then closeCallback_. *)
HandleErrClose ==
  /\ lpc = "err"
  /\ HandleClose /\ lpc' = "idle"
  /\ UNCHANGED <<outBuf, queue, pc, sends, wire, fin, soError, kernelVars>>

(* EPOLLHUP without EPOLLIN. *)
HandleHup ==
  /\ Polled /\ ~soError /\ Hup /\ ~In
  /\ HandleClose
  /\ UNCHANGED <<outBuf, queue, lpc, pc, sends, wire, fin, soError, kernelVars>>

AfterIn == lpc' = IF "w" \in events THEN "out" ELSE "idle"

(* handleRead: a request is answered by send() on the loop thread. *)
HandleRead ==
  /\ Polled /\ ~soError /\ In /\ inbox > 0
  /\ inbox' = inbox - 1 /\ sends' = [sends EXCEPT ![Loop] = @ + 1]
  /\ \/ state = "kConnected" /\ SendInLoop(Message(Loop, sends'[Loop]), queue)
     \/ state # "kConnected" /\ UNCHANGED <<connVars, outBuf, queue, wire, soError>>
  /\ AfterIn
  /\ UNCHANGED <<pc, fin, requests, peer, quiet>>

(* handleRead ignores an empty read. *)
HandleEof_Ignored ==
  /\ Polled /\ ~soError /\ In /\ inbox = 0
  /\ AfterIn
  /\ UNCHANGED <<connVars, outBuf, queue, pc, sends, wire, fin, soError, kernelVars>>

(* handleRead: end of file. *)
HandleEof ==
  /\ Polled /\ ~soError /\ In /\ inbox = 0
  /\ HandleClose /\ AfterIn
  /\ UNCHANGED <<outBuf, queue, pc, sends, wire, fin, soError, kernelVars>>

(* handleRead of a reset that came after epoll_wait returned: readv fails and
   consumes the error, so handleError finds none. *)
HandleReadError ==
  /\ Polled /\ soError /\ In
  /\ HandleError(FALSE) /\ AfterIn
  /\ UNCHANGED <<outBuf, queue, pc, sends, wire, fin, kernelVars>>

(* A drained buffer does not complete the pending shutdown(). *)
FinAfterDrain_Never == UNCHANGED fin

(* handleWrite completes a shutdown() that had to wait for the buffer. *)
FinAfterDrain == \/ state = "kDisconnecting" /\ ShutdownInLoop(FALSE)
                 \/ state # "kDisconnecting" /\ UNCHANGED fin

(* handleWrite. *)
HandleWrite ==
  /\ \/ lpc = "out"
     \/ Polled /\ ~soError /\ ~Hup /\ ~In /\ "w" \in events
  /\ lpc' = "idle"
  /\ \/ "w" \notin events /\ UNCHANGED <<connVars, outBuf, queue, wire, fin, soError>>
     \/ /\ "w" \in events /\ peer # "rst"
        /\ \E k \in 1..Len(outBuf) :
             /\ wire' = wire \o SubSeq(outBuf, 1, k)
             /\ outBuf' = SubSeq(outBuf, k + 1, Len(outBuf))
             /\ \/ k < Len(outBuf) /\ UNCHANGED <<events, queue, fin>>
                \/ /\ k = Len(outBuf)
                   /\ events' = events \ {"w"}
                   /\ queue' = Append(queue, [op |-> "written"])
                   /\ FinAfterDrain
        /\ UNCHANGED <<state, index, downs, owner, soError>>
     \/ /\ "w" \in events /\ peer = "rst"
        /\ \E pending \in {FALSE, soError} : HandleError(pending)
        /\ UNCHANGED <<outBuf, queue, wire, fin>>
  /\ UNCHANGED <<pc, sends, kernelVars>>
-----------------------------------------------------------------------------
(* The peer (external). *)

PeerSends == /\ peer = "open" /\ ~quiet /\ requests < MaxRequests
             /\ requests' = requests + 1 /\ inbox' = inbox + 1
             /\ UNCHANGED <<connVars, outBuf, queue, lpc, pc, sends, wire, fin, soError, peer, quiet>>

PeerCloses == /\ peer = "open" /\ ~quiet /\ peer' = "fin"
              /\ UNCHANGED <<connVars, outBuf, queue, lpc, pc, sends, wire, fin, soError, inbox, requests, quiet>>

PeerResets == /\ peer # "rst" /\ ~quiet /\ peer' = "rst" /\ soError' = TRUE /\ inbox' = 0
              /\ UNCHANGED <<connVars, outBuf, queue, lpc, pc, sends, wire, fin, requests, quiet>>

PeerGoesQuiet == /\ ~quiet /\ quiet' = TRUE
                 /\ UNCHANGED <<connVars, outBuf, queue, lpc, pc, sends, wire, fin, soError, inbox, requests, peer>>
-----------------------------------------------------------------------------
LoopStep == \/ RunSend \/ RunShutdown \/ RunClose \/ RunWritten \/ ConnectDestroyed
            \/ HandleErr \/ HandleErrClose \/ HandleHup \/ HandleRead
            \/ HandleEof \/ HandleReadError

Next == \/ LoopStep \/ HandleWrite
        \/ \E t \in Threads : Send(t) \/ ShutdownTest(t) \/ ShutdownStore(t)
        \/ CheckIdleTimeout \/ RemoveConnection
        \/ PeerSends \/ PeerCloses \/ PeerResets \/ PeerGoesQuiet

Spec == Init /\ [][Next]_vars

(* The loop thread keeps running, a socket stays writable while the peer is
   not silent (a reported EPOLLOUT is handled in any case), a thread inside a call returns from it, and
   the idle scan, a periodic timer, comes back for a peer that went silent. *)
FairSpec == /\ Spec /\ WF_vars(LoopStep)
            /\ WF_vars((~quiet \/ lpc = "out") /\ HandleWrite) /\ WF_vars(RemoveConnection)
            /\ \A t \in Threads : WF_vars(ShutdownStore(t))
            /\ WF_vars(quiet /\ CheckIdleTimeout)
-----------------------------------------------------------------------------
(* Every variable keeps its type. *)
TypeOK == /\ state \in {"kConnected", "kDisconnecting", "kDisconnected"}
          /\ events \subseteq {"r", "w"} /\ index \in {"new", "added", "deleted"}
          /\ outBuf \in Seq(Bytes) /\ queue \in Seq(Functors) /\ lpc \in {"idle", "err", "out"}
          /\ pc \in [Threads -> {"idle", "shut", "done"}] /\ sends \in [Senders -> Nat]
          /\ owner \in {"held", "told", "gone"} /\ downs \in Nat
          /\ wire \in Seq(Bytes) /\ fin \in BOOLEAN /\ soError \in BOOLEAN
          /\ inbox \in 0..MaxRequests /\ requests \in 0..MaxRequests
          /\ peer \in {"open", "fin", "rst"} /\ quiet \in BOOLEAN

Stream == wire \o outBuf

(* send() is safe from any thread: what has been and will be written is a
   sequence of whole messages, never torn or mixed by a partial write, and the
   messages of one thread keep the order in which it sent them. *)
WholeMessagesInOrder ==
  LET n == Len(Stream) \div 2
      first(p) == Stream[2 * p - 1]
  IN /\ Len(Stream) = 2 * n
     /\ \A p \in 1..n : Stream[2 * p - 1] = <<first(p)[1], first(p)[2], 1>>
                     /\ Stream[2 * p] = <<first(p)[1], first(p)[2], 2>>
     /\ \A p, q \in 1..n : p < q /\ first(p)[1] = first(q)[1] => first(p)[2] < first(q)[2]

(* sendInLoop and handleWrite watch for writability exactly while something
   is buffered: no output is left behind, and no loop spins on EPOLLOUT. *)
WatchesWhileBuffered == downs = 0 => (outBuf # <<>> <=> "w" \in events)

(* What send() was given and the kernel has not taken is kept: whole, in order, and with
   EPOLLOUT watched, so that the loop comes back for it. *)
OutputIsKept == WholeMessagesInOrder /\ WatchesWhileBuffered

(* The half-close of shutdown() is the last thing written: nothing reaches the
   socket after FIN, and nothing is buffered behind it while the connection is up. *)
NothingAfterFin ==
  [][fin' => /\ (downs' = 0 => outBuf' = <<>>)
             /\ (fin => wire' = wire)]_vars

ShutdownCalled == \E t \in Threads : pc[t] # "idle"

(* tcp_connection.cc:272, "Issue #10 fix: 幂等处理" (idempotent): whatever events
   follow each other, the disconnection is reported once. *)
ReportedOnce == downs <= 1

(* handleClose is idempotent: unless a user thread calls shutdown(), EPOLLERR,
   EPOLLHUP, end of file, failed writes, the idle scan and connectDestroyed
   report the disconnection once between them. *)
DownOnce == downs > 1 => ShutdownCalled

(* README.md:18, "连接 idle 超时检测（服务端主动断开不活跃连接）": the server closes
   connections that are idle. *)
IdlePeersAreDropped == Idle /\ quiet ~> downs > 0

(* A peer that closed or reset the connection is noticed and the connection
   closed, and so is one that falls silent while the server scans for idle
   connections, unless shutdown() was called on it. *)
DeadPeersAreDropped ==
  /\ peer # "open" ~> downs > 0
  /\ Idle /\ quiet ~> downs > 0 \/ ShutdownCalled

(* shutdown() is carried out: FIN is sent after the buffered output, or the
   connection closes, unless the peer stops reading. *)
ShutdownCompletes == \A t \in Threads : (pc[t] = "shut") ~> (fin \/ downs > 0 \/ quiet)

(* A message that a thread sent before it called shutdown() is not dropped
   while the connection is up. *)
ShutdownKeepsMessages ==
  [][RunSend /\ (\E t \in Threads : pc[t] = "done" /\ Head(queue).msg[1][1] = t) /\ peer = "open" /\ downs = 0
       => Len(Stream') > Len(Stream)]_vars
=============================================================================
