------------------------------ MODULE TcpClient ------------------------------
(***************************************************************************)
(* rpc::TcpClient and its Connector (src/network/tcp_client.{h,cc},        *)
(* src/network/connector.{h,cc}): one connection, kept alive by            *)
(* non-blocking connects and delayed retries on the loop's thread, while   *)
(* another thread stops, pokes or closes it.                               *)
(*                                                                         *)
(* Delays, jitter and back-off decide only when a retry timer fires, which *)
(* is any time here.                                                       *)
(***************************************************************************)
EXTENDS TcpClientState

vars == <<cState, connect, channel, timers, connection, replaced, disconnecting, tasks, cLpc,
          upc, ops, outages, good, called, fatal, overwritten, stopped>>
connectorVars == <<cState, connect, channel, timers, overwritten, fatal>>
userVars == <<upc, ops, called, disconnecting>>
netVars == <<outages, good>>

TypeOK ==
  /\ cState \in {"disconnected", "connecting", "connected"}
  /\ {connect, channel, disconnecting, good, overwritten, fatal, stopped} \subseteq BOOLEAN
  /\ timers \in Nat /\ replaced \in Nat
  /\ connection \in {"none", "up", "closing"}
  /\ tasks \in Seq({"start", "stop", "ensure"})
  /\ cLpc \in {"idle", "restart", "publish"}
  /\ upc \in {"new", "idle", "stopFlag", "stopPost", "permFlag", "permPost", "permClose"}
  /\ ops \in 0 .. MaxOps /\ outages \in 0 .. MaxOutages
  /\ called \subseteq Ops

Init ==
  /\ cState = "disconnected" /\ connect = FALSE /\ channel = FALSE /\ timers = 0
  /\ connection = "none" /\ replaced = 0 /\ disconnecting = FALSE
  /\ tasks = <<>> /\ cLpc = "idle" /\ upc = "new"
  /\ ops = 0 /\ outages = 0 /\ good = TRUE
  /\ called = {} /\ fatal = FALSE /\ overwritten = FALSE /\ stopped = FALSE

-----------------------------------------------------------------------------
(* The user's thread *)

Post(f) == tasks' = Append(tasks, f)

Connect ==
  /\ upc = "new"
  /\ connect' = TRUE /\ Post("start") /\ upc' = "idle"
  /\ UNCHANGED <<cState, channel, timers, overwritten, fatal, connection, replaced, disconnecting,
                 cLpc, ops, called, netVars, stopped>>

\* The user decides what to call next.
Begin(op, l) ==
  /\ upc = "idle" /\ op \in Ops /\ ops < MaxOps
  /\ ops' = ops + 1 /\ called' = called \cup {op} /\ upc' = l

\* stop() and disconnectPermanently(), which first sets disconnecting_.
Stop ==
  /\ Begin("stop", "stopFlag")
  /\ UNCHANGED <<connectorVars, connection, replaced, disconnecting, tasks, cLpc, netVars,
                 stopped>>

DisconnectPermanently ==
  /\ Begin("permanent", "permFlag")
  /\ disconnecting' = TRUE
  /\ UNCHANGED <<connectorVars, connection, replaced, tasks, cLpc, netVars, stopped>>

\* Connector::stop(): clear connect_, then post stopInLoop().
StopFlag ==
  /\ upc \in {"stopFlag", "permFlag"}
  /\ connect' = FALSE
  /\ upc' = IF upc = "stopFlag" THEN "stopPost" ELSE "permPost"
  /\ UNCHANGED <<cState, channel, timers, overwritten, fatal, connection, replaced, disconnecting,
                 tasks, cLpc, ops, called, netVars, stopped>>

StopPost ==
  /\ upc \in {"stopPost", "permPost"}
  /\ Post("stop")
  /\ upc' = IF upc = "stopPost" THEN "idle" ELSE "permClose"
  /\ UNCHANGED <<connectorVars, connection, replaced, disconnecting, cLpc, ops, called, netVars,
                 stopped>>

\* TcpConnection::shutdown() of an established connection.
ShutDown == connection' = IF connection = "up" THEN "closing" ELSE connection

PermanentlyClose ==
  /\ upc = "permClose"
  /\ ShutDown /\ upc' = "idle"
  /\ UNCHANGED <<connectorVars, replaced, disconnecting, tasks, cLpc, ops, called, netVars, stopped>>

Disconnect ==
  /\ Begin("disconnect", "idle")
  /\ ShutDown
  /\ UNCHANGED <<connectorVars, replaced, disconnecting, tasks, cLpc, netVars, stopped>>

EnsureConnected ==
  /\ Begin("ensure", "idle")
  /\ Post("ensure")
  /\ UNCHANGED <<connectorVars, connection, replaced, disconnecting, cLpc, netVars, stopped>>

-----------------------------------------------------------------------------
(* The Connector, on the loop's thread *)

\* retry(): wait and try again, unless connect_ was cleared; n timers are armed.
Retry(w, n) ==
  /\ cState' = "disconnected"
  /\ timers' = IF w THEN n + 1 ELSE n

\* connect(), with connect_ = w and n armed timers: the socket is connecting,
\* or it failed and is retried, or it failed for good.
TryConnect(w, n) ==
  \/ /\ cState' = "connecting" /\ channel' = TRUE
     /\ overwritten' = (overwritten \/ channel)
     /\ timers' = n /\ UNCHANGED fatal
  \/ ~good /\ Retry(w, n) /\ UNCHANGED <<channel, overwritten, fatal>>
  \/ /\ Fatal /\ fatal' = TRUE
     /\ cState' = "disconnected" /\ timers' = n /\ UNCHANGED <<channel, overwritten>>

Restart == connect' = TRUE /\ TryConnect(TRUE, timers)

\* The process aborts in any other state.
StartInLoop ==
  /\ cState = "disconnected"
  /\ UNCHANGED connect
  /\ IF connect THEN TryConnect(connect, timers)
                ELSE UNCHANGED <<cState, channel, timers, overwritten, fatal>>

StopInLoop ==
  /\ IF cState = "connecting" THEN cState' = "disconnected" /\ channel' = FALSE
                              ELSE UNCHANGED <<cState, channel>>
  /\ UNCHANGED <<connect, timers, overwritten, fatal>>

\* Fault: an established connection is not looked at.
EnsureInLoop_NoTest ==
  IF cState = "connecting" THEN UNCHANGED connectorVars ELSE Restart

EnsureInLoop ==
  IF connection = "up" \/ cState = "connecting" THEN UNCHANGED connectorVars ELSE Restart

RunTask ==
  /\ cLpc = "idle" /\ tasks # <<>>
  /\ tasks' = Tail(tasks)
  /\ \/ Head(tasks) = "start" /\ StartInLoop
     \/ Head(tasks) = "stop" /\ StopInLoop
     \/ Head(tasks) = "ensure" /\ EnsureInLoop
  /\ stopped' = (Head(tasks) = "stop")
  /\ UNCHANGED <<connection, replaced, cLpc, userVars, netVars>>

\* Fault: the timer does not look at the connector's state.
RetryTimer_NoTest ==
  /\ cLpc = "idle" /\ timers > 0
  /\ IF connect THEN TryConnect(connect, timers - 1)
       ELSE timers' = timers - 1 /\ UNCHANGED <<cState, channel, overwritten, fatal>>
  /\ UNCHANGED <<connect, connection, replaced, tasks, cLpc, userVars, netVars, stopped>>

\* The timer that retry() armed.
RetryTimer ==
  /\ cLpc = "idle" /\ timers > 0
  /\ IF connect /\ cState = "disconnected"
       THEN TryConnect(connect, timers - 1)
       ELSE timers' = timers - 1 /\ UNCHANGED <<cState, channel, overwritten, fatal>>
  /\ UNCHANGED <<connect, connection, replaced, tasks, cLpc, userVars, netVars, stopped>>

\* Fault: a failed connect is not retried.
ConnectFailed_GiveUp ==
  /\ cLpc = "idle" /\ cState = "connecting" /\ channel /\ ~good
  /\ channel' = FALSE /\ cState' = "disconnected"
  /\ UNCHANGED <<connect, timers, overwritten, fatal, connection, replaced, tasks, cLpc, userVars,
                 netVars, stopped>>

\* handleError(), or handleWrite() with SO_ERROR set.
ConnectFailed ==
  /\ cLpc = "idle" /\ cState = "connecting" /\ channel /\ ~good
  /\ channel' = FALSE /\ Retry(connect, timers)
  /\ UNCHANGED <<connect, overwritten, fatal, connection, replaced, tasks, cLpc, userVars, netVars,
                 stopped>>

\* handleWrite() of a socket that is connected.
Connected ==
  /\ cLpc = "idle" /\ cState = "connecting" /\ channel
  /\ channel' = FALSE /\ cState' = "connected"
  /\ cLpc' = IF connect THEN "publish" ELSE "idle"
  /\ UNCHANGED <<connect, timers, overwritten, fatal, connection, replaced, tasks, userVars,
                 netVars, stopped>>

-----------------------------------------------------------------------------
(* The TcpClient, on the loop's thread *)

\* newConnection(): publish connection_ under mutex_, establish it.
NewConnection ==
  /\ cLpc = "publish"
  /\ connection' = "up"
  /\ replaced' = IF connection = "none" THEN replaced ELSE replaced + 1
  /\ cLpc' = "idle"
  /\ UNCHANGED <<connectorVars, tasks, userVars, netVars, stopped>>

\* handleClose() of connection_ leads to removeConnection(): the peer closes
\* after a shutdown, or the connection breaks.
RemoveConnection ==
  /\ cLpc = "idle"
  /\ connection = "closing" \/ (connection = "up" /\ ~good)
  /\ connection' = "none"
  /\ cLpc' = IF disconnecting THEN "idle" ELSE "restart"
  /\ UNCHANGED <<connectorVars, replaced, tasks, userVars, netVars, stopped>>

RestartAfterLoss ==
  /\ cLpc = "restart"
  /\ Restart /\ cLpc' = "idle"
  /\ UNCHANGED <<connection, replaced, tasks, userVars, netVars, stopped>>

\* removeConnection() of a connection that was replaced meanwhile.
RemoveReplaced ==
  /\ cLpc = "idle" /\ replaced > 0
  /\ replaced' = replaced - 1
  /\ UNCHANGED <<connectorVars, connection, tasks, cLpc, userVars, netVars, stopped>>

-----------------------------------------------------------------------------
Outage ==
  /\ good /\ outages < MaxOutages
  /\ good' = FALSE /\ outages' = outages + 1
  /\ UNCHANGED <<connectorVars, connection, replaced, tasks, cLpc, userVars, stopped>>

Recovery ==
  /\ ~good /\ good' = TRUE
  /\ UNCHANGED <<connectorVars, connection, replaced, tasks, cLpc, userVars, outages, stopped>>

UserStep ==
  \/ Connect \/ Stop \/ DisconnectPermanently \/ Disconnect \/ EnsureConnected
  \/ StopFlag \/ StopPost \/ PermanentlyClose

LoopStep ==
  \/ RunTask \/ RetryTimer \/ ConnectFailed \/ Connected
  \/ NewConnection \/ RemoveConnection \/ RestartAfterLoss \/ RemoveReplaced

Next == UserStep \/ LoopStep \/ Outage \/ Recovery

Spec == Init /\ [][Next]_vars

\* The user does call connect(), the loop runs its functors, timers and
\* events, and outages end.
Fairness ==
  /\ WF_vars(Connect) /\ WF_vars(Recovery)
  /\ WF_vars(RunTask) /\ WF_vars(RetryTimer)
  /\ WF_vars(ConnectFailed \/ Connected)
  /\ WF_vars(NewConnection \/ RestartAfterLoss)
FairSpec == Spec /\ Fairness

-----------------------------------------------------------------------------
(* Properties *)

\* tcp_client.h:63, "已在连接中或已连接则什么都不做，避免重复 connect 覆盖 channel。"
\* (nothing is done while connecting or connected, so that a second connect
\* does not overwrite the channel).
NeverOverwritten == ~overwritten

\* As long as nobody stops it and no connect fails for good, the client gets
\* connected again after every outage and every disconnect().
Reconnects ==
  connection = "none" ~> connection = "up" \/ fatal \/ called \cap {"stop", "permanent"} # {}

\* tcp_client.cc:146 and tcp_client.h:56: once the functor of stop() or of
\* disconnectPermanently() was run, and nobody asked for a connection since,
\* no connect is started any more.
StoppedIsFinal ==
  [][stopped /\ stopped' /\ cState' = "connecting" => cState = "connecting"]_vars

\* tcp_client.h:62: ensureConnected() is idempotent: calling it again while the
\* client waits for its retry leaves one retry, not two.
OneRetryChain == timers <= 1
=============================================================================
