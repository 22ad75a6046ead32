--------------------------- MODULE MCConnections ----------------------------
(***************************************************************************)
(* Connections side by side: one connection by itself (TcpConnection), the *)
(* client that makes and replaces its connection (TcpClient), the server   *)
(* that keeps many (TcpServer), and the Acceptor that gives it new ones.   *)
(* A behaviour exercises one of them.                                      *)
(***************************************************************************)
EXTENDS TcpConnection, TcpClientState, TcpServerState

CONSTANTS Peers, Descriptors, Backlog   \* of the acceptor

VARIABLES
  subject,  \* what is exercised
  listening, reading, pending, peers

clientVars == <<cState, connect, channel, timers, connection, replaced, disconnecting, tasks,
                cLpc, upc, ops, outages, good, called, fatal, overwritten, stopped>>
serverVars == <<threads, phase, conns, nextId, io, st, chan, destroyed, q, ioBatch, ioAt, ioQuit,
                stale, broken>>
acceptorVars == <<listening, reading, pending, peers>>

Client == INSTANCE TcpClient
Server == INSTANCE TcpServer
Accept == INSTANCE Acceptor WITH peer <- peers

MCInit ==
  /\ subject \in {"connection", "client", "server", "acceptor"}
  /\ Init /\ Client!Init /\ Server!Init /\ Accept!Init
  /\ subject # "server" => threads = {}

MCNext ==
  \/ subject = "connection" /\ Next /\ UNCHANGED <<subject, clientVars, serverVars, acceptorVars>>
  \/ subject = "client" /\ Client!Next /\ UNCHANGED <<subject, vars, serverVars, acceptorVars>>
  \/ subject = "server" /\ Server!Next /\ UNCHANGED <<subject, vars, clientVars, acceptorVars>>
  \/ subject = "acceptor" /\ Accept!Next /\ UNCHANGED <<subject, vars, clientVars, serverVars>>

\* The fairness of each of the four.
ConnectionFairness ==
  /\ WF_vars(subject = "connection" /\ LoopStep)
  /\ WF_vars(subject = "connection" /\ (~quiet \/ lpc = "out") /\ HandleWrite)
  /\ WF_vars(subject = "connection" /\ RemoveConnection)
  /\ \A t \in Threads : WF_vars(subject = "connection" /\ ShutdownStore(t))
  /\ WF_vars(subject = "connection" /\ quiet /\ CheckIdleTimeout)

ClientFairness ==
  /\ WF_clientVars(subject = "client" /\ Client!Connect)
  /\ WF_clientVars(subject = "client" /\ Client!Recovery)
  /\ WF_clientVars(subject = "client" /\ Client!RunTask)
  /\ WF_clientVars(subject = "client" /\ Client!RetryTimer)
  /\ WF_clientVars(subject = "client" /\ (Client!ConnectFailed \/ Client!Connected))
  /\ WF_clientVars(subject = "client" /\ (Client!NewConnection \/ Client!RestartAfterLoss))

ServerFairness ==
  /\ WF_serverVars(subject = "server" /\ Server!RunBase)
  /\ WF_serverVars(subject = "server" /\ Server!Joined)
  /\ \A l \in IoLoops : /\ WF_serverVars(subject = "server" /\ Server!LoopStep(l))
                        /\ WF_serverVars(subject = "server" /\ Server!QuitLoop(l))

AcceptorFairness ==
  /\ WF_acceptorVars(subject = "acceptor" /\ Accept!HandleRead)
  /\ \A p \in Peers : WF_acceptorVars(subject = "acceptor" /\ Accept!CloseSocket(p))

MCSpec ==
  /\ MCInit /\ [][MCNext]_<<subject, vars, clientVars, serverVars, acceptorVars>>
  /\ ConnectionFairness /\ ClientFairness /\ ServerFairness /\ AcceptorFairness

-----------------------------------------------------------------------------
\* A dead peer is dropped, a shutdown completes, and the user is told of the end once
\* unless shutdown() was called: see DeadPeersAreDropped, ShutdownCompletes and DownOnce
\* of TcpConnection.
ConnectionsComeDown ==
  subject = "connection" => DeadPeersAreDropped /\ ShutdownCompletes /\ []DownOnce

\* A client that nobody stopped is connected again: see TcpClient!Reconnects.
Reconnects == subject = "client" => Client!Reconnects

\* A closed connection is destroyed in the end, so that its descriptor is free again, and
\* a peer that waits is then accepted: see TcpServer!ClosedAreFreed and
\* Acceptor!PendingAreAccepted.
ConnectionsComeAndGo == Server!ClosedAreFreed /\ Accept!PendingAreAccepted
=============================================================================
