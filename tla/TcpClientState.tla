-------------------------- MODULE TcpClientState ---------------------------
(***************************************************************************)
(* The constants of TcpClient, what is assumed of them, its variables and  *)
(* its safety properties.                                                  *)
(***************************************************************************)
EXTENDS Naturals, Sequences

CONSTANTS
  Ops,         \* what the user calls once connect() was called
  MaxOps,      \* bound: how many of these calls
  MaxOutages,  \* bound: how often the network turns bad
  Fatal        \* connect(2) may fail with an error that is not retried

ASSUME TcpClientConstants ==
  /\ Ops \subseteq {"stop", "ensure", "disconnect", "permanent"}
  /\ MaxOps \in Nat /\ MaxOutages \in Nat /\ Fatal \in BOOLEAN

VARIABLES
  cState,        \* Connector::state_
  connect,       \* Connector::connect_
  channel,       \* Connector::channel_ is set and registered
  timers,        \* how many retry timers are armed
  connection,    \* connection_: none, up, or shut down and not closed yet
  replaced,      \* connections that connection_ does not name any more
  disconnecting, \* disconnecting_
  tasks,         \* functors posted to the loop
  cLpc,          \* the loop's thread between two functors, or within one
  upc,           \* the user's thread
  ops, outages,  \* calls made, outages seen
  good,          \* the network and the server accept connections
  \* history
  called,        \* which of Ops have been called
  fatal,         \* a connect failed with an error that is not retried
  overwritten,   \* connecting() replaced a registered channel
  stopped        \* the functor of the last stop() has been run

\* Unless disconnect() was called on a client that goes on reconnecting, retry
\* timers, ensureConnected(), stop() and the restart after a loss never start
\* a connect over the channel of another one.
NoChannelOverwrite == overwritten => "disconnect" \in called

\* A connection that works is never replaced by another: whoever reconnects,
\* newConnection() finds no established connection in connection_.
NeverReplacesLive == cLpc = "publish" => connection # "up"

\* A client has one connection and makes one at a time: none replaces a connection that
\* works, and until disconnect() is called no connect is started over another.
OneConnection == NoChannelOverwrite /\ NeverReplacesLive

\* f has been posted and not run yet.
Waits(fs, f) == \E i \in 1..Len(fs) : fs[i] = f

\* A client that nobody stopped never sits without a connection and idle: a connect is in
\* progress, a retry timer is armed, or the functor of connect() is still to be run; unless
\* a connect failed for good.
KeepsTrying ==
  /\ upc # "new" /\ connection = "none" /\ ~fatal
  /\ "stop" \notin called /\ "permanent" \notin called
  => \/ cLpc # "idle" \/ (cState = "connecting" /\ channel) \/ timers > 0 \/ Waits(tasks, "start")
=============================================================================
