---------------------------- MODULE PooledClients ----------------------------
(***************************************************************************)
(* RpcAsyncClients that borrow one pooled TcpClient one after the other    *)
(* (pool mode of src/client/rpc_async_client.cc, claim and callbacks of    *)
(* src/network/tcp_client.{h,cc}).                                         *)
(*                                                                         *)
(* The TcpClient, its connection and its EventLoop outlive the clients.    *)
(* Each client belongs to a thread of its own; the loop's thread runs      *)
(* timers, replies and reconnections.  What a call does on its own thread  *)
(* is one step here: RpcAsyncClient takes it apart.                        *)
(***************************************************************************)
EXTENDS Naturals, FiniteSets

CONSTANTS
  Clients,      \* the RpcAsyncClients created on the borrowed TcpClient
  NoClient,     \* "nobody": a null owner_ or an empty callback
  MaxCalls,     \* bound: calls per client, with req ids 1 .. MaxCalls
  Heartbeats    \* the clients that call startHeartbeat()

Ids == 1 .. MaxCalls
Calls == [client : Clients, id : Ids]

\* What a caller is given: an error, or the reply to some call.
Error(e) == [error |-> e]
ReplyTo(c) == [reply |-> c]
NoOutcome == Error("none")
Errors == {Error(e) : e \in {"timeout", "destroyed", "invalid"}}

VARIABLES
  owner,         \* owner_
  clientCb,      \* the TcpClient's messageCallback_: whose onMessage it is
  connCb,        \* the TcpConnection's messageCallback_
  up,            \* connection_ is set
  connecting,    \* newConnection() runs: the callback it copied, or "no"
  life,          \* how far each client is in its construction, disconnect() or destruction
  nextReqId, pending,   \* nextReqId_ and the pending tables of each client
  timers,        \* timers of calls on the loop
  beat,          \* state of each client's heartbeat timer
  handler,       \* what the loop's thread is in the middle of
  requests, replies,    \* calls whose request or reply is on the connection
  \* history
  completions, outcome, \* see RpcCalls
  freedUse       \* handlers that ran on a freed client

loopVars == <<timers, beat, handler>>
tcpVars == <<owner, clientCb, connCb, up, connecting>>
wireVars == <<requests, replies>>
resultVars == <<pending, completions, outcome>>
vars == <<tcpVars, life, nextReqId, loopVars, wireVars, resultVars, freedUse>>

Idle == [at |-> "idle"]
Life == {"none", "claimed", "wiring", "live", "parting", "partConn", "apart",
         "clearing", "clearConn", "releasing", "draining", "freed", "invalid"}

\* Constructed, and destroyed_ not set; "apart" once disconnect() has reset tcpClient_.
Alive == {"live", "parting", "partConn", "apart"}

TypeOK ==
  /\ {owner, clientCb, connCb} \subseteq Clients \cup {NoClient}
  /\ up \in BOOLEAN
  /\ connecting \in Clients \cup {NoClient, "no"}
  /\ life \in [Clients -> Life]
  /\ nextReqId \in [Clients -> 1 .. MaxCalls + 1]
  /\ pending \in [Clients -> SUBSET Ids]
  /\ timers \subseteq Calls
  /\ beat \in [Clients -> {"off", "on", "cancelled"}]
  /\ handler \in {Idle} \cup [at : {"timeout"}, call : Calls]
                 \cup [at : {"reply"}, to : Clients, call : Calls]
                 \cup [at : {"beat"}, of : Clients]
  /\ requests \subseteq Calls /\ replies \subseteq Calls
  /\ completions \in [Calls -> Nat]
  /\ outcome \in [Calls -> {ReplyTo(c) : c \in Calls} \cup Errors \cup {NoOutcome}]
  /\ freedUse \subseteq {"timeout", "reply", "beat"}

\* The pool has connected the TcpClient and lent it to nobody.
Init ==
  /\ owner = NoClient /\ clientCb = NoClient /\ connCb = NoClient
  /\ up = TRUE /\ connecting = "no"
  /\ life = [k \in Clients |-> "none"]
  /\ nextReqId = [k \in Clients |-> 1] /\ pending = [k \in Clients |-> {}]
  /\ timers = {} /\ beat = [k \in Clients |-> "off"] /\ handler = Idle
  /\ requests = {} /\ replies = {}
  /\ completions = [c \in Calls |-> 0] /\ outcome = [c \in Calls |-> NoOutcome]
  /\ freedUse = {}

Becomes(k, l) == life' = [life EXCEPT ![k] = l]

\* Fault: the entry stays in the table.
Resolve_NoErase(k, id, o) ==
  LET c == [client |-> k, id |-> id] IN
  IF id \in pending[k]
    THEN /\ completions' = [completions EXCEPT ![c] = @ + 1]
         /\ outcome' = [outcome EXCEPT ![c] = o] /\ UNCHANGED pending
    ELSE UNCHANGED resultVars

\* Give the entry id of client k's table, if it is still there, the result o.
Resolve(k, id, o) ==
  LET c == [client |-> k, id |-> id] IN
  IF id \in pending[k]
    THEN /\ pending' = [pending EXCEPT ![k] = @ \ {id}]
         /\ completions' = [completions EXCEPT ![c] = @ + 1]
         /\ outcome' = [outcome EXCEPT ![c] = o]
    ELSE UNCHANGED resultVars

-----------------------------------------------------------------------------
(* The constructor, on the client's thread *)

Claim(k) ==
  /\ life[k] = "none"
  /\ IF owner = NoClient THEN owner' = k /\ Becomes(k, "claimed")
                         ELSE Becomes(k, "invalid") /\ UNCHANGED owner
  /\ UNCHANGED <<clientCb, connCb, up, connecting, nextReqId, loopVars, wireVars, resultVars,
                 freedUse>>

\* setupCallbacks(): the TcpClient's callback, then its connection's.
WireClient(k) ==
  /\ life[k] = "claimed"
  /\ clientCb' = k /\ Becomes(k, "wiring")
  /\ UNCHANGED <<owner, connCb, up, connecting, nextReqId, loopVars, wireVars, resultVars,
                 freedUse>>

WireConn(k) ==
  /\ life[k] = "wiring"
  /\ connCb' = IF up THEN k ELSE connCb
  /\ Becomes(k, "live")
  /\ UNCHANGED <<owner, clientCb, up, connecting, nextReqId, loopVars, wireVars, resultVars,
                 freedUse>>

-----------------------------------------------------------------------------
(* Calls and the heartbeat *)

\* asyncCall() on a client whose claim failed.
CallInvalid(k) ==
  /\ life[k] = "invalid" /\ nextReqId[k] <= MaxCalls
  /\ LET c == [client |-> k, id |-> nextReqId[k]] IN
     /\ completions' = [completions EXCEPT ![c] = @ + 1]
     /\ outcome' = [outcome EXCEPT ![c] = Error("invalid")]
  /\ nextReqId' = [nextReqId EXCEPT ![k] = @ + 1]   \* one result per call made
  /\ UNCHANGED <<tcpVars, life, loopVars, wireVars, pending, freedUse>>

\* Fault: no timer is armed.
Call_NoTimer(k) ==
  LET c == [client |-> k, id |-> nextReqId[k]] IN
  /\ life[k] = "live" /\ nextReqId[k] <= MaxCalls
  /\ nextReqId' = [nextReqId EXCEPT ![k] = @ + 1]
  /\ pending' = [pending EXCEPT ![k] = @ \cup {c.id}]
  /\ requests' = IF up THEN requests \cup {c} ELSE requests
  /\ UNCHANGED <<tcpVars, life, loopVars, replies, completions, outcome, freedUse>>

\* asyncCall(): take an id, enter it, arm the timer, send; without a connection, or after
\* disconnect(), when there is no loop for the timer either, the call fails at once.
Call(k) ==
  LET c == [client |-> k, id |-> nextReqId[k]] IN
  /\ life[k] \in {"live", "apart"} /\ nextReqId[k] <= MaxCalls
  /\ nextReqId' = [nextReqId EXCEPT ![k] = @ + 1]
  /\ timers' = IF life[k] = "live" THEN timers \cup {c} ELSE timers
  /\ IF life[k] = "live" /\ up
       THEN /\ pending' = [pending EXCEPT ![k] = @ \cup {c.id}]
            /\ requests' = requests \cup {c}
            /\ UNCHANGED <<completions, outcome>>
       ELSE /\ completions' = [completions EXCEPT ![c] = @ + 1]
            /\ outcome' = [outcome EXCEPT ![c] = Error("timeout")]
            /\ UNCHANGED <<pending, requests>>
  /\ UNCHANGED <<tcpVars, life, beat, handler, replies, freedUse>>

StartHeartbeat(k) ==
  /\ life[k] = "live" /\ k \in Heartbeats /\ beat[k] = "off"
  /\ beat' = [beat EXCEPT ![k] = "on"]
  /\ UNCHANGED <<tcpVars, life, nextReqId, timers, handler, wireVars, resultVars, freedUse>>

-----------------------------------------------------------------------------
(* disconnect() and the destructor, on the client's thread *)

\* disconnect() called by the user: disconnecting_ is set, the callbacks are cleared
\* (ClearClient, ClearConn) and tcpClient_ is reset; the claim is kept.
Disconnect(k) ==
  /\ life[k] = "live" /\ Becomes(k, "parting")
  /\ UNCHANGED <<tcpVars, nextReqId, loopVars, wireVars, resultVars, freedUse>>

\* Fault: the destructor gives the claim back before it clears the callbacks.
Destroy_ReleaseFirst(k) ==
  /\ life[k] \in {"live", "apart", "invalid"}
  /\ Becomes(k, [live |-> "clearing", apart |-> "draining", invalid |-> "freed"][life[k]])
  /\ owner' = IF owner = k THEN NoClient ELSE owner
  /\ beat' = [beat EXCEPT ![k] = IF @ = "on" THEN "cancelled" ELSE @]
  /\ UNCHANGED <<clientCb, connCb, up, connecting, nextReqId, timers, handler, wireVars,
                 resultVars, freedUse>>

\* destroyed_ = true; stopHeartbeat() marks the periodic timer.  Where tcpClient_ is null
\* there is nothing left to clear, and no claim to give back.
Destroy(k) ==
  /\ life[k] \in {"live", "apart", "invalid"}
  /\ Becomes(k, [live |-> "clearing", apart |-> "draining", invalid |-> "freed"][life[k]])
  /\ beat' = [beat EXCEPT ![k] = IF @ = "on" THEN "cancelled" ELSE @]
  /\ UNCHANGED <<tcpVars, nextReqId, timers, handler, wireVars, resultVars, freedUse>>

\* clearCallbacks(): the TcpClient's callback, then its connection's.
ClearClient(k) ==
  /\ life[k] \in {"clearing", "parting"}
  /\ clientCb' = NoClient /\ Becomes(k, IF life[k] = "clearing" THEN "clearConn" ELSE "partConn")
  /\ UNCHANGED <<owner, connCb, up, connecting, nextReqId, loopVars, wireVars, resultVars,
                 freedUse>>

ClearConn(k) ==
  /\ life[k] \in {"clearConn", "partConn"}
  /\ connCb' = IF up THEN NoClient ELSE connCb
  /\ Becomes(k, IF life[k] = "clearConn" THEN "releasing" ELSE "apart")
  /\ UNCHANGED <<owner, clientCb, up, connecting, nextReqId, loopVars, wireVars, resultVars,
                 freedUse>>

ReleaseClaim(k) ==
  /\ life[k] = "releasing"
  /\ owner' = IF owner = k THEN NoClient ELSE owner
  /\ Becomes(k, "draining")
  /\ UNCHANGED <<clientCb, connCb, up, connecting, nextReqId, loopVars, wireVars, resultVars,
                 freedUse>>

\* Complete what is pending; the object is gone afterwards.
Drain(k) ==
  /\ life[k] = "draining"
  /\ LET left == {c \in Calls : c.client = k /\ c.id \in pending[k]} IN
     /\ completions' = [c \in Calls |-> IF c \in left THEN completions[c] + 1 ELSE completions[c]]
     /\ outcome' = [c \in Calls |-> IF c \in left THEN Error("destroyed") ELSE outcome[c]]
  /\ pending' = [pending EXCEPT ![k] = {}]
  /\ Becomes(k, "freed")
  /\ UNCHANGED <<tcpVars, nextReqId, loopVars, wireVars, freedUse>>

ClientStep(k) ==
  \/ WireClient(k) \/ WireConn(k)
  \/ ClearClient(k) \/ ClearConn(k) \/ ReleaseClaim(k) \/ Drain(k)

-----------------------------------------------------------------------------
(* The loop's thread *)

\* Running a handler of a freed client is undefined; the step notes it and
\* goes on as if nothing had been touched.
Touch(k, what) == freedUse' = IF life[k] = "freed" THEN freedUse \cup {what} ELSE freedUse

\* handleTimeout(): destroyed_ is tested first, then the table is locked.
FireTimer(c) ==
  /\ handler = Idle /\ c \in timers
  /\ timers' = timers \ {c}
  /\ Touch(c.client, "timeout")
  /\ handler' = IF life[c.client] \in Alive THEN [at |-> "timeout", call |-> c] ELSE Idle
  /\ UNCHANGED <<tcpVars, life, nextReqId, beat, wireVars, resultVars>>

TimeoutLocked ==
  /\ handler.at = "timeout"
  /\ Touch(handler.call.client, "timeout")
  /\ Resolve(handler.call.client, handler.call.id, Error("timeout"))
  /\ handler' = Idle
  /\ UNCHANGED <<tcpVars, life, nextReqId, timers, beat, wireVars>>

\* The connection's callback is called, or the bytes are dropped.
OnMessage(c) ==
  /\ handler = Idle /\ c \in replies
  /\ replies' = replies \ {c}
  /\ handler' = IF connCb = NoClient THEN Idle ELSE [at |-> "reply", to |-> connCb, call |-> c]
  /\ UNCHANGED <<tcpVars, life, nextReqId, timers, beat, requests, resultVars, freedUse>>

\* handleResponse() looks the reply's id up in the table of its client.
ResponseLocked ==
  /\ handler.at = "reply"
  /\ Touch(handler.to, "reply")
  /\ IF life[handler.to] = "freed" THEN UNCHANGED resultVars
       ELSE Resolve(handler.to, handler.call.id, ReplyTo(handler.call))
  /\ handler' = Idle
  /\ UNCHANGED <<tcpVars, life, nextReqId, timers, beat, wireVars>>

\* processTimers() takes a due periodic timer out, unless it is cancelled,
\* and runs it after the lock is released.
CollectBeat(k) ==
  /\ handler = Idle /\ beat[k] = "on"
  /\ handler' = [at |-> "beat", of |-> k]
  /\ UNCHANGED <<tcpVars, life, nextReqId, timers, beat, wireVars, resultVars, freedUse>>

Beat ==
  /\ handler.at = "beat"
  /\ Touch(handler.of, "beat")
  /\ handler' = Idle
  /\ UNCHANGED <<tcpVars, life, nextReqId, timers, beat, wireVars, resultVars>>

\* The connection breaks: TcpClient::removeConnection().
Lose ==
  /\ handler = Idle /\ up /\ connecting = "no"
  /\ up' = FALSE /\ connCb' = NoClient /\ requests' = {} /\ replies' = {}
  /\ UNCHANGED <<owner, clientCb, connecting, life, nextReqId, loopVars, resultVars, freedUse>>

\* TcpClient::newConnection(): copy the callback, then publish connection_.
NewConnection ==
  /\ handler = Idle /\ ~up /\ connecting = "no"
  /\ connecting' = clientCb
  /\ UNCHANGED <<owner, clientCb, connCb, up, life, nextReqId, loopVars, wireVars, resultVars,
                 freedUse>>

PublishConnection ==
  /\ connecting # "no"
  /\ up' = TRUE /\ connCb' = connecting /\ connecting' = "no"
  /\ UNCHANGED <<owner, clientCb, life, nextReqId, loopVars, wireVars, resultVars, freedUse>>

\* The server answers, in any order.
Answer(c) ==
  /\ up /\ c \in requests
  /\ requests' = requests \ {c} /\ replies' = replies \cup {c}
  /\ UNCHANGED <<tcpVars, life, nextReqId, loopVars, resultVars, freedUse>>

-----------------------------------------------------------------------------
Next ==
  \/ \E k \in Clients :
       \/ Claim(k) \/ CallInvalid(k) \/ Call(k) \/ StartHeartbeat(k) \/ Disconnect(k) \/ Destroy(k)
       \/ ClientStep(k) \/ CollectBeat(k)
  \/ \E c \in Calls : FireTimer(c) \/ OnMessage(c) \/ Answer(c)
  \/ TimeoutLocked \/ ResponseLocked \/ Beat
  \/ Lose \/ NewConnection \/ PublishConnection

Spec == Init /\ [][Next]_vars

\* A thread inside the constructor, disconnect() or the destructor goes on, and the
\* loop runs the timers that are due.  A heartbeat may be due again and again.
Fairness ==
  /\ \A k \in Clients : WF_vars(ClientStep(k))
  /\ \A c \in Calls : SF_vars(FireTimer(c))
  /\ WF_vars(TimeoutLocked \/ ResponseLocked \/ Beat \/ PublishConnection)
FairSpec == Spec /\ Fairness

-----------------------------------------------------------------------------
(* Properties *)

\* tcp_client.h:41: the callbacks of a TcpClient belong to the client that
\* holds the claim; nobody else installs or clears them, so that a client
\* whose claim failed never disturbs the one that succeeded.
ClaimGuardsCallbacks ==
  /\ clientCb # NoClient => owner = clientCb
  /\ \A k \in Clients : life[k] = "live" => owner = k /\ clientCb = k

\* docs/pool_design_and_healthcheck.md:145: every call is completed in the
\* end, by its timer if nothing else does it.
EveryCallCompletes ==
  \A c \in Calls : nextReqId[c.client] > c.id ~> completions[c] > 0

\* What keeps a call from being forgotten: its entry in the table, and its timer, a
\* handleTimeout() before the lock, or a destructor that has not drained the table.
Owed(c) ==
  /\ completions[c] = 0 /\ c.id \in pending[c.client]
  /\ \/ c \in timers \/ handler = [at |-> "timeout", call |-> c]
     \/ life[c.client] \in {"clearing", "clearConn", "releasing", "draining"}

\* A call is completed once, or has yet to be: timers, replies (also those meant for an
\* earlier borrower) and the destructor that compete for it neither complete it twice nor
\* leave it to each other.
OnceOrOwed ==
  \A c \in Calls :
    IF c.id < nextReqId[c.client] THEN completions[c] = 1 \/ Owed(c) ELSE completions[c] = 0

\* docs/protocol.md:69: a req_id is globally unique, so a reply completes the
\* call it answers and no other.
RepliesMatchCalls == \A c \in Calls : outcome[c] \in Errors \cup {NoOutcome, ReplyTo(c)}

\* rpc_async_client.h:121: destroyed_ keeps a timer from running on a client
\* that was destroyed.
NoTimerAfterFree == "timeout" \notin freedUse

\* rpc_async_client.cc:352: clearing the callbacks first keeps the pooled
\* connection from calling into a client that was destroyed.
NoMessageAfterFree == "reply" \notin freedUse

\* rpc_async_client.cc:361: disconnect() only drops the reference, and the claim is given
\* back in the destructor, so that the pool can lend the connection again.
ClaimIsReturned == \A k \in Clients : life[k] = "freed" => owner # k
=============================================================================
