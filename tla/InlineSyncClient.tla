-------------------------- MODULE InlineSyncClient --------------------------
(***************************************************************************)
(* InlineSyncClient: connect() and call() run the event loop themselves,   *)
(* on the calling thread, until what they wait for has happened or their   *)
(* time is over.  Between two of these calls nobody runs the loop.  The    *)
(* TcpClient below re-establishes a lost connection from that same loop    *)
(* (TcpClient.tla); here it is Established and Lost.                       *)
(***************************************************************************)
EXTENDS Naturals, Sequences

CONSTANTS MaxCalls,   \* bound: calls that get an id
          Timeout,    \* timeoutMs, in ticks
          MaxTime,    \* bound: ticks of the clock
          MaxLosses   \* bound: connections that break

ASSUME CallBounds == MaxCalls \in Nat /\ Timeout \in Nat /\ MaxTime \in Nat

Calls == 1..MaxCalls
NoOutcome == 0
TimedOut == MaxCalls + 1
Closed == MaxCalls + 2
Errors == {TimedOut, Closed}

VARIABLES
  pc,                     \* "idle", "connecting" or "calling"
  up,                     \* connection()->connected()
  started,                \* connect() was called once: the connector works
  nextId, pendingId,      \* nextId_, pendingId_
  done, result,           \* done_, result_
  connectDone, connectOk, \* connectDone_, connectOk_
  deadline, now,
  broken, losses,         \* the connection is dead, but not yet noticed
  requests, replies,      \* at the server; in the socket (external)
  completions, outcome    \* what call() returned, see RpcCalls

callVars == <<nextId, pendingId, done, result>>
connectVars == <<started, connectDone, connectOk>>
netVars == <<broken, losses, requests, replies>>
resultVars == <<completions, outcome>>
vars == <<pc, up, callVars, connectVars, deadline, now, netVars, resultVars>>

Init == /\ pc = "idle" /\ up = FALSE /\ started = FALSE /\ nextId = 1 /\ pendingId = 0
        /\ done = FALSE /\ result = NoOutcome /\ connectDone = FALSE /\ connectOk = FALSE
        /\ deadline = 0 /\ now = 0 /\ broken = FALSE /\ losses = 0
        /\ requests = {} /\ replies = <<>>
        /\ completions = [c \in Calls |-> 0] /\ outcome = [c \in Calls |-> NoOutcome]
-----------------------------------------------------------------------------
(* connect(): starts the connector and enters its wait.  A second connect() is
   ruled out by assert(state_ == kDisconnected) in Connector::startInLoop. *)
Connect ==
  /\ pc = "idle" /\ ~started /\ now + Timeout <= MaxTime /\ pc' = "connecting" /\ deadline' = now + Timeout
  /\ started' = TRUE /\ connectDone' = FALSE /\ connectOk' = FALSE
  /\ UNCHANGED <<up, callVars, now, netVars, resultVars>>

(* The wait of connect() ends. *)
ConnectReturns ==
  /\ pc = "connecting" /\ (connectDone \/ now >= deadline)
  /\ pc' = "idle"
  /\ UNCHANGED <<up, callVars, connectVars, deadline, now, netVars, resultVars>>

Return(c, o) == /\ completions' = [completions EXCEPT ![c] = @ + 1]
                /\ outcome' = [outcome EXCEPT ![c] = o]

(* call() on a connection it takes to be alive: the request is sent, and is lost
   when the connection has died since the loop last ran. *)
CallSend ==
  /\ pc = "idle" /\ up /\ nextId <= MaxCalls /\ now + Timeout <= MaxTime
  /\ pendingId' = nextId /\ nextId' = nextId + 1 /\ done' = FALSE /\ result' = NoOutcome
  /\ requests' = IF broken THEN requests ELSE requests \cup {nextId}
  /\ pc' = "calling" /\ deadline' = now + Timeout
  /\ UNCHANGED <<up, connectVars, now, broken, losses, replies, resultVars>>

(* call() whose request cannot be encoded: it returns an error at once. *)
CallEncodeFails ==
  /\ pc = "idle" /\ up /\ nextId <= MaxCalls
  /\ nextId' = nextId + 1 /\ pendingId' = 0 /\ done' = FALSE /\ result' = NoOutcome
  /\ UNCHANGED <<pc, up, connectVars, deadline, now, netVars, resultVars>>

(* call() that waits anew when a round of the loop is over. *)
CallTimesOut_Rearms ==
  /\ pc = "calling" /\ ~done /\ now >= deadline
  /\ deadline' = now + Timeout
  /\ UNCHANGED <<pc, up, callVars, connectVars, now, netVars, resultVars>>

(* call(): the deadline has passed. *)
CallTimesOut ==
  /\ pc = "calling" /\ ~done /\ now >= deadline
  /\ pc' = "idle" /\ pendingId' = 0 /\ Return(pendingId, TimedOut)
  /\ UNCHANGED <<up, nextId, done, result, connectVars, deadline, now, netVars>>

(* call(): done_. *)
CallReturns ==
  /\ pc = "calling" /\ done
  /\ pc' = "idle" /\ pendingId' = 0 /\ Return(pendingId, result) /\ result' = NoOutcome
  /\ UNCHANGED <<up, nextId, done, connectVars, deadline, now, netVars>>
-----------------------------------------------------------------------------
(* What loopOnce() does, which only runs inside connect() and call(). *)
InLoop == pc \in {"connecting", "calling"}

(* The connector succeeds: onConnection with a live connection. *)
Established ==
  /\ InLoop /\ started /\ ~up
  /\ up' = TRUE /\ broken' = FALSE /\ connectDone' = TRUE /\ connectOk' = TRUE
  /\ UNCHANGED <<pc, callVars, started, deadline, now, losses, requests, replies, resultVars>>

(* onConnection for a connection that is closed. *)
OnDown ==
  /\ connectDone' = TRUE /\ connectOk' = FALSE
  /\ \/ pendingId # 0 /\ ~done /\ done' = TRUE /\ result' = Closed
     \/ ~(pendingId # 0 /\ ~done) /\ UNCHANGED <<done, result>>

(* The loop notices that the connection is dead: handleClose. *)
Lost ==
  /\ InLoop /\ up /\ broken
  /\ up' = FALSE /\ replies' = <<>> /\ OnDown
  /\ UNCHANGED <<pc, nextId, pendingId, started, deadline, now, broken, losses, requests, resultVars>>

(* onMessage without the test of req_id. *)
OnMessage_AnyReply ==
  /\ InLoop /\ up /\ replies # <<>>
  /\ replies' = <<>>
  /\ \/ pendingId # 0 /\ ~done /\ done' = TRUE /\ result' = Head(replies)
     \/ ~(pendingId # 0 /\ ~done) /\ UNCHANGED <<done, result>>
  /\ UNCHANGED <<pc, up, nextId, pendingId, connectVars, deadline, now, broken, losses, requests, resultVars>>

(* onMessage decodes all that has arrived, and takes the reply to pendingId_. *)
OnMessage ==
  /\ InLoop /\ up /\ replies # <<>>
  /\ replies' = <<>>
  /\ LET mine == ~done /\ \E i \in DOMAIN replies : replies[i] = pendingId
     IN \/ mine /\ done' = TRUE /\ result' = pendingId
        \/ ~mine /\ UNCHANGED <<done, result>>
  /\ UNCHANGED <<pc, up, nextId, pendingId, connectVars, deadline, now, broken, losses, requests, resultVars>>
-----------------------------------------------------------------------------
(* The server answers in any order, or not at all (external). *)
Answer == /\ ~broken
          /\ \E c \in requests : requests' = requests \ {c} /\ replies' = Append(replies, c)
          /\ UNCHANGED <<pc, up, callVars, connectVars, deadline, now, broken, losses, resultVars>>

(* The connection breaks; what the server had to answer is lost (external). *)
Break == /\ up /\ ~broken /\ losses < MaxLosses
         /\ broken' = TRUE /\ losses' = losses + 1 /\ requests' = {}
         /\ UNCHANGED <<pc, up, callVars, connectVars, deadline, now, replies, resultVars>>

(* The clock (external). *)
Tick == now < MaxTime /\ now' = now + 1
        /\ UNCHANGED <<pc, up, callVars, connectVars, deadline, netVars, resultVars>>

Wait == CallTimesOut \/ CallReturns \/ ConnectReturns
Next == Connect \/ CallSend \/ CallEncodeFails \/ Wait \/ Established \/ Lost \/ OnMessage
        \/ Answer \/ Break \/ Tick

Spec == Init /\ [][Next]_vars

(* The calling thread runs, time passes, and the loop handles what epoll reports. *)
FairSpec == Spec /\ WF_vars(Wait) /\ WF_vars(Tick) /\ WF_vars(Established) /\ WF_vars(Lost)
                 /\ WF_vars(OnMessage)
-----------------------------------------------------------------------------
(* At most one request is outstanding, and only inside call(). *)
TypeOK ==
  /\ pc \in {"idle", "connecting", "calling"} /\ nextId \in 1..(MaxCalls + 1)
  /\ pendingId \in 0..(nextId - 1) /\ (pendingId # 0) = (pc = "calling")
  /\ {up, started, done, connectDone, connectOk, broken} \subseteq BOOLEAN
  /\ result \in Calls \cup Errors \cup {NoOutcome} /\ requests \subseteq Calls
  /\ replies \in Seq(Calls) /\ now \in 0..MaxTime /\ deadline \in Nat

(* A call returns once, with the reply to that very call or with an error: a
   reply that comes after its call timed out is never given to a later call
   (the test of req_id in onMessage). *)
Promise == INSTANCE RpcCalls WITH issued <- 1..(nextId - 1)
ImplementsRpcCalls == Promise!Spec

(* call() returns, whatever the server and the network do. *)
EveryCallReturns == (pc = "calling") ~> (pc = "idle")

(* README.md:15, automatic reconnection: a client that was connected does not stay
   disconnected forever while its caller keeps calling.  (A call() without a
   connection returns "not connected" and changes nothing.) *)
Recovers == []<>(up \/ ~started)
=============================================================================
