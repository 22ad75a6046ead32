--------------------------- MODULE RpcAsyncClient ---------------------------
(***************************************************************************)
(* rpc::RpcAsyncClient over its own connection (direct mode,               *)
(* src/client/rpc_async_client.{h,cc}).                                    *)
(*                                                                         *)
(* Every call runs on a caller's thread, timers and replies are handled on *)
(* the EventLoop's thread, and a third thread may disconnect or destroy    *)
(* the client.  A step is what happens between two accesses to state that  *)
(* the threads share; pendingMutex_ is held within a single step.          *)
(* The TCP connection and the server are the environment: messages can be  *)
(* lost with the connection and replies can be overtaken by timers.        *)
(***************************************************************************)
EXTENDS Integers, FiniteSets

CONSTANTS
  Calls,       \* the calls made on the client, each of them once
  Callbacks,   \* those made through the callback overload
  Timed,       \* those with timeout_ms > 0
  MayStop,     \* the ways the owner may end the client's life
  NoOutcome

Errors == {"timeout", "destroyed", "rejected"}

ASSUME ClientConstants ==
  /\ Callbacks \subseteq Calls /\ Timed \subseteq Calls
  /\ MayStop \subseteq {"disconnect", "destroy"}
  /\ Calls \cap Errors = {} /\ NoOutcome \notin Calls \cup Errors

VARIABLES
  nextReqId,      \* nextReqId_
  reqId,          \* the id each call was given
  pending,        \* pendingPromises_ and pendingCallbacks_: id |-> call
  pc,             \* where each caller is
  timers,         \* ids of the runAfter() timers on the loop, never cancelled
  handler,        \* what the loop thread is in the middle of
  loop,           \* the EventLoop exists
  loopPtr,        \* loop_ # nullptr
  client,         \* tcpClient_ # nullptr
  wired,          \* the message callback is set
  up,             \* a TcpConnection is established
  retry,          \* the connector still reconnects
  disconnecting, destroyed,   \* disconnecting_, destroyed_
  hasBreaker,     \* setCircuitBreaker() was called before the calls
  opc,            \* where the owner is in disconnect() or the destructor
  requests, replies,          \* messages on the wire
  \* history
  completions, outcome,       \* what the caller was given, see RpcCalls
  recorded        \* what the breaker was told on behalf of each call

callVars == <<nextReqId, reqId, pc>>
lifeVars == <<hasBreaker, loop, loopPtr, client, wired, retry, disconnecting, destroyed, opc>>
netVars == <<up, requests, replies>>
resultVars == <<pending, completions, outcome>>
vars == <<callVars, timers, handler, lifeVars, netVars, resultVars, recorded>>

Entry == [id : Nat, call : Calls]
Reply == [id : Nat, call : Calls, ok : BOOLEAN]
Handler == [at : {"idle"}] \cup [at : {"timeout"}, id : Nat]
             \cup [at : {"reply"}, msg : Reply]
Idle == [at |-> "idle"]

CallTypes ==
  /\ nextReqId \in Nat \ {0}
  /\ reqId \in [Calls -> Nat]
  /\ pending \subseteq Entry
  /\ pc \in [Calls -> {"new", "insert", "loadLoop", "arm", "encode", "getClient",
                       "check", "send", "fail", "failLocked", "wait", "done"}]
  /\ timers \subseteq Nat
  /\ handler \in Handler
  /\ requests \subseteq Entry /\ replies \subseteq Reply
  /\ completions \in [Calls -> Nat]
  /\ outcome \in [Calls -> Calls \cup Errors \cup {NoOutcome}]
  /\ recorded \in [Calls -> SUBSET {"success", "failure"}]

TypeOK ==
  /\ CallTypes
  /\ {hasBreaker, loop, loopPtr, client, wired, up, retry, disconnecting, destroyed}
       \subseteq BOOLEAN
  /\ opc \in {"none", "clear", "close", "reset", "join", "null", "off", "drain", "freed"}

\* connect() has succeeded.
Init ==
  /\ nextReqId = 1 /\ reqId = [c \in Calls |-> 0]
  /\ pending = {}
  /\ pc = [c \in Calls |-> "new"]
  /\ timers = {} /\ handler = Idle
  /\ loop = TRUE /\ loopPtr = TRUE /\ client = TRUE /\ wired = TRUE
  /\ up = TRUE /\ retry = TRUE
  /\ disconnecting = FALSE /\ destroyed = FALSE /\ opc = "none"
  /\ hasBreaker \in BOOLEAN
  /\ requests = {} /\ replies = {}
  /\ completions = [c \in Calls |-> 0] /\ outcome = [c \in Calls |-> NoOutcome]
  /\ recorded = [c \in Calls |-> {}]

-----------------------------------------------------------------------------
(* Helpers *)

Goto(c, l) == pc' = [pc EXCEPT ![c] = l]

\* After sending: the future's caller waits, and so does the callback's when
\* there is a chain of interceptors to run through; without one it returns.
Sent(c) == IF c \in Callbacks /\ ~hasBreaker THEN "done" ELSE "wait"

\* Fault: the entry is used without being erased.
Resolve_NoErase(id, o) ==
  LET hit == {p.call : p \in {q \in pending : q.id = id}} IN
  /\ completions' = [c \in Calls |-> IF c \in hit THEN completions[c] + 1 ELSE completions[c]]
  /\ outcome' = [c \in Calls |-> IF c \in hit THEN o ELSE outcome[c]]
  /\ UNCHANGED pending

\* Find id in the pending tables, erase it and give its caller o.
Resolve(id, o) ==
  LET hit == {p.call : p \in {q \in pending : q.id = id}} IN
  /\ pending' = {q \in pending : q.id # id}
  /\ completions' = [c \in Calls |-> IF c \in hit THEN completions[c] + 1 ELSE completions[c]]
  /\ outcome' = [c \in Calls |-> IF c \in hit THEN o ELSE outcome[c]]

\* circuitBreaker_->record...() on behalf of the call that has this id.
Record(id, r) ==
  recorded' = [c \in Calls |-> IF hasBreaker /\ reqId[c] = id
                                 THEN recorded[c] \cup {r} ELSE recorded[c]]

-----------------------------------------------------------------------------
(* asyncCall() and doCall(), on the caller's thread *)

\* A call starts while the client exists: its id is taken.
Start(c) ==
  /\ pc[c] = "new" /\ ~destroyed
  /\ reqId' = [reqId EXCEPT ![c] = nextReqId] /\ nextReqId' = nextReqId + 1
  /\ Goto(c, "insert")
  /\ UNCHANGED <<timers, handler, lifeVars, netVars, resultVars, recorded>>

\* The interceptor chain that setCircuitBreaker() created refuses the call.
Reject(c) ==
  /\ pc[c] = "insert" /\ hasBreaker
  /\ completions' = [completions EXCEPT ![c] = @ + 1]
  /\ outcome' = [outcome EXCEPT ![c] = "rejected"]
  /\ Goto(c, "done")
  /\ UNCHANGED <<nextReqId, reqId, pending, timers, handler, lifeVars, netVars, recorded>>

Insert(c) ==
  /\ pc[c] = "insert"
  /\ pending' = {q \in pending : q.id # reqId[c]} \cup {[id |-> reqId[c], call |-> c]}
  /\ Goto(c, "loadLoop")
  /\ UNCHANGED <<nextReqId, reqId, timers, handler, lifeVars, netVars, completions,
                 outcome, recorded>>

LoadLoop(c) ==
  /\ pc[c] = "loadLoop"
  /\ Goto(c, IF c \in Timed /\ loopPtr THEN "arm" ELSE "encode")
  /\ UNCHANGED <<nextReqId, reqId, timers, handler, lifeVars, netVars, resultVars, recorded>>

\* runAfter() on the loop read before; if that loop is gone meanwhile the
\* call is undefined and at best the timer is lost.
Arm(c) ==
  /\ pc[c] = "arm"
  /\ \/ loop /\ timers' = timers \cup {reqId[c]}
     \/ ~loop /\ UNCHANGED timers
  /\ Goto(c, "encode")
  /\ UNCHANGED <<nextReqId, reqId, handler, lifeVars, netVars, resultVars, recorded>>

\* The codec refuses a request that is too large.
Encode(c) ==
  /\ pc[c] = "encode"
  /\ Goto(c, "fail") \/ Goto(c, "getClient")
  /\ UNCHANGED <<nextReqId, reqId, timers, handler, lifeVars, netVars, resultVars, recorded>>

\* sendRequest(): getTcpClient() copies tcpClient_ before disconnecting_ is tested.
GetClient(c) ==
  /\ pc[c] = "getClient"
  /\ Goto(c, IF client THEN "check" ELSE "fail")
  /\ UNCHANGED <<nextReqId, reqId, timers, handler, lifeVars, netVars, resultVars, recorded>>

Check(c) ==
  /\ pc[c] = "check"
  /\ Goto(c, IF disconnecting \/ ~up THEN "fail" ELSE "send")
  /\ UNCHANGED <<nextReqId, reqId, timers, handler, lifeVars, netVars, resultVars, recorded>>

\* conn->send(): the request is lost if the connection has broken meanwhile.
Send(c) ==
  /\ pc[c] = "send"
  /\ \/ up /\ requests' = requests \cup {[id |-> reqId[c], call |-> c]}
     \/ UNCHANGED requests
  /\ Goto(c, Sent(c))
  /\ UNCHANGED <<nextReqId, reqId, timers, handler, lifeVars, up, replies, resultVars, recorded>>

\* handleTimeout() called by the caller itself, before and in the lock.
Fail(c) ==
  /\ pc[c] = "fail"
  /\ IF destroyed THEN Goto(c, Sent(c)) /\ UNCHANGED recorded
                  ELSE Goto(c, "failLocked") /\ Record(reqId[c], "failure")
  /\ UNCHANGED <<nextReqId, reqId, timers, handler, lifeVars, netVars, resultVars>>

FailLocked(c) ==
  /\ pc[c] = "failLocked"
  /\ Resolve(reqId[c], "timeout")
  /\ Goto(c, Sent(c))
  /\ UNCHANGED <<nextReqId, reqId, timers, handler, lifeVars, netVars, recorded>>

\* future.get() returns once the promise is set.
Return(c) ==
  /\ pc[c] = "wait" /\ completions[c] > 0
  /\ Goto(c, "done")
  /\ UNCHANGED <<nextReqId, reqId, timers, handler, lifeVars, netVars, resultVars, recorded>>

Caller(c) ==
  \/ Reject(c) \/ Insert(c) \/ LoadLoop(c) \/ Arm(c) \/ Encode(c) \/ GetClient(c)
  \/ Check(c) \/ Send(c) \/ Fail(c) \/ FailLocked(c) \/ Return(c)

-----------------------------------------------------------------------------
(* The loop's thread *)

\* handleTimeout() as a timer callback, up to the lock.
FireTimer(id) ==
  /\ loop /\ handler = Idle /\ id \in timers
  /\ timers' = timers \ {id}
  /\ IF destroyed THEN UNCHANGED <<handler, recorded>>
                  ELSE handler' = [at |-> "timeout", id |-> id] /\ Record(id, "failure")
  /\ UNCHANGED <<callVars, lifeVars, netVars, resultVars>>

TimeoutLocked ==
  /\ handler.at = "timeout"
  /\ Resolve(handler.id, "timeout")
  /\ handler' = Idle
  /\ UNCHANGED <<callVars, timers, lifeVars, netVars, recorded>>

\* onMessage() and handleResponse(), up to the lock; TcpConnection drops
\* the bytes when no callback is set.
OnMessage(m) ==
  /\ loop /\ handler = Idle /\ m \in replies
  /\ replies' = replies \ {m}
  /\ IF wired
       THEN /\ handler' = [at |-> "reply", msg |-> m]
            /\ Record(m.id, IF m.ok THEN "success" ELSE "failure")
       ELSE UNCHANGED <<handler, recorded>>
  /\ UNCHANGED <<callVars, timers, lifeVars, up, requests, resultVars>>

ResponseLocked ==
  /\ handler.at = "reply"
  /\ Resolve(handler.msg.id, handler.msg.call)
  /\ handler' = Idle
  /\ UNCHANGED <<callVars, timers, lifeVars, netVars, recorded>>

\* The connection breaks and everything on it is lost; the connector
\* establishes another one unless it was stopped.
Lose ==
  /\ loop /\ handler = Idle /\ up
  /\ up' = FALSE /\ requests' = {} /\ replies' = {}
  /\ UNCHANGED <<callVars, timers, handler, lifeVars, resultVars, recorded>>

Reconnect ==
  /\ loop /\ handler = Idle /\ ~up /\ retry
  /\ up' = TRUE
  /\ UNCHANGED <<callVars, timers, handler, lifeVars, requests, replies, resultVars, recorded>>

LoopStep ==
  \/ TimeoutLocked \/ ResponseLocked
  \/ \E id \in timers : FireTimer(id)
  \/ \E m \in replies : OnMessage(m)

\* The server answers a request it received, in any order.
Answer(m) ==
  /\ up /\ m \in requests
  /\ requests' = requests \ {m}
  /\ \E ok \in BOOLEAN : replies' = replies \cup {[id |-> m.id, call |-> m.call, ok |-> ok]}
  /\ UNCHANGED <<callVars, timers, handler, lifeVars, up, resultVars, recorded>>

-----------------------------------------------------------------------------
(* disconnect() and the destructor, on the owner's thread *)

unlifed == <<hasBreaker, callVars, timers, handler, netVars, resultVars, recorded>>

Disconnect ==
  /\ "disconnect" \in MayStop /\ opc = "none"
  /\ disconnecting' = TRUE /\ opc' = "clear"
  /\ UNCHANGED <<unlifed, loop, loopPtr, client, wired, retry, destroyed>>

\* The owner may destroy the client while callers wait for their results,
\* not while they are still sending.
Destroy ==
  /\ "destroy" \in MayStop /\ opc \in {"none", "off"}
  /\ \A c \in Calls : pc[c] \in {"new", "wait", "done"}
  /\ destroyed' = TRUE /\ disconnecting' = TRUE
  /\ opc' = IF client THEN "clear" ELSE "join"
  /\ UNCHANGED <<unlifed, loop, loopPtr, client, wired, retry>>

ClearCallbacks ==
  /\ opc = "clear"
  /\ wired' = FALSE /\ opc' = "close"
  /\ UNCHANGED <<unlifed, loop, loopPtr, client, retry, disconnecting, destroyed>>

DisconnectPermanently ==
  /\ opc = "close"
  /\ retry' = FALSE /\ opc' = "reset"
  /\ UNCHANGED <<unlifed, loop, loopPtr, client, wired, disconnecting, destroyed>>

ResetClient ==
  /\ opc = "reset"
  /\ client' = FALSE /\ opc' = "join"
  /\ UNCHANGED <<unlifed, loop, loopPtr, wired, retry, disconnecting, destroyed>>

\* EventLoopThread::stop() waits for the handler that is running; the loop,
\* its timers and the connection go away.
JoinLoop ==
  /\ opc = "join" /\ handler = Idle
  /\ loop' = FALSE /\ timers' = {}
  /\ up' = FALSE /\ requests' = {} /\ replies' = {}
  /\ opc' = "null"
  /\ UNCHANGED <<hasBreaker, callVars, handler, resultVars, recorded, loopPtr, client, wired,
                 retry, disconnecting, destroyed>>

NullLoop ==
  /\ opc = "null"
  /\ loopPtr' = FALSE /\ opc' = IF destroyed THEN "drain" ELSE "off"
  /\ UNCHANGED <<unlifed, loop, client, wired, retry, disconnecting, destroyed>>

\* Fault: the destructor abandons the pending calls.
Drain_Skipped ==
  /\ opc = "drain" /\ opc' = "freed" /\ pending' = {}
  /\ UNCHANGED <<hasBreaker, callVars, timers, handler, netVars, completions, outcome,
                 recorded, loop,
                 loopPtr, client, wired, retry, disconnecting, destroyed>>

\* The rest of the destructor: complete whatever is still pending.
Drain ==
  /\ opc = "drain"
  /\ LET left == {p.call : p \in pending} IN
     /\ completions' = [c \in Calls |-> IF c \in left THEN completions[c] + 1 ELSE completions[c]]
     /\ outcome' = [c \in Calls |-> IF c \in left THEN "destroyed" ELSE outcome[c]]
  /\ pending' = {}
  /\ opc' = "freed"
  /\ UNCHANGED <<hasBreaker, callVars, timers, handler, netVars, recorded, loop, loopPtr, client,
                 wired, retry, disconnecting, destroyed>>

Owner ==
  ClearCallbacks \/ DisconnectPermanently \/ ResetClient \/ JoinLoop \/ NullLoop \/ Drain

-----------------------------------------------------------------------------
\* Every call was made and returned, and the client is gone or idle.
Finished ==
  /\ \A c \in Calls : pc[c] = "done" \/ (pc[c] = "new" /\ destroyed)
  /\ UNCHANGED vars

Next ==
  \/ \E c \in Calls : Start(c) \/ Caller(c)
  \/ LoopStep \/ Lose \/ Reconnect
  \/ \E m \in requests : Answer(m)
  \/ Disconnect \/ Destroy \/ Owner
  \/ Finished

Spec == Init /\ [][Next]_vars

\* Threads that are inside an operation go on, and the loop runs its timers:
\* nothing is assumed of the server, the network or the owner's intentions.
Fairness ==
  /\ \A c \in Calls : WF_vars(Caller(c))
  /\ WF_vars(TimeoutLocked) /\ WF_vars(ResponseLocked)
  /\ \A id \in 1 .. Cardinality(Calls) : WF_vars(FireTimer(id))
  /\ WF_vars(Owner)
FairSpec == Spec /\ Fairness

-----------------------------------------------------------------------------
(* Properties *)

\* Replies, timers, failed sends and the destructor compete for the same
\* pending entry, and the one that erases it completes the call: each call is
\* given one result, which is an error or the reply to that very call.
Promise == INSTANCE RpcCalls WITH issued <- {c \in Calls : pc[c] # "new"}
ImplementsRpcCalls == Promise!Spec

\* docs/pool_design_and_healthcheck.md:145: a call with a timeout is always
\* completed; a caller blocked in future.get() is never left behind.
NoCallerLeftBehind ==
  \A c \in Timed : pc[c] = "insert" ~> completions[c] > 0

\* A call with a timeout is completed whatever the server and the network do,
\* be it by the destructor, unless the client was disconnected and is never
\* destroyed: disconnect() takes the timers away and leaves the call pending.
EveryCallCompletes ==
  \A c \in Timed :
    pc[c] = "insert" ~> (completions[c] > 0 \/ [](disconnecting /\ ~destroyed))

\* The entry of a call, and who is bound to look for it.
CaredFor(c) ==
  /\ [id |-> reqId[c], call |-> c] \in pending
  /\ \/ pc[c] \in {"loadLoop", "arm"} \/ reqId[c] \in timers
     \/ handler = [at |-> "timeout", id |-> reqId[c]]
     \/ disconnecting /\ opc # "freed"

\* A call with a timeout that has no result is in the pending table, and somebody is bound
\* to look for it there: its timer, handleTimeout() before the lock, or the destructor of a
\* client that was disconnected.
NobodyIsForgotten ==
  \A c \in Timed : pc[c] \notin {"new", "insert"} /\ completions[c] = 0 => CaredFor(c)

\* rpc_async_client.cc:569: a failure reported to the breaker is a request
\* that timed out, never one whose caller already has its reply.
AnsweredCallsDoNotFail ==
  [][\A c \in Calls :
       outcome[c] = c => ("failure" \in recorded'[c] => "failure" \in recorded[c])]_vars

\* rpc_async_client.h:120: disconnecting_ keeps sendRequest()'s copy of
\* tcpClient_ and disconnect()'s reset of it from running side by side.
NoSendDisconnectRace ==
  ~ \E c \in Calls : pc[c] = "getClient" /\ opc = "reset"
=============================================================================
