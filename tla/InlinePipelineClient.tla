------------------------ MODULE InlinePipelineClient ------------------------
(***************************************************************************)
(* InlinePipelineClient: one thread submits requests and pumps its own     *)
(* event loop.  pumpOnce() waits in epoll_wait until something happens or  *)
(* the earliest deadline is due, gives replies to their callbacks, then    *)
(* sweeps the requests whose deadline has passed.  Callbacks may submit.   *)
(* Computing takes no time: the clock moves while the thread waits.        *)
(***************************************************************************)
EXTENDS Naturals, Sequences

CONSTANTS MaxCalls,       \* bound: requests submitted
          Timeouts,       \* the timeoutMs callers pass, in ticks
          DefaultTimeout, \* the 3000 ms for timeoutMs <= 0, in ticks
          IdleWait,       \* the 1000 ms of nextWaitMs, in ticks
          MaxTime,        \* bound: ticks of the clock
          MaxLosses       \* bound: connections that break

Calls == 1..MaxCalls
NoOutcome == 0
TimedOut == MaxCalls + 1

VARIABLES
  pc,                    \* "user", "wait", "loop" or "sweep"
  wakeAt,                \* when epoll_wait returns at the latest
  up,                    \* connection()->connected()
  nextId,                \* nextId_
  pending, deadline,     \* the ids in pending_, and their deadlines
  expired,               \* sweepTimeouts: taken out of pending_, not called back yet
  inCallback,            \* a callback is running
  completed,             \* completions_
  now, losses,           \* the clock; connections that broke (external)
  requests, replies,     \* at the server; in the socket (external)
  completions, outcome,  \* what the callbacks were given, see RpcCalls
  returned               \* what all calls of pumpOnce() returned, together

netVars == <<losses, requests, replies>>
pendingVars == <<nextId, pending, deadline>>
resultVars == <<completions, outcome>>
vars == <<pc, wakeAt, up, pendingVars, expired, inCallback, completed, now, netVars, resultVars, returned>>

Init == /\ pc = "user" /\ wakeAt = 0 /\ up = TRUE /\ nextId = 1 /\ pending = {}
        /\ deadline = [c \in Calls |-> 0] /\ expired = {} /\ inCallback = FALSE /\ completed = 0
        /\ now = 0 /\ losses = 0 /\ requests = {} /\ replies = <<>>
        /\ completions = [c \in Calls |-> 0] /\ outcome = [c \in Calls |-> NoOutcome]
        /\ returned = 0
-----------------------------------------------------------------------------
(* timeoutMs > 0 ? timeoutMs : 3000 *)
Effective(t) == IF t > 0 THEN t ELSE DefaultTimeout

(* submit(), by the caller or from a callback; it fails without a connection. *)
Submit(t) ==
  /\ pc = "user" \/ inCallback
  /\ up /\ nextId <= MaxCalls /\ now + Effective(t) <= MaxTime
  /\ pending' = pending \cup {nextId} /\ nextId' = nextId + 1
  /\ deadline' = [deadline EXCEPT ![nextId] = now + Effective(t)]
  /\ requests' = requests \cup {nextId}
  /\ UNCHANGED <<pc, wakeAt, up, expired, inCallback, completed, now, losses, replies, resultVars, returned>>

(* submit() of a request that cannot be encoded: it returns false, its id is used. *)
SubmitEncodeFails ==
  /\ pc = "user" \/ inCallback
  /\ up /\ nextId <= MaxCalls /\ nextId' = nextId + 1
  /\ UNCHANGED <<pc, wakeAt, up, pending, deadline, expired, inCallback, completed, now, netVars, resultVars, returned>>

(* nextWaitMs: until the first deadline. *)
NextWait ==
  \/ pending = {} /\ wakeAt' = now + IdleWait
  \/ \E c \in pending : (\A d \in pending : deadline[c] <= deadline[d]) /\ wakeAt' = deadline[c]

(* pumpOnce: epoll_wait. *)
PumpOnce == /\ pc = "user" /\ pc' = "wait" /\ completed' = 0 /\ NextWait
            /\ UNCHANGED <<up, pendingVars, expired, inCallback, now, netVars, resultVars, returned>>

(* epoll_wait returns: an event, the timeout, or another wake-up of the loop. *)
Wake == /\ pc = "wait" /\ pc' = "loop"
        /\ UNCHANGED <<wakeAt, up, pendingVars, expired, inCallback, completed, now, netVars, resultVars, returned>>

CallBack(c, o) == /\ completions' = [completions EXCEPT ![c] = @ + 1]
                  /\ outcome' = [outcome EXCEPT ![c] = o]
                  /\ completed' = completed + 1 /\ inCallback' = TRUE

(* onMessage that leaves the request in the table. *)
OnMessage_NoErase ==
  /\ pc = "loop" /\ up /\ replies # <<>> /\ replies' = Tail(replies)
  /\ LET c == Head(replies)
     IN \/ c \in pending /\ UNCHANGED pending /\ CallBack(c, c)
        \/ c \notin pending /\ inCallback' = FALSE /\ UNCHANGED <<pending, resultVars, completed>>
  /\ UNCHANGED <<pc, wakeAt, up, nextId, deadline, expired, now, losses, requests, returned>>

(* onMessage, one packet: a reply to a request that is still pending. *)
OnMessage ==
  /\ pc = "loop" /\ up /\ replies # <<>> /\ replies' = Tail(replies)
  /\ LET c == Head(replies)
     IN \/ c \in pending /\ pending' = pending \ {c} /\ CallBack(c, c)
        \/ c \notin pending /\ inCallback' = FALSE /\ UNCHANGED <<pending, resultVars, completed>>
  /\ UNCHANGED <<pc, wakeAt, up, nextId, deadline, expired, now, losses, requests, returned>>

(* The connection is lost with all it carried, and the TcpClient makes another one
   (external: TcpClient.tla); onConnection does nothing. *)
Lost == /\ pc = "loop" /\ up /\ losses < MaxLosses
        /\ losses' = losses + 1 /\ up' = FALSE /\ requests' = {} /\ replies' = <<>> /\ inCallback' = FALSE
        /\ UNCHANGED <<pc, wakeAt, pendingVars, expired, completed, now, resultVars, returned>>
Reconnected == /\ pc = "loop" /\ ~up /\ up' = TRUE /\ inCallback' = FALSE
               /\ UNCHANGED <<pc, wakeAt, pendingVars, expired, completed, now, netVars, resultVars, returned>>

(* sweepTimeouts that takes a deadline for due one tick late. *)
SweepTimeouts_Late ==
  /\ pc = "loop" /\ pc' = "sweep" /\ inCallback' = FALSE
  /\ expired' = {c \in pending : deadline[c] < now} /\ pending' = pending \ expired'
  /\ UNCHANGED <<wakeAt, up, nextId, deadline, completed, now, netVars, resultVars, returned>>

(* sweepTimeouts: first the expired requests leave the table. *)
SweepTimeouts ==
  /\ pc = "loop" /\ pc' = "sweep" /\ inCallback' = FALSE
  /\ expired' = {c \in pending : deadline[c] <= now} /\ pending' = pending \ expired'
  /\ UNCHANGED <<wakeAt, up, nextId, deadline, completed, now, netVars, resultVars, returned>>

(* sweepTimeouts: then their callbacks run, in no particular order. *)
SweepCallback(c) ==
  /\ pc = "sweep" /\ c \in expired
  /\ expired' = expired \ {c} /\ CallBack(c, TimedOut)
  /\ UNCHANGED <<pc, wakeAt, up, pendingVars, now, netVars, returned>>

(* pumpOnce returns completions_. *)
PumpReturns == /\ pc = "sweep" /\ expired = {} /\ pc' = "user"
               /\ returned' = returned + completed /\ completed' = 0 /\ inCallback' = FALSE
               /\ UNCHANGED <<wakeAt, up, pendingVars, expired, now, netVars, resultVars>>

(* The server answers in any order, or not at all (external). *)
Answer == /\ up /\ \E c \in requests : requests' = requests \ {c} /\ replies' = Append(replies, c)
          /\ UNCHANGED <<pc, wakeAt, up, pendingVars, expired, inCallback, completed, now, losses, resultVars, returned>>

(* The clock, while epoll_wait waits (external). *)
Tick == /\ pc = "wait" /\ now < wakeAt /\ now < MaxTime /\ now' = now + 1
        /\ UNCHANGED <<pc, wakeAt, up, pendingVars, expired, inCallback, completed, netVars, resultVars, returned>>

Pump == PumpOnce \/ Wake \/ SweepTimeouts \/ PumpReturns \/ \E c \in Calls : SweepCallback(c)
Next == (\E t \in Timeouts : Submit(t)) \/ SubmitEncodeFails \/ Pump \/ OnMessage \/ Lost \/ Reconnected \/ Answer \/ Tick

Spec == Init /\ [][Next]_vars

(* The caller keeps pumping, and time passes for a thread that waits again and
   again, however short each wait is. *)
FairSpec == Spec /\ WF_vars(Pump) /\ SF_vars(Tick)
-----------------------------------------------------------------------------
(* A request is in the table or among the expired ones, never in both. *)
TypeOK ==
  /\ pc \in {"user", "wait", "loop", "sweep"} /\ up \in BOOLEAN /\ nextId \in 1..(MaxCalls + 1)
  /\ pending \subseteq 1..(nextId - 1) /\ expired \subseteq 1..(nextId - 1)
  /\ pending \cap expired = {} /\ deadline \in [Calls -> 0..MaxTime]
  /\ completed \in 0..MaxCalls /\ now \in 0..MaxTime /\ requests \subseteq Calls
  /\ replies \in Seq(Calls) /\ returned \in 0..MaxCalls

(* A submitted request is called back once, with its own reply or the timeout:
   a reply after the sweep, or on a new connection, finds nothing. *)
Promise == INSTANCE RpcCalls WITH issued <- 1..(nextId - 1), Errors <- {TimedOut}
ImplementsRpcCalls == Promise!Spec

(* sweepTimeouts and nextWaitMs replace a timer per request: epoll_wait never
   sleeps past a deadline, also not one a callback has just added. *)
NeverOversleeps == \A c \in pending : now <= deadline[c]

(* While the caller pumps, every request is called back. *)
EveryCallCompletes == \A c \in Calls : (c \in pending) ~> (completions[c] > 0)
=============================================================================
