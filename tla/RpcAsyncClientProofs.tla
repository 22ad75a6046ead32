------------------------ MODULE RpcAsyncClientProofs ------------------------
(***************************************************************************)
(* RpcAsyncClient keeps the promise of RpcCalls for any set of calls, with *)
(* or without a breaker, and whatever the owner does with the client; and  *)
(* a call with a timeout always has somebody who is bound to complete it.  *)
(***************************************************************************)
EXTENDS RpcAsyncClient, TLAPS

\* A table entry or a message carries the id of the call it belongs to.
Known(e) == pc[e.call] # "new" /\ reqId[e.call] = e.id

\* Ids are distinct, messages and entries carry the id of their own call, and
\* the pending table holds only calls that have no result yet: that is why
\* whoever erases an entry is the first, and completes the right call.
IInv ==
  /\ CallTypes
  /\ \A c \in Calls : pc[c] # "new" => reqId[c] < nextReqId
  /\ \A c, d \in Calls :
       c # d /\ pc[c] # "new" /\ pc[d] # "new" => reqId[c] # reqId[d]
  /\ \A c \in Calls : pc[c] \in {"new", "insert"} => completions[c] = 0
  /\ \A p \in pending : Known(p) /\ pc[p.call] # "insert" /\ completions[p.call] = 0
  /\ \A m \in requests \cup replies : Known(m)
  /\ handler.at = "reply" => Known(handler.msg)

\* What Resolve(id, o) does to the promise, when o suits the call with this id.
LEMMA ResolveKeepsPromise ==
  ASSUME NEW id \in Nat, NEW o, IInv, Resolve(id, o),
         UNCHANGED {c \in Calls : pc[c] # "new"},
         \A c \in Calls : pc[c] # "new" /\ reqId[c] = id => o \in Errors \cup {c}
  PROVE  [Promise!Next]_Promise!vars
<1> DEFINE hit == {p.call : p \in {q \in pending : q.id = id}}
<1>0. /\ completions' = [c \in Calls |-> IF c \in hit THEN completions[c] + 1
                                                   ELSE completions[c]]
      /\ outcome' = [c \in Calls |-> IF c \in hit THEN o ELSE outcome[c]]
  BY DEF Resolve
<1>1. CASE hit = {}
  <2>1. completions' = completions /\ outcome' = outcome
    BY <1>0, <1>1, Zenon DEF IInv, CallTypes
  <2>2. QED
    BY <2>1 DEF Promise!vars
<1>2. CASE hit # {}
  <2>1. PICK c : c \in hit
    BY <1>2
  <2>2. /\ c \in Calls /\ pc[c] # "new" /\ completions[c] = 0
        /\ o \in Errors \cup {c}
    BY <2>1 DEF IInv, CallTypes, Entry, Known
  <2>3. hit = {c}
    BY <2>1, <2>2 DEF IInv, CallTypes, Entry, Known
  <2> HIDE DEF hit
  <2>t. /\ completions \in [Calls -> Nat]
        /\ outcome \in [Calls -> Calls \cup Errors \cup {NoOutcome}]
    BY DEF IInv, CallTypes
  <2>4. completions' = [completions EXCEPT ![c] = 1]
    <3>1. completions[c] + 1 = 1
      BY <2>2
    <3>2. completions' = [d \in Calls |-> IF d = c THEN 1 ELSE completions[d]]
      BY <1>0, <2>3, <3>1
    <3>3. QED
      BY <2>2, <2>t, <3>2, Zenon
  <2>5. outcome' = [outcome EXCEPT ![c] = o]
    BY <1>0, <2>2, <2>3, <2>t, Zenon
  <2>6. Promise!Complete(c)
    BY <2>2, <2>4, <2>5, Zenon DEF Promise!Complete
  <2>7. QED
    BY <2>2, <2>6 DEF Promise!Next
<1>3. QED
  BY <1>1, <1>2

\* Resolve leaves an inductive table behind.
LEMMA ResolveKeepsTable ==
  ASSUME NEW id \in Nat, NEW o \in Calls \cup Errors, IInv, Resolve(id, o)
  PROVE  /\ pending' \subseteq pending
         /\ completions' \in [Calls -> Nat]
         /\ outcome' \in [Calls -> Calls \cup Errors \cup {NoOutcome}]
         /\ \A p \in pending' : completions'[p.call] = 0
         /\ \A c \in Calls : pc[c] \in {"new", "insert"} => completions'[c] = 0
<1> DEFINE hit == {p.call : p \in {q \in pending : q.id = id}}
<1>1. pending' = {q \in pending : q.id # id}
  BY DEF Resolve
<1>2. /\ completions' = [c \in Calls |-> IF c \in hit THEN completions[c] + 1
                                                   ELSE completions[c]]
      /\ outcome' = [c \in Calls |-> IF c \in hit THEN o ELSE outcome[c]]
  BY DEF Resolve
<1>3. \A p \in pending' : p.call \in Calls /\ p.call \notin hit
  BY <1>1 DEF IInv, CallTypes, Entry, Known
<1>4. \A c \in hit : pc[c] \notin {"new", "insert"}
  BY DEF IInv, Known
<1>5. completions' \in [Calls -> Nat]
  BY <1>2 DEF IInv, CallTypes
<1>6. outcome' \in [Calls -> Calls \cup Errors \cup {NoOutcome}]
  BY <1>2 DEF IInv, CallTypes
<1>7. QED
  BY <1>1, <1>2, <1>3, <1>4, <1>5, <1>6 DEF IInv, CallTypes

LEMMA OwnEntry ==
  ASSUME NEW c \in Calls, IInv
  PROVE  [id |-> reqId[c], call |-> c] \in Entry
<1>1. reqId[c] \in Nat
  BY DEF IInv, CallTypes
<1>2. QED
  BY <1>1 DEF Entry

LEMMA RecordKeepsType ==
  ASSUME NEW id, NEW r \in {"success", "failure"}, CallTypes, Record(id, r)
  PROVE  recorded' \in [Calls -> SUBSET {"success", "failure"}]
  BY DEF Record, CallTypes

LEMMA InitIInv == Init => IInv
  BY DEF Init, IInv, CallTypes, Handler, Idle, Known

\* A caller's step that only moves it on, past its insertion.
LEMMA MoveKeepsIInv ==
  ASSUME NEW c \in Calls, NEW l, IInv, Goto(c, l), CallTypes',
         pc[c] # "new", l \notin {"new", "insert"},
         UNCHANGED <<nextReqId, reqId, replies, handler, resultVars>>,
         \A m \in requests' : m \in requests \/ m = [id |-> reqId[c], call |-> c]
  PROVE  IInv'
  BY DEF IInv, CallTypes, Entry, Reply, Known, Goto, resultVars, Handler

\* Tables and messages belong to calls that were made.
LEMMA MessagesKnown ==
  ASSUME IInv
  PROVE  /\ \A m \in requests \cup replies : m.call \in Calls /\ Known(m)
         /\ handler.at = "reply" => handler.msg.call \in Calls /\ Known(handler.msg)
<1>1. \A m \in requests : m.call \in Calls
  BY DEF IInv, CallTypes, Entry
<1>2. \A m \in replies : m.call \in Calls
  BY DEF IInv, CallTypes, Reply
<1>3. handler.at = "reply" => handler.msg.call \in Calls
  BY DEF IInv, CallTypes, Handler, Reply
<1>4. QED
  BY <1>1, <1>2, <1>3 DEF IInv

\* A step that takes no id and inserts nothing: it may erase entries and
\* complete their calls, and move messages whose ids are right.
LEMMA ErasingKeepsIInv ==
  ASSUME IInv, CallTypes', UNCHANGED <<nextReqId, reqId>>,
         \A c \in Calls : /\ pc'[c] = "new" <=> pc[c] = "new"
                          /\ pc'[c] = "insert" => pc[c] = "insert",
         pending' \subseteq pending,
         \A p \in pending' : completions'[p.call] = 0,
         \A c \in Calls : pc'[c] \in {"new", "insert"} => completions'[c] = 0,
         \A m \in requests' \cup replies' : m.call \in Calls /\ Known(m),
         handler'.at = "reply" => handler'.msg.call \in Calls /\ Known(handler'.msg)
  PROVE  IInv'
<1>1. /\ \A c \in Calls : pc'[c] # "new" => reqId'[c] < nextReqId'
      /\ \A c, d \in Calls :
           c # d /\ pc'[c] # "new" /\ pc'[d] # "new" => reqId'[c] # reqId'[d]
      /\ \A c \in Calls : pc'[c] \in {"new", "insert"} => completions'[c] = 0
  BY DEF IInv
<1>2. \A p \in pending' : p.call \in Calls /\ Known(p) /\ pc[p.call] # "insert"
  BY DEF IInv, CallTypes, Entry
<1>3. \A p \in pending' : Known(p)' /\ pc'[p.call] # "insert"
  BY <1>2 DEF Known
<1>4. \A m \in requests' \cup replies' : Known(m)'
  BY DEF Known
<1>5. handler'.at = "reply" => Known(handler.msg)'
  BY DEF Known
<1>6. QED
  BY <1>1, <1>3, <1>4, <1>5 DEF IInv

LEMMA CallerIInv ==
  ASSUME NEW c \in Calls, IInv, Start(c) \/ Caller(c)
  PROVE  IInv'
<1> USE DEF resultVars, netVars, callVars
<1> DEFINE Later == {"loadLoop", "arm", "encode", "getClient", "check", "send", "fail",
                    "failLocked", "wait", "done"}
<1>0. ASSUME NEW l \in Later, Goto(c, l)
      PROVE  pc' \in [Calls -> {"new", "insert", "loadLoop", "arm", "encode", "getClient",
                       "check", "send", "fail", "failLocked", "wait", "done"}]
  BY <1>0 DEF Goto, IInv, CallTypes
<1>1. CASE Start(c)
  <2>1. CallTypes'
    BY <1>1 DEF Start, Goto, IInv, CallTypes
  <2>2. QED
    <3>1. /\ pc[c] = "new" /\ pc'[c] = "insert" /\ reqId'[c] = nextReqId
          /\ nextReqId' = nextReqId + 1 /\ nextReqId \in Nat
          /\ \A d \in Calls : reqId[d] \in Nat
          /\ \A d \in Calls \ {c} : pc'[d] = pc[d] /\ reqId'[d] = reqId[d]
          /\ UNCHANGED <<handler, requests, replies, pending, completions>>
      BY <1>1 DEF Start, Goto, IInv, CallTypes
    <3>2. \A d \in Calls : pc'[d] # "new" => reqId'[d] < nextReqId'
      BY <3>1 DEF IInv
    <3>3. \A d, e \in Calls :
            d # e /\ pc'[d] # "new" /\ pc'[e] # "new" => reqId'[d] # reqId'[e]
      BY <3>1 DEF IInv
    <3>4. \A d \in Calls : pc'[d] \in {"new", "insert"} => completions'[d] = 0
      BY <3>1 DEF IInv
    <3>5. \A e : e.call \in Calls /\ Known(e) => Known(e)' /\ pc'[e.call] = pc[e.call]
      BY <3>1 DEF Known
    <3>6. \A q \in pending : q.call \in Calls
      BY DEF IInv, CallTypes, Entry
    <3>7. \A q \in pending' : Known(q)' /\ pc'[q.call] # "insert" /\ completions'[q.call] = 0
      BY <3>1, <3>5, <3>6 DEF IInv
    <3>8. /\ \A m \in requests' \cup replies' : Known(m)'
          /\ handler'.at = "reply" => Known(handler.msg)'
      BY <3>1, <3>5, MessagesKnown
    <3>9. QED
      BY <2>1, <3>2, <3>3, <3>4, <3>7, <3>8 DEF IInv
<1>2. CASE Reject(c)
  <2>1. CallTypes'
    <3>1. completions' \in [Calls -> Nat]
      BY <1>2 DEF Reject, IInv, CallTypes
    <3>2. outcome' \in [Calls -> Calls \cup Errors \cup {NoOutcome}]
      BY <1>2 DEF Reject, IInv, CallTypes, Errors
    <3>3. "done" \in Later /\ Goto(c, "done")
      BY <1>2 DEF Reject
    <3>4. QED
      BY <1>0, <1>2, <3>1, <3>2, <3>3 DEF Reject, IInv, CallTypes
  <2>2. /\ pc[c] = "insert" /\ pc'[c] = "done"
        /\ \A d \in Calls \ {c} : pc'[d] = pc[d] /\ completions'[d] = completions[d]
        /\ UNCHANGED <<nextReqId, reqId, pending, handler, requests, replies>>
    BY <1>2 DEF Reject, Goto, IInv, CallTypes
  <2>3. \A p \in pending : p.call \in Calls /\ p.call # c
    BY <2>2 DEF IInv, CallTypes, Entry
  <2>4. /\ \A p \in pending' : completions'[p.call] = 0
        /\ \A d \in Calls : pc'[d] \in {"new", "insert"} => completions'[d] = 0
    BY <2>2, <2>3 DEF IInv
  <2>5. QED
    BY <2>1, <2>2, <2>4, MessagesKnown, ErasingKeepsIInv
<1>3. CASE Insert(c)
  <2>1. CallTypes'
    <3>1. pending' \subseteq Entry
      BY <1>3, OwnEntry DEF Insert, IInv, CallTypes
    <3>2. "loadLoop" \in Later /\ Goto(c, "loadLoop")
      BY <1>3 DEF Insert
    <3>3. QED
      BY <1>0, <1>3, <3>1, <3>2 DEF Insert, IInv, CallTypes
  <2>2. /\ pc[c] = "insert" /\ pc'[c] = "loadLoop"
        /\ \A d \in Calls \ {c} : pc'[d] = pc[d]
        /\ UNCHANGED <<nextReqId, reqId, completions, handler, requests, replies>>
    BY <1>3 DEF Insert, Goto, IInv, CallTypes
  <2>3. /\ \A d \in Calls : pc'[d] # "new" => reqId'[d] < nextReqId'
        /\ \A d, e \in Calls :
             d # e /\ pc'[d] # "new" /\ pc'[e] # "new" => reqId'[d] # reqId'[e]
        /\ \A d \in Calls : pc'[d] \in {"new", "insert"} => completions'[d] = 0
    BY <2>2 DEF IInv
  <2>4. \A e : e.call \in Calls /\ Known(e) => Known(e)'
    BY <2>2 DEF Known
  <2>5. \A p \in pending' : p \in pending \/ p = [id |-> reqId[c], call |-> c]
    BY <1>3 DEF Insert
  <2>6. \A p \in pending' : Known(p)' /\ pc'[p.call] # "insert" /\ completions'[p.call] = 0
    <3>1. ASSUME NEW p \in pending
          PROVE  Known(p)' /\ pc'[p.call] # "insert" /\ completions'[p.call] = 0
      <4>1. p.call \in Calls
        BY DEF IInv, CallTypes, Entry
      <4>2. QED
        BY <2>2, <2>4, <4>1 DEF IInv
    <3>2. ASSUME NEW p, p = [id |-> reqId[c], call |-> c]
          PROVE  Known(p)' /\ pc'[p.call] # "insert" /\ completions'[p.call] = 0
      BY <2>2, <3>2 DEF Known, IInv
    <3>3. QED
      BY <2>5, <3>1, <3>2
  <2>7. /\ \A m \in requests' \cup replies' : Known(m)'
        /\ handler'.at = "reply" => Known(handler.msg)'
    BY <2>2, <2>4, MessagesKnown
  <2>8. QED
    BY <2>1, <2>3, <2>6, <2>7 DEF IInv
<1>4. CASE LoadLoop(c) \/ Arm(c) \/ Encode(c) \/ GetClient(c) \/ Check(c) \/ Return(c)
  <2>1. timers' \subseteq Nat
    <3>1. Arm(c) \/ timers' = timers
      BY <1>4 DEF LoadLoop, Encode, GetClient, Check, Return
    <3>2. ASSUME Arm(c) PROVE timers' = timers \/ timers' = timers \cup {reqId[c]}
      BY <3>2, Zenon DEF Arm
    <3>3. timers \subseteq Nat /\ reqId[c] \in Nat
      BY DEF IInv, CallTypes
    <3>4. QED
      BY <3>1, <3>2, <3>3, Zenon
  <2>2. PICK l \in Later : Goto(c, l)
    BY <1>4 DEF LoadLoop, Arm, Encode, GetClient, Check, Return
  <2>a. CallTypes'
    BY <1>0, <1>4, <2>1, <2>2, Zenon
    DEF LoadLoop, Arm, Encode, GetClient, Check, Return, IInv, CallTypes
  <2>3. /\ pc[c] # "new"
        /\ UNCHANGED <<nextReqId, reqId, requests, replies, handler, resultVars>>
    BY <1>4, Zenon DEF LoadLoop, Arm, Encode, GetClient, Check, Return
  <2>4. QED
    BY <2>2, <2>a, <2>3, MoveKeepsIInv
<1>5. CASE Send(c) \/ Fail(c)
  <2>1. recorded' \in [Calls -> SUBSET {"success", "failure"}]
    BY <1>5, RecordKeepsType, Zenon DEF Send, Fail, IInv, CallTypes
  <2>2. PICK l \in Later : Goto(c, l)
    BY <1>5 DEF Send, Fail, Sent
  <2>r. requests' \subseteq Entry
    <3>1. requests' \subseteq requests \cup {[id |-> reqId[c], call |-> c]}
      BY <1>5 DEF Send, Fail
    <3>2. QED
      BY <3>1, OwnEntry DEF IInv, CallTypes
  <2>a. CallTypes'
    BY <1>0, <1>5, <2>1, <2>2, <2>r, Zenon DEF Send, Fail, IInv, CallTypes
  <2>3. /\ pc[c] # "new"
        /\ UNCHANGED <<nextReqId, reqId, replies, handler, resultVars>>
        /\ \A m \in requests' : m \in requests \/ m = [id |-> reqId[c], call |-> c]
    BY <1>5 DEF Send, Fail
  <2>4. QED
    BY <2>2, <2>a, <2>3, MoveKeepsIInv
<1>6. CASE FailLocked(c)
  <2>1. reqId[c] \in Nat /\ "timeout" \in Calls \cup Errors
    BY DEF IInv, CallTypes, Errors
  <2>2. Resolve(reqId[c], "timeout")
    BY <1>6 DEF FailLocked
  <2>3. /\ pending' \subseteq pending
        /\ completions' \in [Calls -> Nat]
        /\ outcome' \in [Calls -> Calls \cup Errors \cup {NoOutcome}]
        /\ \A p \in pending' : completions'[p.call] = 0
        /\ \A d \in Calls : pc[d] \in {"new", "insert"} => completions'[d] = 0
    BY <2>1, <2>2, ResolveKeepsTable
  <2>4. CallTypes'
    BY <1>6, <2>3, Zenon DEF FailLocked, Goto, Sent, IInv, CallTypes
  <2>5. \A d \in Calls : /\ pc'[d] = "new" <=> pc[d] = "new"
                         /\ pc'[d] = "insert" <=> pc[d] = "insert"
    BY <1>6 DEF FailLocked, Goto, Sent, IInv, CallTypes
  <2>6. UNCHANGED <<nextReqId, reqId, requests, replies, handler>>
    BY <1>6 DEF FailLocked
  <2>7. QED
    BY <2>3, <2>4, <2>5, <2>6, MessagesKnown, ErasingKeepsIInv
<1>7. QED
  BY <1>1, <1>2, <1>3, <1>4, <1>5, <1>6 DEF Caller

LEMMA LoopIInv ==
  ASSUME IInv, LoopStep \/ Lose \/ Reconnect \/ \E m \in requests : Answer(m)
  PROVE  IInv'
<1> USE DEF resultVars, netVars, callVars
<1>1. CASE TimeoutLocked
  <2>1. handler.id \in Nat /\ "timeout" \in Calls \cup Errors
    BY <1>1 DEF TimeoutLocked, IInv, CallTypes, Handler, Errors
  <2>2. Resolve(handler.id, "timeout")
    BY <1>1 DEF TimeoutLocked
  <2>3. /\ pending' \subseteq pending
        /\ completions' \in [Calls -> Nat]
        /\ outcome' \in [Calls -> Calls \cup Errors \cup {NoOutcome}]
        /\ \A p \in pending' : completions'[p.call] = 0
        /\ \A d \in Calls : pc[d] \in {"new", "insert"} => completions'[d] = 0
    BY <2>1, <2>2, ResolveKeepsTable
  <2>4. CallTypes' /\ handler' = Idle
    BY <1>1, <2>3 DEF TimeoutLocked, IInv, CallTypes, Idle, Handler
  <2>5. QED
    BY <1>1, <2>3, <2>4, MessagesKnown, ErasingKeepsIInv DEF TimeoutLocked, Idle
<1>2. CASE ResponseLocked
  <2>1. handler.msg \in Reply
    BY <1>2 DEF ResponseLocked, IInv, CallTypes, Handler
  <2>2. handler.msg.id \in Nat /\ handler.msg.call \in Calls \cup Errors
    BY <2>1 DEF Reply
  <2>3. /\ pending' \subseteq pending
        /\ completions' \in [Calls -> Nat]
        /\ outcome' \in [Calls -> Calls \cup Errors \cup {NoOutcome}]
        /\ \A p \in pending' : completions'[p.call] = 0
        /\ \A d \in Calls : pc[d] \in {"new", "insert"} => completions'[d] = 0
    BY <1>2, <2>2, ResolveKeepsTable DEF ResponseLocked
  <2>4. CallTypes' /\ handler' = Idle
    BY <1>2, <2>3 DEF ResponseLocked, IInv, CallTypes, Idle, Handler
  <2>5. QED
    BY <1>2, <2>3, <2>4, MessagesKnown, ErasingKeepsIInv DEF ResponseLocked, Idle
<1>3. ASSUME NEW id \in timers, FireTimer(id) PROVE IInv'
  <2>1. recorded' \in [Calls -> SUBSET {"success", "failure"}]
    BY <1>3, RecordKeepsType, Zenon DEF FireTimer, IInv, CallTypes
  <2>2. handler' = Idle \/ handler' = [at |-> "timeout", id |-> id]
    BY <1>3, Zenon DEF FireTimer
  <2>3. id \in Nat
    BY <1>3 DEF IInv, CallTypes
  <2>4. handler' \in Handler /\ handler'.at # "reply"
    <3>1. Idle \in Handler /\ Idle.at # "reply"
      BY DEF Idle, Handler
    <3>2. /\ [at |-> "timeout", id |-> id] \in Handler
          /\ [at |-> "timeout", id |-> id].at # "reply"
      BY <2>3 DEF Handler
    <3>3. QED
      BY <2>2, <3>1, <3>2
  <2>5. /\ UNCHANGED <<nextReqId, reqId, pc, pending, completions, outcome, requests, replies>>
        /\ timers' \subseteq timers
    BY <1>3 DEF FireTimer
  <2>6. CallTypes'
    BY <2>1, <2>4, <2>5 DEF IInv, CallTypes
  <2>7. QED
    BY <2>4, <2>5, <2>6, MessagesKnown, ErasingKeepsIInv DEF IInv
<1>4. ASSUME NEW m \in replies, OnMessage(m) PROVE IInv'
  <2>1. recorded' \in [Calls -> SUBSET {"success", "failure"}]
    BY <1>4, RecordKeepsType, Zenon DEF OnMessage, IInv, CallTypes
  <2>2. handler' = Idle \/ handler' = [at |-> "reply", msg |-> m]
    BY <1>4, Zenon DEF OnMessage
  <2>3. m \in Reply /\ m.call \in Calls /\ Known(m)
    BY <1>4, MessagesKnown DEF IInv, CallTypes
  <2>4. handler' \in Handler
    <3>1. Idle \in Handler
      BY DEF Idle, Handler
    <3>2. [at |-> "reply", msg |-> m] \in Handler
      BY <2>3 DEF Handler
    <3>3. QED
      BY <2>2, <3>1, <3>2
  <2>5. handler'.at = "reply" => handler'.msg = m
    BY <2>2 DEF Idle
  <2>6. /\ UNCHANGED <<nextReqId, reqId, pc, timers, pending, completions, outcome, requests>>
        /\ replies' \subseteq replies
    BY <1>4 DEF OnMessage
  <2>7. CallTypes'
    BY <2>1, <2>4, <2>6 DEF IInv, CallTypes
  <2>8. QED
    BY <2>3, <2>5, <2>6, <2>7, MessagesKnown, ErasingKeepsIInv DEF IInv
<1>5. CASE Lose \/ Reconnect
  <2>1. /\ UNCHANGED <<nextReqId, reqId, pc, timers, handler, pending, completions, outcome,
                       recorded>>
        /\ requests' \subseteq requests /\ replies' \subseteq replies
    BY <1>5 DEF Lose, Reconnect
  <2>2. CallTypes'
    BY <2>1 DEF IInv, CallTypes
  <2>3. QED
    BY <2>1, <2>2, MessagesKnown, ErasingKeepsIInv DEF IInv
<1>6. ASSUME NEW m \in requests, Answer(m) PROVE IInv'
  <2>1. /\ UNCHANGED <<nextReqId, reqId, pc, timers, handler, pending, completions, outcome,
                       recorded>>
        /\ requests' \subseteq requests
    BY <1>6 DEF Answer
  <2>2. PICK ok \in BOOLEAN :
          replies' = replies \cup {[id |-> m.id, call |-> m.call, ok |-> ok]}
    BY <1>6 DEF Answer
  <2>3. m \in Entry /\ m.id \in Nat /\ m.call \in Calls /\ Known(m)
    BY <1>6, MessagesKnown DEF IInv, CallTypes, Entry
  <2>4. replies' \subseteq Reply
    <3>1. [id |-> m.id, call |-> m.call, ok |-> ok] \in Reply
      BY <2>3 DEF Reply
    <3>2. QED
      BY <2>2, <3>1 DEF IInv, CallTypes
  <2>5. CallTypes'
    BY <2>1, <2>4 DEF IInv, CallTypes
  <2>6. \A r \in replies' : r.call \in Calls /\ Known(r)
    BY <2>2, <2>3, MessagesKnown DEF Known
  <2>7. QED
    BY <2>1, <2>5, <2>6, MessagesKnown, ErasingKeepsIInv DEF IInv
<1>7. QED
  BY <1>1, <1>2, <1>3, <1>4, <1>5, <1>6 DEF LoopStep

LEMMA OwnerIInv ==
  ASSUME IInv, Disconnect \/ Destroy \/ Owner
  PROVE  IInv'
<1> USE DEF resultVars, netVars, callVars, unlifed
<1>1. CASE Disconnect \/ Destroy \/ ClearCallbacks \/ DisconnectPermanently \/ ResetClient
             \/ NullLoop
  <2>1. UNCHANGED unlifed
    BY <1>1, Zenon DEF Disconnect, Destroy, ClearCallbacks, DisconnectPermanently, ResetClient,
                NullLoop
  <2>2. QED
    BY <2>1 DEF IInv, CallTypes, Known
<1>2. CASE JoinLoop
  BY <1>2, Zenon DEF JoinLoop, IInv, CallTypes, Known
<1>3. CASE Drain
  <2> DEFINE left == {p.call : p \in pending}
  <2>1. /\ UNCHANGED <<nextReqId, reqId, pc, timers, handler, requests, replies, recorded>>
        /\ pending' = {}
    BY <1>3 DEF Drain
  <2>2. /\ completions' = [c \in Calls |-> IF c \in left THEN completions[c] + 1
                                                      ELSE completions[c]]
        /\ outcome' = [c \in Calls |-> IF c \in left THEN "destroyed" ELSE outcome[c]]
    BY <1>3 DEF Drain
  <2>3. \A c \in left : pc[c] \notin {"new", "insert"}
    BY DEF IInv, Known
  <2> HIDE DEF left
  <2>4. completions \in [Calls -> Nat] /\ outcome \in [Calls -> Calls \cup Errors \cup {NoOutcome}]
    BY DEF IInv, CallTypes
  <2>5. completions' \in [Calls -> Nat]
    BY <2>2, <2>4
  <2>6. outcome' \in [Calls -> Calls \cup Errors \cup {NoOutcome}]
    BY <2>2, <2>4 DEF Errors
  <2>7. CallTypes'
    BY <2>1, <2>5, <2>6 DEF IInv, CallTypes
  <2>8. \A c \in Calls : pc[c] \in {"new", "insert"} => completions'[c] = 0
    BY <2>2, <2>3 DEF IInv
  <2>9. QED
    BY <2>1, <2>7, <2>8, MessagesKnown, ErasingKeepsIInv, Zenon
<1>4. QED
  BY <1>1, <1>2, <1>3 DEF Owner

LEMMA NextIInv == IInv /\ [Next]_vars => IInv'
<1> SUFFICES ASSUME IInv, [Next]_vars PROVE IInv'
  BY Zenon
<1>1. CASE UNCHANGED vars
  BY <1>1 DEF IInv, CallTypes, Known, vars, resultVars, netVars, callVars
<1>2. QED
  BY <1>1, CallerIInv, LoopIInv, OwnerIInv DEF Next, Finished

LEMMA SpecIInv == Spec => []IInv
  BY InitIInv, NextIInv, PTL DEF Spec

-----------------------------------------------------------------------------
(* Every step of the client is a step of RpcCalls, or none. *)

\* Starting a call issues it; no other caller's step but Reject and
\* FailLocked touches what the caller sees.
LEMMA CallerRefines ==
  ASSUME NEW c \in Calls, IInv, Start(c) \/ Caller(c)
  PROVE  [Promise!Next]_Promise!vars
<1> USE DEF resultVars, Goto
<1>1. CASE Start(c)
  <2>1. {d \in Calls : pc'[d] # "new"} = {d \in Calls : pc[d] # "new"} \cup {c}
    BY <1>1 DEF Start, IInv, CallTypes
  <2>2. Promise!Issue(c)
    BY <1>1, <2>1 DEF Start, Promise!Issue
  <2>3. QED
    BY <2>2 DEF Promise!Next
<1> DEFINE Issued == {d \in Calls : pc[d] # "new"}
<1>2. CASE Caller(c)
  <2>1. Issued' = Issued
    <3>1. pc[c] # "new" /\ \E l : l # "new" /\ Goto(c, l)
      BY <1>2, Zenon DEF Caller, Reject, Insert, LoadLoop, Arm, Encode, GetClient, Check, Send,
                  Fail, FailLocked, Return, Sent
    <3>2. QED
      BY <3>1 DEF IInv, CallTypes
  <2>2. CASE Reject(c)
    <3>1. completions[c] = 0 /\ pc[c] # "new"
      BY <2>2 DEF Reject, IInv, CallTypes
    <3>2. completions' = [completions EXCEPT ![c] = 1]
      BY <2>2, <3>1 DEF Reject
    <3>a. Promise!Complete(c)
      BY <2>1, <2>2, <3>1, <3>2 DEF Reject, Promise!Complete, Errors
    <3>3. QED
      BY <3>a, Zenon DEF Promise!Next
  <2>3. CASE FailLocked(c)
    <3>1. reqId[c] \in Nat /\ "timeout" \in Errors
      BY DEF IInv, CallTypes, Errors
    <3>2. Resolve(reqId[c], "timeout")
      BY <2>3 DEF FailLocked
    <3>3. QED
      BY <2>1, <3>1, <3>2, ResolveKeepsPromise
  <2>4. CASE UNCHANGED <<completions, outcome>>
    BY <2>1, <2>4 DEF Promise!vars
  <2>5. QED
    BY <1>2, <2>2, <2>3, <2>4, Zenon
    DEF Caller, Insert, LoadLoop, Arm, Encode, GetClient, Check, Send, Fail, Return
<1>3. QED
  BY <1>1, <1>2

LEMMA LoopRefines ==
  ASSUME IInv, LoopStep
  PROVE  [Promise!Next]_Promise!vars
<1> USE DEF resultVars, callVars
<1>1. CASE TimeoutLocked
  <2>1. handler.id \in Nat /\ "timeout" \in Errors /\ Resolve(handler.id, "timeout")
    BY <1>1 DEF TimeoutLocked, IInv, CallTypes, Handler, Errors
  <2>2. QED
    BY <1>1, <2>1, ResolveKeepsPromise DEF TimeoutLocked
<1>2. CASE ResponseLocked
  <2>1. handler.msg \in Reply /\ Known(handler.msg)
    BY <1>2, Zenon DEF ResponseLocked, IInv, CallTypes, Handler
  <2>2. handler.msg.id \in Nat /\ Resolve(handler.msg.id, handler.msg.call)
    BY <1>2, <2>1 DEF ResponseLocked, Reply
  <2>3. /\ handler.msg.call \in Calls /\ pc[handler.msg.call] # "new"
        /\ reqId[handler.msg.call] = handler.msg.id
    BY <2>1 DEF Known, Reply
  <2>4. \A c \in Calls : pc[c] # "new" /\ reqId[c] = handler.msg.id => c = handler.msg.call
    BY <2>3 DEF IInv
  <2>5. UNCHANGED {c \in Calls : pc[c] # "new"}
    BY <1>2 DEF ResponseLocked
  <2>6. QED
    BY <2>2, <2>4, <2>5, ResolveKeepsPromise
<1>3. CASE UNCHANGED <<pc, completions, outcome>>
  BY <1>3, Zenon DEF Promise!vars
<1>4. QED
  BY <1>1, <1>2, <1>3 DEF LoopStep, FireTimer, OnMessage

LEMMA OwnerRefines ==
  ASSUME IInv, Disconnect \/ Destroy \/ Owner
  PROVE  [Promise!Next]_Promise!vars
<1> USE DEF resultVars, callVars, unlifed
<1>1. CASE Drain
  <2> DEFINE left == {p.call : p \in pending}
  <2>a. \A p \in pending : p.call \in Calls
    BY DEF IInv, CallTypes, Entry
  <2>b. \A p \in pending : pc[p.call] # "new" /\ completions[p.call] = 0
    BY Zenon DEF IInv, Known
  <2>1. \A c \in left : c \in Calls /\ pc[c] # "new" /\ completions[c] = 0
    BY <2>a, <2>b
  <2>2. completions' = [c \in Calls |-> IF c \in left THEN 1 ELSE completions[c]]
    <3>1. completions' = [c \in Calls |-> IF c \in left THEN completions[c] + 1
                                                     ELSE completions[c]]
      BY <1>1 DEF Drain
    <3> HIDE DEF left
    <3>2. \A c \in left : completions[c] + 1 = 1
      BY <2>1
    <3>3. QED
      BY <3>1, <3>2
  <2>3. outcome' = [c \in Calls |-> IF c \in left THEN "destroyed" ELSE outcome[c]]
    BY <1>1 DEF Drain
  <2>4. "destroyed" \in Errors /\ UNCHANGED pc
    BY <1>1 DEF Drain, Errors
  <2> HIDE DEF left
  <2>5. Promise!CompleteAll(left)
    BY <2>1, <2>2, <2>3, <2>4 DEF Promise!CompleteAll
  <2>6. QED
    BY <2>1, <2>5, Zenon DEF Promise!Next
<1>2. CASE UNCHANGED <<pc, completions, outcome>>
  BY <1>2 DEF Promise!vars
<1>3. QED
  BY <1>1, <1>2 DEF Disconnect, Destroy, Owner, ClearCallbacks, DisconnectPermanently,
                    ResetClient, JoinLoop, NullLoop

\* However replies, timers, failing sends, lost connections, disconnect() and
\* the destructor interleave, each call is completed at most once, with an
\* error or with the reply to that very call.
THEOREM ClientKeepsPromise == Spec => ImplementsRpcCalls
<1>1. Init => Promise!Init
  BY DEF Init, Promise!Init
<1>2. IInv /\ [Next]_vars => [Promise!Next]_Promise!vars
  <2> SUFFICES ASSUME IInv, [Next]_vars PROVE [Promise!Next]_Promise!vars
    OBVIOUS
  <2>1. CASE UNCHANGED vars
    BY <2>1 DEF vars, callVars, resultVars, Promise!vars
  <2>2. CASE Lose \/ Reconnect \/ \E m \in requests : Answer(m)
    BY <2>2 DEF Lose, Reconnect, Answer, callVars, resultVars, Promise!vars
  <2>3. QED
    BY <2>1, <2>2, CallerRefines, LoopRefines, OwnerRefines DEF Next, Finished
<1>3. QED
  BY <1>1, <1>2, SpecIInv, PTL DEF Spec, ImplementsRpcCalls, Promise!Spec

-----------------------------------------------------------------------------
(* No call is forgotten. *)

\* The loop and its pointer go only when the client is disconnected, and the destructor
\* runs while no caller is on its way.
LifeInv ==
  /\ opc # "none" \/ ~loop \/ ~loopPtr \/ destroyed => disconnecting
  /\ opc \in {"drain", "freed"} => destroyed
  /\ opc \in {"null", "drain", "freed"} => ~loop
  /\ destroyed => \A c \in Calls : pc[c] \in {"new", "wait", "done"}

LEMMA InitLife == Init => LifeInv /\ NobodyIsForgotten
  BY ClientConstants DEF Init, LifeInv, NobodyIsForgotten

LEMMA LifeStep ==
  ASSUME IInv, LifeInv, [Next]_vars
  PROVE  LifeInv'
<1>1. ASSUME NEW c \in Calls, Start(c) \/ Caller(c) PROVE LifeInv'
  <2>1. PICK l : Goto(c, l)
    BY <1>1, Zenon DEF Start, Caller, Reject, Insert, LoadLoop, Arm, Encode, GetClient, Check, Send,
                       Fail, FailLocked, Return
  <2>2. UNCHANGED lifeVars /\ (destroyed => pc[c] = "wait" /\ l = "done")
    <3>1. UNCHANGED lifeVars
      BY <1>1, Zenon DEF Start, Caller, Reject, Insert, LoadLoop, Arm, Encode, GetClient, Check, Send,
                         Fail, FailLocked, Return
    <3>2. CASE destroyed
      <4>1. pc[c] \in {"new", "wait", "done"}
        BY <3>2, Zenon DEF LifeInv
      <4>2. Return(c)
        BY <1>1, <3>2, <4>1 DEF Start, Caller, Reject, Insert, LoadLoop, Arm, Encode, GetClient,
                                Check, Send, Fail, FailLocked
      <4>3. pc' = [pc EXCEPT ![c] = "done"] /\ pc' = [pc EXCEPT ![c] = l] /\ pc[c] = "wait"
        BY <2>1, <4>2, Zenon DEF Return, Goto
      <4>4. l = "done"
        BY <4>3 DEF IInv, CallTypes
      <4> QED BY <3>1, <4>3, <4>4, Zenon
    <3> QED BY <3>1, <3>2, Zenon
  <2> QED BY <2>1, <2>2 DEF LifeInv, lifeVars, Goto, IInv, CallTypes
<1>2. CASE LoopStep \/ Lose \/ Reconnect \/ (\E m \in requests : Answer(m)) \/ UNCHANGED vars
  <2>1. UNCHANGED <<lifeVars, pc>>
    BY <1>2, Zenon DEF LoopStep, Lose, Reconnect, Answer, TimeoutLocked, ResponseLocked, FireTimer,
                       OnMessage, callVars, vars
  <2> QED BY <2>1 DEF LifeInv, lifeVars
<1>3. CASE Disconnect \/ Destroy \/ Owner
  <2>1. pc' = pc
    BY <1>3, Zenon DEF Disconnect, Destroy, Owner, ClearCallbacks, DisconnectPermanently, ResetClient,
                       JoinLoop, NullLoop, Drain, unlifed, callVars
  <2>2. CASE Disconnect
    BY <2>1, <2>2, Zenon DEF LifeInv, Disconnect
  <2>3. CASE Destroy
    BY <2>1, <2>3, Zenon DEF LifeInv, Destroy
  <2>4. CASE ClearCallbacks \/ DisconnectPermanently \/ ResetClient
    <3>1. /\ opc \in {"clear", "close", "reset"} /\ opc' \in {"close", "reset", "join"}
          /\ UNCHANGED <<loop, loopPtr, destroyed, disconnecting>>
      BY <2>4, Zenon DEF ClearCallbacks, DisconnectPermanently, ResetClient
    <3> QED BY <2>1, <3>1, Zenon DEF LifeInv
  <2>5. CASE JoinLoop
    BY <2>1, <2>5, Zenon DEF LifeInv, JoinLoop
  <2>6. CASE NullLoop
    BY <2>1, <2>6, Zenon DEF LifeInv, NullLoop
  <2>7. CASE Drain
    BY <2>1, <2>7, Zenon DEF LifeInv, Drain
  <2> QED BY <1>3, <2>2, <2>3, <2>4, <2>5, <2>6, <2>7, Zenon DEF Owner
<1> QED BY <1>1, <1>2, <1>3, Zenon DEF Next, Finished

\* Whoever erases the entry of a call completes it.
LEMMA ResolveKeepsCared ==
  ASSUME NEW id, NEW o, IInv, NobodyIsForgotten, Resolve(id, o), reqId' = reqId, timers' = timers,
         UNCHANGED <<disconnecting, opc>>,
         handler' = handler \/ handler.at = "reply" \/ handler = [at |-> "timeout", id |-> id],
         \A c \in Calls : /\ pc'[c] \notin {"new", "insert"} => pc[c] \notin {"new", "insert"}
                          /\ pc[c] \in {"loadLoop", "arm"} => pc'[c] = pc[c]
  PROVE  NobodyIsForgotten'
<1> SUFFICES ASSUME NEW c \in Timed, pc'[c] \notin {"new", "insert"}, completions'[c] = 0
             PROVE  CaredFor(c)'
  BY Zenon DEF NobodyIsForgotten
<1> DEFINE hit == {p.call : p \in {q \in pending : q.id = id}}
           e == [id |-> reqId[c], call |-> c]
<1>1. c \in Calls /\ completions[c] \in Nat
  BY ClientConstants DEF IInv, CallTypes
<1>2. completions'[c] = IF c \in hit THEN completions[c] + 1 ELSE completions[c]
  BY <1>1, Zenon DEF Resolve
<1> HIDE DEF hit
<1>3. c \notin hit /\ completions[c] = 0
  BY <1>1, <1>2
<1>4. CaredFor(c)
  BY <1>1, <1>3, Zenon DEF NobodyIsForgotten
<1>5. e \in pending /\ e.id = reqId[c] /\ e.call = c
  BY <1>4 DEF CaredFor
<1>6. reqId[c] # id
  BY <1>3, <1>5, Zenon DEF hit
<1>7. e \in pending'
  BY <1>5, <1>6, Zenon DEF Resolve
<1>8. handler = [at |-> "timeout", id |-> reqId[c]] => handler' = handler
  <2>1. [at |-> "timeout", id |-> reqId[c]].at # "reply"
    OBVIOUS
  <2>2. [at |-> "timeout", id |-> reqId[c]] # [at |-> "timeout", id |-> id]
    BY <1>6
  <2> QED BY <2>1, <2>2, Zenon
<1> QED BY <1>1, <1>4, <1>7, <1>8, Zenon DEF CaredFor

\* A caller's step that only moves it on, past its timer or not to it.
LEMMA MoveKeepsCared ==
  ASSUME IInv, NobodyIsForgotten, NEW c \in Calls, NEW l, Goto(c, l),
         UNCHANGED <<reqId, pending, handler, completions, disconnecting, opc>>,
         timers \subseteq timers', pc[c] \notin {"new", "insert"},
         c \in Timed /\ pc[c] \in {"loadLoop", "arm"} =>
           \/ l \in {"loadLoop", "arm"} \/ reqId[c] \in timers'
           \/ disconnecting /\ opc # "freed"
  PROVE  NobodyIsForgotten'
<1> SUFFICES ASSUME NEW d \in Timed, pc'[d] \notin {"new", "insert"}, completions'[d] = 0
             PROVE  CaredFor(d)'
  BY Zenon DEF NobodyIsForgotten
<1>1. d \in Calls /\ (d # c => pc'[d] = pc[d]) /\ pc'[c] = l
  BY ClientConstants, Zenon DEF IInv, CallTypes, Goto
<1>2. pc[d] \notin {"new", "insert"} /\ completions[d] = 0
  BY <1>1, Zenon
<1>3. CaredFor(d)
  BY <1>2, Zenon DEF NobodyIsForgotten
<1>4. CASE d # c
  BY <1>1, <1>3, <1>4, Zenon DEF CaredFor
<1>5. CASE d = c
  BY <1>1, <1>3, <1>5, Zenon DEF CaredFor
<1> QED BY <1>4, <1>5, Zenon

LEMMA CallerCared ==
  ASSUME IInv, LifeInv, NobodyIsForgotten, NEW c \in Calls, Start(c) \/ Caller(c)
  PROVE  NobodyIsForgotten'
<1>0. UNCHANGED <<loop, loopPtr, disconnecting, opc>>
  BY Zenon DEF Start, Caller, Reject, Insert, LoadLoop, Arm, Encode, GetClient, Check, Send, Fail,
               FailLocked, Return, lifeVars
<1>1. ASSUME Start(c) \/ Reject(c) \/ Insert(c) PROVE NobodyIsForgotten'
  <2> SUFFICES ASSUME NEW d \in Timed, pc'[d] \notin {"new", "insert"}, completions'[d] = 0
               PROVE  CaredFor(d)'
    BY Zenon DEF NobodyIsForgotten
  <2>1. UNCHANGED <<timers, handler>> /\ d \in Calls
    BY <1>1, ClientConstants, Zenon DEF Start, Reject, Insert
  <2>2. CASE d # c
    <3>1. pc'[d] = pc[d] /\ reqId'[d] = reqId[d] /\ completions'[d] = completions[d]
      BY <1>1, <2>1, <2>2, Zenon DEF Start, Reject, Insert, Goto, IInv, CallTypes, resultVars
    <3>2. CaredFor(d)
      BY <3>1, Zenon DEF NobodyIsForgotten
    <3>3. [id |-> reqId[d], call |-> d] \in pending'
      <4>1. CASE Start(c) \/ Reject(c)
        BY <3>2, <4>1, Zenon DEF CaredFor, Start, Reject, resultVars
      <4>2. CASE Insert(c)
        <5>1. reqId[d] # reqId[c]
          BY <2>1, <2>2, <3>1, <4>2 DEF Insert, IInv
        <5>2. [id |-> reqId[d], call |-> d].id # reqId[c]
          BY <5>1
        <5> QED BY <3>2, <4>2, <5>2, Zenon DEF CaredFor, Insert
      <4> QED BY <1>1, <4>1, <4>2, Zenon
    <3> QED BY <1>0, <2>1, <3>1, <3>2, <3>3, Zenon DEF CaredFor
  <2>3. CASE d = c
    <3>1. pc'[c] \notin {"new", "insert"} /\ completions'[c] = 0 /\ completions[c] \in Nat
      BY <2>3 DEF IInv, CallTypes
    <3>2. CASE Start(c)
      BY <3>1, <3>2, Zenon DEF Start, Goto, IInv, CallTypes
    <3>3. CASE Reject(c)
      <4>1. completions'[c] = completions[c] + 1
        BY <3>3, Zenon DEF Reject, IInv, CallTypes
      <4> QED BY <3>1, <4>1
    <3>4. CASE Insert(c)
      <4>1. pc'[c] = "loadLoop" /\ [id |-> reqId[c], call |-> c] \in pending' /\ reqId' = reqId
        BY <3>4, Zenon DEF Insert, Goto, IInv, CallTypes
      <4> QED BY <2>3, <4>1, Zenon DEF CaredFor
    <3> QED BY <1>1, <3>2, <3>3, <3>4, Zenon
  <2> QED BY <2>2, <2>3, Zenon
<1>2. ASSUME LoadLoop(c) \/ Arm(c) PROVE NobodyIsForgotten'
  <2>1. PICK l : Goto(c, l) /\ (l = "arm" \/ l = "encode")
    BY <1>2, Zenon DEF LoadLoop, Arm
  <2>2. /\ UNCHANGED <<reqId, pending, handler, completions>> /\ timers \subseteq timers'
        /\ pc[c] \in {"loadLoop", "arm"} /\ (pc[c] = "arm" /\ loop => reqId[c] \in timers')
    BY <1>2 DEF LoadLoop, Arm, resultVars
  <2>3. disconnecting \/ (loop /\ loopPtr)
    BY Zenon DEF LifeInv
  <2>4. opc # "freed"
    BY <2>2 DEF LifeInv
  <2>5. CASE LoadLoop(c)
    <3>1. c \in Timed /\ loopPtr => l = "arm"
      <4>1. Goto(c, IF c \in Timed /\ loopPtr THEN "arm" ELSE "encode")
        BY <2>5, Zenon DEF LoadLoop
      <4> QED BY <2>1, <4>1 DEF Goto, IInv, CallTypes
    <3> QED BY <1>0, <2>1, <2>2, <2>3, <2>4, <3>1, MoveKeepsCared, Zenon
  <2>6. CASE Arm(c)
    <3>1. pc[c] = "arm"
      BY <2>6, Zenon DEF Arm
    <3> QED BY <1>0, <2>1, <2>2, <2>3, <2>4, <3>1, MoveKeepsCared, Zenon
  <2> QED BY <1>2, <2>5, <2>6, Zenon
<1>3. ASSUME Encode(c) \/ GetClient(c) \/ Check(c) \/ Send(c) \/ Fail(c) \/ Return(c)
      PROVE  NobodyIsForgotten'
  <2>1. PICK l : Goto(c, l)
    BY <1>3, Zenon DEF Encode, GetClient, Check, Send, Fail, Return
  <2>2. /\ UNCHANGED <<reqId, pending, handler, completions, timers>>
        /\ pc[c] \notin {"new", "insert", "loadLoop", "arm"}
    BY <1>3, Zenon DEF Encode, GetClient, Check, Send, Fail, Return, resultVars
  <2>3. timers \subseteq timers'
    BY <2>2
  <2> QED BY <1>0, <2>1, <2>2, <2>3, MoveKeepsCared, Zenon
<1>4. ASSUME FailLocked(c) PROVE NobodyIsForgotten'
  <2>1. /\ Resolve(reqId[c], "timeout") /\ UNCHANGED <<reqId, timers, handler>>
        /\ pc[c] = "failLocked" /\ Goto(c, Sent(c))
    BY <1>4, Zenon DEF FailLocked
  <2>2. \A d \in Calls : /\ pc'[d] \notin {"new", "insert"} => pc[d] \notin {"new", "insert"}
                         /\ pc[d] \in {"loadLoop", "arm"} => pc'[d] = pc[d]
    BY <2>1 DEF Goto, IInv, CallTypes
  <2> QED BY <1>0, <2>1, <2>2, ResolveKeepsCared, Zenon
<1> QED BY <1>1, <1>2, <1>3, <1>4, Zenon DEF Caller

LEMMA LoopCared ==
  ASSUME IInv, LifeInv, NobodyIsForgotten, LoopStep
  PROVE  NobodyIsForgotten'
<1>0. UNCHANGED <<reqId, pc, disconnecting, opc>>
  BY Zenon DEF LoopStep, TimeoutLocked, ResponseLocked, FireTimer, OnMessage, callVars, lifeVars
<1>1. CASE TimeoutLocked
  <2>1. Resolve(handler.id, "timeout") /\ timers' = timers
    BY <1>1, Zenon DEF TimeoutLocked
  <2>2. handler = [at |-> "timeout", id |-> handler.id]
    BY <1>1 DEF TimeoutLocked, IInv, CallTypes, Handler
  <2> QED BY <1>0, <2>1, <2>2, ResolveKeepsCared, Zenon
<1>2. CASE ResponseLocked
  <2>1. Resolve(handler.msg.id, handler.msg.call) /\ timers' = timers /\ handler.at = "reply"
    BY <1>2, Zenon DEF ResponseLocked
  <2> QED BY <1>0, <2>1, ResolveKeepsCared, Zenon
<1>3. ASSUME NEW id \in timers, FireTimer(id) PROVE NobodyIsForgotten'
  <2>1. /\ timers' = timers \ {id} /\ UNCHANGED <<pending, completions>> /\ loop /\ handler = Idle
        /\ destroyed \/ handler' = [at |-> "timeout", id |-> id]
    BY <1>3, Zenon DEF FireTimer, resultVars
  <2>2. destroyed => disconnecting /\ opc # "freed"
    BY <2>1 DEF LifeInv
  <2>3. \A i : Idle # [at |-> "timeout", id |-> i]
    BY DEF Idle
  <2>4. ASSUME NEW c \in Timed, CaredFor(c) PROVE CaredFor(c)'
    BY <1>0, <2>1, <2>2, <2>3, <2>4, Zenon DEF CaredFor
  <2> QED BY <1>0, <2>1, <2>4, Zenon DEF NobodyIsForgotten
<1>4. ASSUME NEW m \in replies, OnMessage(m) PROVE NobodyIsForgotten'
  <2>1. UNCHANGED <<pending, completions, timers>> /\ handler = Idle
    BY <1>4, Zenon DEF OnMessage, resultVars
  <2>2. \A i : Idle # [at |-> "timeout", id |-> i]
    BY DEF Idle
  <2>3. ASSUME NEW c \in Timed, CaredFor(c) PROVE CaredFor(c)'
    BY <1>0, <2>1, <2>2, <2>3, Zenon DEF CaredFor
  <2> QED BY <1>0, <2>1, <2>3, Zenon DEF NobodyIsForgotten
<1> QED BY <1>1, <1>2, <1>3, <1>4, Zenon DEF LoopStep

LEMMA OwnerCared ==
  ASSUME IInv, LifeInv, NobodyIsForgotten, Disconnect \/ Destroy \/ Owner
  PROVE  NobodyIsForgotten'
<1>0. UNCHANGED <<reqId, pc, handler>>
  BY Zenon DEF Disconnect, Destroy, Owner, ClearCallbacks, DisconnectPermanently, ResetClient,
               JoinLoop, NullLoop, Drain, unlifed, callVars
<1>1. CASE Drain
  <2> DEFINE left == {p.call : p \in pending}
  <2> SUFFICES ASSUME NEW c \in Timed, pc'[c] \notin {"new", "insert"}, completions'[c] = 0
               PROVE  FALSE
    BY Zenon DEF NobodyIsForgotten
  <2>1. c \in Calls /\ completions[c] \in Nat
    BY ClientConstants DEF IInv, CallTypes
  <2>2. completions'[c] = IF c \in left THEN completions[c] + 1 ELSE completions[c]
    BY <1>1, <2>1, Zenon DEF Drain
  <2>3. c \notin left /\ completions[c] = 0
    BY <2>1, <2>2
  <2>4. [id |-> reqId[c], call |-> c] \in pending
    BY <1>0, <2>3, Zenon DEF NobodyIsForgotten, CaredFor
  <2>5. [id |-> reqId[c], call |-> c].call = c
    OBVIOUS
  <2> QED BY <2>3, <2>4, <2>5, Zenon
<1>2. CASE ~Drain
  <2>1. UNCHANGED <<pending, completions>>
    BY <1>2, Zenon DEF Disconnect, Destroy, Owner, ClearCallbacks, DisconnectPermanently, ResetClient,
                       JoinLoop, NullLoop, unlifed, resultVars
  <2>2. /\ timers' = timers \/ (disconnecting' /\ opc' # "freed")
        /\ disconnecting /\ opc # "freed" => disconnecting' /\ opc' # "freed"
    BY <1>2 DEF LifeInv, Disconnect, Destroy, Owner, ClearCallbacks, DisconnectPermanently,
                ResetClient, JoinLoop, NullLoop, unlifed
  <2>3. ASSUME NEW c \in Timed, CaredFor(c) PROVE CaredFor(c)'
    BY <1>0, <2>1, <2>2, <2>3, Zenon DEF CaredFor
  <2> QED BY <1>0, <2>1, <2>3, Zenon DEF NobodyIsForgotten
<1> QED BY <1>1, <1>2

\* However replies, timers, lost connections, disconnect() and the destructor interleave, a
\* call with a timeout and without a result stays in the pending table, with a timer or an
\* owner that will look for it there, until it is completed.
THEOREM CallsAreCaredFor == Spec => []NobodyIsForgotten
<1> DEFINE I == IInv /\ LifeInv /\ NobodyIsForgotten
<1>1. Init => I
  BY InitIInv, InitLife
<1>2. I /\ [Next]_vars => I'
  <2> SUFFICES ASSUME I, [Next]_vars PROVE I'
    OBVIOUS
  <2>1. IInv' /\ LifeInv'
    BY NextIInv, LifeStep, Zenon
  <2>2. NobodyIsForgotten'
    <3>1. CASE Lose \/ Reconnect \/ (\E m \in requests : Answer(m)) \/ UNCHANGED vars
      <4>1. UNCHANGED <<reqId, pc, pending, completions, timers, handler, disconnecting, opc>>
        BY <3>1, Zenon DEF Lose, Reconnect, Answer, callVars, resultVars, lifeVars, vars
      <4> QED BY <4>1 DEF NobodyIsForgotten, CaredFor
    <3> QED BY <3>1, CallerCared, LoopCared, OwnerCared, Zenon DEF Next, Finished
  <2> QED BY <2>1, <2>2, Zenon
<1>3. I => NobodyIsForgotten
  OBVIOUS
<1> QED BY <1>1, <1>2, <1>3, PTL DEF Spec
=============================================================================
