---------------------------- MODULE InlineProofs ----------------------------
(***************************************************************************)
(* Proofs about InlineSyncClient and InlinePipelineClient, for any number  *)
(* of calls, any timeouts and any sequence of losses and replies: both     *)
(* implement RpcCalls, and the pipeline never waits past a deadline.       *)
(***************************************************************************)
EXTENDS MCInlineClients, TLAPS

(* InlineSyncClient: the call that waits has not returned, and what it is going to
   return is an error or its own reply. *)
Waiting == /\ pendingId \in 1..(nextId - 1) /\ completions[pendingId] = 0
           /\ done => result \in Errors \cup {pendingId}

SyncInv ==
  /\ nextId \in 1..(MaxCalls + 1)
  /\ completions \in [Calls -> Nat] /\ outcome \in [Calls -> Nat]
  /\ \A c \in Calls : c >= nextId => completions[c] = 0
  /\ pc = "calling" => Waiting

(* InlinePipelineClient: what is in the table or among the expired was not called back. *)
PumpInv ==
  /\ pnextId \in 1..(MaxCalls + 1)
  /\ pcompletions \in [Calls -> Nat] /\ poutcome \in [Calls -> Nat]
  /\ pending \subseteq 1..(pnextId - 1) /\ expired \subseteq 1..(pnextId - 1)
  /\ pending \cap expired = {}
  /\ \A c \in Calls : c >= pnextId => pcompletions[c] = 0
  /\ \A c \in pending \cup expired : pcompletions[c] = 0
-----------------------------------------------------------------------------
(* A step of call() that gives out an id, or returns. *)
LEMMA SyncIssues ==
  ASSUME SyncInv, nextId \in Calls, nextId' = nextId + 1, UNCHANGED <<completions, outcome>>,
         pc' = "calling" => pendingId' = nextId /\ ~done'
  PROVE  SyncInv' /\ Promise!Next
<1>1. nextId \in Nat /\ nextId >= 1 /\ nextId <= MaxCalls
  BY CallBounds DEF Calls
<1>2. Promise!Issue(nextId)
  <2>1. nextId \notin 1..(nextId - 1) /\ 1..((nextId + 1) - 1) = 1..(nextId - 1) \cup {nextId}
    BY <1>1
  <2> QED BY <2>1 DEF Promise!Issue
<1>3. completions[nextId] = 0
  BY <1>1 DEF SyncInv
<1>4. pc' = "calling" => Waiting'
  <2> SUFFICES ASSUME pc' = "calling" PROVE Waiting'
    OBVIOUS
  <2>1. pendingId' = nextId /\ ~done' /\ completions' = completions
    OBVIOUS
  <2>2. nextId \in 1..(nextId' - 1)
    BY <1>1
  <2> QED BY <1>3, <2>1, <2>2 DEF Waiting
<1>5. /\ nextId' \in 1..(MaxCalls + 1) /\ completions' \in [Calls -> Nat] /\ outcome' \in [Calls -> Nat]
      /\ \A c \in Calls : c >= nextId' => completions'[c] = 0
  BY <1>1, CallBounds DEF SyncInv, Calls
<1> QED BY <1>2, <1>4, <1>5 DEF SyncInv, Promise!Next

LEMMA SyncReturns ==
  ASSUME SyncInv, pc = "calling", pc' = "idle", NEW o \in Errors \cup {pendingId}, Return(pendingId, o),
         UNCHANGED nextId
  PROVE  SyncInv' /\ Promise!Next
<1>1. /\ pendingId \in Calls /\ pendingId \in 1..(nextId - 1) /\ completions[pendingId] = 0
      /\ pendingId < nextId /\ nextId \in Nat
  BY CallBounds DEF SyncInv, Waiting, Calls
<1>2. /\ completions' = [completions EXCEPT ![pendingId] = 1]
      /\ outcome' = [outcome EXCEPT ![pendingId] = o]
  BY <1>1 DEF Return
<1>3. Promise!Complete(pendingId)
  BY <1>1, <1>2, Zenon DEF Promise!Complete
<1>4. o \in Nat
  BY <1>1, CallBounds DEF Errors, TimedOut, Closed, Calls
<1>5. /\ completions' \in [Calls -> Nat] /\ outcome' \in [Calls -> Nat]
      /\ \A c \in Calls : c >= nextId => completions'[c] = 0
  BY <1>1, <1>2, <1>4 DEF SyncInv, Calls
<1> QED BY <1>1, <1>3, <1>5 DEF SyncInv, Promise!Next

LEMMA SyncRest ==
  ASSUME SyncInv, UNCHANGED <<nextId, completions, outcome>>,
         pc' = "calling" => pc = "calling" /\ pendingId' = pendingId /\
                            (done' => result' \in Errors \cup {pendingId})
  PROVE  SyncInv' /\ UNCHANGED Promise!vars
<1>1. pc' = "calling" => Waiting'
  BY DEF SyncInv, Waiting
<1> QED BY <1>1 DEF SyncInv, Promise!vars

LEMMA SyncStep ==
  ASSUME SyncInv, [Next]_vars
  PROVE  SyncInv' /\ [Promise!Next]_Promise!vars
<1> USE DEF callVars, connectVars, netVars, resultVars
<1>1. CASE UNCHANGED vars
  BY <1>1, SyncRest DEF vars, SyncInv, Waiting
<1>2. CASE CallSend
  <2>1. nextId \in Calls
    BY <1>2, CallBounds DEF CallSend, SyncInv, Calls
  <2> QED BY <1>2, <2>1, SyncIssues DEF CallSend
<1>3. CASE CallEncodeFails
  <2>1. nextId \in Calls
    BY <1>3, CallBounds DEF CallEncodeFails, SyncInv, Calls
  <2> QED BY <1>3, <2>1, SyncIssues DEF CallEncodeFails
<1>4. CASE CallTimesOut
  BY <1>4, SyncReturns DEF CallTimesOut, Errors
<1>5. CASE CallReturns
  <2>1. result \in Errors \cup {pendingId}
    BY <1>5 DEF CallReturns, SyncInv, Waiting
  <2> QED BY <1>5, <2>1, SyncReturns DEF CallReturns
<1>6. CASE Connect \/ ConnectReturns \/ Established \/ Answer \/ Break \/ Tick
  BY <1>6, SyncRest DEF Connect, ConnectReturns, Established, Answer, Break, Tick, SyncInv, Waiting
<1>7. CASE Lost
  BY <1>7, SyncRest DEF Lost, OnDown, Errors, SyncInv, Waiting
<1>8. CASE OnMessage
  BY <1>8, SyncRest DEF OnMessage, SyncInv, Waiting
<1> QED BY <1>1, <1>2, <1>3, <1>4, <1>5, <1>6, <1>7, <1>8 DEF Next, Wait
-----------------------------------------------------------------------------
LEMMA PumpRest ==
  ASSUME PumpInv, UNCHANGED <<pnextId, pcompletions, poutcome>>,
         pending' \cup expired' \subseteq pending \cup expired, pending' \cap expired' = {}
  PROVE  PumpInv' /\ UNCHANGED Pipeline!Promise!vars
<1>1. UNCHANGED Pipeline!Promise!vars
  BY DEF Pipeline!Promise!vars
<1>2. PumpInv'
  BY Zenon DEF PumpInv
<1> QED BY <1>1, <1>2

LEMMA PumpIssues ==
  ASSUME PumpInv, pnextId <= MaxCalls, pnextId' = pnextId + 1, UNCHANGED <<pcompletions, poutcome, expired>>,
         pending' \subseteq pending \cup {pnextId}
  PROVE  PumpInv' /\ Pipeline!Promise!Next
<1>1. pnextId \in Nat /\ pnextId >= 1 /\ pnextId \in Calls
  BY CallBounds DEF PumpInv, Calls
<1>2. Pipeline!Promise!Issue(pnextId)
  <2>1. pnextId \notin 1..(pnextId - 1) /\ 1..((pnextId + 1) - 1) = 1..(pnextId - 1) \cup {pnextId}
    BY <1>1
  <2> QED BY <2>1 DEF Pipeline!Promise!Issue
<1>3. Pipeline!Promise!Next
  BY <1>1, <1>2 DEF Pipeline!Promise!Next, Pipeline!Calls, Calls
<1>4. /\ pnextId' \in 1..(MaxCalls + 1) /\ \A c \in Calls : c >= pnextId' => pcompletions'[c] = 0
      /\ 1..(pnextId - 1) \subseteq 1..(pnextId' - 1) /\ pnextId \in 1..(pnextId' - 1)
      /\ pnextId \notin expired /\ pcompletions[pnextId] = 0
  BY <1>1, CallBounds DEF PumpInv, Calls
<1> QED BY <1>3, <1>4 DEF PumpInv

LEMMA PumpCompletes ==
  ASSUME PumpInv, NEW c, NEW o \in {Pipeline!TimedOut, c}, c \in pending \cup expired, Pipeline!CallBack(c, o),
         UNCHANGED pnextId, pending' \cup expired' \subseteq (pending \cup expired) \ {c},
         pending' \cap expired' = {}
  PROVE  PumpInv' /\ Pipeline!Promise!Next
<1>1. /\ c \in Calls /\ c \in 1..(pnextId - 1) /\ pcompletions[c] = 0
      /\ c < pnextId /\ pnextId \in Nat /\ c \in Nat
  BY CallBounds DEF PumpInv, Calls
<1>2. /\ pcompletions' = [pcompletions EXCEPT ![c] = 1]
      /\ poutcome' = [poutcome EXCEPT ![c] = o]
  BY <1>1 DEF Pipeline!CallBack
<1>3. Pipeline!Promise!Complete(c)
  BY <1>1, <1>2, Zenon DEF Pipeline!Promise!Complete
<1>4. o \in Nat
  BY <1>1, CallBounds DEF Pipeline!TimedOut
<1>5. /\ pcompletions' \in [Calls -> Nat] /\ poutcome' \in [Calls -> Nat]
      /\ \A d \in Calls : d # c => pcompletions'[d] = pcompletions[d]
  BY <1>1, <1>2, <1>4 DEF PumpInv
<1>6. \A d \in Calls : d >= pnextId => pcompletions'[d] = 0
  BY <1>1, <1>5 DEF PumpInv, Calls
<1>7. \A d \in pending' \cup expired' : pcompletions'[d] = 0
  <2> SUFFICES ASSUME NEW d \in pending' \cup expired' PROVE pcompletions'[d] = 0
    OBVIOUS
  <2>1. d \in pending \cup expired /\ d # c
    OBVIOUS
  <2>2. d \in Calls /\ pcompletions[d] = 0
    BY <2>1, CallBounds DEF PumpInv, Calls
  <2> QED BY <1>5, <2>1, <2>2
<1>8. Pipeline!Promise!Next
  BY <1>1, <1>3 DEF Pipeline!Promise!Next, Pipeline!Calls, Calls
<1> QED BY <1>5, <1>6, <1>7, <1>8, Zenon DEF PumpInv

LEMMA PumpStep ==
  ASSUME PumpInv, [Pipeline!Next]_(Pipeline!vars)
  PROVE  PumpInv' /\ [Pipeline!Promise!Next]_(Pipeline!Promise!vars)
<1> USE DEF Pipeline!pendingVars, Pipeline!netVars, Pipeline!resultVars
<1>0. pending \cap expired = {}
  BY DEF PumpInv
<1>1. CASE UNCHANGED Pipeline!vars
  BY <1>0, <1>1, PumpRest DEF Pipeline!vars
<1>2. ASSUME NEW t \in Timeouts, Pipeline!Submit(t)
      PROVE  PumpInv' /\ Pipeline!Promise!Next
  BY <1>2, PumpIssues DEF Pipeline!Submit
<1>3. CASE Pipeline!SubmitEncodeFails
  BY <1>3, PumpIssues DEF Pipeline!SubmitEncodeFails
<1>4. CASE Pipeline!PumpOnce \/ Pipeline!Wake \/ Pipeline!PumpReturns \/ Pipeline!Lost \/ Pipeline!Reconnected
           \/ Pipeline!Answer \/ Pipeline!Tick
  BY <1>0, <1>4, PumpRest DEF Pipeline!PumpOnce, Pipeline!Wake, Pipeline!PumpReturns, Pipeline!Lost,
     Pipeline!Reconnected, Pipeline!Answer, Pipeline!Tick
<1>5. CASE Pipeline!SweepTimeouts
  <2>1. /\ expired' \subseteq pending /\ pending' = pending \ expired'
        /\ UNCHANGED <<pnextId, pcompletions, poutcome>>
    BY <1>5 DEF Pipeline!SweepTimeouts
  <2> QED BY <2>1, PumpRest
<1>6. ASSUME NEW c \in Pipeline!Calls, Pipeline!SweepCallback(c)
      PROVE  PumpInv' /\ Pipeline!Promise!Next
  BY <1>0, <1>6, PumpCompletes DEF Pipeline!SweepCallback
<1>7. CASE Pipeline!OnMessage
  <2> DEFINE c == Head(preplies)
  <2>1. CASE c \in pending /\ pending' = pending \ {c} /\ Pipeline!CallBack(c, c)
    <3>1. UNCHANGED <<pnextId, expired>>
      BY <1>7 DEF Pipeline!OnMessage
    <3> HIDE DEF c
    <3> QED BY <1>0, <2>1, <3>1, PumpCompletes
  <2>2. CASE UNCHANGED <<pending, pcompletions, poutcome>>
    BY <1>0, <1>7, <2>2, PumpRest DEF Pipeline!OnMessage
  <2> QED BY <1>7, <2>1, <2>2 DEF Pipeline!OnMessage
<1> QED BY <1>1, <1>2, <1>3, <1>4, <1>5, <1>6, <1>7 DEF Pipeline!Next, Pipeline!Pump
-----------------------------------------------------------------------------
LEMMA McStep ==
  ASSUME [MCNext]_mcVars
  PROVE  [Next]_vars /\ [Pipeline!Next]_(Pipeline!vars)
  BY DEF MCNext, mcVars, Syncs, Pumps, pumping, vars, Pipeline!vars, Pipeline!pendingVars, Pipeline!netVars,
         Pipeline!resultVars

(* However replies are delayed, reordered or lost and whatever times out, a call of
   either client is completed at most once, with an error or its own reply. *)
THEOREM InlineClientsImplementCalls == MCSpec => InlineClientsKeepPromise
<1>1. MCInit => SyncInv /\ PumpInv /\ Promise!Init /\ Pipeline!Promise!Init
  BY CallBounds DEF MCInit, Init, Pipeline!Init, SyncInv, PumpInv, Promise!Init, Pipeline!Promise!Init,
     Calls, Pipeline!Calls, NoOutcome, Pipeline!NoOutcome
<1>2. SyncInv /\ [MCNext]_mcVars => SyncInv' /\ [Promise!Next]_(Promise!vars)
  BY McStep, SyncStep
<1>3. PumpInv /\ [MCNext]_mcVars => PumpInv' /\ [Pipeline!Promise!Next]_(Pipeline!Promise!vars)
  BY McStep, PumpStep
<1>4. MCInit /\ [][MCNext]_mcVars => ImplementsRpcCalls
  BY <1>1, <1>2, PTL DEF ImplementsRpcCalls, Promise!Spec
<1>5. MCInit /\ [][MCNext]_mcVars => Pipeline!ImplementsRpcCalls
  BY <1>1, <1>3, PTL DEF Pipeline!ImplementsRpcCalls, Pipeline!Promise!Spec
<1> QED BY <1>4, <1>5, PTL DEF MCSpec, InlineClientsKeepPromise
-----------------------------------------------------------------------------
(* No deadline has passed while the caller is outside the wait, and none is before
   the end of the wait; nobody submits while it lasts. *)
ClockInv ==
  /\ pnow \in Nat /\ wakeAt \in Nat /\ pdeadline \in [Calls -> Nat] /\ pnextId \in 1..(MaxCalls + 1)
  /\ pending \subseteq Calls /\ \A c \in pending : pnow <= pdeadline[c]
  /\ ppc \in {"user", "wait"} => ~inCallback
  /\ ppc = "wait" => \A c \in pending : wakeAt <= pdeadline[c]

LEMMA ClockRest ==
  ASSUME ClockInv, UNCHANGED <<pnow, wakeAt, pdeadline, pnextId>>, pending' \subseteq pending,
         ppc' \in {"user", "wait"} => ~inCallback', ppc' = "wait" => ppc = "wait"
  PROVE  ClockInv'
  BY DEF ClockInv

LEMMA ClockStep ==
  ASSUME ClockInv, [Pipeline!Next]_(Pipeline!vars)
  PROVE  ClockInv'
<1> USE DEF Pipeline!pendingVars, Pipeline!netVars, Pipeline!resultVars
<1>0. ppc \in {"user", "wait"} => ~inCallback
  BY DEF ClockInv
<1>1. CASE UNCHANGED Pipeline!vars
  BY <1>0, <1>1, ClockRest DEF Pipeline!vars
<1>2. ASSUME NEW t \in Timeouts, Pipeline!Submit(t) PROVE ClockInv'
  <2>1. /\ pnextId \in Calls /\ Pipeline!Effective(t) \in Nat /\ ppc # "wait"
        /\ pnow \in Nat /\ pnow + Pipeline!Effective(t) \in Nat
    BY <1>0, <1>2, CallBounds, PipelineConstants DEF Pipeline!Submit, Pipeline!Effective, ClockInv, Calls
  <2>2. /\ pdeadline' = [pdeadline EXCEPT ![pnextId] = pnow + Pipeline!Effective(t)]
        /\ pending' = pending \cup {pnextId} /\ pnextId' = pnextId + 1
        /\ UNCHANGED <<ppc, wakeAt, inCallback, pnow>>
    BY <1>2 DEF Pipeline!Submit
  <2>3. pdeadline' \in [Calls -> Nat] /\ \A c \in pending' : c \in Calls /\ pnow <= pdeadline'[c]
    BY <2>1, <2>2 DEF ClockInv
  <2>4. pnextId' \in 1..(MaxCalls + 1)
    BY <2>1, <2>2, CallBounds DEF Calls
  <2> QED BY <2>1, <2>2, <2>3, <2>4 DEF ClockInv
<1>3. CASE Pipeline!SubmitEncodeFails
  <2>1. pnextId' \in 1..(MaxCalls + 1)
    BY <1>3, CallBounds DEF Pipeline!SubmitEncodeFails, ClockInv
  <2> QED BY <1>3, <2>1 DEF Pipeline!SubmitEncodeFails, ClockInv
<1>4. CASE Pipeline!PumpOnce
  <2>1. /\ ppc = "user" /\ ppc' = "wait" /\ UNCHANGED <<pnow, pdeadline, pnextId, pending, inCallback>>
        /\ Pipeline!NextWait
    BY <1>4 DEF Pipeline!PumpOnce
  <2>2. wakeAt' \in Nat /\ \A c \in pending : wakeAt' <= pdeadline[c]
    BY <2>1, PipelineConstants DEF Pipeline!NextWait, ClockInv
  <2> QED BY <1>0, <2>1, <2>2 DEF ClockInv
<1>5. CASE Pipeline!Tick
  <2>1. /\ ppc = "wait" /\ pnow < wakeAt /\ pnow' = pnow + 1
        /\ UNCHANGED <<ppc, wakeAt, pdeadline, pnextId, pending, inCallback>>
    BY <1>5 DEF Pipeline!Tick
  <2>2. \A c \in pending : pnow' <= pdeadline[c]
    BY <2>1 DEF ClockInv
  <2> QED BY <2>1, <2>2 DEF ClockInv
<1>6. CASE Pipeline!Wake \/ Pipeline!PumpReturns \/ Pipeline!Lost \/ Pipeline!Reconnected
           \/ Pipeline!Answer \/ Pipeline!SweepTimeouts
  BY <1>0, <1>6, ClockRest DEF Pipeline!Wake, Pipeline!PumpReturns, Pipeline!Lost, Pipeline!Reconnected,
     Pipeline!Answer, Pipeline!SweepTimeouts
<1>7. ASSUME NEW c \in Pipeline!Calls, Pipeline!SweepCallback(c) PROVE ClockInv'
  BY <1>0, <1>7, ClockRest DEF Pipeline!SweepCallback
<1>8. CASE Pipeline!OnMessage
  BY <1>0, <1>8, ClockRest DEF Pipeline!OnMessage
<1> QED BY <1>1, <1>2, <1>3, <1>4, <1>5, <1>6, <1>7, <1>8 DEF Pipeline!Next, Pipeline!Pump

(* Without a timer per request, pumpOnce() never waits past a deadline, also not
   past one that a callback has just added. *)
THEOREM PumpIsPunctual == MCSpec => []Pipeline!NeverOversleeps
<1>1. MCInit => ClockInv
  BY CallBounds DEF MCInit, Pipeline!Init, ClockInv, Pipeline!Calls, Calls
<1>2. ClockInv /\ [MCNext]_mcVars => ClockInv'
  BY McStep, ClockStep
<1>3. ClockInv => Pipeline!NeverOversleeps
  BY DEF ClockInv, Pipeline!NeverOversleeps
<1> QED BY <1>1, <1>2, <1>3, PTL DEF MCSpec
=============================================================================
