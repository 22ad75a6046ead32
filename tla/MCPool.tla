------------------------------- MODULE MCPool -------------------------------
(***************************************************************************)
(* The pool and its borrowers side by side: threads that acquire and give  *)
(* back the pool's connections (ConnectionPool), and the RpcAsyncClients   *)
(* that use one of them in turn (PooledClients).  A behaviour exercises    *)
(* one of the two.                                                         *)
(***************************************************************************)
EXTENDS ConnectionPool

CONSTANTS Borrowers, NoClient, MaxCalls, Heartbeats

ASSUME BorrowerConstants == NoClient \notin Borrowers /\ MaxCalls \in Nat

VARIABLES
  subject,  \* what is exercised
  claim, clientCb, connCb, linked, connecting, life, nextReqId, pending, timers,
  beat, handler, requests, replies, completions, outcome, freedUse

calling == <<claim, clientCb, connCb, linked, connecting, life, nextReqId, pending, timers,
             beat, handler, requests, replies, completions, outcome, freedUse>>

Pooled == INSTANCE PooledClients WITH Clients <- Borrowers, owner <- claim, up <- linked

mcVars == <<subject, vars, calling>>

MCInit == subject \in {"pool", "clients"} /\ Init /\ Pooled!Init

Talks == subject = "clients" /\ UNCHANGED <<subject, vars>>

MCNext ==
  \/ subject = "pool" /\ Next /\ UNCHANGED <<subject, calling>>
  \/ Talks /\ Pooled!Next

\* The fairness of PooledClients; what is said of the pool needs none.
MCSpec ==
  /\ MCInit /\ [][MCNext]_mcVars
  /\ \A k \in Borrowers : WF_mcVars(Talks /\ Pooled!ClientStep(k))
  /\ \A c \in Pooled!Calls : SF_mcVars(Talks /\ Pooled!FireTimer(c))
  /\ WF_mcVars(/\ Talks
               /\ \/ Pooled!TimeoutLocked \/ Pooled!ResponseLocked
                  \/ Pooled!Beat \/ Pooled!PublishConnection)

-----------------------------------------------------------------------------
\* The callbacks of a pooled TcpClient belong to the RpcAsyncClient that
\* holds its claim, through every construction, destruction and reconnection.
ClaimGuardsCallbacks == Pooled!ClaimGuardsCallbacks

\* A call on a pooled connection is completed once, or its timer, handleTimeout() or the
\* destructor is bound to find it in the pending table and complete it.
OnceOrOwed == Pooled!OnceOrOwed

\* Every call made on a pooled connection is completed in the end, by its
\* timer or by the destructor if nothing else does it.
PooledCallsComplete == Pooled!EveryCallCompletes
=============================================================================
