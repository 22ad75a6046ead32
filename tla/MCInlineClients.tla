-------------------------- MODULE MCInlineClients ---------------------------
(***************************************************************************)
(* The two clients that run their event loop on the caller's own thread,   *)
(* side by side.  They share no state, so a behaviour exercises one.       *)
(***************************************************************************)
EXTENDS InlineSyncClient

CONSTANTS Timeouts, DefaultTimeout, IdleWait

ASSUME PipelineConstants == Timeouts \subseteq Nat /\ DefaultTimeout \in Nat /\ IdleWait \in Nat

VARIABLES
  subject,  \* the client that is exercised
  ppc, wakeAt, pup, pnextId, pending, pdeadline, expired, inCallback, completed, pnow,
  plosses, prequests, preplies, pcompletions, poutcome, returned

pumping == <<ppc, wakeAt, pup, pnextId, pending, pdeadline, expired, inCallback, completed,
             pnow, plosses, prequests, preplies, pcompletions, poutcome, returned>>

Pipeline == INSTANCE InlinePipelineClient
  WITH pc <- ppc, up <- pup, nextId <- pnextId, deadline <- pdeadline, now <- pnow,
       losses <- plosses, requests <- prequests, replies <- preplies,
       completions <- pcompletions, outcome <- poutcome

mcVars == <<subject, vars, pumping>>

MCInit == subject \in {"sync", "pipeline"} /\ Init /\ Pipeline!Init

Syncs == subject = "sync" /\ UNCHANGED <<subject, pumping>>
Pumps == subject = "pipeline" /\ UNCHANGED <<subject, vars>>

MCNext == (Syncs /\ Next) \/ (Pumps /\ Pipeline!Next)

\* The fairness of the two clients.
MCSpec ==
  /\ MCInit /\ [][MCNext]_mcVars
  /\ WF_mcVars(Syncs /\ Wait) /\ WF_mcVars(Syncs /\ Tick) /\ WF_mcVars(Syncs /\ Established)
  /\ WF_mcVars(Syncs /\ Lost) /\ WF_mcVars(Syncs /\ OnMessage)
  /\ WF_mcVars(Pumps /\ Pipeline!Pump) /\ SF_mcVars(Pumps /\ Pipeline!Tick)

-----------------------------------------------------------------------------
\* Both clients keep the promise of RpcCalls: late replies, expired requests
\* and lost connections notwithstanding, a call is completed at most once,
\* with an error or with the reply to that very call.
InlineClientsKeepPromise == ImplementsRpcCalls /\ Pipeline!ImplementsRpcCalls

\* A call() returns and, while the caller pumps, a submitted request is called
\* back, whatever the server and the network do; and in time: InlinePipelineClient has
\* no timer per request, and yet epoll_wait never sleeps past a deadline, also not
\* past one that a callback has just added.
InlineCallsComplete ==
  EveryCallReturns /\ Pipeline!EveryCallCompletes /\ []Pipeline!NeverOversleeps
=============================================================================
