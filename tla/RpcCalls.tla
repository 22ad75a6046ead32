------------------------------ MODULE RpcCalls ------------------------------
(***************************************************************************)
(* What an RPC client promises its callers: a call, once issued, is        *)
(* completed at most once, with the reply to that very call or with an     *)
(* error.  RpcAsyncClient, InlineSyncClient and InlinePipelineClient are   *)
(* shown to implement this module.                                         *)
(***************************************************************************)
EXTENDS Naturals

CONSTANTS Calls, Errors, NoOutcome

VARIABLES
  issued,       \* the calls that were made
  completions,  \* how often the caller was given a result
  outcome       \* the last result: an error, or the call whose reply it is

vars == <<issued, completions, outcome>>

Init ==
  /\ issued = {}
  /\ completions = [c \in Calls |-> 0]
  /\ outcome = [c \in Calls |-> NoOutcome]

Issue(c) ==
  /\ c \notin issued
  /\ issued' = issued \cup {c}
  /\ UNCHANGED <<completions, outcome>>

Complete(c) ==
  /\ c \in issued /\ completions[c] = 0
  /\ completions' = [completions EXCEPT ![c] = 1]
  /\ \E o \in Errors \cup {c} : outcome' = [outcome EXCEPT ![c] = o]
  /\ UNCHANGED issued

\* Destroying a client completes all the calls it still holds at once.
CompleteAll(S) ==
  /\ S \subseteq {c \in issued : completions[c] = 0}
  /\ completions' = [c \in Calls |-> IF c \in S THEN 1 ELSE completions[c]]
  /\ \E o \in Errors :
       outcome' = [c \in Calls |-> IF c \in S THEN o ELSE outcome[c]]
  /\ UNCHANGED issued

Next ==
  \/ \E c \in Calls : Issue(c) \/ Complete(c)
  \/ \E S \in SUBSET Calls : CompleteAll(S)

Spec == Init /\ [][Next]_vars
=============================================================================
