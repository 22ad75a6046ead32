--------------------------- MODULE ConnectionPool ---------------------------
(***************************************************************************)
(* rpc::ConnectionPool (src/pool/connection_pool.{h,cc}) and the threads   *)
(* that acquire a TcpClient, build an RpcAsyncClient on it (its claim and  *)
(* its callbacks: src/client/rpc_async_client.cc, tcp_client.{h,cc}),      *)
(* destroy it and give the TcpClient back.                                 *)
(*                                                                         *)
(* One endpoint.  mutex_ covers acquire() and release(); claims, callbacks *)
(* and connections change without it.                                      *)
(***************************************************************************)
EXTENDS Naturals, FiniteSets

CONSTANTS
  Users,       \* threads that borrow from the pool
  NoUser,      \* nobody
  N,           \* poolSize
  MaxBorrows,  \* bound: acquire() calls per user
  MaxLosses    \* bound: connections that break

ASSUME PoolConstants ==
  /\ NoUser \notin Users /\ N \in Nat \ {0}
  /\ MaxBorrows \in Nat /\ MaxLosses \in Nat

Clients == 0 .. N - 1
None == N          \* a null TcpClientPtr

VARIABLES
  phase,      \* of the pool: creating, failing, failed, ready, gone
  loop,       \* of each TcpClient: none, running, dead
  up,         \* it has an established connection
  owner,      \* owner_
  callbacks,  \* whose callbacks are installed
  nextIndex,  \* nextIndex
  mutex,      \* who holds mutex_
  upc,        \* where each user is
  ref,        \* the TcpClientPtr each user holds
  tries, fallback,   \* attempt and fallback of a running acquire()
  borrows, losses,
  \* history
  released,   \* somebody has called release()
  freeAll,    \* clients that were free all the time an acquire() has run
  deadUse     \* a TcpClient was destroyed after its loop

poolVars == <<phase, loop, mutex, nextIndex>>
clientVars == <<up, owner, callbacks, losses>>
userVars == <<upc, ref, tries, fallback, borrows, released>>
vars == <<poolVars, clientVars, userVars, freeAll, deadUse>>

UPC == {"idle", "probe", "give", "got", "claimed", "live", "clear", "unclaim", "drop",
        "back", "test", "wipe"}

TypeOK ==
  /\ phase \in {"creating", "failing", "failed", "ready", "gone"}
  /\ loop \in [Clients -> {"none", "running", "dead"}]
  /\ up \in [Clients -> BOOLEAN]
  /\ owner \in [Clients -> Users \cup {NoUser}]
  /\ callbacks \in [Clients -> Users \cup {NoUser}]
  /\ nextIndex \in Nat
  /\ mutex \in Users \cup {NoUser}
  /\ upc \in [Users -> UPC]
  /\ ref \in [Users -> Clients \cup {None}]
  /\ tries \in [Users -> 0 .. N]
  /\ fallback \in [Users -> Clients \cup {None}]
  /\ borrows \in [Users -> 0 .. MaxBorrows] /\ losses \in 0 .. MaxLosses
  /\ freeAll \in [Users -> SUBSET Clients]
  /\ released \in BOOLEAN /\ deadUse \in BOOLEAN

Init ==
  /\ phase = "creating"
  /\ loop = [k \in Clients |-> "none"]
  /\ up = [k \in Clients |-> FALSE]
  /\ owner = [k \in Clients |-> NoUser] /\ callbacks = [k \in Clients |-> NoUser]
  /\ nextIndex = 0 /\ mutex = NoUser
  /\ upc = [u \in Users |-> "idle"] /\ ref = [u \in Users |-> None]
  /\ tries = [u \in Users |-> 0] /\ fallback = [u \in Users |-> None]
  /\ borrows = [u \in Users |-> 0] /\ losses = 0
  /\ released = FALSE /\ freeAll = [u \in Users |-> {}] /\ deadUse = FALSE

-----------------------------------------------------------------------------
(* createPool() and the destructor *)

\* One round of createPool(): start a loop and wait for the connection.
CreateNext(k) ==
  /\ phase = "creating" /\ loop[k] = "none" /\ \A j \in Clients : j < k => loop[j] = "running"
  /\ loop' = [loop EXCEPT ![k] = "running"] /\ up' = [up EXCEPT ![k] = TRUE]
  /\ phase' = IF k = N - 1 THEN "ready" ELSE phase
  /\ UNCHANGED <<mutex, nextIndex, owner, callbacks, losses, userVars, freeAll, deadUse>>

\* The connection fails or 3 s pass: its loop is stopped and joined.
CreateFails(k) ==
  /\ phase = "creating" /\ loop[k] = "none" /\ \A j \in Clients : j < k => loop[j] = "running"
  /\ loop' = [loop EXCEPT ![k] = "dead"] /\ phase' = "failing"
  /\ UNCHANGED <<mutex, nextIndex, clientVars, userVars, freeAll, deadUse>>

\* createPool() returns false: its variables are destroyed, the TcpClient of
\* the stopped loop first, then the EndpointPool, clients before loops.
CreateReturnsFalse ==
  /\ phase = "failing"
  /\ deadUse' = (deadUse \/ \E k \in Clients : loop[k] = "dead")
  /\ loop' = [k \in Clients |-> IF loop[k] = "running" THEN "dead" ELSE loop[k]]
  /\ up' = [k \in Clients |-> FALSE] /\ phase' = "failed"
  /\ UNCHANGED <<mutex, nextIndex, owner, callbacks, losses, userVars, freeAll>>

\* The pool drops its references, then its loops are stopped and joined.
DestroyPool ==
  /\ phase = "ready" /\ \A u \in Users : upc[u] \in {"idle", "live"}
  /\ phase' = "gone"
  /\ loop' = [k \in Clients |-> "dead"] /\ up' = [k \in Clients |-> FALSE]
  /\ UNCHANGED <<mutex, nextIndex, owner, callbacks, losses, userVars, freeAll, deadUse>>

-----------------------------------------------------------------------------
(* acquire() *)

Goto(u, l) == upc' = [upc EXCEPT ![u] = l]
Free == {k \in Clients : owner[k] = NoUser}

Acquire(u) ==
  /\ upc[u] = "idle" /\ phase = "ready" /\ mutex = NoUser /\ borrows[u] < MaxBorrows
  /\ mutex' = u /\ borrows' = [borrows EXCEPT ![u] = @ + 1]
  /\ tries' = [tries EXCEPT ![u] = 0] /\ fallback' = [fallback EXCEPT ![u] = None]
  /\ freeAll' = [freeAll EXCEPT ![u] = Free]
  /\ Goto(u, "probe")
  /\ UNCHANGED <<phase, loop, nextIndex, clientVars, ref, released, deadUse>>

\* Fault: the loop makes one attempt too few.
Probe_OneShort(u) ==
  LET k == nextIndex % N IN
  /\ upc[u] = "probe" /\ tries[u] < N - 1
  /\ nextIndex' = nextIndex + 1 /\ tries' = [tries EXCEPT ![u] = @ + 1]
  /\ IF owner[k] = NoUser /\ up[k]
       THEN ref' = [ref EXCEPT ![u] = k] /\ Goto(u, "give") /\ UNCHANGED fallback
       ELSE /\ fallback' = [fallback EXCEPT ![u] =
                              IF owner[k] = NoUser /\ @ = None THEN k ELSE @]
            /\ Goto(u, IF tries[u] = N - 2 THEN "give" ELSE "probe") /\ UNCHANGED ref
  /\ UNCHANGED <<phase, loop, mutex, clientVars, borrows, released, freeAll, deadUse>>

\* One attempt: skip a claimed client, take a healthy one, remember the
\* first of the others.
Probe(u) ==
  LET k == nextIndex % N IN
  /\ upc[u] = "probe" /\ tries[u] < N
  /\ nextIndex' = nextIndex + 1 /\ tries' = [tries EXCEPT ![u] = @ + 1]
  /\ IF owner[k] = NoUser /\ up[k]
       THEN ref' = [ref EXCEPT ![u] = k] /\ Goto(u, "give") /\ UNCHANGED fallback
       ELSE /\ fallback' = [fallback EXCEPT ![u] =
                              IF owner[k] = NoUser /\ @ = None THEN k ELSE @]
            /\ Goto(u, IF tries[u] = N - 1 THEN "give" ELSE "probe") /\ UNCHANGED ref
  /\ UNCHANGED <<phase, loop, mutex, clientVars, borrows, released, freeAll, deadUse>>

\* acquire() returns: the healthy client, or the fallback, whose reconnect
\* it asks for, or nullptr.
Give(u) ==
  /\ upc[u] = "give"
  /\ mutex' = NoUser
  /\ ref' = [ref EXCEPT ![u] = IF @ # None THEN @ ELSE fallback[u]]
  /\ Goto(u, IF ref'[u] = None THEN "idle" ELSE "got")
  /\ UNCHANGED <<phase, loop, nextIndex, clientVars, tries, fallback, borrows, released, freeAll, deadUse>>

-----------------------------------------------------------------------------
(* The RpcAsyncClient on the borrowed TcpClient *)

\* Fault: the claim is stored without being compared.
Claim_Always(u) ==
  /\ upc[u] = "got"
  /\ owner' = [owner EXCEPT ![ref[u]] = u] /\ Goto(u, "claimed")
  /\ freeAll' = [v \in Users |-> freeAll[v] \ {ref[u]}]
  /\ UNCHANGED <<poolVars, up, callbacks, losses, ref, tries, fallback, borrows, released, deadUse>>

\* tryClaim(); a client whose claim fails drops its reference.
Claim(u) ==
  /\ upc[u] = "got"
  /\ IF owner[ref[u]] = NoUser
       THEN owner' = [owner EXCEPT ![ref[u]] = u] /\ Goto(u, "claimed")
       ELSE Goto(u, "drop") /\ UNCHANGED owner
  /\ freeAll' = [v \in Users |-> freeAll[v] \ {ref[u]}]
  /\ UNCHANGED <<poolVars, up, callbacks, losses, ref, tries, fallback, borrows, released, deadUse>>

SetupCallbacks(u) ==
  /\ upc[u] = "claimed"
  /\ callbacks' = [callbacks EXCEPT ![ref[u]] = u] /\ Goto(u, "live")
  /\ UNCHANGED <<poolVars, up, owner, losses, ref, tries, fallback, borrows, released, freeAll, deadUse>>

\* The destructor: clear the callbacks, release the claim; then the user may
\* call release().
DestroyClient(u) ==
  /\ upc[u] = "live" /\ Goto(u, "clear")
  /\ UNCHANGED <<poolVars, clientVars, ref, tries, fallback, borrows, released, freeAll, deadUse>>

ClearCallbacks(u) ==
  /\ upc[u] = "clear"
  /\ callbacks' = [callbacks EXCEPT ![ref[u]] = NoUser] /\ Goto(u, "unclaim")
  /\ UNCHANGED <<poolVars, up, owner, losses, ref, tries, fallback, borrows, released, freeAll, deadUse>>

ReleaseClaim(u) ==
  /\ upc[u] = "unclaim"
  /\ owner' = [owner EXCEPT ![ref[u]] = IF @ = u THEN NoUser ELSE @]
  /\ Goto(u, "drop") \/ (phase = "ready" /\ Goto(u, "back"))
  /\ UNCHANGED <<poolVars, up, callbacks, losses, ref, tries, fallback, borrows, released, freeAll, deadUse>>

\* The user's reference goes; it was the last one if the pool is gone.
Drop(u) ==
  /\ upc[u] = "drop"
  /\ ref' = [ref EXCEPT ![u] = None] /\ Goto(u, "idle")
  /\ deadUse' = (deadUse \/ loop[ref[u]] = "dead")
  /\ UNCHANGED <<poolVars, clientVars, tries, fallback, borrows, released, freeAll>>

-----------------------------------------------------------------------------
(* release() *)

Release(u) ==
  /\ upc[u] = "back" /\ mutex = NoUser
  /\ mutex' = u /\ Goto(u, "test") /\ released' = TRUE
  /\ UNCHANGED <<phase, loop, nextIndex, clientVars, ref, tries, fallback, borrows,
                 freeAll, deadUse>>

ReleaseTest(u) ==
  /\ upc[u] = "test"
  /\ IF owner[ref[u]] = NoUser THEN Goto(u, "wipe") /\ UNCHANGED mutex
                               ELSE Goto(u, "drop") /\ mutex' = NoUser
  /\ UNCHANGED <<phase, loop, nextIndex, clientVars, ref, tries, fallback, borrows,
                 released, freeAll, deadUse>>

ReleaseWipe(u) ==
  /\ upc[u] = "wipe"
  /\ callbacks' = [callbacks EXCEPT ![ref[u]] = NoUser]
  /\ mutex' = NoUser /\ Goto(u, "drop")
  /\ UNCHANGED <<phase, loop, nextIndex, up, owner, losses, ref, tries, fallback, borrows,
                 released, freeAll, deadUse>>

-----------------------------------------------------------------------------
Lose(k) ==
  /\ up[k] /\ losses < MaxLosses
  /\ up' = [up EXCEPT ![k] = FALSE] /\ losses' = losses + 1
  /\ UNCHANGED <<poolVars, owner, callbacks, userVars, freeAll, deadUse>>

Reconnect(k) ==
  /\ ~up[k] /\ loop[k] = "running"
  /\ up' = [up EXCEPT ![k] = TRUE]
  /\ UNCHANGED <<poolVars, owner, callbacks, losses, userVars, freeAll, deadUse>>

UserStep(u) ==
  \/ Probe(u) \/ Give(u) \/ Claim(u) \/ SetupCallbacks(u)
  \/ ClearCallbacks(u) \/ ReleaseClaim(u) \/ Drop(u)
  \/ Release(u) \/ ReleaseTest(u) \/ ReleaseWipe(u)

Next ==
  \/ \E k \in Clients : CreateNext(k) \/ CreateFails(k) \/ Lose(k) \/ Reconnect(k)
  \/ CreateReturnsFalse \/ DestroyPool
  \/ \E u \in Users : Acquire(u) \/ DestroyClient(u) \/ UserStep(u)

Spec == Init /\ [][Next]_vars

-----------------------------------------------------------------------------
(* Properties *)

\* docs/pool_design_and_healthcheck.md:165: two users never end up on the
\* same connection, and the callbacks of the one whose claim succeeded stay.
CallbacksStay ==
  \A u \in Users : upc[u] = "live" => owner[ref[u]] = u /\ callbacks[ref[u]] = u

\* However acquire(), claims and releases interleave, a connection has one
\* user; its callbacks are the installed ones as long as nobody uses
\* release(), whose test of the claim and removal of the callbacks are apart.
OwnersAreWired ==
  \A u \in Users : upc[u] = "live" =>
    owner[ref[u]] = u /\ (released \/ callbacks[ref[u]] = u)

\* acquire() gives up only when it had to: a connection that nobody claimed
\* while it ran is returned, even though claims change without mutex_.
NullMeansBusy ==
  \A u \in Users :
    upc[u] = "give" /\ ref[u] = None /\ fallback[u] = None => freeAll[u] = {}

\* What acquire() gives can be relied on: a connection that one user gets to claim, or
\* nullptr because there was none.
AcquireIsSound == OwnersAreWired /\ NullMeansBusy

\* connection_pool.cc:17: a TcpClient is destroyed while its EventLoopThread
\* is alive.
LoopsOutliveClients == ~deadUse
=============================================================================
