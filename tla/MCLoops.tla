------------------------------ MODULE MCLoops -------------------------------
(***************************************************************************)
(* The event loop and the pool of loop threads side by side.  The pool     *)
(* knows of a loop only quit() and whether loop() was entered, so a        *)
(* behaviour exercises one of the two.                                     *)
(***************************************************************************)
EXTENDS EventLoop

CONSTANTS N, MaxNext

ASSUME PoolSize == N \in Nat \ {0}

VARIABLES
  subject,  \* what is exercised
  threadPc, loop, threadQuit, bpc, at, next, calls, early, freed, freedUse

pool == <<threadPc, loop, threadQuit, bpc, at, next, calls, early, freed, freedUse>>

Pool == INSTANCE EventLoopThreadPool WITH tpc <- threadPc, quit <- threadQuit

mcVars == <<subject, vars, pool>>

MCInit == subject \in {"loop", "pool"} /\ Init /\ Pool!Init

MCNext ==
  \/ subject = "loop" /\ Next /\ UNCHANGED <<subject, pool>>
  \/ subject = "pool" /\ Pool!Next /\ UNCHANGED <<subject, vars>>

\* The fairness of EventLoop and of EventLoopThreadPool.
MCSpec ==
  /\ MCInit /\ [][MCNext]_mcVars
  /\ WF_mcVars(subject = "loop" /\ LoopStep /\ UNCHANGED <<subject, pool>>)
  /\ \A x \in Timers :
       WF_mcVars(subject = "loop" /\ FallDue(x) /\ UNCHANGED <<subject, pool>>)
  /\ WF_mcVars(subject = "pool" /\ Pool!BaseStep /\ UNCHANGED <<subject, vars>>)
  /\ \A t \in 0 .. N - 1 :
       WF_mcVars(subject = "pool" /\ Pool!ThreadStep(t) /\ UNCHANGED <<subject, vars>>)

-----------------------------------------------------------------------------
\* A loop that getNextLoop() hands out exists and has been initialised,
\* although its thread is scheduled independently of the one that waited for it.
HandedOutLoopsAlive == Pool!HandedOutLoopsAlive

\* Functors that were posted are run, while the loop is; and the destructor of a pool
\* whose loops were all entered returns: quit() ends every loop, and the threads are
\* joined.
LoopsFinish == FunctorsRun /\ Pool!SettledStopReturns
=============================================================================
