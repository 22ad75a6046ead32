------------------------- MODULE EventLoopThreadPool -------------------------
(***************************************************************************)
(* rpc::EventLoopThreadPool and the EventLoopThreads it owns               *)
(* (src/network/event_loop_thread_pool.{h,cc}, event_loop_thread.{h,cc}):  *)
(* start N loop threads, hand their loops out in turn, stop and join them. *)
(* Of EventLoop only quit_ and loop() matter here.                         *)
(***************************************************************************)
EXTENDS Naturals

CONSTANTS
  N,         \* numThreads_
  MaxNext    \* bound: calls of getNextLoop()

LoopThreads == 0 .. N - 1

VARIABLES
  tpc,       \* each thread: none, init, publish, enter, loop, tail, ended
  loop,      \* loop_ # nullptr
  quit,      \* quit_ of its EventLoop
  bpc, at,   \* the base thread and the thread it deals with
  next,      \* next_
  calls,     \* getNextLoop() calls so far
  \* history
  early,     \* the pool was destroyed before every loop was entered
  freed,     \* EventLoopThreads destroyed from their own thread
  freedUse   \* a thread used its destroyed EventLoopThread

vars == <<tpc, loop, quit, bpc, at, next, calls, early, freed, freedUse>>

TypeOK ==
  /\ tpc \in [LoopThreads -> {"none", "init", "publish", "enter", "loop", "tail", "ended"}]
  /\ loop \in [LoopThreads -> BOOLEAN] /\ quit \in [LoopThreads -> BOOLEAN]
  /\ bpc \in {"start", "wait", "run", "stop", "join", "null", "done"}
  /\ at \in 0 .. N
  /\ next \in LoopThreads
  /\ calls \in 0 .. MaxNext
  /\ early \in BOOLEAN /\ freed \subseteq LoopThreads /\ freedUse \in BOOLEAN

Init ==
  /\ tpc = [t \in LoopThreads |-> "none"]
  /\ loop = [t \in LoopThreads |-> FALSE] /\ quit = [t \in LoopThreads |-> FALSE]
  /\ bpc = "start" /\ at = 0 /\ next = 0 /\ calls = 0
  /\ early = FALSE /\ freed = {} /\ freedUse = FALSE

Move(t, l) == tpc' = [tpc EXCEPT ![t] = l]

-----------------------------------------------------------------------------
(* threadFunc() *)

\* Fault: loop_ is published before the EventLoop is set up.
ThreadInit_PublishFirst(t) ==
  /\ tpc[t] = "init" /\ Move(t, "publish")
  /\ loop' = [loop EXCEPT ![t] = TRUE]
  /\ UNCHANGED <<quit, bpc, at, next, calls, early, freed, freedUse>>

\* The EventLoop's constructor and the init callback.
ThreadInit(t) ==
  /\ tpc[t] = "init" /\ Move(t, "publish")
  /\ UNCHANGED <<loop, quit, bpc, at, next, calls, early, freed, freedUse>>

ThreadPublish(t) ==
  /\ tpc[t] = "publish"
  /\ loop' = [loop EXCEPT ![t] = TRUE] /\ Move(t, "enter")
  /\ UNCHANGED <<quit, bpc, at, next, calls, early, freed, freedUse>>

\* EventLoop::loop() begins with quit_ = false.
EnterLoop(t) ==
  /\ tpc[t] = "enter"
  /\ quit' = [quit EXCEPT ![t] = FALSE] /\ Move(t, "loop")
  /\ UNCHANGED <<loop, bpc, at, next, calls, early, freed, freedUse>>

LeaveLoop(t) ==
  /\ tpc[t] = "loop" /\ quit[t]
  /\ Move(t, "tail")
  /\ UNCHANGED <<loop, quit, bpc, at, next, calls, early, freed, freedUse>>

\* loop_ = nullptr under mutex_; the EventLoop is destroyed.
ThreadEnds(t) ==
  /\ tpc[t] = "tail"
  /\ loop' = [loop EXCEPT ![t] = FALSE] /\ Move(t, "ended")
  /\ freedUse' = (freedUse \/ t \in freed)
  /\ UNCHANGED <<quit, bpc, at, next, calls, early, freed>>

\* A functor destroys the EventLoopThread it runs on, one that a client owns
\* rather than a pool: quit, detach, free.
DestroyFromLoop(t) ==
  /\ bpc = "run" /\ tpc[t] = "loop" /\ t \notin freed
  /\ quit' = [quit EXCEPT ![t] = TRUE] /\ loop' = [loop EXCEPT ![t] = FALSE]
  /\ freed' = freed \cup {t}
  /\ UNCHANGED <<tpc, bpc, at, next, calls, early, freedUse>>

-----------------------------------------------------------------------------
(* The base thread *)

\* start(), startLoop(): create the thread, then wait for loop_.
StartLoop ==
  /\ bpc = "start"
  /\ Move(at, "init") /\ bpc' = "wait"
  /\ UNCHANGED <<loop, quit, at, next, calls, early, freed, freedUse>>

LoopStarted ==
  /\ bpc = "wait" /\ loop[at]
  /\ IF at = N - 1 THEN bpc' = "run" /\ at' = 0 ELSE bpc' = "start" /\ at' = at + 1
  /\ UNCHANGED <<tpc, loop, quit, next, calls, early, freed, freedUse>>

\* getNextLoop(): the loops in turn.
GetNextLoop ==
  /\ bpc = "run" /\ calls < MaxNext
  /\ calls' = calls + 1
  /\ next' = IF next + 1 >= N THEN 0 ELSE next + 1
  /\ UNCHANGED <<tpc, loop, quit, bpc, at, early, freed, freedUse>>

\* The destructor stops one thread after the other.
DestroyPool ==
  /\ bpc = "run" /\ freed = {}
  /\ bpc' = "stop" /\ early' = \E t \in LoopThreads : tpc[t] # "loop"
  /\ UNCHANGED <<tpc, loop, quit, at, next, calls, freed, freedUse>>

\* Fault: stop() joins without asking the loop to quit.
Stop_NoQuit ==
  /\ bpc = "stop" /\ bpc' = "join"
  /\ UNCHANGED <<tpc, loop, quit, at, next, calls, early, freed, freedUse>>

\* stop(): quit() through loop_, join, forget loop_.
Stop ==
  /\ bpc = "stop"
  /\ quit' = IF loop[at] THEN [quit EXCEPT ![at] = TRUE] ELSE quit
  /\ bpc' = "join"
  /\ UNCHANGED <<tpc, loop, at, next, calls, early, freed, freedUse>>

Join ==
  /\ bpc = "join" /\ tpc[at] = "ended"
  /\ bpc' = "null"
  /\ UNCHANGED <<tpc, loop, quit, at, next, calls, early, freed, freedUse>>

Stopped ==
  /\ bpc = "null"
  /\ loop' = [loop EXCEPT ![at] = FALSE]
  /\ IF at = N - 1 THEN bpc' = "done" /\ UNCHANGED at ELSE bpc' = "stop" /\ at' = at + 1
  /\ UNCHANGED <<tpc, quit, next, calls, early, freed, freedUse>>

-----------------------------------------------------------------------------
ThreadStep(t) ==
  ThreadInit(t) \/ ThreadPublish(t) \/ EnterLoop(t) \/ LeaveLoop(t) \/ ThreadEnds(t)
BaseStep == StartLoop \/ LoopStarted \/ Stop \/ Join \/ Stopped

Next ==
  \/ \E t \in LoopThreads : ThreadStep(t) \/ DestroyFromLoop(t)
  \/ BaseStep \/ GetNextLoop \/ DestroyPool

Spec == Init /\ [][Next]_vars

\* LoopThreads that can go on do; nobody has to call getNextLoop() or to destroy
\* the pool.
Fairness == WF_vars(BaseStep) /\ \A t \in LoopThreads : WF_vars(ThreadStep(t))
FairSpec == Spec /\ Fairness

-----------------------------------------------------------------------------
(* Properties *)

\* event_loop_thread.cc:51: after quit() the loop ends and the thread with
\* it, so stop() and the pool's destructor return.
StopReturns == bpc = "stop" ~> bpc = "done"

\* They do when every loop was entered before the pool was destroyed; loop()
\* begins by forgetting a quit() that came earlier.
SettledStopReturns == (bpc = "stop" /\ ~early) ~> bpc = "done"

\* A loop that is handed out exists and has been initialised, although
\* its thread is scheduled independently of the one that waited for it.
HandedOutLoopsAlive ==
  bpc = "run" => \A t \in LoopThreads \ freed : loop[t] /\ tpc[t] \in {"enter", "loop"}

\* event_loop_thread.cc:20: when stop() was called on the loop's own thread,
\* the thread has ended before the EventLoopThread is destroyed.
NoUseAfterDestroy == ~freedUse
=============================================================================
