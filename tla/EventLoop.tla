------------------------------ MODULE EventLoop ------------------------------
(***************************************************************************)
(* rpc::EventLoop (src/network/event_loop.{h,cc}): one iteration after the *)
(* other of epoll_wait, channel handlers, timers and posted functors,      *)
(* while other threads post functors, arm and cancel timers and quit.      *)
(*                                                                         *)
(* Functors are numbered in the order in which they entered                *)
(* pendingFunctors_.  Time only decides when an armed timer becomes due    *)
(* and when epoll_wait gives up.                                           *)
(***************************************************************************)
EXTENDS Integers, Sequences

CONSTANTS
  Threads,    \* the threads other than the loop's
  Timers,     \* timer ids
  Periodic,   \* those armed with runEvery()
  MaxPosts,   \* bound: functors posted in all
  MaxRuns     \* bound: how often a timer is seen to run

ASSUME LoopConstants ==
  /\ Periodic \subseteq Timers
  /\ MaxPosts \in Nat /\ MaxRuns \in Nat \ {0}

VARIABLES
  pc,        \* where loop() is
  quit,      \* quit_
  wake,      \* the eventfd's counter is not zero
  known,     \* the timers that epoll_wait's timeout was computed from
  posted,    \* how many functors entered pendingFunctors_
  queue,     \* pendingFunctors_
  batch,     \* the vector that doPendingFunctors() swapped out
  ran,       \* how many functors were run
  own,       \* history: the functors that were posted by functors
  timer,     \* "off", "armed" or "due" in timers_; "taken" in expiredTasks
  cancelled, \* the timers' cancel flags
  tpc,       \* "wake": the thread still has to write to the eventfd
  late       \* how often each timer ran after cancelTimer() returned

vars == <<pc, quit, wake, known, posted, queue, batch, ran, own, timer, cancelled,
          tpc, late>>
timerVars == <<timer, cancelled, late>>
functorVars == <<posted, queue, batch, ran, own>>

PC == {"check", "timeout", "poll", "read", "events", "collect", "timers", "swap",
       "functors", "exit"}

TypeOK ==
  /\ pc \in PC
  /\ quit \in BOOLEAN /\ wake \in BOOLEAN
  /\ known \subseteq Timers
  /\ posted \in Nat /\ ran \in Nat
  /\ queue \in Seq(Nat) /\ batch \in Seq(Nat) /\ own \subseteq Nat
  /\ timer \in [Timers -> {"off", "armed", "due", "taken", "done"}]
  /\ cancelled \subseteq Timers
  /\ tpc \in [Threads -> {"idle", "wake"}]
  /\ late \in [Timers -> 0 .. MaxRuns]

\* loop() has been entered: quit_ is false.
Init ==
  /\ pc = "check" /\ quit = FALSE /\ wake = FALSE /\ known = {}
  /\ posted = 0 /\ queue = <<>> /\ batch = <<>> /\ ran = 0 /\ own = {}
  /\ timer = [x \in Timers |-> "off"] /\ cancelled = {}
  /\ tpc = [t \in Threads |-> "idle"]
  /\ late = [x \in Timers |-> 0]

-----------------------------------------------------------------------------
(* Other threads *)

Push ==
  /\ posted < MaxPosts
  /\ posted' = posted + 1
  /\ queue' = Append(queue, posted + 1)
  /\ UNCHANGED <<batch, ran, own>>

\* Fault: the functor is pushed and the eventfd is not written.
QueueInLoop_NoWake(t) ==
  /\ tpc[t] = "idle"
  /\ Push
  /\ UNCHANGED <<pc, quit, wake, known, timerVars, tpc>>

\* queueInLoop() from another thread: push under pendingMutex_, then wake.
QueueInLoop(t) ==
  /\ tpc[t] = "idle"
  /\ Push
  /\ tpc' = [tpc EXCEPT ![t] = "wake"]
  /\ UNCHANGED <<pc, quit, wake, known, timerVars>>

Quit(t) ==
  /\ tpc[t] = "idle" /\ ~quit
  /\ quit' = TRUE
  /\ tpc' = [tpc EXCEPT ![t] = "wake"]
  /\ UNCHANGED <<pc, wake, known, timerVars, functorVars>>

Wakeup(t) ==
  /\ tpc[t] = "wake"
  /\ wake' = TRUE
  /\ tpc' = [tpc EXCEPT ![t] = "idle"]
  /\ UNCHANGED <<pc, quit, known, timerVars, functorVars>>

\* runAfter() or runEvery() from another thread; timerMutex_ is held until
\* the eventfd is written.
RunAfter(x) ==
  /\ timer[x] = "off"
  /\ timer' = [timer EXCEPT ![x] = "armed"]
  /\ wake' = TRUE
  /\ UNCHANGED <<pc, quit, known, functorVars, cancelled, tpc, late>>

\* The same from a handler, a timer or a functor: the loop is awake.
RunAfterInLoop(x) ==
  /\ pc \in {"events", "timers", "functors"} /\ timer[x] = "off"
  /\ timer' = [timer EXCEPT ![x] = "armed"]
  /\ UNCHANGED <<pc, quit, wake, known, functorVars, cancelled, tpc, late>>

\* cancelTimer(): a one-shot timer that was taken has no flag any more.
CancelTimer(x) ==
  /\ timer[x] \in {"armed", "due", "taken"} /\ x \notin cancelled
  /\ cancelled' = cancelled \cup {x}
  /\ UNCHANGED <<pc, quit, wake, known, functorVars, timer, tpc, late>>

\* Time passes.
FallDue(x) ==
  /\ timer[x] = "armed"
  /\ timer' = [timer EXCEPT ![x] = "due"]
  /\ UNCHANGED <<pc, quit, wake, known, functorVars, cancelled, tpc, late>>

-----------------------------------------------------------------------------
(* The loop's thread *)

Goto(l) == pc' = l

CheckQuit ==
  /\ pc = "check"
  /\ Goto(IF quit THEN "exit" ELSE "timeout")
  /\ UNCHANGED <<quit, wake, known, timerVars, functorVars, tpc>>

\* getNextTimerTimeoutMs()
ComputeTimeout ==
  /\ pc = "timeout"
  /\ known' = {x \in Timers : timer[x] \in {"armed", "due"}}
  /\ Goto("poll")
  /\ UNCHANGED <<quit, wake, timerVars, functorVars, tpc>>

\* epoll_wait returns: the eventfd is readable, a socket is ready, or the
\* timeout of the next known timer, or of 10 s, has passed.
PollWake ==
  /\ pc = "poll" /\ wake
  /\ Goto("read")
  /\ UNCHANGED <<quit, wake, known, timerVars, functorVars, tpc>>

PollReady ==
  /\ pc = "poll"
  /\ Goto("events")
  /\ UNCHANGED <<quit, wake, known, timerVars, functorVars, tpc>>

PollTimeout ==
  /\ pc = "poll"
  /\ Goto("collect")
  /\ UNCHANGED <<quit, wake, known, timerVars, functorVars, tpc>>

\* handleRead() of the wakeup channel.
HandleRead ==
  /\ pc = "read"
  /\ wake' = FALSE
  /\ \E l \in {"events", "collect"} : Goto(l)
  /\ UNCHANGED <<quit, known, timerVars, functorVars, tpc>>

\* A channel's handler may post to its own loop, which wakes nobody.
HandleEvents ==
  /\ pc = "events"
  /\ Push \/ UNCHANGED functorVars
  /\ Goto("collect")
  /\ UNCHANGED <<quit, wake, known, timerVars, tpc>>

\* Fault: cancelled timers are taken like the others.
CollectTimers_IgnoreFlag ==
  /\ pc = "collect"
  /\ timer' = [x \in Timers |-> IF timer[x] = "due" THEN "taken" ELSE timer[x]]
  /\ Goto("timers")
  /\ UNCHANGED <<quit, wake, known, functorVars, cancelled, tpc, late>>

\* processTimers(), under timerMutex_: drop cancelled timers, take due ones.
CollectTimers ==
  /\ pc = "collect"
  /\ timer' = [x \in Timers |->
                 IF timer[x] # "due" THEN timer[x]
                 ELSE IF x \in cancelled THEN "done" ELSE "taken"]
  /\ Goto("timers")
  /\ UNCHANGED <<quit, wake, known, functorVars, cancelled, tpc, late>>

\* processTimers(), lock released: run a taken timer, rearm a periodic one.
RunTimer(x) ==
  /\ pc = "timers" /\ timer[x] = "taken"
  /\ late' = [late EXCEPT ![x] = IF x \in cancelled /\ @ < MaxRuns THEN @ + 1 ELSE @]
  /\ timer' = [timer EXCEPT ![x] = IF x \in Periodic THEN "armed" ELSE "done"]
  /\ UNCHANGED <<pc, quit, wake, known, functorVars, cancelled, tpc>>

TimersDone ==
  /\ pc = "timers" /\ \A x \in Timers : timer[x] # "taken"
  /\ Goto("swap")
  /\ UNCHANGED <<quit, wake, known, timerVars, functorVars, tpc>>

\* doPendingFunctors(): swap under pendingMutex_, then run without it.
SwapFunctors ==
  /\ pc = "swap"
  /\ batch' = queue /\ queue' = <<>>
  /\ Goto("functors")
  /\ UNCHANGED <<quit, wake, known, timerVars, posted, ran, own, tpc>>

\* Fault: the batch is run from its end.
RunFunctor_Reversed ==
  /\ pc = "functors" /\ batch # <<>>
  /\ batch' = SubSeq(batch, 1, Len(batch) - 1) /\ ran' = ran + 1
  /\ UNCHANGED <<pc, quit, wake, known, timerVars, tpc, posted, queue, own>>

\* A functor may itself call queueInLoop(), which then writes no eventfd.
RunFunctor ==
  /\ pc = "functors" /\ batch # <<>>
  /\ batch' = Tail(batch) /\ ran' = ran + 1
  /\ \/ UNCHANGED <<posted, queue, own>>
     \/ /\ posted < MaxPosts
        /\ posted' = posted + 1 /\ queue' = Append(queue, posted + 1)
        /\ own' = own \cup {posted + 1}
  /\ UNCHANGED <<pc, quit, wake, known, timerVars, tpc>>

\* Fault: the queue is cleared once the batch has been run.
FunctorsDone_Clear ==
  /\ pc = "functors" /\ batch = <<>>
  /\ Goto("check") /\ queue' = <<>>
  /\ UNCHANGED <<quit, wake, known, timerVars, posted, batch, ran, own, tpc>>

FunctorsDone ==
  /\ pc = "functors" /\ batch = <<>>
  /\ Goto("check")
  /\ UNCHANGED <<quit, wake, known, timerVars, functorVars, tpc>>

LoopStep ==
  \/ CheckQuit \/ ComputeTimeout \/ PollWake \/ PollReady \/ PollTimeout \/ HandleRead
  \/ HandleEvents \/ CollectTimers \/ (\E x \in Timers : RunTimer(x)) \/ TimersDone
  \/ SwapFunctors \/ RunFunctor \/ FunctorsDone

\* loop() has returned and nobody has anything left to do.
Stopped == pc = "exit" /\ UNCHANGED vars

Next ==
  \/ \E t \in Threads : QueueInLoop(t) \/ Quit(t) \/ Wakeup(t)
  \/ \E x \in Timers : RunAfter(x) \/ RunAfterInLoop(x) \/ CancelTimer(x) \/ FallDue(x)
  \/ LoopStep
  \/ Stopped

Spec == Init /\ [][Next]_vars

\* The loop's thread runs, and time passes for the timers.
Fairness ==
  /\ WF_vars(LoopStep)
  /\ \A x \in Timers : WF_vars(FallDue(x))
FairSpec == Spec /\ Fairness

-----------------------------------------------------------------------------
(* Properties *)

\* Functors run in the order in which they were posted, none is lost or run
\* twice, whoever posts while doPendingFunctors() works on its batch.
InOrder ==
  /\ Len(batch) + Len(queue) = posted - ran
  /\ \A i \in 1 .. Len(batch) : batch[i] = ran + i
  /\ \A i \in 1 .. Len(queue) : queue[i] = ran + Len(batch) + i

\* When epoll_wait blocks while a functor of another thread is queued, the
\* eventfd is readable or a thread is about to make it so: a wakeup is never
\* consumed before the functor it announces is swapped out.
NoSleepWithWork ==
  pc = "poll" /\ (\E i \in 1 .. Len(queue) : queue[i] \notin own) =>
    wake \/ \E t \in Threads : tpc[t] = "wake"

\* docs/network_layer.md:276, "加入队列，唤醒执行" (put into the queue and wake
\* the loop to run it), of every functor, also of one that a functor posts.
EveryPostWakes ==
  pc = "poll" /\ queue # <<>> => wake \/ \E t \in Threads : tpc[t] = "wake"

\* Timers of other threads: one that is armed after the loop computed its
\* timeout makes epoll_wait return, so that the loop never sleeps past a
\* timer it does not know; cancelTimer() may come too late for a timer that
\* was already taken, and then for one run only, so a periodic timer stops.
TimersHonoured ==
  /\ pc = "poll" => wake \/ \A x \in Timers : timer[x] \in {"armed", "due"} => x \in known
  /\ \A x \in Timers : late[x] <= 1

\* A functor posted to a loop that goes on is run, whatever the others do.
FunctorsRun ==
  \A n \in 1 .. MaxPosts : posted >= n ~> ran >= n \/ quit
=============================================================================
