----------------------------- MODULE LoopsProofs -----------------------------
(***************************************************************************)
(* Proofs about the event loop, for any number of threads, functors and    *)
(* timers, about the pool of loop threads, for any size, and about the     *)
(* TcpServer that runs on such a pool, for any number of connections.      *)
(***************************************************************************)
EXTENDS MCLoops, TcpServerState, TLAPS

Server == INSTANCE TcpServer

USE LoopConstants, PoolSize

\* The loop's own functors exist only while doPendingFunctors() runs them.
QueueInv ==
  /\ pc \in PC
  /\ posted \in Nat /\ ran \in Nat
  /\ queue \in Seq(Nat) /\ batch \in Seq(Nat)
  /\ pc # "functors" => batch = <<>>
  /\ InOrder

LEMMA InitQueue == Init => QueueInv
  BY DEF Init, QueueInv, InOrder, PC

LEMMA PushKeepsOrder ==
  ASSUME QueueInv, posted' = posted + 1, queue' = Append(queue, posted + 1),
         batch' = batch, ran' = ran
  PROVE  queue' \in Seq(Nat) /\ InOrder'
<1>1. /\ queue' \in Seq(Nat) /\ Len(queue') = Len(queue) + 1
      /\ \A i \in 1 .. Len(queue) : queue'[i] = queue[i]
      /\ queue'[Len(queue) + 1] = posted + 1
  BY DEF QueueInv
<1>2. /\ Len(queue) \in Nat /\ Len(batch) \in Nat /\ ran \in Nat /\ posted \in Nat
      /\ Len(batch) + Len(queue) = posted - ran
  BY DEF QueueInv, InOrder
<1>3. \A i \in 1 .. Len(queue') : queue'[i] = ran + Len(batch) + i
  <2>1. SUFFICES ASSUME NEW i \in 1 .. Len(queue') PROVE queue'[i] = ran + Len(batch) + i
    OBVIOUS
  <2>2. CASE i \in 1 .. Len(queue)
    BY <1>1, <2>2 DEF QueueInv, InOrder
  <2>3. CASE i = Len(queue) + 1
    <3>1. ran + Len(batch) + (Len(queue) + 1) = posted + 1
      BY <1>2
    <3>2. QED
      BY <1>1, <2>3, <3>1
  <2>4. QED
    BY <1>1, <1>2, <2>2, <2>3
<1>4. Len(batch') + Len(queue') = posted' - ran'
  BY <1>1, <1>2
<1>5. \A i \in 1 .. Len(batch') : batch'[i] = ran' + i
  BY DEF QueueInv, InOrder
<1>6. \A i \in 1 .. Len(queue') : queue'[i] = ran' + Len(batch') + i
  BY <1>3
<1>7. QED
  BY <1>1, <1>4, <1>5, <1>6 DEF InOrder

LEMMA NextQueue == QueueInv /\ [Next]_vars => QueueInv'
<1> SUFFICES ASSUME QueueInv, [Next]_vars PROVE QueueInv'
  OBVIOUS
<1>1. CASE UNCHANGED <<pc, functorVars>>
  BY <1>1 DEF QueueInv, InOrder, functorVars
<1>2. CASE \E t \in Threads : QueueInLoop(t)
  BY <1>2, PushKeepsOrder DEF QueueInLoop, Push, QueueInv
<1>3. CASE HandleEvents
  <2>1. CASE Push
    BY <1>3, <2>1, PushKeepsOrder DEF HandleEvents, Push, QueueInv, PC, Goto
  <2>2. CASE UNCHANGED functorVars
    BY <1>3, <2>2 DEF HandleEvents, functorVars, QueueInv, InOrder, PC, Goto
  <2>3. QED
    BY <1>3, <2>1, <2>2 DEF HandleEvents
<1>4. CASE SwapFunctors
  BY <1>4 DEF SwapFunctors, QueueInv, InOrder, PC, Goto
<1>5. CASE RunFunctor
  <2>1. /\ Tail(batch) \in Seq(Nat) /\ Len(Tail(batch)) = Len(batch) - 1
        /\ \A i \in 1 .. Len(Tail(batch)) : Tail(batch)[i] = batch[i + 1]
    BY <1>5 DEF RunFunctor, QueueInv
  <2>2. CASE UNCHANGED <<posted, queue>>
    BY <1>5, <2>1, <2>2 DEF RunFunctor, QueueInv, InOrder
  <2>3. CASE posted' = posted + 1 /\ queue' = Append(queue, posted + 1)
    <3>1. /\ queue' \in Seq(Nat) /\ Len(queue') = Len(queue) + 1
          /\ \A i \in 1 .. Len(queue) : queue'[i] = queue[i]
          /\ queue'[Len(queue) + 1] = posted + 1
      BY <2>3 DEF QueueInv
    <3>2. /\ Len(queue) \in Nat /\ Len(batch) \in Nat /\ posted \in Nat /\ ran \in Nat
          /\ Len(batch) + Len(queue) = posted - ran
      BY DEF QueueInv, InOrder
    <3>3. batch' = Tail(batch) /\ ran' = ran + 1 /\ pc' = pc /\ pc = "functors"
      BY <1>5 DEF RunFunctor
    <3>4. \A i \in 1 .. Len(batch') : batch'[i] = ran' + i
      BY <2>1, <3>2, <3>3 DEF QueueInv, InOrder
    <3>5. \A i \in 1 .. Len(queue') : queue'[i] = ran' + Len(batch') + i
      <4>1. SUFFICES ASSUME NEW i \in 1 .. Len(queue')
                     PROVE  queue'[i] = ran' + Len(batch') + i
        OBVIOUS
      <4>2. ran' + Len(batch') = ran + Len(batch)
        BY <2>1, <3>2, <3>3
      <4>3. CASE i \in 1 .. Len(queue)
        BY <3>1, <3>2, <4>2, <4>3 DEF QueueInv, InOrder
      <4>4. CASE i = Len(queue) + 1
        <5>1. ran + Len(batch) + (Len(queue) + 1) = posted + 1
          BY <3>2
        <5>2. QED
          BY <3>1, <4>2, <4>4, <5>1
      <4>5. QED
        BY <3>1, <3>2, <4>3, <4>4
    <3>6. Len(batch') + Len(queue') = posted' - ran'
      <4>1. Len(batch') = Len(batch) - 1 /\ Len(queue') = Len(queue) + 1
        BY <2>1, <3>1, <3>3
      <4>2. posted' = posted + 1 /\ ran' = ran + 1
        BY <2>3, <3>3
      <4>3. QED
        BY <3>2, <4>1, <4>2
    <3>7. QED
      <4>1. InOrder'
        BY <3>4, <3>5, <3>6 DEF InOrder
      <4>2. batch' \in Seq(Nat) /\ posted' \in Nat /\ ran' \in Nat /\ pc' \in PC
        BY <2>1, <2>3, <3>2, <3>3 DEF PC
      <4>3. QED
        BY <3>1, <3>3, <4>1, <4>2 DEF QueueInv
  <2>4. QED
    BY <1>5, <2>2, <2>3 DEF RunFunctor
<1>6. CASE FunctorsDone
  BY <1>6 DEF FunctorsDone, functorVars, QueueInv, InOrder, PC, Goto
<1>7. CASE CheckQuit \/ ComputeTimeout \/ PollWake \/ PollReady \/ PollTimeout
             \/ HandleRead \/ CollectTimers \/ TimersDone
  <2>1. /\ UNCHANGED functorVars /\ pc # "functors"
        /\ pc' \in PC /\ pc' # "functors"
    BY <1>7 DEF CheckQuit, ComputeTimeout, PollWake, PollReady, PollTimeout, HandleRead,
                CollectTimers, TimersDone, Goto, PC
  <2>2. QED
    BY <2>1 DEF QueueInv, InOrder, functorVars
<1>8. CASE \/ UNCHANGED vars
           \/ \E t \in Threads : Quit(t) \/ Wakeup(t)
           \/ \E x \in Timers : \/ RunAfter(x) \/ RunAfterInLoop(x) \/ CancelTimer(x)
                               \/ FallDue(x) \/ RunTimer(x)
  <2>1. UNCHANGED <<pc, functorVars>>
    BY <1>8 DEF vars, functorVars, Quit, Wakeup, RunAfter, RunAfterInLoop, CancelTimer,
                FallDue, RunTimer
  <2>2. QED
    BY <1>1, <2>1
<1>9. QED
  BY <1>2, <1>3, <1>4, <1>5, <1>6, <1>7, <1>8 DEF Next, LoopStep, Stopped

\* Functors are run in the order in which they were posted, each exactly
\* once, for any number of threads that post while the loop works.
THEOREM FunctorsInOrder == Spec => []InOrder
<1>1. QueueInv => InOrder
  BY DEF QueueInv
<1>2. QED
  BY <1>1, InitQueue, NextQueue, PTL DEF Spec

-----------------------------------------------------------------------------
(* The eventfd *)

SomeoneWakes == \E t \in Threads : tpc[t] = "wake"

\* Some functor in the queue was not posted by a functor of this loop.
Announced == \E i \in 1 .. Len(queue) : queue[i] \notin own

\* From the swap to the next blocking call, a functor that another thread put
\* into the queue has a wakeup that was not consumed.
WakeInv ==
  /\ tpc \in [Threads -> {"idle", "wake"}]
  /\ pc \in {"functors", "check", "timeout", "poll"} /\ Announced => wake \/ SomeoneWakes

LEMMA OwnPostIsSilent ==
  ASSUME queue \in Seq(Nat), posted \in Nat, queue' = Append(queue, posted + 1),
         own' = own \cup {posted + 1}, Announced'
  PROVE  Announced
<1>1. PICK i \in 1 .. Len(queue') : queue'[i] \notin own'
  BY DEF Announced
<1>2. /\ Len(queue') = Len(queue) + 1
      /\ \A j \in 1 .. Len(queue) : queue'[j] = queue[j]
      /\ queue'[Len(queue) + 1] = posted + 1
  OBVIOUS
<1>3. i # Len(queue) + 1
  BY <1>1, <1>2
<1>4. i \in 1 .. Len(queue) /\ queue[i] \notin own
  BY <1>1, <1>2, <1>3
<1>5. QED
  BY <1>4 DEF Announced

LEMMA NextWake == QueueInv /\ WakeInv /\ [Next]_vars => WakeInv'
<1> SUFFICES ASSUME QueueInv, WakeInv, [Next]_vars PROVE WakeInv'
  OBVIOUS
<1> USE DEF WakeInv, SomeoneWakes, functorVars, Goto
<1>1. CASE UNCHANGED vars
  BY <1>1 DEF vars, Announced
<1>2. ASSUME NEW t \in Threads, QueueInLoop(t) \/ Quit(t) PROVE WakeInv'
  BY <1>2 DEF QueueInLoop, Quit
<1>3. ASSUME NEW t \in Threads, Wakeup(t) PROVE WakeInv'
  BY <1>3 DEF Wakeup
<1>4. ASSUME NEW x \in Timers,
             RunAfter(x) \/ RunAfterInLoop(x) \/ CancelTimer(x) \/ FallDue(x) \/ RunTimer(x)
      PROVE  WakeInv'
  BY <1>4 DEF RunAfter, RunAfterInLoop, CancelTimer, FallDue, RunTimer, Announced
<1>5. CASE CheckQuit \/ ComputeTimeout \/ FunctorsDone
  BY <1>5 DEF CheckQuit, ComputeTimeout, FunctorsDone, Announced
<1>6. CASE PollWake \/ PollReady \/ PollTimeout \/ HandleRead \/ HandleEvents
             \/ CollectTimers \/ TimersDone
  BY <1>6 DEF PollWake, PollReady, PollTimeout, HandleRead, HandleEvents, CollectTimers,
              TimersDone
<1>7. CASE SwapFunctors
  BY <1>7 DEF SwapFunctors, Announced
<1>8. CASE RunFunctor
  <2>1. pc = "functors" /\ UNCHANGED <<pc, wake, tpc>>
    BY <1>8 DEF RunFunctor
  <2>2. Announced' => Announced
    BY <1>8, OwnPostIsSilent, Zenon DEF RunFunctor, QueueInv, Announced
  <2>3. QED
    BY <2>1, <2>2
<1>9. QED
  BY <1>1, <1>2, <1>3, <1>4, <1>5, <1>6, <1>7, <1>8 DEF Next, LoopStep, Stopped

\* The loop never blocks in epoll_wait on a functor of another thread that
\* nobody is going to wake it for, whatever functors post meanwhile.
THEOREM LoopWakesForWork == Spec => []NoSleepWithWork
<1>1. Init => WakeInv
  BY DEF Init, WakeInv, Announced
<1>2. WakeInv => NoSleepWithWork
  BY DEF WakeInv, SomeoneWakes, Announced, NoSleepWithWork
<1>3. QED
  BY <1>1, <1>2, InitQueue, NextQueue, NextWake, PTL DEF Spec

-----------------------------------------------------------------------------
(* Timers *)

\* A timer that ran after its cancellation has its flag set and is not waiting to run
\* again: processTimers() will drop it.  What epoll_wait does not know of has written
\* to the eventfd since.
TimerInv ==
  /\ pc \in PC /\ timer \in [Timers -> {"off", "armed", "due", "taken", "done"}]
  /\ late \in [Timers -> 0 .. MaxRuns]
  /\ \A x \in Timers : late[x] <= 1 /\ (late[x] = 1 => x \in cancelled /\ timer[x] # "taken")
  /\ pc = "poll" => wake \/ \A x \in Timers : timer[x] \in {"armed", "due"} => x \in known

LEMMA NextTimer == TimerInv /\ [Next]_vars => TimerInv'
<1> SUFFICES ASSUME TimerInv, [Next]_vars PROVE TimerInv'
  OBVIOUS
<1> USE DEF TimerInv, timerVars, functorVars, Goto, PC
<1>1. CASE UNCHANGED vars
  BY <1>1 DEF vars
<1>2. ASSUME NEW t \in Threads, QueueInLoop(t) \/ Quit(t) \/ Wakeup(t) PROVE TimerInv'
  BY <1>2 DEF QueueInLoop, Quit, Wakeup
<1>3. ASSUME NEW x \in Timers, RunAfter(x) \/ RunAfterInLoop(x) PROVE TimerInv'
  BY <1>3 DEF RunAfter, RunAfterInLoop
<1>4. ASSUME NEW x \in Timers, CancelTimer(x) \/ FallDue(x) PROVE TimerInv'
  BY <1>4 DEF CancelTimer, FallDue
<1>5. ASSUME NEW x \in Timers, RunTimer(x) PROVE TimerInv'
  BY <1>5 DEF RunTimer
<1>6. CASE CheckQuit \/ ComputeTimeout \/ PollWake \/ PollReady \/ PollTimeout
             \/ HandleRead \/ HandleEvents \/ TimersDone
  BY <1>6 DEF CheckQuit, ComputeTimeout, PollWake, PollReady, PollTimeout, HandleRead,
              HandleEvents, TimersDone
<1>7. CASE CollectTimers
  BY <1>7 DEF CollectTimers
<1>8. CASE SwapFunctors \/ RunFunctor \/ FunctorsDone
  BY <1>8 DEF SwapFunctors, RunFunctor, FunctorsDone
<1>9. QED
  BY <1>1, <1>2, <1>3, <1>4, <1>5, <1>6, <1>7, <1>8 DEF Next, LoopStep, Stopped

\* The loop never sleeps past a timer it does not know, and a timer that is cancelled
\* while processTimers() has taken it runs once more and never again, for any number
\* of threads that arm and cancel.
THEOREM TimersAreHonoured == Spec => []TimersHonoured
<1>1. Init => TimerInv
  BY DEF Init, TimerInv, PC
<1>2. TimerInv => TimersHonoured
  BY Zenon DEF TimerInv, TimersHonoured
<1>3. QED
  BY <1>1, <1>2, NextTimer, PTL DEF Spec

-----------------------------------------------------------------------------
(* The pool of loop threads *)

\* startLoop() returns once loop_ is set, so the threads before the one the base
\* thread deals with have entered, or are about to enter, a loop nobody has asked to
\* quit, and those after it do not exist.
PoolInv ==
  /\ threadPc \in [Pool!LoopThreads ->
                    {"none", "init", "publish", "enter", "loop", "tail", "ended"}]
  /\ loop \in [Pool!LoopThreads -> BOOLEAN] /\ threadQuit \in [Pool!LoopThreads -> BOOLEAN]
  /\ at \in Nat
  /\ bpc \in {"start", "wait", "run"} =>
       \A t \in Pool!LoopThreads \ freed :
         ~threadQuit[t] /\ (loop[t] <=> threadPc[t] \in {"enter", "loop"})
  /\ bpc \in {"start", "wait"} =>
       /\ freed = {}
       /\ \A t \in Pool!LoopThreads : t < at => loop[t]
       /\ \A t \in Pool!LoopThreads : t > at => threadPc[t] = "none"
  /\ bpc = "start" => \A t \in Pool!LoopThreads : t = at => threadPc[t] = "none"
  /\ bpc = "run" => \A t \in Pool!LoopThreads \ freed : loop[t]

LEMMA NextPool == PoolInv /\ [Pool!Next]_(Pool!vars) => PoolInv'
<1> SUFFICES ASSUME PoolInv, [Pool!Next]_(Pool!vars) PROVE PoolInv'
  OBVIOUS
<1> USE DEF PoolInv, Pool!LoopThreads, Pool!Move
<1>1. CASE UNCHANGED Pool!vars
  BY <1>1, Zenon DEF Pool!vars
<1>2. ASSUME NEW t \in Pool!LoopThreads, Pool!ThreadInit(t) \/ Pool!ThreadPublish(t)
      PROVE  PoolInv'
  <2>1. CASE Pool!ThreadInit(t)
    BY <2>1 DEF Pool!ThreadInit
  <2>2. CASE Pool!ThreadPublish(t)
    <3>1. /\ threadPc[t] = "publish" /\ UNCHANGED <<threadQuit, bpc, at, freed>>
          /\ loop' = [loop EXCEPT ![t] = TRUE] /\ threadPc' = [threadPc EXCEPT ![t] = "enter"]
      BY <2>2, Zenon DEF Pool!ThreadPublish
    <3>2. /\ loop' \in [Pool!LoopThreads -> BOOLEAN] /\ loop'[t]
          /\ threadPc'[t] = "enter"
          /\ \A u \in Pool!LoopThreads : u # t => loop'[u] = loop[u] /\ threadPc'[u] = threadPc[u]
          /\ threadPc' \in [Pool!LoopThreads ->
                            {"none", "init", "publish", "enter", "loop", "tail", "ended"}]
      BY <3>1
    <3> QED BY <3>1, <3>2
  <2>3. QED
    BY <1>2, <2>1, <2>2
<1>3. ASSUME NEW t \in Pool!LoopThreads, Pool!EnterLoop(t) PROVE PoolInv'
  BY <1>3 DEF Pool!EnterLoop
<1>4. ASSUME NEW t \in Pool!LoopThreads, Pool!LeaveLoop(t) \/ Pool!ThreadEnds(t) PROVE PoolInv'
  BY <1>4, ZenonT(30) DEF Pool!LeaveLoop, Pool!ThreadEnds
<1>5. ASSUME NEW t \in Pool!LoopThreads, Pool!DestroyFromLoop(t) PROVE PoolInv'
  BY <1>5 DEF Pool!DestroyFromLoop
<1>6. CASE Pool!StartLoop
  BY <1>6, Zenon DEF Pool!StartLoop
<1>7. CASE Pool!LoopStarted
  <2>1. CASE at = N - 1
    BY <1>7, <2>1 DEF Pool!LoopStarted
  <2>2. CASE at # N - 1
    BY <1>7, <2>2 DEF Pool!LoopStarted
  <2>3. QED
    BY <2>1, <2>2
<1>8. CASE Pool!GetNextLoop \/ Pool!DestroyPool
  BY <1>8, Zenon DEF Pool!GetNextLoop, Pool!DestroyPool
<1>9. CASE Pool!Stop \/ Pool!Join \/ Pool!Stopped
  <2>1. CASE Pool!Stop
    BY <2>1, Zenon DEF Pool!Stop
  <2>2. CASE Pool!Join
    BY <2>2 DEF Pool!Join
  <2>3. CASE Pool!Stopped
    <3>1. /\ bpc = "null" /\ bpc' \in {"done", "stop"} /\ at' \in Nat
          /\ loop' = [loop EXCEPT ![at] = FALSE] /\ UNCHANGED <<threadPc, threadQuit>>
      BY <2>3 DEF Pool!Stopped
    <3>2. loop' \in [Pool!LoopThreads -> BOOLEAN]
      BY <3>1, Zenon
    <3>3. QED
      BY <3>1, <3>2
  <2>4. QED
    BY <1>9, <2>1, <2>2, <2>3
<1>10. QED
  BY <1>1, <1>2, <1>3, <1>4, <1>5, <1>6, <1>7, <1>8, <1>9, Zenon
  DEF Pool!Next, Pool!ThreadStep, Pool!BaseStep

\* getNextLoop() returns loops that exist and were initialised, for a pool of any size
\* and whichever of its threads is scheduled.
THEOREM LoopsAreAlive == Pool!Spec => []HandedOutLoopsAlive
<1>1. Pool!Init => PoolInv
  BY DEF Pool!Init, PoolInv, Pool!LoopThreads
<1>2. PoolInv => HandedOutLoopsAlive
  BY DEF PoolInv, HandedOutLoopsAlive, Pool!HandedOutLoopsAlive
<1>3. QED
  BY <1>1, <1>2, NextPool, PTL DEF Pool!Spec
-----------------------------------------------------------------------------
(***************************************************************************)
(* TcpServer, while it is up.  The invariant says of every functor that    *)
(* waits in a queue or in a batch what has become of its connection        *)
(* (Waiting), and that connectEstablished and connectDestroyed of a        *)
(* connection wait at most once.                                           *)
(***************************************************************************)
ServerLoops == IoLoops \cup {Base}
ServerStates == {"kConnecting", "kConnected", "kDisconnecting", "kDisconnected"}
Once == {"establish", "destroy"}

(* What may wait for loop l: functors run on the loop of their connection,
   removals on the base loop. *)
Waiting(l) ==
  {f \in Server!Functors :
     /\ f.conn < nextId
     /\ f.op = "remove" => l = Base /\ st[f.conn] = "kDisconnected"
     /\ f.op # "remove" => io[f.conn] = l
     /\ f.op = "establish" => st[f.conn] = "kConnecting"
     /\ f.op = "close" => st[f.conn] # "kConnecting"
     /\ f.op = "destroy" => f.conn \notin conns /\ destroyed[f.conn] = 0}

Line(W, s) == /\ s \in Seq(W)
              /\ \A i, j \in 1..Len(s) : i < j /\ s[i].op \in Once => s[i] # s[j]

Apart(s, t) == \A i \in 1..Len(s), j \in 1..Len(t) : s[i].op \in Once => s[i] # t[j]

Lines(queues, batches) ==
  /\ DOMAIN queues = ServerLoops /\ DOMAIN batches = IoLoops
  /\ queues = [l \in ServerLoops |-> queues[l]] /\ batches = [l \in IoLoops |-> batches[l]]
  /\ \A l \in ServerLoops : Line(Waiting(l), queues[l])
  /\ \A l \in IoLoops : Line(Waiting(l), batches[l]) /\ Apart(batches[l], queues[l])

(* f waits nowhere. *)
Missing(f, queues, batches) ==
  /\ \A l \in ServerLoops : \A i \in 1..Len(queues[l]) : queues[l][i] # f
  /\ \A l \in IoLoops : \A i \in 1..Len(batches[l]) : batches[l][i] # f

MapInv ==
  /\ nextId \in 1..(MaxConns + 1) /\ threads \subseteq IoLoops
  /\ io \in [Server!Conns -> ServerLoops] /\ st \in [Server!Conns -> ServerStates]
  /\ destroyed \in [Server!Conns -> 0..1] /\ conns \subseteq 1..(nextId - 1)
  /\ \A c \in Server!Conns : IF c < nextId
                               THEN /\ st[c] # "kDisconnected" => c \in conns
                                    /\ c \in conns => destroyed[c] = 0
                               ELSE st[c] = "kConnecting" /\ destroyed[c] = 0

UpInv == phase = "up" => MapInv /\ Lines(q, ioBatch)
-----------------------------------------------------------------------------
LEMMA AppendedLine ==
  ASSUME NEW W, NEW s, NEW f \in W, Line(W, s),
         f.op \in Once => \A i \in 1..Len(s) : s[i] # f
  PROVE  Line(W, Append(s, f))
<1>1. s \in Seq(W) /\ Append(s, f) \in Seq(W) /\ Len(Append(s, f)) = Len(s) + 1
  BY DEF Line
<1>2. \A i \in 1..Len(s) : Append(s, f)[i] = s[i]
  BY <1>1
<1>3. Append(s, f)[Len(s) + 1] = f
  BY <1>1
<1>4. ASSUME NEW i \in 1..(Len(s) + 1), NEW j \in 1..(Len(s) + 1), i < j,
             Append(s, f)[i].op \in Once
      PROVE  Append(s, f)[i] # Append(s, f)[j]
  <2>1. i \in 1..Len(s) /\ Append(s, f)[i] = s[i]
    BY <1>1, <1>2, <1>4
  <2>2. CASE j \in 1..Len(s)
    BY <1>2, <1>4, <2>1, <2>2 DEF Line
  <2>3. CASE j = Len(s) + 1
    BY <1>3, <1>4, <2>1, <2>3
  <2> QED BY <1>1, <2>2, <2>3
<1> QED BY <1>1, <1>4 DEF Line

LEMMA Updated ==
  \A S, T : \A f \in [S -> T] : \A c \in S, v \in T :
    /\ [f EXCEPT ![c] = v] \in [S -> T] /\ [f EXCEPT ![c] = v][c] = v
    /\ \A d \in S : d # c => [f EXCEPT ![c] = v][d] = f[d]
  BY Zenon

LEMMA InLine == \A W : \A s \in Seq(W) : \A i \in 1..Len(s) : s[i] \in W
  OBVIOUS

LEMMA ApartTail ==
  \A s, t : /\ Apart(s, t)
            /\ \A i \in 1..Len(Tail(s)) : i + 1 \in 1..Len(s) /\ Tail(s)[i] = s[i + 1]
            => Apart(Tail(s), t)
  BY Zenon DEF Apart

LEMMA ApartAppended ==
  ASSUME NEW W, NEW s, NEW t \in Seq(W), NEW f, Apart(s, t),
         f.op \in Once => \A i \in 1..Len(s) : s[i] # f
  PROVE  Apart(s, Append(t, f))
<1>1. /\ Len(Append(t, f)) = Len(t) + 1 /\ Len(t) \in Nat
      /\ \A j \in 1..Len(t) : Append(t, f)[j] = t[j]
      /\ Append(t, f)[Len(t) + 1] = f
  OBVIOUS
<1>2. \A j \in 1..(Len(t) + 1) : j \in 1..Len(t) \/ j = Len(t) + 1
  BY <1>1
<1> QED BY <1>1, <1>2, Zenon DEF Apart

LEMMA WiderLine ==
  ASSUME NEW V, NEW W, NEW s, Line(V, s), \A i \in 1..Len(s) : s[i] \in V => s[i] \in W
  PROVE  Line(W, s)
  BY DEF Line

LEMMA TailOfLine ==
  ASSUME NEW W, NEW s, Line(W, s), s # <<>>
  PROVE  /\ Line(W, Tail(s)) /\ Head(s) \in W
         /\ Head(s) = s[1] /\ 1 \in 1..Len(s)
         /\ Head(s).op \in Once => \A i \in 1..Len(Tail(s)) : Tail(s)[i] # Head(s)
         /\ \A i \in 1..Len(Tail(s)) : i + 1 \in 1..Len(s) /\ Tail(s)[i] = s[i + 1]
<1>1. s \in Seq(W) /\ Len(s) \in Nat /\ Len(s) # 0 /\ Head(s) = s[1] /\ 1 \in 1..Len(s)
  BY DEF Line
<1>2. Tail(s) \in Seq(W) /\ Len(Tail(s)) = Len(s) - 1
  BY <1>1
<1>3. \A i \in 1..Len(Tail(s)) : i + 1 \in 1..Len(s) /\ Tail(s)[i] = s[i + 1]
  BY <1>1, <1>2
<1>4. Head(s) \in W
  BY <1>1
<1>5. Head(s).op \in Once => \A i \in 1..Len(Tail(s)) : Tail(s)[i] # Head(s)
  BY <1>1, <1>3 DEF Line
<1>6. ASSUME NEW i \in 1..Len(Tail(s)), NEW j \in 1..Len(Tail(s)), i < j, Tail(s)[i].op \in Once
      PROVE  Tail(s)[i] # Tail(s)[j]
  BY <1>2, <1>3, <1>6 DEF Line
<1> QED BY <1>1, <1>2, <1>3, <1>4, <1>5, <1>6 DEF Line

(* What waits goes on waiting, and a functor that is not there yet is posted. *)
LEMMA LinesKept ==
  ASSUME NEW queues, NEW batches, Lines(queues, batches), ioBatch' = batches,
         \A l \in ServerLoops : \A g \in Waiting(l) :
           ~Missing(g, queues, batches) => g \in Waiting(l)',
         \/ q' = queues
         \/ \E k \in ServerLoops : \E f \in Waiting(k)' :
              /\ q' = Server!Post(queues, k, f)
              /\ f.op \in Once => Missing(f, queues, batches)
  PROVE  Lines(q, ioBatch)'
<1>1. ASSUME NEW l \in ServerLoops
      PROVE  Line(Waiting(l)', queues[l])
  <2>1. \A i \in 1..Len(queues[l]) : ~Missing(queues[l][i], queues, batches)
    BY DEF Missing
  <2> QED BY <2>1, WiderLine DEF Lines
<1>2. ASSUME NEW l \in IoLoops
      PROVE  Line(Waiting(l)', batches[l])
  <2>1. \A i \in 1..Len(batches[l]) : ~Missing(batches[l][i], queues, batches)
    BY DEF Missing
  <2> QED BY <2>1, WiderLine, Zenon DEF Lines, ServerLoops
<1>3. CASE q' = queues
  BY <1>1, <1>2, <1>3 DEF Lines
<1>4. CASE \E k \in ServerLoops : \E f \in Waiting(k)' :
              /\ q' = Server!Post(queues, k, f)
              /\ f.op \in Once => Missing(f, queues, batches)
  <2>0. PICK k \in ServerLoops : \E f \in Waiting(k)' :
              /\ q' = Server!Post(queues, k, f)
              /\ f.op \in Once => Missing(f, queues, batches)
    BY <1>4
  <2>1. PICK f \in Waiting(k)' :
              /\ q' = Server!Post(queues, k, f)
              /\ f.op \in Once => Missing(f, queues, batches)
    BY <2>0
  <2>2. /\ DOMAIN q' = ServerLoops /\ q' = [l \in ServerLoops |-> q'[l]]
        /\ q'[k] = Append(queues[k], f)
        /\ \A l \in ServerLoops : l # k => q'[l] = queues[l]
    <3>1. q' = [queues EXCEPT ![k] = Append(queues[k], f)]
      BY <2>1 DEF Server!Post
    <3>2. DOMAIN queues = ServerLoops
      BY DEF Lines
    <3>3. q' = [l \in ServerLoops |-> IF l = k THEN Append(queues[k], f) ELSE queues[l]]
      BY <3>1, <3>2, Zenon
    <3> QED BY <3>3
  <2>3. Line(Waiting(k)', Append(queues[k], f))
    <3>1. f.op \in Once => \A i \in 1..Len(queues[k]) : queues[k][i] # f
      BY <2>1 DEF Missing
    <3>2. Line(Waiting(k)', queues[k])
      BY <1>1
    <3> HIDE DEF Waiting, Line
    <3> QED BY <3>1, <3>2, AppendedLine, Zenon
  <2>4. \A l \in ServerLoops : Line(Waiting(l)', q'[l])
    BY <1>1, <2>2, <2>3, Zenon
  <2>5. ASSUME NEW l \in IoLoops
        PROVE  Apart(batches[l], q'[l])
    <3>1. Apart(batches[l], queues[l]) /\ l \in ServerLoops
      BY DEF Lines, ServerLoops
    <3>2. CASE l # k
      BY <2>2, <3>1, <3>2
    <3>3. CASE l = k
      <4>1. queues[k] \in Seq(Waiting(k)')
        BY <1>1 DEF Line
      <4>2. f.op \in Once => \A i \in 1..Len(batches[k]) : batches[k][i] # f
        BY <2>1, <3>3, Zenon DEF Missing
      <4>3. Apart(batches[k], Append(queues[k], f))
        BY <3>1, <3>3, <4>1, <4>2, ApartAppended, Zenon
      <4> QED BY <2>2, <3>3, <4>3, Zenon
    <3> QED BY <3>2, <3>3
  <2> QED BY <1>2, <2>2, <2>4, <2>5 DEF Lines
<1> QED BY <1>3, <1>4

LEMMA PresentWaits ==
  ASSUME NEW queues, NEW batches, Lines(queues, batches), NEW g, ~Missing(g, queues, batches)
  PROVE  \E l \in ServerLoops : g \in Waiting(l)
<1>1. CASE \E l \in ServerLoops : \E i \in 1..Len(queues[l]) : queues[l][i] = g
  BY <1>1 DEF Lines, Line
<1>2. CASE \E l \in IoLoops : \E i \in 1..Len(batches[l]) : batches[l][i] = g
  BY <1>2 DEF Lines, Line, ServerLoops
<1> QED BY <1>1, <1>2 DEF Missing

(* removeConnectionInLoop of a connection that is closed, or is closed by the
   same step: connectDestroyed is posted by the step that erases. *)
LEMMA RemoveKeeps ==
  ASSUME NEW queues, NEW batches, MapInv, Lines(queues, batches), ioBatch' = batches,
         NEW c \in 1..(nextId - 1), st[c] # "kConnecting",
         st' = [st EXCEPT ![c] = "kDisconnected"], Server!RemoveInLoop(c, queues),
         UNCHANGED <<nextId, threads, io, destroyed>>
  PROVE  MapInv' /\ Lines(q, ioBatch)'
<1> DEFINE f == Server!F("destroy", c)
<1>1. c \in Server!Conns /\ io[c] \in ServerLoops
  BY ServerConstants DEF MapInv, Server!Conns
<1>2. /\ st' \in [Server!Conns -> ServerStates] /\ st'[c] = "kDisconnected"
      /\ \A d \in Server!Conns : d # c => st'[d] = st[d]
  BY <1>1, Updated, Zenon DEF MapInv, ServerStates
<1>3. conns' = conns \ {c}
  BY DEF Server!RemoveInLoop
<1>4. MapInv'
  BY <1>1, <1>2, <1>3 DEF MapInv
<1>5. \A l \in ServerLoops : \A g \in Waiting(l) : g \in Waiting(l)'
  BY <1>1, <1>2, <1>3 DEF Waiting, Server!Functors
<1>6. CASE c \in conns
  <2>1. q' = Server!Post(queues, io[c], f)
    BY <1>6 DEF Server!RemoveInLoop
  <2>2. f \in Server!Functors /\ f.op = "destroy" /\ f.conn = c
    BY <1>1 DEF Server!F, Server!Functors
  <2>3. destroyed[c] = 0
    BY <1>1, <1>6 DEF MapInv
  <2> HIDE DEF f
  <2>4. f \in Waiting(io[c])'
    BY <1>3, <2>2, <2>3 DEF Waiting, MapInv
  <2>5. Missing(f, queues, batches)
    BY <1>6, <2>2, PresentWaits DEF Waiting
  <2> QED BY <1>1, <1>4, <1>5, <2>1, <2>4, <2>5, LinesKept
<1>7. CASE c \notin conns
  <2>1. q' = queues
    BY <1>7 DEF Server!RemoveInLoop
  <2> QED BY <1>4, <1>5, <2>1, LinesKept
<1> QED BY <1>6, <1>7

(* handleClose: off the base loop the removal is posted to it. *)
LEMMA ServerCloseKeeps ==
  ASSUME NEW queues, NEW batches, MapInv, Lines(queues, batches), ioBatch' = batches,
         NEW c \in 1..(nextId - 1), st[c] # "kConnecting", Server!HandleClose(c, queues),
         UNCHANGED <<nextId, threads, io, destroyed>>
  PROVE  MapInv' /\ Lines(q, ioBatch)'
<1>1. c \in Server!Conns
  BY ServerConstants DEF MapInv, Server!Conns
<1>2. CASE q' = queues /\ UNCHANGED <<st, conns>>
  <2>1. MapInv'
    BY <1>2 DEF MapInv
  <2>2. \A l \in ServerLoops : Waiting(l)' = Waiting(l)
    BY <1>2 DEF Waiting
  <2> QED BY <1>2, <2>1, <2>2, LinesKept
<1>3. CASE st' = [st EXCEPT ![c] = "kDisconnected"] /\ Server!RemoveInLoop(c, queues)
  BY <1>3, RemoveKeeps, Zenon
<1>4. CASE /\ st' = [st EXCEPT ![c] = "kDisconnected"] /\ conns' = conns
           /\ st[c] # "kDisconnected"
           /\ q' = Server!Post(queues, Base, Server!F("remove", c))
  <2> DEFINE f == Server!F("remove", c)
  <2>1. /\ st' \in [Server!Conns -> ServerStates] /\ st'[c] = "kDisconnected"
        /\ \A d \in Server!Conns : d # c => st'[d] = st[d]
    BY <1>1, <1>4, Updated, Zenon DEF MapInv, ServerStates
  <2>2. MapInv'
    BY <1>1, <1>4, <2>1 DEF MapInv
  <2>3. \A l \in ServerLoops : \A g \in Waiting(l) : g \in Waiting(l)'
    BY <1>1, <1>4, <2>1 DEF Waiting, Server!Functors
  <2>4. f \in Server!Functors /\ f.op = "remove" /\ f.conn = c
    BY <1>1 DEF Server!F, Server!Functors
  <2>5. q' = Server!Post(queues, Base, f) /\ Base \in ServerLoops
    BY <1>4 DEF ServerLoops
  <2> HIDE DEF f
  <2>6. f \in Waiting(Base)' /\ f.op \notin Once
    BY <2>1, <2>4 DEF Waiting, MapInv, Once
  <2> QED BY <2>2, <2>3, <2>5, <2>6, LinesKept
<1> QED BY <1>2, <1>3, <1>4 DEF Server!HandleClose

(* A functor that has been taken from its queue runs. *)
LEMMA RunKeeps ==
  ASSUME NEW queues, NEW batches, MapInv, Lines(queues, batches), ioBatch' = batches,
         NEW l \in ServerLoops, NEW f \in Waiting(l),
         f.op \in Once => Missing(f, queues, batches),
         phase = "up", Server!Run(f, queues), UNCHANGED <<nextId, threads, io>>
  PROVE  MapInv' /\ Lines(q, ioBatch)'
<1> DEFINE c == f.conn
<1>1. /\ c \in 1..(nextId - 1) /\ c \in Server!Conns
      /\ f \in Server!Functors /\ f = Server!F(f.op, c)
  BY ServerConstants DEF Waiting, MapInv, Server!Conns, Server!Functors, Server!F
<1>2. CASE /\ f.op = "establish" /\ st' = [st EXCEPT ![c] = "kConnected"]
           /\ q' = queues /\ UNCHANGED <<conns, destroyed>>
  <2>1. /\ st' \in [Server!Conns -> ServerStates] /\ st'[c] = "kConnected"
        /\ \A d \in Server!Conns : d # c => st'[d] = st[d]
    BY <1>1, <1>2, Updated, Zenon DEF MapInv, ServerStates
  <2>2. st[c] = "kConnecting" /\ Missing(f, queues, batches)
    BY <1>2 DEF Waiting, Once
  <2>3. c \in conns
    BY <1>1, <2>2 DEF MapInv
  <2>4. MapInv'
    BY <1>1, <1>2, <2>1, <2>3, SMTT(30) DEF MapInv
  <2>5. ASSUME NEW k \in ServerLoops, NEW g \in Waiting(k), ~Missing(g, queues, batches)
        PROVE  g \in Waiting(k)'
    <3>1. g # f /\ g \in Server!Functors
      BY <2>2, <2>5 DEF Waiting
    <3>2. g.conn = c => g.op # "establish"
      BY <1>1, <1>2, <3>1 DEF Server!Functors, Server!F
    <3> QED BY <1>1, <1>2, <2>1, <2>2, <3>1, <3>2 DEF Waiting, Server!Functors
  <2> QED BY <1>2, <2>4, <2>5, LinesKept
<1>3. CASE f.op = "close" /\ Server!HandleClose(c, queues) /\ destroyed' = destroyed
  <2>1. st[c] # "kConnecting"
    BY <1>3 DEF Waiting
  <2> QED BY <1>1, <1>3, <2>1, ServerCloseKeeps
<1>4. CASE /\ f.op = "destroy"
           /\ st' = [st EXCEPT ![c] = IF @ = "kConnected" THEN "kDisconnected" ELSE @]
           /\ destroyed' = [destroyed EXCEPT ![c] = @ + 1]
           /\ q' = queues /\ UNCHANGED conns
  <2>1. c \notin conns /\ destroyed[c] = 0 /\ Missing(f, queues, batches)
    BY <1>4 DEF Waiting, Once
  <2>2. st[c] = "kDisconnected"
    BY <1>1, <2>1 DEF MapInv
  <2>3. st' = st
    BY <1>1, <1>4, <2>2 DEF MapInv
  <2>4. /\ destroyed' \in [Server!Conns -> 0..1]
        /\ \A d \in Server!Conns : d # c => destroyed'[d] = destroyed[d]
    BY <1>1, <1>4, <2>1 DEF MapInv
  <2>5. MapInv'
    BY <1>1, <1>4, <2>1, <2>3, <2>4, SMTT(30) DEF MapInv
  <2>6. ASSUME NEW k \in ServerLoops, NEW g \in Waiting(k), ~Missing(g, queues, batches)
        PROVE  g \in Waiting(k)'
    <3>1. g # f /\ g \in Server!Functors
      BY <2>1, <2>6 DEF Waiting
    <3>2. g.conn = c => g.op # "destroy"
      BY <1>1, <1>4, <3>1 DEF Server!Functors, Server!F
    <3> QED BY <1>1, <1>4, <2>3, <2>4, <3>1, <3>2, SMTT(30) DEF Waiting, Server!Functors
  <2> QED BY <1>4, <2>5, <2>6, LinesKept
<1>5. CASE f.op = "remove" /\ Server!RemoveInLoop(c, queues) /\ UNCHANGED <<st, destroyed>>
  <2>1. st[c] = "kDisconnected"
    BY <1>5 DEF Waiting
  <2>2. st' = [st EXCEPT ![c] = "kDisconnected"]
    BY <1>1, <1>5, <2>1 DEF MapInv
  <2> QED BY <1>1, <1>5, <2>1, <2>2, RemoveKeeps, Zenon
<1> QED BY <1>2, <1>3, <1>4, <1>5
        DEF Server!Run, Server!ConnectEstablished, Server!ConnectDestroyed

(* Taking the first functor of the base loop's queue, or of a batch. *)
LEMMA BasePop ==
  ASSUME Lines(q, ioBatch), q[Base] # <<>>
  PROVE  /\ Lines([q EXCEPT ![Base] = Tail(@)], ioBatch) /\ Head(q[Base]) \in Waiting(Base)
         /\ Head(q[Base]).op \in Once
              => Missing(Head(q[Base]), [q EXCEPT ![Base] = Tail(@)], ioBatch)
<1> DEFINE f == Head(q[Base])
           queues == [l \in ServerLoops |-> IF l = Base THEN Tail(q[Base]) ELSE q[l]]
<1>0. Base \in ServerLoops /\ Base \notin IoLoops
  BY ServerConstants DEF ServerLoops
<1>1. [q EXCEPT ![Base] = Tail(@)] = queues
  BY <1>0, Zenon DEF Lines
<1>2. Line(Waiting(Base), q[Base])
  BY <1>0 DEF Lines
<1>3. /\ Line(Waiting(Base), Tail(q[Base])) /\ f \in Waiting(Base)
      /\ f.op \in Once => \A i \in 1..Len(Tail(q[Base])) : Tail(q[Base])[i] # f
  BY <1>2, TailOfLine, Zenon
<1>4. Lines(queues, ioBatch)
  <2>1. \A l \in ServerLoops : Line(Waiting(l), queues[l])
    BY <1>3 DEF Lines
  <2>2. \A l \in IoLoops : queues[l] = q[l]
    BY <1>0 DEF ServerLoops
  <2> QED BY <2>1, <2>2, Zenon DEF Lines
<1>5. ASSUME f.op \in Once
      PROVE  Missing(f, queues, ioBatch)
  <2>1. ASSUME NEW l \in ServerLoops, l # Base
        PROVE  f \notin Waiting(l)
    BY <1>3, <1>5, <2>1, Zenon DEF Waiting, Once
  <2>2. ASSUME NEW l \in ServerLoops, NEW i \in 1..Len(queues[l])
        PROVE  queues[l][i] # f
    <3>1. CASE l = Base
      BY <1>3, <1>5, <3>1, Zenon
    <3>2. CASE l # Base
      <4>1. queues[l] \in Seq(Waiting(l))
        BY <1>4 DEF Lines, Line
      <4>2. queues[l][i] \in Waiting(l)
        BY <2>2, <4>1, InLine, Zenon
      <4> QED BY <2>1, <3>2, <4>2, Zenon
    <3> QED BY <3>1, <3>2
  <2>3. ASSUME NEW l \in IoLoops, NEW i \in 1..Len(ioBatch[l])
        PROVE  ioBatch[l][i] # f
    <3>1. ioBatch[l] \in Seq(Waiting(l))
      BY <1>4, Zenon DEF Lines, Line
    <3>2. ioBatch[l][i] \in Waiting(l)
      BY <2>3, <3>1, InLine, Zenon
    <3>3. l \in ServerLoops /\ l # Base
      BY <1>0, Zenon DEF ServerLoops
    <3> QED BY <2>1, <3>2, <3>3, Zenon
  <2> QED BY <2>2, <2>3, ZenonT(30) DEF Missing
<1> QED BY <1>1, <1>3, <1>4, <1>5, Zenon

LEMMA BatchPop ==
  ASSUME Lines(q, ioBatch), NEW l \in IoLoops, ioBatch[l] # <<>>
  PROVE  /\ Lines(q, [ioBatch EXCEPT ![l] = Tail(@)]) /\ Head(ioBatch[l]) \in Waiting(l)
         /\ Head(ioBatch[l]).op \in Once
              => Missing(Head(ioBatch[l]), q, [ioBatch EXCEPT ![l] = Tail(@)])
<1> DEFINE f == Head(ioBatch[l])
           batches == [k \in IoLoops |-> IF k = l THEN Tail(ioBatch[l]) ELSE ioBatch[k]]
<1>1. [ioBatch EXCEPT ![l] = Tail(@)] = batches
  BY Zenon DEF Lines
<1>2. Line(Waiting(l), ioBatch[l]) /\ Apart(ioBatch[l], q[l]) /\ l \in ServerLoops /\ l # Base
  BY ServerConstants DEF Lines, ServerLoops
<1>3. /\ Line(Waiting(l), Tail(ioBatch[l])) /\ f \in Waiting(l)
      /\ f = ioBatch[l][1] /\ 1 \in 1..Len(ioBatch[l])
      /\ f.op \in Once => \A i \in 1..Len(Tail(ioBatch[l])) : Tail(ioBatch[l])[i] # f
      /\ \A i \in 1..Len(Tail(ioBatch[l])) : /\ i + 1 \in 1..Len(ioBatch[l])
                                           /\ Tail(ioBatch[l])[i] = ioBatch[l][i + 1]
  BY <1>2, TailOfLine, Zenon
<1>4. Lines(q, batches)
  <2>1. \A k \in IoLoops : Line(Waiting(k), batches[k])
    BY <1>3, Zenon DEF Lines
  <2>2. Apart(Tail(ioBatch[l]), q[l])
    BY <1>2, <1>3, ApartTail, Zenon
  <2>3. \A k \in IoLoops : Apart(batches[k], q[k])
    BY <2>2, Zenon DEF Lines
  <2> QED BY <2>1, <2>3, Zenon DEF Lines
<1>5. ASSUME f.op \in Once
      PROVE  Missing(f, q, batches)
  <2>1. ASSUME NEW k \in ServerLoops, k # l
        PROVE  f \notin Waiting(k)
    BY <1>3, <1>5, <2>1, Zenon DEF Waiting, Once
  <2>2. ASSUME NEW k \in ServerLoops, NEW i \in 1..Len(q[k])
        PROVE  q[k][i] # f
    <3>1. CASE k = l
      BY <1>2, <1>3, <1>5, <2>2, <3>1, Zenon DEF Apart
    <3>2. CASE k # l
      <4>1. q[k] \in Seq(Waiting(k))
        BY DEF Lines, Line
      <4>2. q[k][i] \in Waiting(k)
        BY <2>2, <4>1, InLine, Zenon
      <4> QED BY <2>1, <3>2, <4>2, Zenon
    <3> QED BY <3>1, <3>2, Zenon
  <2>3. ASSUME NEW k \in IoLoops, NEW i \in 1..Len(batches[k])
        PROVE  batches[k][i] # f
    <3>1. CASE k = l
      BY <1>3, <1>5, <2>3, <3>1, Zenon
    <3>2. CASE k # l
      <4>1. batches[k] \in Seq(Waiting(k)) /\ k \in ServerLoops
        BY <1>4 DEF Lines, Line, ServerLoops
      <4>2. batches[k][i] \in Waiting(k)
        BY <2>3, <4>1, InLine, Zenon
      <4> QED BY <2>1, <3>2, <4>1, <4>2, Zenon
    <3> QED BY <3>1, <3>2
  <2> QED BY <2>2, <2>3, Zenon DEF Missing
<1> QED BY <1>1, <1>3, <1>4, <1>5, Zenon

(* newConnection: connectEstablished of the new connection runs at once or is
   posted, and nothing waits for its number yet. *)
LEMMA AcceptKeeps ==
  ASSUME MapInv, Lines(q, ioBatch), Server!NewConnection
  PROVE  MapInv' /\ Lines(q, ioBatch)'
<1> DEFINE c == nextId
<1>1. /\ c \in Server!Conns /\ c \in 1..MaxConns /\ nextId' = c + 1 /\ conns' = conns \cup {c}
      /\ UNCHANGED <<threads, phase, destroyed, ioBatch>>
      /\ st[c] = "kConnecting" /\ destroyed[c] = 0
  BY ServerConstants DEF MapInv, Server!NewConnection, Server!Conns
<1>2. CASE /\ threads = {} /\ io' = [io EXCEPT ![c] = Base]
           /\ st' = [st EXCEPT ![c] = "kConnected"] /\ q' = q
  <2>1. io' \in [Server!Conns -> ServerLoops] /\ \A d \in Server!Conns : d # c => io'[d] = io[d]
    BY <1>1, <1>2, Updated, Zenon DEF MapInv, ServerLoops
  <2>2. /\ st' \in [Server!Conns -> ServerStates]
        /\ \A d \in Server!Conns : d # c => st'[d] = st[d]
    BY <1>1, <1>2, Updated, Zenon DEF MapInv, ServerStates
  <2>3. MapInv'
    <3>1. nextId' \in 1..(MaxConns + 1) /\ conns' \subseteq 1..(nextId' - 1)
      BY <1>1, ServerConstants DEF MapInv
    <3>2. ASSUME NEW d \in Server!Conns
          PROVE  IF d < nextId' THEN /\ st'[d] # "kDisconnected" => d \in conns'
                                     /\ d \in conns' => destroyed'[d] = 0
                                ELSE st'[d] = "kConnecting" /\ destroyed'[d] = 0
      <4>1. CASE d = c
        BY <1>1, <4>1
      <4>2. CASE d # c
        <5>1. st'[d] = st[d] /\ (d \in conns' <=> d \in conns) /\ (d < nextId' <=> d < nextId)
          BY <1>1, <2>1, <2>2, <4>2 DEF Server!Conns
        <5> QED BY <1>1, <5>1 DEF MapInv
      <4> QED BY <4>1, <4>2
    <3> QED BY <1>1, <2>1, <2>2, <3>1, <3>2 DEF MapInv
  <2>4. ASSUME NEW l \in ServerLoops, NEW g \in Waiting(l)
        PROVE  g \in Waiting(l)'
    <3>1. g \in Server!Functors /\ g.conn \in Server!Conns /\ g.conn # c /\ g.conn < c + 1
      BY <1>1 DEF Waiting, Server!Functors, Server!Conns
    <3> QED BY <1>1, <2>1, <2>2, <3>1, Zenon DEF Waiting
  <2> QED BY <1>1, <1>2, <2>3, <2>4, LinesKept
<1>3. CASE \E l \in threads : /\ io' = [io EXCEPT ![c] = l] /\ st' = st
                              /\ q' = Server!Post(q, l, Server!F("establish", c))
  <2>1. PICK l \in threads : /\ io' = [io EXCEPT ![c] = l] /\ st' = st
                             /\ q' = Server!Post(q, l, Server!F("establish", c))
    BY <1>3, Zenon
  <2>2. l \in ServerLoops
    BY DEF MapInv, ServerLoops
  <2>3. /\ io' \in [Server!Conns -> ServerLoops] /\ io'[c] = l
        /\ \A d \in Server!Conns : d # c => io'[d] = io[d]
    BY <1>1, <2>1, <2>2, Updated, Zenon DEF MapInv
  <2>4. MapInv'
    <3>1. nextId' \in 1..(MaxConns + 1) /\ conns' \subseteq 1..(nextId' - 1)
      BY <1>1, ServerConstants DEF MapInv
    <3>2. ASSUME NEW d \in Server!Conns
          PROVE  IF d < nextId' THEN /\ st'[d] # "kDisconnected" => d \in conns'
                                     /\ d \in conns' => destroyed'[d] = 0
                                ELSE st'[d] = "kConnecting" /\ destroyed'[d] = 0
      <4>1. CASE d = c
        BY <1>1, <4>1
      <4>2. CASE d # c
        <5>1. st'[d] = st[d] /\ (d \in conns' <=> d \in conns) /\ (d < nextId' <=> d < nextId)
          BY <1>1, <2>1, <2>3, <4>2, SMTT(30) DEF Server!Conns
        <5> QED BY <1>1, <5>1 DEF MapInv
      <4> QED BY <4>1, <4>2
    <3> QED BY <1>1, <2>1, <2>3, <3>1, <3>2 DEF MapInv
  <2>5. ASSUME NEW k \in ServerLoops, NEW g \in Waiting(k)
        PROVE  g \in Waiting(k)'
    <3>1. g \in Server!Functors /\ g.conn \in Server!Conns /\ g.conn # c /\ g.conn < c + 1
      BY <1>1 DEF Waiting, Server!Functors, Server!Conns
    <3> QED BY <1>1, <2>1, <2>3, <3>1 DEF Waiting
  <2> DEFINE f == Server!F("establish", c)
  <2>6. f \in Server!Functors /\ f.op = "establish" /\ f.conn = c
    BY <1>1 DEF Server!F, Server!Functors
  <2>7. q' = Server!Post(q, l, f)
    BY <2>1
  <2> HIDE DEF f
  <2>8. f \in Waiting(l)'
    BY <1>1, <2>1, <2>3, <2>6 DEF Waiting
  <2>9. Missing(f, q, ioBatch)
    BY <1>1, <2>6, PresentWaits DEF Waiting
  <2> QED BY <1>1, <2>2, <2>4, <2>5, <2>7, <2>8, <2>9, LinesKept
<1> QED BY <1>2, <1>3 DEF Server!NewConnection, Server!ConnectEstablished

LEMMA DroppedLine == \A W, s : Line(W, <<>>) /\ Apart(<<>>, s) /\ Apart(s, <<>>)
  BY SMTT(30) DEF Line, Apart

(* The steps of the server while it is up. *)
LEMMA ServerStep ==
  ASSUME UpInv, [Server!Next]_(Server!vars)
  PROVE  UpInv'
<1> SUFFICES ASSUME phase' = "up"
             PROVE  MapInv' /\ Lines(q, ioBatch)'
  BY DEF UpInv
<1>1. phase = "up"
  BY Zenon DEF Server!Next, Server!vars, Server!NewConnection, Server!RunBase, Server!IdleScan,
         Server!DestroyServer, Server!Joined, Server!BaseExit, Server!PeerClosed, Server!QuitLoop,
         Server!LoopStep, Server!TakeBatch, Server!RunIo, Server!EndBatch
<1>2. MapInv /\ Lines(q, ioBatch)
  BY <1>1 DEF UpInv
<1>3. CASE Server!NewConnection
  BY <1>2, <1>3, AcceptKeeps
<1>4. CASE Server!RunBase
  <2>1. Base \in ServerLoops
    BY DEF ServerLoops
  <2>2. /\ q[Base] # <<>> /\ Server!Run(Head(q[Base]), [q EXCEPT ![Base] = Tail(@)])
        /\ UNCHANGED <<nextId, threads, io, ioBatch>>
    BY <1>4 DEF Server!RunBase
  <2> QED BY <1>1, <1>2, <2>1, <2>2, BasePop, RunKeeps
<1>5. CASE Server!IdleScan
  <2>1. PICK c \in conns :
          /\ st[c] = "kConnected"
          /\ \/ Server!HandleClose(c, q)
             \/ /\ st' = [st EXCEPT ![c] = "kDisconnecting"]
                /\ q' = Server!Post(q, io[c], Server!F("close", c)) /\ conns' = conns
    BY <1>5, Zenon DEF Server!IdleScan
  <2>2. /\ c \in 1..(nextId - 1) /\ c \in Server!Conns /\ io[c] \in ServerLoops
        /\ UNCHANGED <<nextId, threads, io, destroyed, ioBatch>>
    BY <1>2, <1>5, ServerConstants DEF MapInv, Server!IdleScan, Server!Conns
  <2>3. CASE Server!HandleClose(c, q)
    BY <1>2, <2>1, <2>2, <2>3, ServerCloseKeeps, Zenon
  <2>4. CASE /\ st' = [st EXCEPT ![c] = "kDisconnecting"]
             /\ q' = Server!Post(q, io[c], Server!F("close", c)) /\ conns' = conns
    <3>1. /\ st' \in [Server!Conns -> ServerStates] /\ st'[c] = "kDisconnecting"
          /\ \A d \in Server!Conns : d # c => st'[d] = st[d]
      BY <1>2, <2>2, <2>4, Updated, Zenon DEF MapInv, ServerStates
    <3>2. MapInv'
      BY <1>2, <2>2, <2>4, <3>1 DEF MapInv
    <3>3. \A l \in ServerLoops : \A g \in Waiting(l) : g \in Waiting(l)'
      BY <2>1, <2>2, <2>4, <3>1, Zenon DEF Waiting, Server!Functors
    <3> DEFINE f == Server!F("close", c)
    <3>4. f \in Server!Functors /\ f.op = "close" /\ f.conn = c
      BY <2>2 DEF Server!F, Server!Functors
    <3>5. q' = Server!Post(q, io[c], f)
      BY <2>4, Zenon
    <3> HIDE DEF f
    <3>6. f \in Waiting(io[c])' /\ f.op \notin Once
      BY <1>2, <2>2, <3>1, <3>4 DEF Waiting, MapInv, Once
    <3> QED BY <1>2, <2>2, <3>2, <3>3, <3>5, <3>6, LinesKept
  <2> QED BY <2>1, <2>3, <2>4, Zenon
<1>6. CASE \E c \in Server!Conns : Server!PeerClosed(c)
  <2>1. PICK c \in Server!Conns : Server!PeerClosed(c)
    BY <1>6
  <2>2. /\ st[c] \in {"kConnected", "kDisconnecting"} /\ Server!HandleClose(c, q)
        /\ UNCHANGED <<nextId, threads, io, destroyed, ioBatch>>
    BY <2>1, Zenon DEF Server!PeerClosed
  <2>3. c \in 1..(nextId - 1)
    BY <1>2, <2>2, ServerConstants DEF MapInv, Server!Conns
  <2> QED BY <1>2, <2>2, <2>3, ServerCloseKeeps
<1>7. CASE \E l \in threads : Server!RunIo(l)
  <2>1. PICK l \in threads : Server!RunIo(l)
    BY <1>7
  <2>2. l \in IoLoops /\ l \in ServerLoops
    BY <1>2 DEF MapInv, ServerLoops
  <2>3. /\ ioBatch[l] # <<>> /\ Server!Run(Head(ioBatch[l]), q)
        /\ ioBatch' = [ioBatch EXCEPT ![l] = Tail(@)] /\ UNCHANGED <<nextId, threads, io>>
    BY <2>1, Zenon DEF Server!RunIo
  <2> QED BY <1>1, <1>2, <2>2, <2>3, BatchPop, RunKeeps, Zenon
<1>8. CASE \E l \in threads : Server!TakeBatch(l)
  <2>1. PICK l \in threads : Server!TakeBatch(l)
    BY <1>8
  <2>2. l \in IoLoops /\ l \in ServerLoops
    BY <1>2 DEF MapInv, ServerLoops
  <2>3. MapInv' /\ \A k : Waiting(k)' = Waiting(k)
    BY <1>2, <2>1 DEF MapInv, Waiting, Server!TakeBatch, Server!connVars
  <2>4. /\ q' = [k \in ServerLoops |-> IF k = l THEN <<>> ELSE q[k]]
        /\ ioBatch' = [k \in IoLoops |-> IF k = l THEN q[l] ELSE ioBatch[k]]
    <3>1. q' = [q EXCEPT ![l] = <<>>] /\ ioBatch' = [ioBatch EXCEPT ![l] = q[l]]
      BY <2>1 DEF Server!TakeBatch
    <3>2. DOMAIN q = ServerLoops /\ DOMAIN ioBatch = IoLoops
      BY <1>2 DEF Lines
    <3> QED BY <3>1, <3>2, Zenon
  <2>5. \A k \in ServerLoops : Line(Waiting(k)', q'[k])
    BY <1>2, <2>3, <2>4, DroppedLine DEF Lines
  <2>6. \A k \in IoLoops : Line(Waiting(k)', ioBatch'[k]) /\ Apart(ioBatch'[k], q'[k])
    <3>1. \A k \in IoLoops : k \in ServerLoops
      BY DEF ServerLoops
    <3> QED BY <1>2, <2>2, <2>3, <2>4, <3>1, DroppedLine, Zenon DEF Lines
  <2>7. /\ DOMAIN q' = ServerLoops /\ q' = [k \in ServerLoops |-> q'[k]]
        /\ DOMAIN ioBatch' = IoLoops /\ ioBatch' = [k \in IoLoops |-> ioBatch'[k]]
    BY <2>4
  <2> QED BY <2>3, <2>5, <2>6, <2>7, Zenon DEF Lines
<1>9. CASE \E l \in threads : Server!EndBatch(l)
  <2>1. PICK l \in threads : Server!EndBatch(l)
    BY <1>9
  <2>2. l \in IoLoops /\ l \in ServerLoops
    BY <1>2 DEF MapInv, ServerLoops
  <2>3. MapInv' /\ \A k : Waiting(k)' = Waiting(k)
    BY <1>2, <2>1, Zenon DEF MapInv, Waiting, Server!EndBatch, Server!connVars
  <2>4. ioBatch' = ioBatch /\ q' \in {q, [q EXCEPT ![l] = <<>>]}
    BY <2>1 DEF Server!EndBatch
  <2>5. CASE q' = q
    BY <1>2, <2>3, <2>4, <2>5, Zenon DEF Lines
  <2>6. CASE q' = [q EXCEPT ![l] = <<>>]
    <3>1. q' = [k \in ServerLoops |-> IF k = l THEN <<>> ELSE q[k]]
      BY <1>2, <2>6, Zenon DEF Lines
    <3>2. \A k \in ServerLoops : Line(Waiting(k)', q'[k])
      BY <1>2, <2>3, <3>1, DroppedLine DEF Lines
    <3>3. \A k \in IoLoops : Line(Waiting(k)', ioBatch[k]) /\ Apart(ioBatch[k], q'[k])
      BY <1>2, <2>3, <3>1, DroppedLine DEF Lines, ServerLoops
    <3>4. DOMAIN q' = ServerLoops /\ q' = [k \in ServerLoops |-> q'[k]]
      BY <3>1
    <3> QED BY <1>2, <2>3, <2>4, <3>2, <3>3, <3>4 DEF Lines
  <2> QED BY <2>4, <2>5, <2>6
<1>10. CASE UNCHANGED Server!vars
  <2>1. UNCHANGED <<nextId, threads, io, st, destroyed, conns, q, ioBatch>>
    BY <1>10, Zenon DEF Server!vars, Server!connVars, Server!loopVars
  <2>2. MapInv' /\ \A k : Waiting(k)' = Waiting(k)
    BY <1>2, <2>1 DEF MapInv, Waiting
  <2> QED BY <1>2, <2>1, <2>2 DEF Lines
<1> QED
  BY <1>1, <1>3, <1>4, <1>5, <1>6, <1>7, <1>8, <1>9, <1>10
     DEF Server!Next, Server!LoopStep, Server!DestroyServer, Server!Joined, Server!BaseExit,
         Server!QuitLoop

LEMMA ServerInit == Server!Init => UpInv
<1> SUFFICES ASSUME Server!Init PROVE MapInv /\ Lines(q, ioBatch)
  BY DEF UpInv
<1>1. MapInv
  BY ServerConstants DEF Server!Init, MapInv, ServerLoops, ServerStates, Server!Conns
<1>2. Lines(q, ioBatch)
  BY DroppedLine DEF Server!Init, Lines, ServerLoops
<1> QED BY <1>1, <1>2

(* While the server is up its map holds every connection that is not closed,
   whatever the order of peers closing, idle scans and removals, and
   connectDestroyed runs at most once, after the erasure. *)
THEOREM MapHoldsTheLive == Server!Spec => []MapIsExact
<1>1. UpInv => MapIsExact
  BY ServerConstants DEF UpInv, MapInv, MapIsExact, Server!Conns
<1> QED BY <1>1, ServerInit, ServerStep, PTL DEF Server!Spec
-----------------------------------------------------------------------------
(***************************************************************************)
(* No connection of a TcpServer is leaked: the functor that takes it on    *)
(* waits for its loop.  queues and batches are those left when a functor   *)
(* has been taken and not run yet.                                         *)
(***************************************************************************)
Stands(f, l, queues, batches) ==
  Holds(queues[l], f) \/ (l \in IoLoops /\ Holds(batches[l], f))

Due(c, queues, batches) ==
  /\ st[c] = "kConnecting" => Stands(Server!F("establish", c), io[c], queues, batches)
  /\ st[c] = "kDisconnecting" => Stands(Server!F("close", c), io[c], queues, batches)
  /\ st[c] = "kDisconnected" /\ c \in conns => Stands(Server!F("remove", c), Base, queues, batches)
  /\ c \notin conns /\ destroyed[c] = 0 => Stands(Server!F("destroy", c), io[c], queues, batches)
AllDue(queues, batches) == \A c \in Server!Conns : c < nextId => Due(c, queues, batches)

(* While the server is up no IO loop was told to quit, and one that polls has run
   what it had taken. *)
DueInv ==
  phase = "up" =>
    /\ DOMAIN ioAt = IoLoops /\ DOMAIN ioQuit = IoLoops
    /\ \A l \in IoLoops : ioQuit[l] = FALSE /\ (ioAt[l] = "poll" => ioBatch[l] = <<>>)
    /\ AllDue(q, ioBatch)

LEMMA HeldAppend ==
  ASSUME NEW W, NEW s \in Seq(W), NEW f
  PROVE  Holds(Append(s, f), f) /\ \A g : Holds(s, g) => Holds(Append(s, f), g)
<1>1. /\ Len(Append(s, f)) = Len(s) + 1 /\ Len(s) \in Nat
      /\ \A j \in 1..Len(s) : Append(s, f)[j] = s[j]
      /\ Append(s, f)[Len(s) + 1] = f
  OBVIOUS
<1>2. Len(s) + 1 \in 1..(Len(s) + 1) /\ \A j \in 1..Len(s) : j \in 1..(Len(s) + 1)
  BY <1>1
<1> QED BY <1>1, <1>2, Zenon DEF Holds

LEMMA HeldTail ==
  ASSUME NEW W, NEW s \in Seq(W), s # <<>>
  PROVE  \A g : Holds(s, g) => g = Head(s) \/ Holds(Tail(s), g)
<1>1. /\ Len(s) \in Nat /\ Len(Tail(s)) = Len(s) - 1 /\ Head(s) = s[1]
      /\ \A i \in 1..Len(Tail(s)) : Tail(s)[i] = s[i + 1]
  OBVIOUS
<1>2. ASSUME NEW j \in 1..Len(s), j # 1 PROVE j - 1 \in 1..Len(Tail(s)) /\ Tail(s)[j - 1] = s[j]
  BY <1>1, <1>2
<1>3. ASSUME NEW g, Holds(s, g), g # Head(s) PROVE Holds(Tail(s), g)
  <2>1. PICK j \in 1..Len(s) : s[j] = g
    BY <1>3, Zenon DEF Holds
  <2>2. j # 1
    BY <1>1, <1>3, <2>1, Zenon
  <2> QED BY <1>2, <2>1, <2>2, Zenon DEF Holds
<1> QED BY <1>3, Zenon

LEMMA Named == \A op, c : Server!F(op, c).op = op /\ Server!F(op, c).conn = c
  BY DEF Server!F

LEMMA Accepted ==
  ASSUME MapInv
  PROVE  \A c \in 1..(nextId - 1) : c \in Server!Conns /\ c < nextId /\ io[c] \in ServerLoops
  BY ServerConstants DEF MapInv, Server!Conns

(* A functor that is posted stands in its queue, with all that stood there. *)
LEMMA PostedStands ==
  ASSUME NEW queues, NEW batches, Lines(queues, batches), NEW k \in ServerLoops, NEW f,
         q' = Server!Post(queues, k, f), ioBatch' = batches
  PROVE  /\ Stands(f, k, q', ioBatch')
         /\ \A l \in ServerLoops : \A g : Stands(g, l, queues, batches) => Stands(g, l, q', ioBatch')
<1>1. DOMAIN queues = ServerLoops /\ queues[k] \in Seq(Waiting(k))
  BY Zenon DEF Lines, Line
<1>2. q'[k] = Append(queues[k], f) /\ \A l \in ServerLoops : l # k => q'[l] = queues[l]
  <2>1. q' = [queues EXCEPT ![k] = Append(queues[k], f)]
    BY Zenon DEF Server!Post
  <2> QED BY <1>1, <2>1, Zenon
<1>3. Holds(q'[k], f) /\ \A g : Holds(queues[k], g) => Holds(q'[k], g)
  <2>1. Holds(Append(queues[k], f), f) /\ \A g : Holds(queues[k], g) => Holds(Append(queues[k], f), g)
    BY <1>1, HeldAppend, Zenon
  <2> QED BY <1>2, <2>1, Zenon
<1> QED BY <1>2, <1>3, Zenon DEF Stands

(* A connection that the step leaves alone is due as before. *)
LEMMA StaysDue ==
  ASSUME NEW d, NEW queues, NEW batches, io[d] \in ServerLoops,
         st'[d] = st[d], destroyed'[d] = destroyed[d], io'[d] = io[d], d \in conns' <=> d \in conns,
         \A l \in ServerLoops : \A g : Stands(g, l, queues, batches) => Stands(g, l, q', ioBatch'),
         Due(d, queues, batches)
  PROVE  Due(d, q, ioBatch)'
<1>1. Base \in ServerLoops
  BY Zenon DEF ServerLoops
<1>2. \A op, l : l \in ServerLoops /\ Stands(Server!F(op, d), l, queues, batches)
                => Stands(Server!F(op, d), l, q', ioBatch')
  BY Zenon
<1>3. \A op : Server!F(op, d)' = Server!F(op, d)
  BY Zenon DEF Server!F
<1> HIDE DEF Stands
<1> QED BY <1>1, <1>2, Zenon DEF Due, Server!F

(* handleClose: a connection that was open is handed on, to the base loop for its
   removal or at once to connectDestroyed. *)
LEMMA CloseIsDue ==
  ASSUME NEW queues, NEW batches, MapInv, Lines(queues, batches), ioBatch' = batches,
         NEW c \in 1..(nextId - 1), Server!HandleClose(c, queues),
         UNCHANGED <<nextId, io, destroyed>>,
         \A d \in Server!Conns : d # c /\ d < nextId => Due(d, queues, batches),
         st[c] = "kDisconnected" => Due(c, queues, batches)
  PROVE  AllDue(q, ioBatch)'
<1>1. c \in Server!Conns /\ c < nextId /\ io[c] \in ServerLoops /\ Base \in ServerLoops
  BY Accepted, Zenon DEF ServerLoops
<1>2. \A d \in Server!Conns : io[d] \in ServerLoops
  BY Zenon DEF MapInv
<1>3. CASE st[c] = "kDisconnected" /\ q' = queues /\ UNCHANGED <<st, conns>>
  <2>1. ASSUME NEW d \in Server!Conns, d < nextId PROVE Due(d, q, ioBatch)'
    <3>1. Due(d, queues, batches)
      BY <1>3, <2>1, Zenon
    <3>2. \A l \in ServerLoops : \A g : Stands(g, l, queues, batches) => Stands(g, l, q', ioBatch')
      BY <1>3, Zenon DEF Stands
    <3> QED BY <1>2, <1>3, <3>1, <3>2, StaysDue, Zenon
  <2> QED BY <2>1, Zenon DEF AllDue
<1>4. CASE st[c] # "kDisconnected" /\ st' = [st EXCEPT ![c] = "kDisconnected"]
  <2>1. st'[c] = "kDisconnected" /\ (\A d \in Server!Conns : d # c => st'[d] = st[d]) /\ c \in conns
    BY <1>1, <1>4, Zenon DEF MapInv
  <2>2. ASSUME NEW k \in ServerLoops, NEW f, q' = Server!Post(queues, k, f),
               \A d \in Server!Conns : d # c => (d \in conns' <=> d \in conns)
        PROVE  /\ Stands(f, k, q', ioBatch')
               /\ \A d \in Server!Conns : d # c /\ d < nextId => Due(d, q, ioBatch)'
    <3>1. /\ Stands(f, k, q', ioBatch')
          /\ \A l \in ServerLoops : \A g : Stands(g, l, queues, batches) => Stands(g, l, q', ioBatch')
      BY <2>2, PostedStands, Zenon
    <3>2. ASSUME NEW d \in Server!Conns, d # c, d < nextId PROVE Due(d, q, ioBatch)'
      BY <1>2, <2>1, <2>2, <3>1, <3>2, StaysDue, Zenon
    <3> QED BY <3>1, <3>2, Zenon
  <2>3. CASE q' = Server!Post(queues, io[c], Server!F("destroy", c)) /\ conns' = conns \ {c}
    <3>1. \A d \in Server!Conns : d # c => (d \in conns' <=> d \in conns)
      BY <2>3, Zenon
    <3>2. /\ Stands(Server!F("destroy", c), io[c], q', ioBatch')
          /\ \A d \in Server!Conns : d # c /\ d < nextId => Due(d, q, ioBatch)'
      BY <1>1, <2>2, <2>3, <3>1, Zenon
    <3>3. Due(c, q, ioBatch)'
      BY <2>1, <2>3, <3>2, Zenon DEF Due, Server!F
    <3> QED BY <3>2, <3>3, Zenon DEF AllDue
  <2>4. CASE q' = Server!Post(queues, Base, Server!F("remove", c)) /\ conns' = conns
    <3>1. \A d \in Server!Conns : d # c => (d \in conns' <=> d \in conns)
      BY <2>4, Zenon
    <3>2. /\ Stands(Server!F("remove", c), Base, q', ioBatch')
          /\ \A d \in Server!Conns : d # c /\ d < nextId => Due(d, q, ioBatch)'
      BY <1>1, <2>2, <2>4, <3>1, Zenon
    <3>3. Due(c, q, ioBatch)'
      BY <2>1, <2>4, <3>2, Zenon DEF Due, Server!F
    <3> QED BY <3>2, <3>3, Zenon DEF AllDue
  <2> QED BY <1>4, <2>1, <2>3, <2>4, Zenon DEF Server!HandleClose, Server!RemoveInLoop
<1> QED BY <1>3, <1>4, Zenon DEF Server!HandleClose

(* A functor that has been taken runs: what stood for its connection is that functor, and
   the functor puts the next one in its place. *)
LEMMA RunIsDue ==
  ASSUME NEW queues, NEW batches, MapInv, Lines(queues, batches), ioBatch' = batches,
         NEW l \in ServerLoops, NEW f \in Waiting(l), AllDue(q, ioBatch),
         \A k \in ServerLoops : \A g : Stands(g, k, q, ioBatch) => g = f \/ Stands(g, k, queues, batches),
         phase = "up", Server!Run(f, queues), UNCHANGED <<nextId, threads, io>>
  PROVE  AllDue(q, ioBatch)'
<1> DEFINE c == f.conn
<1>1. c \in 1..(nextId - 1) /\ f = Server!F(f.op, c)
  BY ServerConstants DEF Waiting, MapInv, Server!Conns, Server!Functors, Server!F
<1>2. c \in Server!Conns /\ c < nextId /\ Base \in ServerLoops /\ \A d \in Server!Conns : io[d] \in ServerLoops
  BY <1>1, Accepted, Zenon DEF ServerLoops, MapInv
<1>3. ASSUME NEW d \in Server!Conns, d < nextId, NEW op, NEW k \in ServerLoops,
             Stands(Server!F(op, d), k, q, ioBatch), d # c \/ op # f.op
      PROVE  Stands(Server!F(op, d), k, queues, batches)
  <2>1. Server!F(op, d) # f
    BY <1>1, <1>3, Named, Zenon
  <2> QED BY <1>3, <2>1, Zenon
<1>4. ASSUME NEW d \in Server!Conns, d # c, d < nextId PROVE Due(d, queues, batches)
  <2>1. Due(d, q, ioBatch)
    BY <1>4, Zenon DEF AllDue
  <2> QED BY <1>2, <1>3, <1>4, <2>1, Zenon DEF Due
<1>5. Due(c, q, ioBatch)
  BY <1>2, Zenon DEF AllDue
<1>6. ASSUME q' = queues, conns' = conns,
             \A d \in Server!Conns : d # c => st'[d] = st[d] /\ destroyed'[d] = destroyed[d],
             Due(c, q, ioBatch)'
      PROVE  AllDue(q, ioBatch)'
  <2>1. \A k \in ServerLoops : \A g : Stands(g, k, queues, batches) => Stands(g, k, q', ioBatch')
    BY <1>6, Zenon DEF Stands
  <2>2. ASSUME NEW d \in Server!Conns, d # c, d < nextId PROVE Due(d, q, ioBatch)'
    BY <1>2, <1>4, <1>6, <2>1, <2>2, StaysDue, Zenon
  <2> QED BY <1>6, <2>2, Zenon DEF AllDue
<1>7. CASE /\ f.op = "establish" /\ st' = [st EXCEPT ![c] = "kConnected"]
           /\ q' = queues /\ UNCHANGED <<conns, destroyed>>
  <2>1. /\ st'[c] = "kConnected" /\ (\A d \in Server!Conns : d # c => st'[d] = st[d])
        /\ st[c] = "kConnecting"
    BY <1>2, <1>7, Zenon DEF MapInv, Waiting
  <2>2. c \in conns
    BY <1>2, <2>1, Zenon DEF MapInv
  <2>3. Due(c, q, ioBatch)'
    BY <1>7, <2>1, <2>2, Zenon DEF Due
  <2> QED BY <1>6, <1>7, <2>1, <2>3, Zenon
<1>8. CASE f.op = "close" /\ Server!HandleClose(c, queues) /\ destroyed' = destroyed
  <2>1. st[c] = "kDisconnected" => Due(c, queues, batches)
    BY <1>2, <1>3, <1>5, <1>8, Zenon DEF Due
  <2> QED BY <1>1, <1>4, <1>8, <2>1, CloseIsDue, Zenon
<1>9. CASE /\ f.op = "destroy"
           /\ st' = [st EXCEPT ![c] = IF @ = "kConnected" THEN "kDisconnected" ELSE @]
           /\ destroyed' = [destroyed EXCEPT ![c] = @ + 1]
           /\ q' = queues /\ UNCHANGED conns
  <2>1. c \notin conns /\ destroyed[c] = 0
    BY <1>9, Zenon DEF Waiting
  <2>2. st[c] = "kDisconnected"
    BY <1>2, <2>1, Zenon DEF MapInv
  <2>3. /\ st'[c] = "kDisconnected" /\ destroyed'[c] = destroyed[c] + 1
        /\ \A d \in Server!Conns : d # c => st'[d] = st[d] /\ destroyed'[d] = destroyed[d]
    BY <1>2, <1>9, <2>2, Zenon DEF MapInv
  <2>4. destroyed'[c] # 0
    <3>1. 0 + 1 # 0
      BY ONLY SMT
    <3> QED BY <2>1, <2>3, <3>1, Zenon
  <2>5. Due(c, q, ioBatch)'
    BY <1>9, <2>1, <2>3, <2>4, Zenon DEF Due
  <2> QED BY <1>6, <1>9, <2>3, <2>5, Zenon
<1>10. CASE f.op = "remove" /\ Server!RemoveInLoop(c, queues) /\ UNCHANGED <<st, destroyed>>
  <2>1. st[c] = "kDisconnected"
    BY <1>10, Zenon DEF Waiting
  <2>2. CASE c \in conns
    <3>1. conns' = conns \ {c} /\ q' = Server!Post(queues, io[c], Server!F("destroy", c))
      BY <1>10, <2>2, Zenon DEF Server!RemoveInLoop
    <3>2. /\ Stands(Server!F("destroy", c), io[c], q', ioBatch')
          /\ \A k \in ServerLoops : \A g : Stands(g, k, queues, batches) => Stands(g, k, q', ioBatch')
      BY <1>2, <3>1, PostedStands, Zenon
    <3>3. ASSUME NEW d \in Server!Conns, d # c, d < nextId PROVE Due(d, q, ioBatch)'
      <4>1. d \in conns' <=> d \in conns
        BY <3>1, <3>3, Zenon
      <4> QED BY <1>2, <1>4, <1>10, <3>2, <3>3, <4>1, StaysDue, Zenon
    <3>4. Due(c, q, ioBatch)'
      BY <1>10, <2>1, <3>1, <3>2, Zenon DEF Due, Server!F
    <3> QED BY <3>3, <3>4, Zenon DEF AllDue
  <2>3. CASE c \notin conns
    <3>1. conns' = conns /\ q' = queues
      BY <1>10, <2>3, Zenon DEF Server!RemoveInLoop
    <3>2. Due(c, queues, batches)
      BY <1>2, <1>3, <1>5, <1>10, <2>1, <2>3, Zenon DEF Due
    <3>3. \A k \in ServerLoops : \A g : Stands(g, k, queues, batches) => Stands(g, k, q', ioBatch')
      BY <3>1, Zenon DEF Stands
    <3>4. Due(c, q, ioBatch)'
      BY <1>2, <1>10, <3>1, <3>2, <3>3, StaysDue, Zenon
    <3> QED BY <1>6, <1>10, <3>1, <3>4, Zenon
  <2> QED BY <2>2, <2>3, Zenon
<1> QED BY <1>7, <1>8, <1>9, <1>10, Zenon
        DEF Server!Run, Server!ConnectEstablished, Server!ConnectDestroyed

(* All but the functor that is taken goes on standing. *)
LEMMA BasePopStands ==
  ASSUME Lines(q, ioBatch), q[Base] # <<>>, NEW k \in ServerLoops, NEW g, Stands(g, k, q, ioBatch)
  PROVE  g = Head(q[Base]) \/ Stands(g, k, [q EXCEPT ![Base] = Tail(@)], ioBatch)
<1>1. Base \in ServerLoops /\ DOMAIN q = ServerLoops
  BY Zenon DEF Lines, ServerLoops
<1>2. q[Base] \in Seq(Waiting(Base))
  BY <1>1, Zenon DEF Lines, Line
<1>3. Holds(q[Base], g) => g = Head(q[Base]) \/ Holds(Tail(q[Base]), g)
  BY <1>2, HeldTail, Zenon
<1>4. /\ [q EXCEPT ![Base] = Tail(@)][Base] = Tail(q[Base])
      /\ k # Base => [q EXCEPT ![Base] = Tail(@)][k] = q[k]
  BY <1>1, Zenon
<1> QED BY <1>3, <1>4, Zenon DEF Stands

LEMMA BatchPopStands ==
  ASSUME Lines(q, ioBatch), NEW l \in IoLoops, ioBatch[l] # <<>>,
         NEW k \in ServerLoops, NEW g, Stands(g, k, q, ioBatch)
  PROVE  g = Head(ioBatch[l]) \/ Stands(g, k, q, [ioBatch EXCEPT ![l] = Tail(@)])
<1>1. DOMAIN ioBatch = IoLoops /\ ioBatch[l] \in Seq(Waiting(l))
  BY Zenon DEF Lines, Line
<1>2. Holds(ioBatch[l], g) => g = Head(ioBatch[l]) \/ Holds(Tail(ioBatch[l]), g)
  BY <1>1, HeldTail, Zenon
<1>3. /\ [ioBatch EXCEPT ![l] = Tail(@)][l] = Tail(ioBatch[l])
      /\ \A j \in IoLoops : j # l => [ioBatch EXCEPT ![l] = Tail(@)][j] = ioBatch[j]
  BY <1>1, Zenon
<1> QED BY <1>2, <1>3, Zenon DEF Stands

(* newConnection: connectEstablished has run or stands in the queue of the new
   connection's loop. *)
LEMMA AcceptIsDue ==
  ASSUME MapInv, Lines(q, ioBatch), AllDue(q, ioBatch), Server!NewConnection
  PROVE  AllDue(q, ioBatch)'
<1> PICK c : c = nextId
  OBVIOUS
<1>1. /\ c \in Server!Conns /\ nextId' = c + 1 /\ conns' = conns \cup {c}
      /\ UNCHANGED <<destroyed, ioBatch>> /\ st[c] = "kConnecting"
  BY ServerConstants DEF MapInv, Server!NewConnection, Server!Conns
<1>2. \A d \in Server!Conns : d < nextId' => d = c \/ (d < nextId /\ d # c)
  BY <1>1 DEF Server!Conns
<1>3. \A d \in Server!Conns : io[d] \in ServerLoops
  BY Zenon DEF MapInv
<1>4. ASSUME \A d \in Server!Conns : d # c => io'[d] = io[d] /\ st'[d] = st[d],
             \A l \in ServerLoops : \A g : Stands(g, l, q, ioBatch) => Stands(g, l, q', ioBatch'),
             Due(c, q, ioBatch)'
      PROVE  AllDue(q, ioBatch)'
  <2>1. ASSUME NEW d \in Server!Conns, d < nextId, d # c PROVE Due(d, q, ioBatch)'
    <3>1. Due(d, q, ioBatch) /\ (d \in conns' <=> d \in conns)
      BY <1>1, <2>1, Zenon DEF AllDue
    <3> QED BY <1>1, <1>3, <1>4, <2>1, <3>1, StaysDue, Zenon
  <2> QED BY <1>2, <1>4, <2>1, Zenon DEF AllDue
<1>5. CASE /\ threads = {} /\ io' = [io EXCEPT ![c] = Base]
           /\ st' = [st EXCEPT ![c] = "kConnected"] /\ q' = q
  <2>1. /\ \A d \in Server!Conns : d # c => io'[d] = io[d] /\ st'[d] = st[d]
        /\ st'[c] = "kConnected"
    BY <1>1, <1>5, Zenon DEF MapInv
  <2>2. \A l \in ServerLoops : \A g : Stands(g, l, q, ioBatch) => Stands(g, l, q', ioBatch')
    BY <1>1, <1>5, Zenon DEF Stands
  <2>3. Due(c, q, ioBatch)'
    BY <1>1, <2>1, Zenon DEF Due
  <2> QED BY <1>4, <2>1, <2>2, <2>3, Zenon
<1>6. CASE \E l \in threads : /\ io' = [io EXCEPT ![c] = l] /\ st' = st
                              /\ q' = Server!Post(q, l, Server!F("establish", c))
  <2>1. PICK l \in threads : /\ io' = [io EXCEPT ![c] = l] /\ st' = st
                             /\ q' = Server!Post(q, l, Server!F("establish", c))
    BY <1>6, Zenon
  <2>2. /\ \A d \in Server!Conns : d # c => io'[d] = io[d] /\ st'[d] = st[d]
        /\ io'[c] = l /\ l \in ServerLoops
    BY <1>1, <2>1, Zenon DEF MapInv, ServerLoops
  <2>3. /\ Stands(Server!F("establish", c), l, q', ioBatch')
        /\ \A k \in ServerLoops : \A g : Stands(g, k, q, ioBatch) => Stands(g, k, q', ioBatch')
    BY <1>1, <2>1, <2>2, PostedStands, Zenon
  <2>4. Due(c, q, ioBatch)'
    BY <1>1, <2>1, <2>2, <2>3, Zenon DEF Due, Server!F
  <2> QED BY <1>4, <2>2, <2>3, <2>4, Zenon
<1> QED BY <1>5, <1>6, Zenon DEF Server!NewConnection, Server!ConnectEstablished

(* Steps after which all that stood stands, and that change no connection. *)
LEMMA QuietStep ==
  ASSUME MapInv, AllDue(q, ioBatch), UNCHANGED <<nextId, conns, io, st, destroyed>>,
         \A l \in ServerLoops : \A g : Stands(g, l, q, ioBatch) => Stands(g, l, q', ioBatch')
  PROVE  AllDue(q, ioBatch)'
<1>1. ASSUME NEW d \in Server!Conns, d < nextId PROVE Due(d, q, ioBatch)'
  <2>1. Due(d, q, ioBatch) /\ io[d] \in ServerLoops
    BY <1>1, Zenon DEF AllDue, MapInv
  <2> QED BY <2>1, StaysDue, Zenon
<1> QED BY <1>1, Zenon DEF AllDue

(* The idle scan and a peer that closes. *)
LEMMA EndIsDue ==
  ASSUME MapInv, Lines(q, ioBatch), AllDue(q, ioBatch),
         Server!IdleScan \/ \E c \in Server!Conns : Server!PeerClosed(c)
  PROVE  AllDue(q, ioBatch)'
<1> DEFINE Closing(c) == /\ c \in conns /\ st' = [st EXCEPT ![c] = "kDisconnecting"]
                         /\ q' = Server!Post(q, io[c], Server!F("close", c)) /\ conns' = conns
<1>1. \E c \in 1..(nextId - 1) : Server!HandleClose(c, q) \/ Closing(c)
  <2>1. CASE Server!IdleScan
    <3>1. PICK c \in conns : Server!HandleClose(c, q) \/ Closing(c)
      BY <2>1, Zenon DEF Server!IdleScan
    <3>2. c \in 1..(nextId - 1)
      BY ServerConstants DEF MapInv, Server!Conns
    <3> QED BY <3>1, <3>2, Zenon
  <2>2. ASSUME NEW c \in Server!Conns, Server!PeerClosed(c)
        PROVE  c \in 1..(nextId - 1) /\ Server!HandleClose(c, q)
    <3>1. st[c] # "kConnecting" /\ Server!HandleClose(c, q)
      BY <2>2, Zenon DEF Server!PeerClosed
    <3> QED BY <3>1, ServerConstants DEF MapInv, Server!Conns
  <2> QED BY <2>1, <2>2, Zenon
<1>2. UNCHANGED <<nextId, io, destroyed, ioBatch>>
  BY Zenon DEF Server!IdleScan, Server!PeerClosed
<1>3. PICK c \in 1..(nextId - 1) : Server!HandleClose(c, q) \/ Closing(c)
  BY <1>1, Zenon
<1>4. c \in Server!Conns /\ c < nextId /\ \A d \in Server!Conns : io[d] \in ServerLoops
  BY <1>3, Accepted, Zenon DEF MapInv
<1>5. CASE Server!HandleClose(c, q)
  BY <1>2, <1>3, <1>4, <1>5, CloseIsDue, Zenon DEF AllDue
<1>6. CASE Closing(c)
  <2>1. st'[c] = "kDisconnecting" /\ \A d \in Server!Conns : d # c => st'[d] = st[d]
    BY <1>4, <1>6, Zenon DEF MapInv
  <2>2. /\ Stands(Server!F("close", c), io[c], q', ioBatch')
        /\ \A k \in ServerLoops : \A g : Stands(g, k, q, ioBatch) => Stands(g, k, q', ioBatch')
    BY <1>2, <1>4, <1>6, PostedStands, Zenon
  <2>3. ASSUME NEW d \in Server!Conns, d # c, d < nextId PROVE Due(d, q, ioBatch)'
    <3>1. Due(d, q, ioBatch)
      BY <2>3, Zenon DEF AllDue
    <3> QED BY <1>2, <1>4, <1>6, <2>1, <2>2, <2>3, <3>1, StaysDue, Zenon
  <2>4. Due(c, q, ioBatch)'
    BY <1>2, <1>6, <2>1, <2>2, Zenon DEF Due, Server!F
  <2> QED BY <1>2, <2>3, <2>4, Zenon DEF AllDue
<1> QED BY <1>3, <1>5, <1>6, Zenon

(* doPendingFunctors takes the queue into an empty batch. *)
LEMMA TakenStands ==
  ASSUME Lines(q, ioBatch), NEW l \in IoLoops, ioBatch[l] = <<>>,
         ioBatch' = [ioBatch EXCEPT ![l] = q[l]], q' = [q EXCEPT ![l] = <<>>]
  PROVE  \A k \in ServerLoops : \A g : Stands(g, k, q, ioBatch) => Stands(g, k, q', ioBatch')
<1>1. DOMAIN q = ServerLoops /\ DOMAIN ioBatch = IoLoops /\ l \in ServerLoops
  BY Zenon DEF Lines, ServerLoops
<1>2. \A g : ~Holds(<<>>, g)
  BY DEF Holds
<1>3. /\ ioBatch'[l] = q[l] /\ \A k \in IoLoops : k # l => ioBatch'[k] = ioBatch[k]
      /\ \A k \in ServerLoops : k # l => q'[k] = q[k]
  BY <1>1, Zenon
<1>4. ASSUME NEW k \in ServerLoops, NEW g, Stands(g, k, q, ioBatch) PROVE Stands(g, k, q', ioBatch')
  <2>1. CASE k = l
    <3>1. Holds(q[l], g)
      BY <1>2, <1>4, <2>1, Zenon DEF Stands
    <3> QED BY <1>3, <2>1, <3>1, Zenon DEF Stands
  <2>2. CASE k # l
    BY <1>3, <1>4, <2>2, Zenon DEF Stands
  <2> QED BY <2>1, <2>2, Zenon
<1> QED BY <1>4, Zenon

LEMMA DueStep ==
  ASSUME UpInv, DueInv, [Server!Next]_(Server!vars)
  PROVE  DueInv'
<1> DEFINE Resting == /\ DOMAIN ioAt = IoLoops /\ DOMAIN ioQuit = IoLoops
                      /\ \A l \in IoLoops : /\ ioQuit[l] = FALSE
                                            /\ ioAt[l] = "poll" => ioBatch[l] = <<>>
<1> SUFFICES ASSUME phase' = "up"
             PROVE  Resting' /\ AllDue(q, ioBatch)'
  BY Zenon DEF DueInv
<1>1. phase = "up"
  BY Zenon DEF Server!Next, Server!vars, Server!NewConnection, Server!RunBase, Server!IdleScan,
         Server!DestroyServer, Server!Joined, Server!BaseExit, Server!PeerClosed, Server!QuitLoop,
         Server!LoopStep, Server!TakeBatch, Server!RunIo, Server!EndBatch
<1>2. MapInv /\ Lines(q, ioBatch) /\ Resting /\ AllDue(q, ioBatch)
  BY <1>1, Zenon DEF UpInv, DueInv
<1>3. ASSUME UNCHANGED <<ioAt, ioQuit, ioBatch>> PROVE Resting'
  BY <1>2, <1>3, Zenon
<1>4. CASE Server!NewConnection
  <2>1. UNCHANGED <<ioAt, ioQuit, ioBatch>>
    BY <1>4, Zenon DEF Server!NewConnection
  <2> QED BY <1>2, <1>3, <1>4, <2>1, AcceptIsDue, Zenon
<1>5. CASE Server!RunBase
  <2> DEFINE left == [q EXCEPT ![Base] = Tail(@)]
  <2>1. /\ q[Base] # <<>> /\ Server!Run(Head(q[Base]), left)
        /\ UNCHANGED <<nextId, threads, io, ioBatch, ioAt, ioQuit>> /\ Base \in ServerLoops
    BY <1>5, Zenon DEF Server!RunBase, ServerLoops
  <2>2. Lines(left, ioBatch) /\ Head(q[Base]) \in Waiting(Base)
    BY <1>2, <2>1, BasePop, Zenon
  <2>3. \A k \in ServerLoops : \A g : Stands(g, k, q, ioBatch)
                                       => g = Head(q[Base]) \/ Stands(g, k, left, ioBatch)
    BY <1>2, <2>1, BasePopStands, Zenon
  <2> HIDE DEF left
  <2> QED BY <1>1, <1>2, <1>3, <2>1, <2>2, <2>3, RunIsDue, Zenon
<1>6. CASE Server!IdleScan \/ \E c \in Server!Conns : Server!PeerClosed(c)
  <2>1. UNCHANGED <<ioAt, ioQuit, ioBatch>>
    BY <1>6, Zenon DEF Server!IdleScan, Server!PeerClosed
  <2> QED BY <1>2, <1>3, <1>6, <2>1, EndIsDue, Zenon
<1>7. ASSUME NEW l \in threads, Server!TakeBatch(l) PROVE Resting' /\ AllDue(q, ioBatch)'
  <2>1. /\ l \in IoLoops /\ ioBatch[l] = <<>> /\ ioQuit' = ioQuit
        /\ ioAt' = [ioAt EXCEPT ![l] = "batch"]
        /\ ioBatch' = [ioBatch EXCEPT ![l] = q[l]] /\ q' = [q EXCEPT ![l] = <<>>]
        /\ UNCHANGED <<nextId, conns, io, st, destroyed>>
    BY <1>2, <1>7, Zenon DEF Server!TakeBatch, Server!connVars, MapInv
  <2>2. Resting'
    <3>1. DOMAIN ioAt' = IoLoops /\ ioAt'[l] # "poll"
      BY <1>2, <2>1, Zenon
    <3>2. \A k \in IoLoops : k # l => ioAt'[k] = ioAt[k] /\ ioBatch'[k] = ioBatch[k]
      BY <1>2, <2>1, Zenon DEF Lines
    <3> QED BY <1>2, <2>1, <3>1, <3>2, Zenon
  <2>3. AllDue(q, ioBatch)'
    BY <1>2, <2>1, TakenStands, QuietStep, Zenon
  <2> QED BY <2>2, <2>3, Zenon
<1>8. ASSUME NEW l \in threads, Server!RunIo(l) PROVE Resting' /\ AllDue(q, ioBatch)'
  <2> DEFINE left == [ioBatch EXCEPT ![l] = Tail(@)]
  <2>1. /\ l \in IoLoops /\ l \in ServerLoops /\ ioAt[l] = "batch" /\ ioBatch[l] # <<>>
        /\ ioBatch' = left /\ Server!Run(Head(ioBatch[l]), q)
        /\ UNCHANGED <<nextId, threads, io, ioAt, ioQuit>>
    BY <1>2, <1>8, Zenon DEF Server!RunIo, MapInv, ServerLoops
  <2>2. Lines(q, left) /\ Head(ioBatch[l]) \in Waiting(l)
    BY <1>2, <2>1, BatchPop, Zenon
  <2>3. \A k \in ServerLoops : \A g : Stands(g, k, q, ioBatch)
                                       => g = Head(ioBatch[l]) \/ Stands(g, k, q, left)
    BY <1>2, <2>1, BatchPopStands, Zenon
  <2>4. Resting'
    <3>1. ioAt'[l] # "poll" /\ \A k \in IoLoops : k # l => ioBatch'[k] = ioBatch[k]
      BY <1>2, <2>1, Zenon DEF Lines
    <3> QED BY <1>2, <2>1, <3>1, Zenon
  <2> HIDE DEF left
  <2>5. AllDue(q, ioBatch)'
    BY <1>1, <1>2, <2>1, <2>2, <2>3, RunIsDue, Zenon
  <2> QED BY <2>4, <2>5, Zenon
<1>9. ASSUME NEW l \in threads, Server!EndBatch(l) PROVE Resting' /\ AllDue(q, ioBatch)'
  <2>1. l \in IoLoops /\ ioQuit[l] = FALSE
    BY <1>2, <1>9, Zenon DEF MapInv
  <2>2. /\ ioBatch[l] = <<>> /\ ioAt' = [ioAt EXCEPT ![l] = "poll"]
        /\ q' = q /\ UNCHANGED <<nextId, conns, io, st, destroyed, ioBatch, ioQuit>>
    BY <1>9, <2>1, Zenon DEF Server!EndBatch, Server!connVars
  <2>3. Resting'
    <3>1. DOMAIN ioAt' = IoLoops /\ \A k \in IoLoops : k # l => ioAt'[k] = ioAt[k]
      BY <1>2, <2>1, <2>2, Zenon
    <3> QED BY <1>2, <2>1, <2>2, <3>1, Zenon
  <2>4. \A k \in ServerLoops : \A g : Stands(g, k, q, ioBatch) => Stands(g, k, q', ioBatch')
    BY <2>2, Zenon DEF Stands
  <2>5. AllDue(q, ioBatch)'
    BY <1>2, <2>2, <2>4, QuietStep, Zenon
  <2> QED BY <2>3, <2>5, Zenon
<1>10. CASE UNCHANGED Server!vars
  <2>1. UNCHANGED <<nextId, conns, io, st, destroyed, q, ioBatch, ioAt, ioQuit>>
    BY <1>10, Zenon DEF Server!vars, Server!connVars, Server!loopVars
  <2>2. \A k \in ServerLoops : \A g : Stands(g, k, q, ioBatch) => Stands(g, k, q', ioBatch')
    BY <2>1, Zenon DEF Stands
  <2> QED BY <1>2, <1>3, <2>1, <2>2, QuietStep, Zenon
<1>11. ASSUME Server!DestroyServer \/ Server!Joined \/ Server!BaseExit
              \/ \E l \in threads : Server!QuitLoop(l)
       PROVE  FALSE
  BY <1>1, <1>11 DEF Server!DestroyServer, Server!Joined, Server!BaseExit, Server!QuitLoop
<1> HIDE DEF Resting
<1> QED BY <1>4, <1>5, <1>6, <1>7, <1>8, <1>9, <1>10, <1>11, Zenon DEF Server!Next, Server!LoopStep

(* Between two loops no connection of a TcpServer that is up is leaked: one that is to be
   established, closed, removed or destroyed has connectEstablished, handleClose,
   removeConnectionInLoop or connectDestroyed waiting for the loop that runs it. *)
THEOREM NoConnectionIsLeaked == Server!Spec => []NoneIsLeaked
<1>1. Server!Init => UpInv /\ DueInv
  <2> SUFFICES ASSUME Server!Init PROVE DueInv
    BY ServerInit, Zenon
  <2>1. \A c \in Server!Conns : ~(c < nextId)
    BY DEF Server!Init, Server!Conns
  <2> QED BY <2>1, Zenon DEF Server!Init, DueInv, AllDue
<1>2. UpInv /\ DueInv => NoneIsLeaked
  <2> SUFFICES ASSUME UpInv, DueInv, phase = "up", NEW c \in 1..(nextId - 1)
               PROVE  Due(c, q, ioBatch)
    BY Zenon DEF NoneIsLeaked, Due, Stands, Awaits, Server!F
  <2> QED BY Accepted, Zenon DEF UpInv, DueInv, AllDue
<1>3. UpInv /\ DueInv /\ [Server!Next]_(Server!vars) => (UpInv /\ DueInv)'
  BY ServerStep, DueStep
<1> QED BY <1>1, <1>2, <1>3, PTL DEF Server!Spec

(* While a TcpServer is up it keeps its connections: whatever the order of peers closing,
   idle scans, removals and the loops' batches, a live one is in the map, and one that is on
   its way has its next functor waiting, up to connectDestroyed, which runs once. *)
THEOREM ServerKeepsConnections == Server!Spec => []ConnectionsAreKept
  BY MapHoldsTheLive, NoConnectionIsLeaked, PTL DEF ConnectionsAreKept
=============================================================================
