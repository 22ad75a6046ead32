# A TLA+ model of the RPC framework

This directory holds TLA+ specifications of the concurrent and stateful parts of the
framework, the TLC runs that check them on small instances, and TLAPS proofs of the
properties that matter most, for every value of the constants.

Run a check with `tlc -config MCPool.cfg MCPool`, a proof with `tlapm LoopsProofs.tla`.
`PROJECT.json` maps every definition that models code to its source lines and lists the
runs, the faults each property detects, the hazards and the theorems.

## 1. The system

The framework is a C++14 RPC library on epoll, in the reactor style.

| part | state | operations | shared between |
|---|---|---|---|
| `EventLoop` | functor queue, timer heap, `quit_`, eventfd | `loop`, `queueInLoop`, `runAfter`, `runEvery`, `cancelTimer`, `quit` | its own thread and any thread that posts |
| `EventLoopThread`, `EventLoopThreadPool` | thread, `loop_`, next index | `startLoop`, `stop`, `getNextLoop`, destructor | the base thread and the loop threads |
| `TcpConnection` (with `Channel`) | `state_`, output buffer, epoll interest | `send`, `shutdown`, `forceClose`, `handleRead/Write/Close/Error` | the loop thread and senders |
| `TcpServer` | connection map, IO loops | `newConnection`, removal, idle scan, destructor | base loop and IO loops |
| `TcpClient`, `Connector` | `connection_`, connector state, retry timers, `connect_`, `disconnecting_` | `connect`, `stop`, `disconnect`, `disconnectPermanently`, `ensureConnected` | loop thread and users |
| `Acceptor`, `Socket` | listening descriptor | `listen`, `handleRead`, destructor | the base loop and the kernel |
| `Buffer` | vector, reader and writer index | `append`, `retrieve…`, `readFd`, `writeFd` | one loop thread |
| generated messages, `Codec` | message fields; receive buffer | parse, serialise, merge; `encode…`, `decode` | one thread |
| `RpcServer`, `RpcService` | services, methods | `registerService`, `registerMethod`, `onMessage`, `callMethod` | one loop thread per connection |
| `RpcAsyncClient` | pending tables, timers, breaker | `asyncCall`, `handleResponse`, `handleTimeout`, `disconnect`, destructor | callers, loop thread, owner |
| `RpcAsyncClient` with a registry | endpoints, policy, ring, index | `connectViaRegistry`, `setLBPolicy`, `getTcpClient` | callers, owner, loop threads |
| `InterceptorChain`, `RpcSyncClient` | interceptors | `execute`, `preHandle`, `postHandle`; `call` | callers |
| `ConnectionPool` | clients, claims, next index | `createPool`, `acquire`, `release`, destructor | users |
| `InlineSyncClient`, `InlinePipelineClient` | pending requests, deadlines | `call`; `submit`, `pumpOnce` | one thread and the network |
| `CircuitBreaker` | `state_`, counts, `openedAt_` | `allowRequest`, `recordSuccess`, `recordFailure` | callers, loop threads |
| `TokenBucket`, `RedisTokenBucket` | tokens, time of refill | `allow`, `setRate` | callers; processes through Redis |
| `ConsistentHash`, `MemoryRegistry` | ring; table of nodes | `addNode`, `removeNode`, `getNode`; register, heartbeat, cleanup | callers |
| `EtcdRegistry` | lease, watched services | register, deregister, discover, watch loop | callers, watch threads, etcd |

What is hard in it: work handed from thread to thread by functors and timers that hold
raw or shared pointers; atomics read in one step and used in the next; replies, timeouts,
disconnections and destructors that compete for one pending call; connections that are
lent to several clients; streams that are cut anywhere.

## 2. The modules

Each component is a module of its own: its members are VARIABLES, each handler is an action,
and what the program does not control (the peer, the network, the clock, Redis) is marked
external. A definition whose name ends in `_Something` is a fault: a plausible slip in the
definition below it, which shows that a property notices. A property that joins two
statements has a fault for each: `PROJECT.json` lists one, and the other (`Interest_Kept`,
`RetryTimer_NoTest`, `HandleClose_Silent`, `Probe_OneShort`, `DecodeGood_Once`,
`SetRate_NoRefill`) is found in the same way. Variables marked *history* are read by no
action and serve the properties.

| module | models | granularity and abstraction |
|---|---|---|
| `CircuitBreaker` | the breaker | one access to an atomic, or one critical section with one, per step; time is the age of `openedAt_` |
| `TokenBucket` | the local limiter | one locked method per step; whole tokens and ticks |
| `RedisTokenBucket` | the Redis limiter | sending the command, running the script and reading the answer are apart; clocks may differ by an offset |
| `EventLoop` | the loop, its queue and timers | the statements of `loopOnce` between which other threads can act |
| `EventLoopThreadPool` | loop threads and pool | start, publication, entry, quit and join are apart |
| `TcpConnection` | one connection on its loop | a message is two bytes, a write takes some of what is there; one step per callback of `Channel::handleEvent` |
| `TcpServer` | base loop, IO loops, connections | one functor per step; `threads` is `{}` when everything runs on the base loop |
| `TcpClient` | `TcpClient` with its `Connector` | user calls are split where they touch shared state; back-off delays are "some time later" |
| `Acceptor` | `Acceptor` and the `Socket`s it makes | one accept per report of epoll; a limited number of descriptors |
| `Buffer` | `Buffer` | the vector byte by byte; the k-th byte put in has the value k |
| `Messages` | the nine generated classes | functions on records; the wire is the sequence of fields written, with their sizes |
| `MessageCalls` | two objects of those classes | one call of their interface per step |
| `Codec` | the encoders and decoders | a body is the sequence of items appended, with their sizes and widths |
| `RpcServer` | `RpcServer`, `RpcService` and the client's end | an exchange of whole packets, decoded into an object that earlier packets were decoded into |
| `RpcStream` | `Codec::decode` and the loop of `onMessage` on a stream | a packet is a few symbolic units (magic, header, body, checksum); the peer sends them one after the other, and a read takes any part of what has arrived |
| `RpcCalls` | what a client promises | abstract: a call is issued, then completed at most once by its own reply or an error |
| `RpcAsyncClient` | the client on one connection | `doCall`, the timer and the reply take `pendingMutex_` in separate steps; `disconnect()` and the destructor run at any point |
| `PooledClients` | several `RpcAsyncClient`s on one pooled `TcpClient` | construction, callbacks, calls, heartbeat, `disconnect()`, destruction, reconnection; after `disconnect()` a client has neither `tcpClient_` nor `loop_`, and its calls fail at once |
| `Admission` | the interceptor chain with breaker, limiter, `asyncCall` and `RpcSyncClient` | callers interleave between interceptors; one call of breaker or limiter per step |
| `EndpointClient` | the client with several endpoints | the choice of an endpoint and the look at its connection are apart; uses `ConsistentHash` |
| `ConnectionPool` | the pool of one endpoint and its users | each probe of `acquire()` is a step, as claims change without its mutex |
| `InlineSyncClient`, `InlinePipelineClient` | the clients on the caller's thread | one step per callback; a clock that can be waited for |
| `ConsistentHash` | the ring | any hash function into a small range, chosen at the start |
| `MemoryRegistry` | the registry in memory | the change under the lock and the callback after it are apart |
| `EtcdRegistry` | servers that register in etcd and listen | the ls and the callback of a notification are apart, on the caller's thread and on the watch thread; `Wait()` returns for a change, or false: then the change may be lost and the watcher may be over |
| `BreakerState`, `TcpClientState`, `TcpServerState`, `RpcStreamState` | constants and variables of `CircuitBreaker`, `TcpClient`, `TcpServer` and `RpcStream`, with the assumptions and the properties that are both run and proved | for the MC modules to extend |

Modules named `MC…` put the components of one layer side by side in one state space; a
behaviour exercises one of them, which the variable `subject` chooses. They exist to check
them under one configuration, not to claim that they interact. Components that do interact are
composed in a module: `PooledClients` (clients, TcpClient, loop), `Admission` (interceptors,
breaker, limiter, calls), `EndpointClient` (client, ring, links), `RpcServer` (messages, codec,
dispatch, client), `TcpServer` (base loop, IO loops, connections), `TcpConnection` (connection, channel, loop), `TcpClient` (client,
connector, loop).

Modules named `…Proofs` hold theorems only. Each extends the module of a run, or modules
that it extends too, so that a theorem and a run speak of one definition.
`ConnectionsProofs` extends `TcpConnection` and `TcpClientState`; `LoopsProofs` adds
`TcpServerState` to `MCLoops`, as the server stands on the pool of loops; `WireProofs`
extends `Buffer` and `RpcStreamState`, because the folds of `Messages` have no place in a
proof.

## 3. The runs

| run | checks |
|---|---|
| `MCAdmission` | the breaker never leaves OPEN early (`NoEarlyHalfOpen`) and never refuses forever (`KeepsAdmitting`), for overlapping operations; while they do not overlap it opens on consecutive failures only and has at most two probes out (`OpensAndProbesInOrder`); grants of any window stay within capacity plus rate, and all grants together, across every `setRate()`, within the first bucket and what each tick added at its own rate (`RateBound`), also through Redis and after a fallback (`RedisLimits`); along the chain a permit is held by a call under way (`PermitsAreCarried`), and callers are served again once the server stays up, whatever the order of breaker and limiter (`ServedAgain`) |
| `MCLoops` | functors run once and in order (`InOrder`), no sleep on queued work (`NoSleepWithWork`), timers are neither slept past nor run on after cancellation (`TimersHonoured`), loops handed out are alive (`HandedOutLoopsAlive`), functors run and the pool's destructor returns (`LoopsFinish`) |
| `MCConnections` | a connection: what is buffered is whole messages in order, with EPOLLOUT watched (`OutputIsKept`), nothing follows FIN (`NothingAfterFin`), and its end is reached and told once (`ConnectionsComeDown`); the client: a connection that works is not replaced, nor a connect started over another (`OneConnection`), without a connection and not stopped it is never idle (`KeepsTrying`), and it reconnects (`Reconnects`); the server: its map is exact, and a connection on its way between two loops has its next functor waiting (`ConnectionsAreKept`), closed connections are freed and waiting peers accepted, also after the process ran out of descriptors (`ConnectionsComeAndGo`) |
| `MCWire` | the buffer is a queue of bytes through every move and growth (`BufferIsQueue`); messages are written at their announced size, read back, merged and relayed unchanged (`MessagesCarried`); both ends read one thing from a packet (`PacketsRoundTrip`); a request is answered under its id whatever its handler does (`RequestsAnswered`); on any stream good packets are handled and answered in order and once, and a bad one takes no good one with it (`StreamAnswered`) |
| `MCPool` | a connection has one user and `nullptr` means busy (`AcquireIsSound`), callbacks belong to the claim's holder (`ClaimGuardsCallbacks`), a pooled call, also of a client that disconnects, is completed once or has somebody bound to complete it (`OnceOrOwed`), and completes (`PooledCallsComplete`) |
| `RpcAsyncClient_run` | the client implements `RpcCalls` (`ImplementsRpcCalls`), a call with a timeout and no result is in the table with somebody bound to look for it there (`NobodyIsForgotten`), every call completes (`EveryCallCompletes`) |
| `MCInlineClients` | both inline clients implement `RpcCalls` (`InlineClientsKeepPromise`), every call completes and no wait sleeps past a deadline (`InlineCallsComplete`) |
| `MCDiscovery` | a listener in memory is current (`SerialListenerIsCurrent`), one in etcd whose last list was undisturbed is current when its threads are at rest (`QuietListenerIsCurrent`) and catches up (`ListenersCatchUp`), so that one undisturbed list makes good for every failed request, failed wait, race and missed change before it; `getNode` agrees with the nearest virtual node and no key moves that need not (`RingIsConsistent`); the ring of a client names exactly its endpoints (`RingIsEndpoints`), and taking turns reaches every endpoint (`TurnsReachEveryEndpoint`) |
| `RpcAsyncClient_disconnect` | violated: a call that is pending when `disconnect()` is called waits as long as the client lives (`NoCallerLeftBehind`) |
| `RpcAsyncClient_late_timer` | violated: the timer of an answered call reports a failure to the breaker (`AnsweredCallsDoNotFail`) |
| `RpcServer_business` | violated: a handler that reports an error of its own makes the client record a failure (`BusinessErrorsDoNotTrip`) |
| `EndpointClient_failover` | violated: a call fails for want of a connection while another endpoint is connected (`FailsOver`) |

### Bounds

Every bound is a CONSTANT with "bound" in its comment. They were chosen so that the
interesting cases occur: two threads suffice for every race of the breaker, since each step
touches one member; threshold 2 and `MaxFailures` 5 let late failures pass the threshold;
three users on two connections make `acquire()` wrap and fail; two connections of a server
let one be removed while another is scanned; three packets put a good packet on either
side of a bad one; `MaxBuffer` 12 is exceeded by some streams and not by others; two calls
let one call's reply meet the other's timer; three chains have no interceptor, the limiter
behind the breaker and the limiter before it, and half a token per tick makes the limiter
refuse while a probe is out; clocks of processes that differ by a tick (`Offsets`) let one
spend what the other has not earned yet; three peers on one descriptor fill a queue of two; nine bytes
through a buffer of three, with a reserve of two and a second buffer of two, make it grow,
move and spill; two-byte limits on lengths and counts are below some names and some
heartbeats, and 64 bytes below some requests; two servers with three changes and one
failed request or wait let notifications meet and changes fall before the watch; a ring with three nodes of up to two
virtual nodes in five slots has hash functions with and without collisions. Counters that
only count (request ids, calls, ticks) are capped in the guards. Deadlock is not checked
where the bounds end every behaviour.

### Fairness

- A loop thread keeps running its loop (`LoopStep`, `ThreadStep`, `RunBase`), and a thread
  finishes what it has started: the operating system schedules runnable threads.
- A timer that is armed falls due. `SF` is used for the timers of pooled calls and for the
  clock of the pipeline client, whose step is disabled while a callback runs.
- Nothing is assumed of peers, servers and networks, except in `Reconnects`, where an
  outage ends and a connect is then answered, and for the inline client, whose loop
  delivers what has arrived.
- The threads of a registry finish their notifications, `Wait()` returns for a change that
  it has not lost, and etcd expires a lease that is not kept alive (`ListenersCatchUp`). A
  `Wait()` that fails is possible at any time and never assumed. In `ServedAgain` callers keep calling, and a
  server that is up does not miss the timeout of every call. In `ConnectionsComeAndGo`
  connections end sooner or later, which frees their descriptors.
- Callers of the breaker keep asking (`KeepsAdmitting`); the caller of the pipeline client
  keeps pumping (`InlineCallsComplete`): both are what the property is conditional on.

## 4. What is proved

Every invariant and action property of the runs has a theorem, but for the three named
below; the theorems hold for every value of the constants. "states" names the definition
the run checks.

| theorem | states | inductive invariant and argument |
|---|---|---|
| `AdmissionProofs!TypeCorrect`, `NeverHalfOpenEarly` | `TypeOK` of the breaker; `NoEarlyHalfOpen` | `BreakerInv`: the stamp is never older than the decision behind the last, or a coming, store of OPEN, and `mutex_` protects it between the comparison and the store of HALF_OPEN |
| `AdmissionProofs!BreakerIsOrderly` | `OpensAndProbesInOrder` | `CalmInv`: while operations do not overlap a thread finds the state it has read, the count is at most the failures in a row, and HALF_OPEN has let through the request that entered it and the holder of the permit |
| `AdmissionProofs!TokensInRange`, `NeverOverRate` | `TypeOK` of the bucket; `RateBound` | `Budget`: up to the last refill, the grants of the window and the tokens in hand together stay within the limit; a window that no refill has reached has granted nothing. `Paid`: grants, tokens and the refill to come are within what was earned, since every `setRate()` refills at the old rate first |
| `AdmissionProofs!RedisNeverOverRate` | `RedisLimits` | `SharedInv`, `LocalInv`: grants and tokens left are within what the rate adds from the boot of one host to a time another has reached, as long as no script ran late; the same for each process from its start |
| `AdmissionProofs!PermitIsCarried` | `PermitsAreCarried` | inductive with the types of callers and breaker: whoever takes the permit stands behind the breaker, and each way out of there records an outcome, which ends HALF_OPEN |
| `LoopsProofs!FunctorsInOrder` | `InOrder` | `QueueInv`: batch and queue hold consecutive numbers, and the batch is empty outside `doPendingFunctors` |
| `LoopsProofs!LoopWakesForWork` | `NoSleepWithWork` | `WakeInv`: a foreign functor in the queue has a wakeup set, about to be set, or consumed before the coming swap |
| `LoopsProofs!TimersAreHonoured` | `TimersHonoured` | `TimerInv`: a timer that ran after its cancellation has its flag set and is not taken, so it is dropped when it is put back |
| `LoopsProofs!LoopsAreAlive` | `HandedOutLoopsAlive` | `PoolInv`: threads before the one being started have published their loops and were not told to quit, those after it do not exist |
| `ConnectionsProofs!NoOutputLost` | `OutputIsKept` | from two theorems. `MessagesAreWhole` (`WholeMessagesInOrder`), `StreamInv`: wire and output buffer together are whole messages; messages in the functor queue are newer than those of their thread in the stream, in order, and not newer than the last sent. `NoOutputLeftBehind` (`WatchesWhileBuffered`), `Core`: the interest in EPOLLOUT follows the buffer while the connection is up |
| `ConnectionsProofs!FinIsLast` | `NothingAfterFin` | `Core`, `QueueInv`: FIN is sent after `kConnected` was left and with an empty buffer, and no shutdown is queued in `kConnected` |
| `ConnectionsProofs!EndIsToldOnce` | `TcpConnection!DownOnce` (a part of `ConnectionsComeDown`) | `DownInv`: until somebody is inside `shutdown()`, the state is `kDisconnected` exactly when the end was reported |
| `ConnectionsProofs!ClientHasOneConnection` | `OneConnection` | from `LiveConnectionsStay` (`NeverReplacesLive`) and `OneConnectAtATime` (`NoChannelOverwrite`): `LiveInv`, `ChannelInv`: while a connection is up the connector is neither connecting nor about to; a restart is only pending where nothing is under way; the second holds until `disconnect()` is called on a client that keeps reconnecting |
| `ConnectionsProofs!NeverGivesUp` | `KeepsTrying` | `TryInv`: before `connect()` nothing is under way; as long as nobody stops the client `connect_` is set, no stop is posted, and a connector that is done has left a connection or is handing one over |
| `LoopsProofs!ServerKeepsConnections` | `ConnectionsAreKept` | from two theorems. `MapHoldsTheLive` (`MapIsExact`), `UpInv`: a functor that waits runs on the loop of its connection and fits what has become of it, and `connectEstablished` and `connectDestroyed` wait at most once, the second only for a connection that has left the map. `NoConnectionIsLeaked` (`NoneIsLeaked`), with `DueInv` besides: no IO loop was told to quit, one that polls has run what it took, so that taking a queue overwrites nothing, and the functor a connection needs stands in the queue or the batch of its loop; whoever runs it posts the next one |
| `WireProofs!BytesInOrder` | `BufferIsQueue` | `BufferInv`: byte i of the window is number `taken + i`; the move of `makeSpace` and the second buffer of `readFd` keep it |
| `WireProofs!StreamIsAnswered`, with `FramedPacketsKept` | `StreamAnswered` | `StreamInv`: the buffer is a window of all units ever sent, packets lie end to end, what was handled ends before the window, and a framed stream that fits is consumed packet by packet, so that the window always begins where a packet does |
| `PoolProofs!PoolLendsSoundly` | `AcquireIsSound` | from two theorems. `OneUserPerConnection` (`OwnersAreWired`), `OwnerInv`: a user between claim and release is the owner, and only owners, or `release()`, touch callbacks. `NullOnlyWhenBusy` (`NullMeansBusy`), `ProbeInv`: `acquire()` holds the mutex, so its attempts went through consecutive indices, and N of them reach every connection |
| `PoolProofs!ClaimIsExclusive` | `ClaimGuardsCallbacks` | `ClaimInv`: the phases of construction, `disconnect()` and destruction in which a client touches the callbacks lie between its claim and its release |
| `PoolProofs!PooledCallsOnceOrOwed` | `OnceOrOwed` | `ClaimInv` and `KeptInv`: an entry of a table is a call without a result, of a client that is live, has disconnected or has yet to drain its table, so whoever takes it out is the first to complete the call |
| `RpcAsyncClientProofs!ClientKeepsPromise` | `ImplementsRpcCalls` | refinement: ids are distinct, entries and messages carry the id of their own call, and the pending table holds only calls without a result, so whoever erases an entry is the first and completes the right call |
| `RpcAsyncClientProofs!CallsAreCaredFor` | `NobodyIsForgotten` | the invariant of the refinement and `LifeInv`: the loop, and the timers with it, goes only once the client is disconnected, and the destructor drains the table when no caller is on its way into it |
| `InlineProofs!InlineClientsImplementCalls` | `InlineClientsKeepPromise` | refinement: `SyncInv`, the call that waits has not returned and will return an error or its own reply; `PumpInv`, the table and the expired requests are disjoint and not called back |
| `InlineProofs!PumpIsPunctual` | `InlinePipelineClient!NeverOversleeps` (a part of `InlineCallsComplete`) | `ClockInv`: a wait ends no later than any deadline, and nothing is submitted while it lasts; time is taken to pass in the wait only |
| `DiscoveryProofs!ListenerIsCurrentAfterSerialCalls` | `SerialListenerIsCurrent` | `NotesInv`: without overlap, what is to be delivered is what the table says, and a service of which nothing is to be delivered is known as it is |
| `DiscoveryProofs!ListenerAtRestIsCurrent` | `QuietListenerIsCurrent` | `ToldInv`: before there is a watcher nothing has changed since the list was taken; afterwards a change is still to be returned for or listed, or what is about to be told, or was told last, is what etcd holds. Excepted are, as in `ListenersCatchUp` and until the next undisturbed list, a list or a `Wait()` that failed, notifications of two threads that met, and a change between the first list and the watcher; a watch that is over is excepted for good |
| `DiscoveryProofs!TurnsAreFair` | `TurnsReachEveryEndpoint` | `TurnsInv`: the picks an endpoint has missed and those until its next turn make less than a round |
| `DiscoveryProofs!RingFollowsEndpoints`, `RingMovesFewKeys` | `RingIsEndpoints`; `RingIsConsistent` | `EndpointRing`, `ServerRing`: a slot belongs to a node that is there and has it, and without collisions every slot of every such node does; the first slot clockwise of a ring that is not empty exists |

The assumptions are the ASSUMEs of the modules: bounds are naturals, the values that stand
for "nobody" or for the base loop are not members of the sets they are told apart from, a
threshold, a pool and `MaxRuns` are positive, a chain has at most one breaker, at least one
process shares a bucket, and the sets of services and endpoints are finite. TLC evaluates
all of them. Besides these, external actions stand for libraries as `src/` uses them; where
more than the use is needed it is an assumption: in `EtcdRegistry`, that `Wait()` of
etcd-cpp-apiv3 returns true once for the changes since it was called last, and loses one only
when it returns false. Nothing in the repository states that; `QuietListenerIsCurrent` and
`ListenersCatchUp` hold under it. Each property is strengthened to an inductive invariant because it does not
say by itself where the threads stand between two steps. The proofs hold for every size of
the constants, so the runs' bounds matter only for what follows. Most theorems are about
the `Spec` of the component; those about the hash ring and the inline clients are about
`MCSpec`, whose variable `subject` chooses the component.

Only model-checked:

- `MessagesCarried`, `PacketsRoundTrip` and `RequestsAnswered`: what is written and read is
  defined by folds over the fields of a message and the items of a body, and what a fold
  computes for every sequence needs the induction that the prover cannot do.
- The liveness properties, for which fairness and ENABLED are beyond the prover:
  `KeepsAdmitting`, `ServedAgain`, `LoopsFinish`, `ConnectionsComeDown`, `Reconnects`,
  `ConnectionsComeAndGo`, `PooledCallsComplete`, `EveryCallCompletes`,
  `InlineCallsComplete` and `ListenersCatchUp`. With them the safety of `Acceptor`,
  which is stated through `ConnectionsComeAndGo` only. The safety that five of them rest on,
  that whatever is to happen has somebody bound to do it, is proved: `KeepsTrying` for
  `Reconnects`, `ConnectionsAreKept` for `ConnectionsComeAndGo`, `OnceOrOwed` for
  `PooledCallsComplete`, `NobodyIsForgotten` for `EveryCallCompletes` and
  `QuietListenerIsCurrent` for `ListenersCatchUp`.

## 5. Where the code departs from what it says

Four of these are runs (section 3). Each of the others is a property of its module that TLC
finds violated when it is checked there, with the module's `Spec` (`FairSpec` for a liveness
property) and the constants of the run the module belongs to, except where the table gives
others. The comment of a property quotes the line it is taken from. In the runs of section 3
the corresponding property excludes exactly this case.

| property | what the code does |
|---|---|
| `CircuitBreaker!SingleProbe` | the request that moves OPEN to HALF_OPEN takes no permit, so two probes are out at once; `circuit_breaker.h:42` says one |
| `PooledClients!RepliesMatchCalls` | request ids of every client start alike, so a late reply to one borrower completes the next borrower's call; `docs/protocol.md:69` says ids are globally unique |
| `PooledClients!NoTimerAfterFree`, `NoMessageAfterFree` | a timer on the pool's loop, or a connection made during the destructor, reaches a client that was freed; `rpc_async_client.h:121`, `rpc_async_client.cc:352` |
| `PooledClients!ClaimIsReturned` | after the user's own `disconnect()` the destructor finds `tcpClient_` null and gives no claim back, so the pool never lends the connection again; `rpc_async_client.cc:361` says the claim is given back in the destructor |
| `RpcAsyncClient!NoSendDisconnectRace` | `sendRequest` copies `tcpClient_` before it tests `disconnecting_`, while `disconnect()` resets it; `rpc_async_client.h:120` (one call, `MayStop = {"disconnect"}`) |
| `EventLoop!EveryPostWakes` | a functor posted by a functor waits up to 10 s, as the loop is not woken; `docs/network_layer.md:276` |
| `TcpClient!NeverOverwritten` | after `disconnect()`, `ensureConnected()` and the restart after the close connect over each other; `tcp_client.h:63` |
| `TcpClient!StoppedIsFinal`, `OneRetryChain` | a loss after `stop()` restarts the connector; `ensureConnected()` during the back-off leaves two retry timers; `tcp_client.cc:146`, `tcp_client.h:62` |
| `ConnectionPool!CallbacksStay`, `LoopsOutliveClients` | `release()` may clear the callbacks of a client that has just claimed; a failed `createPool()` and a borrowed client outlive their loops; `docs/pool_design_and_healthcheck.md:165`, `connection_pool.cc:17` |
| `EventLoopThreadPool!StopReturns`, `NoUseAfterDestroy` | `loop()` forgets a `quit()` that came before it; an `EventLoopThread` destroyed on its own thread is used after that; `event_loop_thread.cc:51`, `:20` |
| `TcpConnection!ReportedOnce`, `IdlePeersAreDropped`, `ShutdownKeepsMessages` | `shutdown()` may overwrite `kDisconnected`; `forceClose()` does nothing in `kDisconnecting`; a message posted before `shutdown()` may be dropped; `tcp_connection.cc:272`, `README.md:18`, `docs/network_layer.md:450` |
| `TcpServer!FreedAfterDestroyed`, `NoCallOnDestroyed`, `ScanIsSafe` | a quitting loop drops `connectDestroyed`; a removal posted during the destructor runs after it; without IO threads the idle scan erases the entry it stands on; `tcp_server.cc:44`, `:32`, `docs/network_layer.md:757` |
| `RedisTokenBucket!GlobalLimit` | commands that overtake each other, or clocks that differ, set the time back and refill twice; `redis_token_bucket.cc:13` |
| `InlineSyncClient!Recovers` | `call()` without a connection never runs the loop, so the reconnect is not carried out; `README.md:15` |
| `RpcStream!NoPacketWaits`, `NothingGoodLost` | `decode()` that drops a bad packet ends the loop of `onMessage`; resynchronisation drops the first part of a split magic; `README.md:9`, `docs/protocol.md:66` |
| `ConsistentHash!OnlyItsKeysMove` | with colliding hashes the removal of one node takes a slot of another; `tests/test_consistent_hash.cc:41` |
| `Admission!EveryRequestTraced` | without an interceptor only the form of `asyncCall` that returns a future adds a trace-id; `README.md:25` says it is injected automatically |
| `EtcdRegistry!WatchMissesNothing` | a change between the list of `registerService()` and the start of the watch is never told; `etcd_registry.h:2` promises changes in real time |
| `MemoryRegistry!ListenerIsCurrent` | callbacks of two threads may be delivered in the other order |

Seen while modelling, and stated by no line to compare it with: `disconnecting_` of
`RpcAsyncClient` is set by `disconnect()` and never reset, so that after `disconnect()` and
`connect()` every call fails at once (`EndpointClient!Send`); extras of an earlier heartbeat
stay in the `DecodedPacket` of a read (`Codec!decodeHeartbeatBody`); a body within 22 bytes of
`kMaxBodyLen` is larger than `kMaxBufferSize` allows (`PacketsRoundTrip` says so); a reply that
repeats a name that is not UTF-8 cannot be read (`RequestsAnswered`); a `Wait()` that returns
false is followed by another one without a list, and a watcher that is over is not made again,
so that its listener is told nothing more (`EtcdRegistry!WaitFails`).

## 6. What is not modelled

- Of the generated code, arenas, reflection, descriptors and the registration of files: they
  call libprotobuf and have no state that the framework uses.
- CRC32, MurmurHash and JSON: a packet is damaged or not, a hash is any function, and a node
  is a name. What the bytes are is out of TLC's reach and of no interest to the properties.
- Uses of freed memory: the detached watch thread of `EtcdRegistry`, and the setters of
  `RpcAsyncClient` and of the registries while calls run, have no defined outcome;
  `EndpointClient` takes them as single steps. The destructor of `InlinePipelineClient`,
  which drops the callbacks that are pending, is left out as well.
- Socket options, `bind`, and the constructors that parse addresses.
- Logging, examples, benchmarks and tests.
- `RedisTokenBucket::setRate`, and `setServiceChangeCallback` during operation.

Memory exhaustion is outside the models, and so is weak memory ordering: atomics are
interleaved, as if sequentially consistent. Most of the code's atomics use the default ordering, but
`CircuitBreaker` (all but its compare-exchanges), `TcpConnection::lastActiveTimeMs_` and the
round-robin indices are accessed with `memory_order_relaxed`. This is an abstraction, not a
consequence of the code. The argument of `NoEarlyHalfOpen` does not lean on it (`state_` is
loaded again under `mutex_`, so an OPEN that is read there was stored by a thread whose
stamp is already visible), but the other properties of the breaker are shown for interleaved
accesses only.
