# A TLA+ model of zylib

zylib is a collection of C++ libraries and servers: a network library
(`src/zysoft/src/network`), remote calls over Kafka (`src/knet`), pools of
database connections (`src/rediscpp`, `src/mysqlcpp2`), timers
(`src/zysoft/src/zysoft/timer`, `src/game_server/world/TimerService.cpp`), game
and login servers built from older versions of the same network
(`src/game_server`, `src/login_server`, `src/network/v1`), and a server over
libevent (`src/eventserver`). This directory holds TLA+ modules of the parts
where threads, callbacks, timers and failures meet, the TLC configurations that
check them, and TLAPS proofs.

Every module is translated from the source; `PROJECT.json` maps each definition
to its lines. In a comment, "Mutant" marks a definition that is not part of the
model: a variant with a plausible bug, which shows that a property can fail.

## 1. Inventory

| component | state | operations | what is hard | what makes it correct |
|---|---|---|---|---|
| zysoft `timing_wheel` | slots of multimaps, immediate entries, all entries, the tick | add, cancel, reset, clear, tick, get_expired | ticks that are not drained, wrapping ticks, an entry in two containers | containers agree; on time, never early, once, in arming order |
| knet RPC | pending slots, timers, received and outgoing queues, Kafka topics | AsyncRPC, RouteMessage, answers, Tick; event, send and consumer threads | timeout against late answer; loss, duplication, restart; hand-over between threads | at most one success and one timeout per call, own answer, every call settled |
| zysoft network: `Channel`, `TcpConnector`, `MessageDecoder`, one `TcpServer` connection | socket, buffers, timers, `m_opened` of both ends | three ways to connect, SendMsg, Shutdown, asio handlers | handlers queued before a close or a cancel; partial reads and writes | the stream is intact, one OnClosed, closes and messages arrive |
| rediscpp `ConnectionPool` | list of slots and their flags | init, getConn, guard's release | growth outside the mutex, failing connects | one user per connection, none lost or starved, bounded size |
| `TimerService` of the servers | list in order of time left, `m_time_passed` | addTimer, heartbeat | addTimer from a timer's function in the middle of the loop | order, on time, never early, the loop ends |
| `World` of the servers | sessions, four containers shared with the network | network callbacks, postTask, stop, heartbeat | containers swapped one after the other while the network goes on | messages in order, one session each; closed sessions go, messages are served, tasks run |
| network v1 `AsyncServer`, `RWHandler`, `ServerHandler` | `m_handlers`, per connection: reads, timers, write queue, `m_is_closed` | accept, reads, writes, timeouts, sendMsg, shutdown, stop | read, write, timer and shutdown all close; expired timers | one close told to the world, places given back, no write forgotten |
| mysqlcpp2 `ConnectionPool` | as rediscpp's | as rediscpp's, without growth | | as rediscpp's; not modelled separately |
| eventserver | libevent loop, task queue and its pipe, sessions by descriptor and number | listen, start, shutdown, sendResponse, shutdownSession, callbacks of accept, read, write and pipe | wake-ups that come while tasks run; a descriptor reused while tasks name it; a session released with a write pending | own responses, in order, without a gap; no task left while the loop sleeps; closed sessions go |
| network `stream_server` | handlers, callback queues, client state | io callbacks, update, reconnect | order of accept, close and messages in update; a failed connect that is not reported | not modelled (section 7) |
| nel unified network | endpoints by service, naming client | as stream_server, naming | endpoint erased while in use | not modelled (section 7) |
| Redis scripts of the game server | accounts, users | bind, save, remove | time stamps of a user saved meanwhile | not modelled (section 7) |
| zysoft experimental net, vnetwork, network v2 to v4 | as network | as network | as network | other stages of what is modelled |
| the rest | | | | codecs, wrappers, vendored or unfinished code: see section 7 |

How they interact. `ServerHandler` (network v1) calls `World` on the network's
thread: that interface is the module `ConnEvents`. `World` and `TimerService`
run on the world's thread. Application threads use the pools through guards.
knet's callbacks run in `Tick` on the application's main thread. The network
library calls its application from io threads. The timing wheel is called by
its owner only. An `EventServer`'s application answers from any thread, with a
task and a byte in a pipe; everything else happens in the loop's thread.

## 2. Modules

| module | models | abstract specification |
|---|---|---|
| `TimingWheel`, `MCTimingWheel`, `TimingWheelProofs` | `timing_wheel.h` | |
| `KnetRpc`, `MCKnetRpc`, `KnetRpcProofs` | `src/knet` | `RpcPromise`: what a caller may see of a call |
| `NetChannel`, `MCNetChannel`, `NetChannelProofs` | `Channel.h`, `TcpConnector.h`, `MessageDecoder.h`, one connection of `TcpServer.h` | |
| `RedisPool`, `RedisPoolProofs` | `rediscpp/ConnectionPool.cpp` | `ConnPool`: the idle connections, which of two has been so longer, and who has the others |
| `TimerService`, `TimerServiceProofs` | `TimerService.cpp` | |
| `GameWorld`, `MCGameWorld`, `GameWorldProofs` | `World.cpp`, `WorldSession.cpp`, `WorldMsg.cpp` | assumes `ConnEvents` of the network |
| `AsyncServer`, `MCAsyncServer`, `AsyncServerProofs` | `AsyncServer.cpp`, `RWHandler.cpp`, `ServerHandler.cpp`, `NetworkService.cpp` | implements `ConnEvents` |
| `EventServer`, `EventServerProofs` | `src/eventserver` | `Replies`: what becomes of the responses given to `sendResponse` |

`ConnEvents` is used from both sides: `GameWorld` takes its network's steps from
it, and `AsyncServer` is checked, and proved, to implement it. So the world is checked
against every order of accepts, messages and closes that the real network can
produce, and the two state spaces are never multiplied.

### State and actions

- **TimingWheel.** One variable per member. A multimap is a function from ticks
  to sequences. An action per member function; the class is not thread safe, so
  each is one step. `Asserts` says whether the build keeps `assert`. `fate`,
  `start`, `firedAt`, `since` and `drained` are history.
- **KnetRpc.** A step is what one thread does between two locks: the loops of
  `TimerManager::Tick` and `RPCManager::ProcessMsg` are a swap and a step per
  element, the event, send and consumer threads have their own actions, and
  `Restart` clears all but the broker's state. The consumer thread commits a
  message (`CommitSync`) before it takes the next (`inHand`), and a new process
  reads on from what was committed, or, since `auto.offset.reset` is left alone,
  from the end of the topic if nothing was (`StartPosition`). A call is a number;
  `KeyOf` is the key that the code concatenates. For `RpcPromise` the calls of
  earlier lives are `dead`: what their callbacks have told stays as it was.
- **NetChannel.** Both ends of a connection. A handler of asio is a step, and so
  is its completion, so a handler may be queued when another one closes the
  channel. A message is a head and a body on the wire. `SendMsg` of a channel that
  has no socket yet drops the message; a client in `SyncConnectWaitFor` can be
  told of its connection in that state, since the promise is kept before `Init`.
- **RedisPool.** `getConn` is three steps: under the first lock, connecting, under
  the second lock.
- **TimerService.** The loop of `timerRotation` is a step per timer; `AddTimer` is
  enabled between heartbeats and while a timer's function runs.
- **GameWorld.** `heartbeat`'s functions each hold the mutex once and then work on
  sessions no other thread sees: `processNewConn` and `processClosedConn` are a
  step each; `processTask` is the swap of `m_task` into `allTask` and then a step
  per task (`RunTask`), and `dispatchMsg` the swap of `m_world_msgs` into `batch`
  and then a step per message, since the other threads go on appending behind
  them; sessions are served one per step. What a message's handler may do to the
  world (close its session, ask for its shutdown) is chosen freely, and so is what
  a task may: post another or itself, have a session shut down.
  A close the network does not report is one made by `shutdownHdl`.
- **AsyncServer.** As NetChannel, for the server's end, with `m_handlers` and its
  limit. A timer that has expired is not undone by `cancel`; a read of a socket
  closed meanwhile may have completed.
- **EventServer.** A step is a callback of libevent or a call of the API.
  `executeTask`'s loop is a step per task, so that tasks can arrive between two.
  `bytes` counts what is in the pipe; a session is named by descriptor and
  number, as in the code, and a new connection gets any descriptor that no
  session has. `old`, `given` and `got` are history: the tasks that were there when
  the loop started, the responses given for each connection and those written to
  it. In terms of `Replies` a response is taken on when its task runs, and
  delivered when it is written.

## 3. Runs

Each run needs at most about two and a half minutes with two workers.

| run | instance | shows |
|---|---|---|
| `timing_wheel` | two entries, two slots, ticks of width 8, durations below, at and above a revolution and one that wraps | `Consistent`, `OnTime`, `RecoversInOneRevolution`, `NeverEarly`, `ArmOrder`, `FateIsFinal` |
| `timing_wheel_asserts` | the same with assertions | violation of `RemovalSucceeds`: finding 1 |
| `knet_rpc` | two services, two timed calls, one restart, one duplicate | `OwnAnswer`, `RedeliveryBounded`, `NoTimerStranded`, safety part of `RpcPromise` |
| `knet_rpc_fair` | two services that call each other, all kinds of message, one loss | `OwnAnswer`, all of `RpcPromise` (`KeepsPromise`), `EveryCallAnswered` |
| `channel` | all three ways to connect; two messages after `SyncConnect`, one otherwise; server with timeouts | `StreamIntact`, `ClosedOnce`, `OneBatchAfterClose`, `ReportedConnectOpens`, `CloseReachesPeer`, `SentArrives` |
| `channel_release` | the same with NDEBUG | violation of `DecodeConsumes`: finding 2 |
| `redis_pool` | four threads, five connections, from one to four slots | `Exclusive`, `SizeBounded`, implements `ConnPool`, `NoConnStarves` |
| `timer_service` | three timers, delays to 3, heartbeats to 2 | `NeverEarly`, `OnTime`, `DeadlineOrder`, `HeartbeatReturns` |
| `game_world` | two connections, one of which sends two messages, the first for an open session only; two tasks | `ServedInOrder`, `OneSession`, `ClosedGoes`, `MessageServed`, `TaskRuns` |
| `game_world_closed` | one connection | violation of `NoSessionOnClosed`: finding 3 |
| `async_server` | two connections for one place; one receives a message and is sent two | `Capacity`, `RefusedOnlyIfFull`, `NoMessageStuck`, implements `ConnEvents`, `IdleGoes` |
| `event_server` | two connections with one descriptor between them, three responses, one `shutdownSession`, two starts; a pipe and a read of two bytes | `NoTaskStranded`, implements `Replies` (`ImplementsReplies`), `ClosedGoes` |

`SizeBounded` states what the Redis pool keeps to. It tests its size under one
lock and grows under another, so it can pass `m_pool_max_size`; but it has never
more connections than there are threads, once it has grown.

Why the bounds are enough. The races are between two or three steps of two
actors; a second actor competes (pool, place, slot, heartbeat) in each instance.
Two messages are the least that can be reordered or strand one another. Two slots
with durations 0, 1, 2, 3 and 7 give each case of `get_expired`: immediate, this
revolution, exactly one, more than one, wrapped. Two calls with one loss or one
duplicate or one restart give each pairing of an answer with a timeout or a
former life; faults are not combined more than the configurations say. One
descriptor for two connections makes each accept after a close a reuse; three
tasks and two bytes are the least with which a wake-up can find more tasks than
bytes, and a full pipe can lose one. What grows without bound in the code is
stopped by the constants whose comment says "bound".

`CHECK_DEADLOCK FALSE` is used where the program may stop: bounds are used up, a
server is stopped, a connection is gone.

### Findings

1. `timing_wheel::slot_remove_entry` returns null when the entry it erased was the
   last of its slot, and `cancel` and `reset` assert that it is not null.
2. `MessageDecoder` consumes a decoded message inside an assertion; built with
   NDEBUG its loop does not end.
3. `World::processClosedConn` throws away a close whose connection has no session
   yet; if it was accepted since `processNewConn`, its session is made by the next
   heartbeat and stays.

## 4. Fairness

- `KnetRpc`: the main loop calls `Tick` for ever (as the tests do), timers expire,
  and the other threads run while the process lives. The broker need not deliver
  what it may lose, and nobody must restart. The service that is called answers
  every request it is handed (weak fairness of `RPCResponse`): this is an
  assumption about the application, met by `src/knet/test/lobby.cpp:39`, which
  answers in the handler itself. `EveryCallAnswered` means nothing without it;
  `KeepsPromise` does not need it, since a timed call ends in its timeout.
- `NetChannel`: kernels complete reads and writes, and each kind of handler is
  run, since an io_context takes handlers in the order they became ready. The
  application need not send, shut down or answer. `ReportedConnectOpens` rests on
  the io thread finishing the handler it is in: the messages that a client sends
  between `SyncConnectWaitFor`'s return and `Init` are dropped, which no document
  of the library excludes; the property says that this does not last.
- `RedisPool`: some thread asks again, connects return, no guard is kept for
  ever. These are assumptions about the application; `NoConnStarves` means
  nothing without them.
- `TimerService`: heartbeat goes on once it has been entered.
- `GameWorld`: the world's thread goes on, and each task and handler returns. The
  network need not do anything.
- `AsyncServer`: the io_service's thread runs ready handlers and timers expire.
  No peer must do anything.
- `EventServer`: libevent runs the callback of the pipe when it is readable, and
  `executeTask` goes on. A client whose session has something to write reads it or
  its connection fails (`OnWrite`): the write event has no timeout, so for a
  client that does neither `ClosedGoes` does not hold.

## 5. Proofs

For every value of the constants that the modules' assumptions admit:

- **TimingWheelProofs**: `TypeCorrect`, `WheelConsistent`, `WheelOnTime`,
  `WheelRecovers` (`RecoversInOneRevolution`), `WheelNeverEarly`, `WheelArmOrder`, `WheelFateIsFinal`.
  `OnTime` is not inductive: it speaks of ticks that were drained. `IInv` adds
  `ArmedForTick` (an entry's tick is the one it was armed for) and `RunIsClean`
  (an unbroken run of drained ticks leaves no entry of its slots behind). Lemmas
  about what erasing and appending do to a slot come first, then `DueFacts`, what
  one `get_expired` hands out, then a lemma per action. `WheelRecovers` follows from
  `RunIsClean` and `RevolutionVisits`: N ticks in a row meet every slot.
- **KnetRpcProofs**: `TypeCorrect` (proved and not run), `NoTimerStrandedCorrect`,
  `OwnAnswerCorrect`, `RedeliveryBoundedCorrect`, and `PromiseImplemented`: every
  step is one of `RpcPromise` or none, so that a caller sees at most one success
  and one timeout of a call, only what the promise allows, and nothing of the
  calls that an earlier life has made. The thread that
  fires a timer and the one that takes an answer both work on calls by their key,
  so `IInv` says that a key names one call of one life (`CallsNumbered`), that
  messages are about calls that were made and travel between their two services
  (`Addressed`), that a slot or a timer is of a call that this life has made and
  has not settled (`SlotsOwn`), what has run of a call's callbacks
  (`CallbacksRun`), and where a message is between `topic`, `recvd`, `msgs` and
  its handler (`QueueSwapped`, `ReadOnce`): each life may read again the one
  message that the former life had not committed, which is the `life[s]` of
  `RedeliveryBounded`.
- **NetChannelProofs**: `TypeCorrect` (proved and not run), `ClosedOnceCorrect`,
  `OneBatchAfterCloseCorrect`, `OpenOrOpeningCorrect`, `StreamIntactCorrect`, for
  any number of messages and any of the timeouts, with and without assertions.
  `ClosingOK` relates `m_opened`, the socket, `OnClosed` and a read that completed
  before; `OpeningOK` says that what the user is told of a connection is kept:
  a client told of it has its socket, or its io thread stands between the promise
  and `Init` (`OpenOrOpening`, proved and not run). `StreamIntact` is the end of a chain. Every piece on the way has
  a `Place` in its end's stream. `ReceivingOK`: what was decoded, the read buffer,
  the completed read and the pipe follow one another. `SendingOK`: there is a q
  such that the posted handlers are those of the messages after the q-th, with
  that of `Shutdown` among them at some place z (`PostedOK`), and the write buffer
  holds the last of the first q, its head partly written (`WritingOK`); after
  a failed write the channel writes nothing more. Each action has a lemma
  for what it does to this chain, and one for what it does to the rest.
- **RedisPoolProofs**: `TypeCorrect`, `ExclusiveCorrect`, `ReleaseAssertsCorrect`,
  `NoSlotLostCorrect`, `SizeBoundedCorrect`, `PromiseKept` (`KeepsPromise`). `Exclusive` needs to know that no two
  slots have one connection, that each one in a slot or in a thread has been made,
  that a created one is in no slot yet, and that a held one is in a slot in use.
  The bound on the size is a second invariant, over cardinalities: the slots in
  use map into the threads one to one, and a thread grows the pool only if every
  slot is in use. `PromiseKept` is the whole refinement, since `ConnPool` has no
  fairness: the order of the list restricted to the free slots is the order of
  idleness (`IdleLonger`), a lemma for each abstract action says what its step does
  to that order, and `OldPlaceOrder` that a release moves one slot past the others.
- **TimerServiceProofs**: `TypeCorrect`, `SortedCorrect`, `OnTimeCorrect`,
  `NeverEarlyCorrect`, `DeadlineOrderCorrect`. In the loop a timer's `time` is
  relative to a different moment before and behind the loop's place, and
  `addTimer` changes that moment. `IInv` says how time, age and delay are related
  outside the loop (`IdleTimes`), ahead of its place (`AheadTimes`) and behind it
  (`BehindTimes`), and that no due timer is behind (`NoDueAfter`).
  `TypeOK` and `Sorted` are proved and not run.
- **AsyncServerProofs**: `TypeCorrect` (proved and not run), `CapacityCorrect`,
  `NoMessageStuckCorrect`, `RefusedOnlyIfFullCorrect`. The limit is tested on
  `m_handlers` and the properties speak of the open connections, so `IInv` says
  that the two are one set (`HandlersOpen`). What keeps `NoMessageStuck` is in the
  type: a buffer under write holds a message. Two lemmas cover what handlers are
  made of, replacing a handler's state and `onClosed`; each action cites one.
  `ConnEventsImplemented` is the whole refinement, since `ConnEvents` has no
  fairness. Its invariant says that nothing is done for a connection before its
  accept, that `m_is_closed` agrees with what the world was told, and that a
  message read before the close is still to come only if none came since. First
  comes what one more event does to a phase, then a lemma per kind of step.
- **GameWorldProofs**: `TypeCorrect` (proved and not run), `ServedInOrderCorrect`,
  `OneSessionCorrect`, for any tasks and over any network that
  `ConnEvents` describes. A message passes through three queues before it is
  served, so `ServedInOrder` is the last link of a chain: `ChainInOrder` says
  that a connection's messages increase from those served over its session's
  queue and `batch` to `m_world_msgs`, and that none is newer than the last one
  sent. `MadeOnce` says that a connection in `m_new_conn` has had no session.
- **EventServerProofs**: `TypeCorrect` (proved and not run) and
  `NoTaskStrandedCorrect`, for any pipe and any read. With the type the property
  is inductive: `submitTask` raises the bytes unless the pipe is full, and the loop
  goes back to sleep only from an empty queue.
  `RepliesImplemented` is the whole refinement, since `Replies` has no fairness.
  `Delivery` is the invariant: the responses in the queue are in the order given
  (`QueueInOrder`, `GivenInOrder`); a session yet to be made has none (`FreshUntilMade`); what an open session was given and has
  not taken on is in the queue, and nothing else under its id (`TaskForEach`);
  a session that does not wait has nothing left to write unless its connection
  has failed (`Flushed`). `PendingTake` is the heart: a task that is run for
  an open session carries the first response it has not taken on.

Assumptions: those of the modules. `KeyAssumption` keeps the ids of
services such that an id and a number together tell calls apart ("a1" with 1 and
"a" with 11 do not), which the code leaves to its configuration.
`TimerAssumption` keeps a delay and a period
together below 2^32 ms. TLC evaluates each of them on its instance.
`EventAssumption` keeps the number of connections at most
`SeqMax` (`INT32_MAX` in the code): the numbers of sessions do not come round.
`EventServer` also assumes that `start` is called again only after it has
returned, and that a response is written whole or not at all.

Only model-checked: every liveness property and the fairness in a refinement
(TLAPS has no rules for fairness and ENABLED), so `KeepsPromise` of `KnetRpc` beyond
its safety part. Every safety property that a passing run checks is a theorem.
No module uses a RECURSIVE operator, so all can be proved about. What a recursive
function computes on every input cannot be proved here, because induction rules
take an operator as a parameter: that is why `ConnPool` states the order of idleness
as a relation, not as the part of the list that is free.

## 6. Plan

Done, in the order of importance: timing wheel; knet; channel; pools; timer
service; world and its network; the event server, with the theorems above, those
of knet and of the channel last.

To do:

1. `StreamServer`: the callback queues and `update`, the reconnecting client; the
   failed connect that `CallbackClient::syncConnectFail` does not report, and the
   successful one that it may report as failed.
2. The accept loop of `TcpServer`: several connections over the io threads.
3. The Redis scripts of accounts and users.

The runs are kept to a dozen, so that all of them can be repeated at each change:
a new module's run has to be worth more than one of these, or share its instance.

## 7. Not modelled

- mysqlcpp2's pool: `RedisPool` without growth, under one lock.
- `TcpServer`'s accept loop beyond one connection, `IOContextPool`; knet's
  `RPCFuture` (a builder), `Producer::Flush` and `Stop` (no caller).
- network v1's `AsyncClient`, network v2 to v4 and v4dll, vnetwork, zysoft's
  experimental net: other stages of the modelled network.
- mysqlcpp, mysqlcpp_old and the `_old` directories: copies of what is modelled.
- network `stream_server`: its `RWHandler` is that of network v1 but for what it
  forgets, and its `update` has the shape of `World::heartbeat`; of its own are the
  client's hand-over of connects and its reconnection (plan, item 1).
- nel: ported from another project, the shape of stream_server.
- the Redis scripts: Redis runs each as one step, and no code in `src/` calls them.
  (`bind_account.lua` stores `KEYS[2]`, the account, as the password, where its
  header names `KEYS[3]`.)
- frontend_service and login_server's RouterService: they do not compile.
- kafkacpp, rdkafkacpp, misc, win32, database access: wrappers, call by call.
- zylib, zysoft and experimental utilities: strings, codecs, random numbers.
- games: one sequential loop. SimpleWeb, tinyxml2: vendored.
- Data races on C++ objects (the acceptor in `StopAccept`), which are below the
  models' steps.
