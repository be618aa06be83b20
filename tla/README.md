# TLA+ models and proofs of pookiepy

pookiepy is a message broker over one bidirectional gRPC method, `DataChannel`. A server
(`BaseServer`) keeps a routing table (`DataRegister`) from message names to the notification
queues of its clients; a client (`BaseClient`) names what it `requires` and `provides` in a
first message, is welcomed, and then sends and receives messages through two queues and two
threads. Messages may carry a history of their hops. `TimedEvent` paces periodic tasks; two
examples, an agent bridge and a dashboard, are programs of their own. This directory holds specifications of these
parts, the TLC runs that check them and the TLAPS proofs about them.

## 1. Inventory

| Component | State | Operations | What makes it correct |
|---|---|---|---|
| **Broker streams** `baseserver.py` | `__connected_clients` and its lock, per stream `exit_event`, `Peer`, notification queue, RPC status; `_global_exit_event` | `DataChannel` (sender thread), `_handle_client_receive` (receive thread), `serve_forever`, `shutdown`, user hooks | welcome first; no subscription survives its stream; failures are not reported as success; the connection count is exact; shutdown ends everything |
| **Routing table** `data_register.py` | `_register`, a lock per name, `_locks`, `_last_queue_warning` | register, remove a client, fan-out and unicast with `DeliveryResult`, queue warning | results say what happened; nothing reaches a removed client; order per publisher; losses are signalled |
| **Client** `baseclient.py` | `run_event`, `stream`, `send_queue`, `receive_queue`, `receive_thread`, per connection | connect / reconnect, request generator, receive loop, `send_data`, `wait_done`, `get_data`, `disconnect` | one stream at a time; at most once and in order; errors reach the application; calls return |
| **Timer** `timer.py` | `_event`, `_stop_event`, the worker, the loop's index | `timer`, `__enter__`, `__iter__`, `__exit__`, drift compensation | no tick lost unseen or taken twice; cycles on time; loops and `__exit__` end |
| **History** `tools.py`, `baseclient.py`, `baseserver.py` | the entries inside a message; the message objects that queues share | append at receipt, complete at sending, `evaluate_history` | hops in order, times that do not run backwards, each hop's processing time |
| Tools `tools.py` | none | `set_metadata`, `generate_message`, conversions | – |
| Custom interface `custom_interface.py` | cached bundled interface | import and validate generated modules | a wrong interface is refused at start |
| **Agents and executors** `examples/mcp_server` | the loop's counters and tool calls, the id waited for, `run_event` | start, agentic loop, `_execute_tool`, file operations, program runs | one request at a time; an answer belongs to its question; the loop ends with the client disconnected |
| **Dashboard** `examples/watchdog` | the server's counts and ring of events, the poller's last snapshot, the browser's total, rows and `isRefreshing` | count an event, send a snapshot, poll, refresh, render | the feed repeats nothing and skips only what the ring lost; its figures fit together; it catches up |
| Interactive streaming example | HTTP and audio sessions | hooks over the above | – |
| Logger, exceptions, schema version, command line, packaging | – | – | not behaviour of the running system |

**How they interact.** gRPC runs `DataChannel` of every stream on a worker of a bounded pool;
the generator starts the receive thread, polls the notification queue and yields. The receive
thread registers the client with the table and calls `add_data_for_message_name`, which puts
into the queues of *other* streams; servers may also push from threads of their own. The two
threads of a stream share `exit_event`, set by gRPC's termination callback, by the receive
thread's `finally` and by the cleanup; one lock orders enrolment against cleanup. On the client
the application thread, gRPC's thread iterating the request generator and the receive thread
share the two queues and `run_event`, all read through `self`, so threads of an old connection
see the state of a new one.

**What is hard.** Hooks that return after the stream is gone; RPCs that end before, while or
after the callback is registered; fan-outs on copies of the subscribers; full queues; one message
object in many queues; a reconnect while threads of the last connection live; stream errors with
nobody waiting; a timer worker killed at any instruction; a page that reconstructs a stream of
events from samples of its last few. `PROJECT.json` lists these hazards with their lines and the
properties aimed at them.

## 2. Modules

Each component has one specification, one module of properties, one `MC` module with the
values of its constants, and, where there are theorems, one module of proofs.

| Module | Models |
|---|---|
| `StreamServer` | the broker: streams × (sender, receiver), main thread, server-side publisher, routing table at the granularity of one name's lock |
| `StreamServerProperties` | its type invariant, properties, inductive invariants, and the refinement mappings to `StreamSession` and `Routing` |
| `StreamSession` | the service as a client sees it, abstractly: per stream a phase, a set of topics and an inflow that begins with the welcome |
| `Routing` | the service as a publisher sees it, abstractly: members of topics, whole or reduced by one or to one, who are each given a message once or miss it for a full inbox |
| `StreamServerProofs` | TLAPS proofs about `StreamServer`: types, registration, completion; what is counted, admitted and released |
| `StreamSessionProofs` | what reaches a client: welcome first, order, no echo; that `StreamServer` implements `StreamSession` and `Routing` |
| `DataRegister`, `DataRegisterProperties`, `DataRegisterProofs` | the routing table alone, in more detail: targets, results, drops, warnings and time, repeated calls; that it implements `Routing` |
| `StreamClient`, `StreamClientProperties`, `StreamClientProofs` | one client over several connections |
| `TimedEvent`, `TimedEventProperties`, `TimedEventProofs` | the timer, both backends, and its drift compensation |
| `MessageHistory`, `MessageHistoryProperties`, `MessageHistoryProofs` | the history of a message on its way through clients and server |
| `Watchdog`, `WatchdogProperties`, `WatchdogProofs` | the `watchdog` example: server, poller, web page |
| `TaskBridge`, `TaskBridgeProperties`, `TaskBridgeProofs` | the `mcp_server` example: agents, file and program executors |
| `MCStreamServer`, `MCDataRegister`, `MCStreamClient`, `MCTimedEvent`, `MCMessageHistory`, `MCTaskBridge`, `MCWatchdog` | constants and state constraints for TLC |

Operators marked `Mutant:` in a comment are plausible bugs (a lost guard, a missing decrement, a
swapped order). They are never part of `Next`; each shows that one property notices it.

### StreamServer and the code

* `sender[s]` is the program counter of `DataChannel`: `count`, `callback`, `check`, `schema`,
  the polling loop, `clean` (waiting for the registration lock), `remove` (holding it), `hook`,
  `uncount`, `done`. `receiver[s]` is that of `_handle_client_receive`. `main` is that of
  `serve_forever`.
* `lock` is `__connected_clients_lock`, held over several steps in enrolment
  (`SendWelcome` … `EndEnroll`) and cleanup (`BeginCleanup` … `EndCleanup`). The two sections
  that only change the count are single steps; the table's own locks are never held over
  another lock or a put, so each `with` block is one step.
* `exitEvent`, `globalExit`, `connected`, `subs`, `queue`, `identified` (`peer.client_id` is set)
  and `enrolled` are the variables of the code; `status` is what `set_code` recorded and
  `final` what the client sees; `sent` is what gRPC was given.
* A client id is drawn per connection, so a stream stands for its id. Hooks accept, reject or
  raise; a `grpc.RpcError` that a hook raises is taken for the peer's disconnect, as in the code.
  `failed` keeps how a receive thread failed apart from the code it recorded in `status`. The RPC may end at any step (`RpcEnds`); gRPC then closes the suspended generator
  (`DropGenerator`) and ends the request iterator.

### DataRegister and the code

A `registrar` per client registers its names and removes them; each `publisher` runs
`add_data_for_message_name` step by step: find the lock, copy the subscribers, then per
subscriber put or drop, then the warning, then return. `CopySubscribers` is the `with` block,
`Deliver`/`Drop` are `put_nowait` and `queue.Full`. `now` is `time.monotonic`, `lastWarning` the
shared time of the last warning. `goneBefore`, `put`, `warnings` and `lost`, the time of the
latest full queue a call has met, are history.

### StreamClient and the code

`app` is the application thread, `gen[g]` and `recv[g]` the generator and receive thread of
connection `g`. What the code reads through `self` is read through `cur` (the queues) and
`runEvent`; a generator blocked in `get` keeps the queue it is blocked on (`target`). gRPC drops a
generator suspended at its `yield` when the stream is over (`GenDropped`): `GeneratorExit` is no
`Exception`, so neither `task_done` nor the drain runs. Server and transport are external: they
refuse a connection, answer, or end the stream at any step, with or without an error.
`disconnect` has one caller, as its docstring demands.

### TimedEvent and the code

The worker takes the event's lock for `set()` and `is_set()`; `terminate()` and a crash may hit it
there, and the lock of a process is then lost. The application waits, clears, runs its body and
may leave at any point; the object may be entered again, and nothing resets its events. `infinite`
is `n = -1`: a loop without end, and a worker that stops only when told to. `EnterFails` is the
`__enter__` whose `psutil` call raises after the worker process has started.

For the application time is abstract. For the worker it is kept as a drift: the unit is
`compensation_strength`, a tenth of the last digit of `s`, so `s` itself is a multiple of ten
units and drops out. `digit` is the digit of the clock that the code reads, `adjust` what the
table `CLOCK_COMPENSATION_STRENGTH` adds to the next sleep, `off` how much longer than `s` the cycles
were in all. A sleep may end some units late (`Lates`); the time that setting and warning take is
part of it.

### MessageHistory and the code

A message is its history, a sequence of entries `[name, recv, send, perf]`. Client and server
append one at receipt (`Arrive`) and rewrite the last one at sending (`Complete`), which turns
`perf` from a counter into a difference. Between processes a message is copied; inside the server
`notifyQ` holds indices into `objects`, because one object is put into the queues of all
subscribers and each sender completes the entry of that object (`SenderCompletes`), before gRPC
serializes what it was given (`SenderYields`). `Process`, `Transit` and `EndToEnd` are the figures of
`evaluate_history`. All clocks agree and read whole ticks; the performance counters run from an
origin of their own, `Uptime`.

### Watchdog and the code

`stats`, `events` and `total` are the variables of `WatchdogServer`, changed and copied under its
lock; `latest` is what `WatchdogPoller` keeps; `isRefreshing`, `lastTotal` and `rows` are the
variables of the page's script and its feed, `shown` the two totals of its header. `uplink` and
`downlink` are streams of `StreamSession`: in order, and a snapshot is dropped when the poller's
queue is full. An answer to a fetch may be late, fail, or be forgotten by a reload. Other clients
may connect under the name of a letter; each connection starts the name's count anew. `Quit` ends
the dashboard's process, not the server.

### TaskBridge and the code

`setup[a]` is how far the main thread of agent `a` is with `_setup_connection`: `on_init`, which
starts the loop thread, comes before the queues, the queues before `run_event`, and that before the
handshake. `loop[a]` is where `_run_agentic_loop` is, `_execute_tool` included; `inbox` is its
receive queue together with the responses that are on their way to it, `work` the same for an
executor. A request is lost at once or reaches the executor; a response reaches every agent. Language
model and the success of an operation or a program are nondeterministic, and files are left out. `raised`
is a thread ended by an exception nobody catches, `gone` one whose process has ended with it. An executor's exception ends its receive loop (`up` becomes false) as
`StreamClient` says. `MaxFaults` bounds failed connections and streams, interrupts and executors that fail.

## 3. Runs

All runs are `tlc -config <name>.cfg <module>`; `Register`, `ClientReconnect` and `TaskBridge` take one to two minutes on two workers, each of the others about one or less.

| Run | Question | Bounds |
|---|---|---|
| `ServerEnroll` | Do enrolment, rejection, failure, cancellation, cleanup and shutdown ever cross in a bad way? `TypeOK`, `NoSubscriptionAfterCleanup`, `WelcomeFirst`, `FailureNeverOK`, `ConnectedIsExact`, `ReturnedMeansReleased`; does the broker use the table as `Routing` promises it, full queues included? `ImplementsRouting` | 2 streams, 1 worker, 1 topic (one client lists it twice), queue of 1, one server-side message |
| `ServerRouting` | Order and no echo across two live clients; does the broker implement `StreamSession`? `PublisherOrder`, `ImplementsSession` | 2 streams, 2 workers, unbounded queues, 2 messages of one client, no shutdown (`StaysUp`) |
| `ServerLiveness` | `ShutdownCompletes`, `EndedStreamFreed`, `QueueDrains` | 1 stream, 2 topics, queue of 2, one message from client and server each |
| `Register` | Do results, order, removal and warnings stay right while clients come and go, and does the table implement `Routing`? `TypeOK`, `ResultsExact`, `NoDeliveryAfterRemoval`, `QueuesOrdered`, `CallsNeverWait`, `LossCovered`, `WarningsSpaced`, `ImplementsRouting` | 2 clients, 2 topics, a client that publishes twice, a server that fans out or sends to one client once, queues of 1, threshold 0, cooldown 1, time to 1 (`ClockMatters`, `SecondMeetsTargeted`) |
| `ClientReconnect` | `TypeOK`, `OneStream`, `SentOnce`, `ReadInOrder` | 2 connections, two data messages sent or one received (`TwoSentOrOneReceived`) |
| `ClientLiveness` | `HandedOver`, `CallsReturn`, `ErrorReachesApp` | 1 connection, 2 messages each way, receive queue of 1 |
| `ClientHandshake` | violated: `ConnectMessageKept` | 2 connections |
| `ClientWaitDone` | violated: `WaitDoneReturns` | 1 connection, 1 message |
| `TaskBridge` | `TypeOK`, `OneAtATime`, `AnswersAreOwn`, `AgentFinishes` | 2 agents that start up, 2 executors, 2 iterations, 2 dead turns, up to 2 tool calls a reply, 1 fault, one agent whose loop overtakes its start-up (`SecondConnectsFirst`) |
| `TimerTicks` | `TypeOK`, `TicksAccounted`, `CyclesOnTime`, `LoopEnds`, `ExitReturns` | 4 cycles, 2 uses, 3 loops, both backends, finite and infinite, digits 0, 4, 5, 9 at the start, cycles on time or late by 2 units |
| `Watchdog` | `TypeOK`, `FeedExact`, `CountsAgree`, `FeedCatchesUp` | 1 letter that connects twice, ring of 2, feed of 3 rows, queue of 1, 4 events, 1 failed fetch or reload |
| `HistoryElapsed` | violated: `ProcessIsElapsed` | 3 clients, 1 message, relayed at most once, a counter that is 10 ahead of the clock |

**Why the bounds are enough.** Streams interact only through the table, the lock, the count and
the pool: two streams on one worker give every order of release and admission, two on two workers
give every interleaving of a publisher with a subscriber that comes and goes. A queue of one
element is full as soon as it can be, so both outcomes of every put occur. A topic listed twice
reaches the branch that raises `ValueError` and leaves the names before it registered. Two connections of a client are the least with an old and a
new one; a third adds another old one that does what the first does. Two messages are the least
that can be reordered. Two agents see each other's responses, two tool calls can overlap if
anything lets them, and two iterations let an answer that is late meet the next request; a timeout is no
fault, so an agent may give up and its executor fail in one behaviour. Four ticks allow a merged one between two taken ones, and a worker whose compensation acts on what
it did before. Four events are enough for a feed that is full, a ring that has turned over between
two looks, and a row after that gap. The proofs of section 5 are independent of these bounds.

The inductive invariants are theorems, for all bounds; no run spends time on them.

**State constraints** cut exploration, not behaviour. `StaysUp` leaves shutdown to the other server
runs. `TwoSentOrOneReceived` leaves two messages each way to `ClientLiveness`, and with two sent it
lets streams be cancelled but not fail: streams that fail are explored with one. `ClockMatters` keeps
the clock at 0 until there is a warning; only the time between warnings is tested.
`SecondMeetsTargeted` lets three calls overlap when the server's has a target, and two when it is a
fan-out. `SecondConnectsFirst` explores the race of the loop thread with `_setup_connection()` in one
agent, against every run of the other.

**Deadlock.** Checked for server and table, whose models stop only where the code does and say so
with an explicit last step, and for the dashboard, whose page polls for ever. `CHECK_DEADLOCK FALSE` for client, timer,
agents and history: an application may make its last call and stop.

**Fairness.** Weak fairness of each thread's steps: the interpreter schedules every runnable
thread, every wait in the code polls with a timeout, and hooks are taken to return. Nothing is
assumed of peers: no fairness for connecting, sending, ending a stream, calling `shutdown`, for a
server that answers, nor for the resumption of a suspended `yield` (`Resume`), which flow control refuses
while the peer does not read. `QueueDrains` is about clients that do read, and says so: `PeersRead`,
the fairness of `Resume`, is its premise; the other liveness properties do without it. `ServerLiveness` needs the transport to end RPCs after the grace period
of `server.stop`, as grpc documents. `ClientLiveness` assumes that `join(timeout=5)` waits for a thread that is
running and gives up on one that user code or a full queue holds. `TaskBridge` assumes only that an
agent's two threads run and that its waits, the handshake's included, which have timeouts, end. `TimerTicks` assumes that a living worker is
scheduled and that task bodies return; `Watchdog` that streams deliver and that the poll loop and the page's
timer go on, not that anybody fires an event or that the dashboard keeps running. The table needs no
fairness: `CallsNeverWait` says of every state that a call under way has a next step.

## 4. Findings

Runs that violate a statement of the repository (details in `PROJECT.json`):

* `ClientHandshake`: a reconnect within a second of `disconnect` leaves the old generator alive on
  the new queue; it eats the connect message, or data. (`baseclient.py:298`, comment at 165)
* `ClientWaitDone`: `wait_done` blocks for ever on a message sent after the generator ended. (533,
  comment at 340)
* `HistoryElapsed`: with two subscribers of one message each sender completes the history entry of the
  object they share; the second turns the difference back into the counter's value, and the receiver is
  told that value as processing time, ten ticks of which none passed in the run. (`baseserver.py:383`, comments at `tools.py:142` and `message.proto:36`)

**Observations** reached by the models' actions, without a run of their own:

* A hook that raises `grpc.RpcError` (`HookRaisesRpcError`) ends the receive thread without a status:
  `baseserver.py:292-294` takes it for the peer's disconnect, and the RPC completes OK, against the comment at
  line 296 on failures in the receive worker. `FailureNeverOK` is about all other failures.
* `on_client_accepted` runs before any of the client's `requires` is registered (`AcceptedHook`, then
  `Subscribe`); its doc at `baseserver.py:593` says "accepted and registered".
* A reconnect that timed out leaves `run_event` set (`ConnectTimeout`), so the next `__enter__` takes
  the client for connected; the comment at `baseclient.py:542` says it would try again.
* `on_client_disconnect` also runs for a rejected client (`RejectClient`, then `DisconnectHook`);
  the skeleton in `__main__.py:152` says "Called when an accepted client's stream closes."
* `send_data` during a reconnect gets ahead of the connect message (`SendData` between
  `SetupConnection` and `PutFirst`).
* A `CANCELLED` sent by the server is taken for the client's own (`baseclient.py:430-432`): the receive thread
  ends and nothing tells the application. `ErrorReachesApp` is about the other codes.
* A receive thread that outlives `disconnect` puts what it still reads into the queue of the next
  connection, between that connection's responses (`recv[g]` of an old `g` uses `recvQ[cur]`).
* `on_receive` may run before `_check_connection` has seen the welcome (`RecvNext` needs only
  `RecvFirst`), though the comment at `baseclient.py:401` says otherwise.
* A receive thread blocked on a full receive queue outlives `disconnect` for good (`ThreadJoined` with
  `recv = "put"`).
* A fan-out by the only subscriber returns two empty tuples; the docstring at
  `data_register.py:146` takes that for "no notification queue exists".
* A `TimedEvent` with the thread backend that is entered again never ticks, because `_stop_event`
  stays set (`Enter`, then `WorkerEnds`); a worker process that dies in `set()` blocks the loop on the
  event's lock (`locked = "lost"`); `overrun_count`, documented at `timer.py:313`, is never changed.
* When `psutil` refuses the priority, or finds no such process, `__enter__` raises after the worker has
  started (`EnterFails`); `__exit__` does not run, and the process goes on setting the event.
* `__exit__` stops or kills the worker (`Exit`) whatever cycles are left, also after a `break`; the docstring at
  `timer.py:225` says it blocks until all ticks are issued or the loop is exhausted.
* A response that misses the agent's deadline, or a failed stream, ends the loop of an agent without
  `disconnect` (`Timeout`, `GetRaises`), and the main thread polls `run_event` for ever; the docs at
  `LlmBridgeClient.py:275` and 365 say that the loop disconnects when finished.
* `LlmBridgeClient.on_init` (line 112) starts the loop thread before `_setup_connection` has made the queues
  and set `run_event` (`baseclient.py:167-172`). A loop that looks first ends at once: its `disconnect` raises
  `AttributeError` on `send_queue` or returns early, the client then connects, and the main thread polls for
  ever (`Orphaned`). A loop that runs during the handshake may take the welcome (`ConnectFails`).
* `history[-1].sendTimestamp` of a shared object is overwritten as well (`SenderCompletes`): a transit time
  never becomes negative by it, but it is the time since the last sender's completion.
* The dashboard's total per client starts anew when a name connects again (`Connect`), while the
  header's count of events does not.

## 5. Proofs

TLAPS proves, for every value of the constants that satisfies the assumptions named in the
modules:

* `StreamServerProofs!TypeCorrect`: `Spec => []TypeOK`, action by action; the lemmas
  `SnapshotType` and `NotifyType` carry the fan-out, where functions and sequences meet.
* `StreamServerProofs!NoSubscriptionAfterCleanupHolds`. The property alone is not inductive: a
  receive thread inside the enrolment could still subscribe. `RegistrationInv` adds that the lock
  is held exactly by who enrols or cleans up (`LockInv`), that a stream past its cleanup has its exit
  event set or never had a receive thread (`StageInv`), and that whoever is subscribed is identified
  and, while the cleanup runs, still on its list (`SubscriptionInv`). Enrolment tests the exit event
  under the lock, so none begins after the cleanup. It is proved itself, so no run spends time on it.
* `StreamServerProofs!FailureNeverOKHolds` by `CompletionInv`: while RPC and server are up, only a
  receive thread that is already dead has set the exit event, so the code it recorded is in place
  before the sender completes the RPC. Failure is a variable of its own (`failed`), set where the thread
  fails; that every failure but the swallowed `grpc.RpcError` comes with a code is part of the proof.
* `StreamSessionProofs!WelcomeFirstHolds` and `PublisherOrderHolds` by `InflowInv`. What a stream was handed, yielded
  or still queued (`Flows`), is `Proper`: nothing, or the welcome and then messages of others by increasing
  numbers. That is not inductive either, for a put must not break it: whoever is subscribed or about to be notified
  has been welcomed, whom a publisher has still to notify lacks its latest message (`AudienceInv`), and a stream
  before its enrolment has been handed nothing (`EnrolmentInv`). The assumption that `"welcome"` names no stream
  is used here.
* `StreamServerProofs!ConnectedIsExactHolds` and `ReturnedMeansReleasedHolds` by `AdmissionInv`: the streams in
  service are finitely many, at most `MaxWorkers`, and none once the executor has shut down; the counter is the
  cardinality of those between increment and decrement. With `RegistrationInv`, whoever is subscribed is in service.
* `StreamSessionProofs!ImplementsSessionHolds`: `Spec => Session!Spec`. Sending the welcome opens a session, since a
  sender that began its cleanup would have set the exit event that `SendWelcome` tests; a subscription joins, as
  the lock keeps the cleanup away; a snapshot publishes, a put is received or dropped; the cleanup closes, leaves topic by
  topic and releases; a stream that ends before it had a receive thread is released at once; every other step is
  a stutter. It rests on `TypeOK`, `RegistrationInv` and `InflowInv`. The run `ServerRouting` checks the same refinement
  without shutdown and with two clients; the theorem has neither limit.
* `StreamSessionProofs!ImplementsRoutingHolds` and `DataRegisterProofs!ImplementsRoutingHolds`: both models of the
  table, the broker's with one variable and the register's with locks, copies and drops, implement the one
  `Routing`, so what the broker relies on is what the register provides. The register's argument is one of
  linearization: a call counts as made when it has copied its subscribers, or has found that its name has no lock
  or nobody is registered under it (`Effective` is its number of calls, less one while the call is before that point); its audience
  is that of this instant although the copy is used later. It needs that an unknown name has no members and that a
  client counts as departed only when no name lists it (`TableInv`), and that whom a call still has to notify is
  what it copied less what it has put or dropped (`CallInv`). In the broker a put belongs to the latest message
  because a fan-out is over before the next begins (`FanInv`), the greeting is given to an empty inbox
  outside every topic (`InflowInv`), and whoever is done is subscribed to nothing (`RegistrationInv`).
* `TimedEventProofs!TypeCorrect`, `TicksAccountedHolds`. `Inv` adds to the types that a loop
  in progress has ticks left, that only the application clears the event between wait and clear,
  and that a worker about to set it has cycles left.
* `TimedEventProofs!CyclesOnTimeHolds`, for every start digit and every sequence of latenesses of at most two
  units. `DriftInv` says that the drift follows the clock: at the top of a cycle it is within an interval
  (`Near`) that the digit alone determines and whose next move the table chooses, so that no sequence of
  corrections adds up.
* `MessageHistoryProofs!HopsInOrderHolds` and `TimesInOrderHolds`, for any number of clients, relays and messages.
  Each queue holds histories of one kind (`Kept`, `Got`, `Uplink`, `Object`, `Downlink`: odd or even length,
  whose entry is last, whether it is completed), each action maps one kind to the next, and a clock that only
  grows keeps old ones in their kind. A shared object may be completed many times: `send` then only moves
  towards the present, which is why the times stay in order although `ProcessIsElapsed` does not hold. Assumed:
  the server's name is no client's, and `Uptime` is an integer.
* `TaskBridgeProofs!TypeCorrect`, `BridgeInvHolds`, `OneAtATimeHolds`, `AnswersAreOwnHolds`.
  `OneAtATime` looks at the moment only; what keeps it is custody of the requests: each is in one
  position of one queue, with one executor, or answered, and never in two of them (`PlaceInv`,
  `ServedInv`); and one that is not answered is its agent's last, whose loop waits, has ended by an
  exception, or is disconnected (`PendingInv`). So an answer the agent accepts proves that nothing
  of its is underway. `CapsInv` bounds the counters of the loop, and `StartInv` says that nothing is asked
  before `run_event` is set, so that setting it disturbs no custody.

* `DataRegisterProofs!ResultsExactHolds`, `NoDeliveryAfterRemovalHolds`, `QueuesOrderedHolds`, `WarningsSpacedHolds`
  and `LossCoveredHolds`, by `RegisterInv`. None is inductive: a result is exact at the
  end because in the middle everybody addressed is delivered, dropped or still to be notified, in one of these
  only, and has the message in the queue exactly if delivered (`CallInv`); a call touches nobody removed before it
  because a removal visits every name its client is registered under, whichever names were added meanwhile
  (`TableInv`); a queue stays ordered because the numbers of a publisher's past calls are all below the present one
  (`QueueInv`); the last warning and the clock say of each other what `Warn` tests (`WarningInv`); and a call that has met a
  full queue is on its way to the warning or has one within the cooldown of its latest loss (`LossInv`), whichever
  publisher made it.
* `StreamClientProofs!OneStreamHolds`, `SentOnceHolds`, `ReadInOrderHolds`, `HandedOverHolds`, by `ClientInv`.
  A stream that is up is the current one, and whoever ends the run event has cancelled it (`StreamInv`). A
  message is in one place: queued, held by one generator, or yielded (`UniqueInv`). Generators of old connections share the
  newest queue, so the order of a stream cannot rest on its own queue: `OrderInv` says that whatever a generator
  can still take, from the queue it waits on or any later one, was sent after all it has taken. `ReadInv` does the same
  for responses, and `CountInv` says that a connection has no thread before it is made. `HandedOver` holds until a second
  connection is begun, whatever the client may connect to later; `ClientWaitDone` and `ClientHandshake` show why not longer.
* `WatchdogProofs!FeedExactHolds` and `CountsAgreeHolds`. Every snapshot, in the poller's queue, in its hands or on
  its way to the page, is that of one moment of the server, whose ring holds the newest events without a gap (`RingInv`)
  and whose counts add up (`AgreeInv`); their totals are in the order in which they travel, the page's last
  (`OrderInv`); the flag keeps all but one answer away from the page (`RefreshInv`). `FeedAppended` is the heart of the
  first theorem: appending as many of the newest as the total has grown leaves no gap, and appending less means a whole
  ring. The header's sum is a fold over the names in the order of `CHOOSE`; `SumRemove` shows that it does not depend on
  that order. The library's induction principles take an operator, which the provers cannot instantiate, so the
  proof looks at a smallest set for which the claim fails (`MinimalSubset`, from `WFMin`), and `FoldExists` and
  `FoldUnique` give the recursive function a value first. The assumption that there are finitely many letters is used here.

Only model-checked: all liveness properties, since fairness is beyond the prover; `CallsNeverWait` of the table, which is
stated with `ENABLED`; and the three violated properties. Every other invariant and refinement of the runs is a
theorem. No module declares a `RECURSIVE` operator.

## 6. Not modelled

* Payloads, message metadata and logging: `set_metadata`, `generate_message` and the `Struct` conversions of
  `tools.py` are pure and keep no state.
* Clocks that differ between hosts: `evaluate_history` reports such transit times as what they are, differences.
* TLS, compression, message size limits: options handed to gRPC.
* A client or server that calls its own blocking API from a hook (`get_data` in `on_receive`).
* `disconnect` from several threads, excluded by its docstring; `__del__` on another thread.
* A `TimedEvent` that is entered again after an `__enter__` that failed; the check of the cycle time's precision; compensation with an
  `s` that Python prints without a decimal point (`1e-05`), whose digit position then is 0; sleeps that end more
  than two units late.
* A poller of the dashboard that loses its stream: its thread goes on, as `run_event` stays set, and the page shows
  the last snapshot.
* The files that the executors of the agent example change, and what a program prints.
* The interactive example, command line, logger, packaging (see `PROJECT.json`, components).

## 7. Plan

1. *Done:* broker with its abstract session, table, client, timer with compensation, histories, agents, dashboard;
   every safety property and the refinements proved, except what section 5 names.
2. *Done:* the table as the broker uses it and the one of `DataRegister` implement the same `Routing`.
3. `StreamSystem`: the broker and its clients composed over channels, so that a client's reconnect meets the
   server's cleanup of its last stream. Abstract specification: a message published while a client is
   subscribed and reads is read once, or reported dropped.
