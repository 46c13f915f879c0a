# A verification development for the SciLedger fork of the Sawtooth SDK

TLA+ modules that model the parts of this repository that are hard to test,
TLC configurations that check them on small instances, and proofs, checked by
TLAPS, of their most important properties. `PROJECT.json` lists components,
runs, mutants, findings, hazards and theorems; this file explains them.

## 1. The system

A *client* process (a transaction processor or a consensus engine) keeps one
ZeroMQ connection to a *validator*, which is not in this repository. Everything
the client does goes through a stream: calls that are answered (a registration,
an access to the state), messages of the validator that want a response (a
transaction, a ping, a notification), and the responses. The connection may
break and come back at any moment.

```
                     Python                              Java
  application        XoTransactionHandler, Engine        XoHandler
                        |  apply, start, stop               |  apply
  processor, driver  TransactionProcessor, ZmqDriver     TransactionProcessor + hook
                        |  send, send_back, receive,        |  send, sendBack, receive
                        |  wait_for_ready, close            |
  stream             Stream: futures, ready event        ZmqStream: map of futures, queue
                        |  handles of an event loop         |
  background         _SendReceiveThread                  SendReceiveThread,
                        |                                DisconnectThread
                        |  ZeroMQ                           |  ZeroMQ
                                      validator
```

### Inventory

**Python messaging** (`src/sawtooth_sdk/messaging`). *State:* the ready event,
two queues that exist only while connected, the event loop with its queue of
handles, the table of futures, the sockets. *Operations:* `send`, `send_back`,
`receive`, `wait_for_ready`, `close`, `Future.result` in any thread; connect,
run, send, receive, monitor, shut down in the background thread. *Hard:* a call
is made of several steps, and a disconnect may fall between any two of them;
callbacks survive the stop of the loop; the table is iterated without its lock.
*Correct when:* no call is left waiting but where the code says so, an answer is
never taken for a request, the consumer learns of a reconnection before anything
that came with it, the loop never blocks its own thread, the stream recovers.

**Python transaction processor** (`src/sawtooth_sdk/processor`). *State:* where
`start()` is, the registrations it has sent and read, the future at hand, whether
it is leaving. *Operations:* register, receive, answer a ping, process a
transaction (with the handler's `Context` calls), register again after the
reconnect event, unregister after Ctrl-C or a version mismatch, drain, stop.
*Hard:* events of earlier connections are handled late; every `send` may raise;
an interrupt may come anywhere. *Correct when:* no transaction is applied before
the processor is registered on its connection, each is answered once, the
processor registers again, and it ends when interrupted.

**Python consensus driver** (`src/sawtooth_sdk/consensus`). *State:* where the
main thread and the driver thread are, the exit flag, the queue of updates.
*Operations:* register, wait for the activation, the driver loop, `stop()` from
either thread, the calls of `ZmqService`. *Hard:* two threads share one stream
and one flag; the next message is taken before the last is processed; a
deactivation stops the driver from inside. *Correct when:* updates keep their
order, what is acknowledged reaches the engine, both threads end.

**XO in Python** (`src/examples/xo_python/sawtooth_xo/processor`). *State:* the
entries of the validator's state, each holding the games whose names have one
hash. *Operations:* create, take, delete, each a read and a write of an entry.
*Hard:* turn, winner and players are stored beside the board and must keep up
with it; games share entries. *Correct when:* the stored games are games of
tic-tac-toe.

**Java messaging** (`src/sawtooth-sdk-transaction-processor/.../messaging`).
*State:* a concurrent map of futures, a queue of messages, a socket shared by
threads, whether the thread has made it. *Operations:* `send`, `sendBack`,
`receive`, `getResult`, `close`; the event loop's `Receiver.handle`, the disconnect
thread. *Hard:* the disconnect thread runs beside the receiver and replaces map
entries instead of resolving futures; `Condition.await` is called once. *Correct
when:* an answer is never taken for a request, nobody waits for a result that is
there, every disconnect is told, calls end but for those a disconnect met.

**Java transaction processor** (`.../processor`). *State:* the handlers, the current
message, where `run` and the shutdown hook are. *Operations:* `addHandler`, `run`,
`process`, the context's calls, `Shutdown.run`. *Hard:* the hook runs beside `run`
and processes the same message and the same queue. *Correct when:* one response per
transaction, also at shutdown; every handler is registered again; the hook ends.

**XO in Java** (`src/examples/xo_java`). Create and take, on boards whose size the
creator chooses, in entries found by the beginning of a name. *Hard:* turn, players
and result are stored beside the board and must follow the marks. *Correct when:*
nothing that was played is undone, turns follow the marks, who completes a line wins.

**Workflow generator** (`src/SciFlowTesting/src/workflowGen`). *State:* the list of
tasks with their parents, the branch that is being added. *Hard:* branches lead
back into the chain. *Correct when:* a workflow has no cycle, one beginning and one
end.

Not part of the program logic: the quorum experiments, signing, the command line
client, configuration and logging, generated protocol buffers, deployment. Section
5 says why they are not modelled.

## 2. The modules

| Module | Models | Extends / instantiates |
|---|---|---|
| `Stream` | `stream.py`, `future.py` | |
| `StreamSpec` | what a stream promises its callers (abstract) | |
| `StreamRefinement` | `Stream` implements `StreamSpec` | `Stream`, INSTANCE `StreamSpec` |
| `StreamProofs` | proofs about both | `StreamRefinement`, TLAPS |
| `TransactionProcessor` | `core.py`, `context.py` | INSTANCE `StreamSpec` |
| `TransactionProcessorProofs` | proofs about it | `TransactionProcessor`, TLAPS |
| `ConsensusDriver` | `zmq_driver.py`, `zmq_service.py` | INSTANCE `StreamSpec` |
| `ConsensusDriverProofs` | proofs about it | `ConsensusDriver`, TLAPS |
| `TicTacToe` | the rules of the game (abstract) | |
| `XoProcessor` | `handler.py`, `xo_state.py`, `xo_payload.py` | INSTANCE `TicTacToe` |
| `XoProofs` | proofs about it | `XoProcessor`, TLAPS |
| `ZmqStream` | `ZmqStream`, `SendReceiveThread`, `FutureByteString` (Java) | |
| `ZmqStreamSpec` | what the Java stream promises (abstract) | |
| `ZmqStreamRefinement` | `ZmqStream` implements `ZmqStreamSpec` | `ZmqStream`, INSTANCE `ZmqStreamSpec` |
| `ZmqStreamProofs` | proofs about both | `ZmqStreamRefinement`, TLAPS |
| `JavaProcessor` | `TransactionProcessor`, `StreamContext` (Java) | INSTANCE `ZmqStreamSpec` |
| `JavaProcessorProofs` | proofs about it | `JavaProcessor`, TLAPS |
| `JavaXo` | `XoHandler.java` | |
| `JavaXoProofs` | proofs about it | `JavaXo`, TLAPS |
| `WorkflowGen` | `randomizeGen.java` | |
| `WorkflowGenProofs` | proofs about it | `WorkflowGen`, TLAPS |

The layers are checked apart and joined by a refinement: `Stream` is shown to
implement `StreamSpec`, and the two applications are built on `StreamSpec`, whose
calls they use inside their own actions (`Stream!Begin`, `Stream!Return`,
`Stream!Receive` ...). `ZmqStream`, `ZmqStreamSpec` and `JavaProcessor` stand to each
other in the same way. Module `MCx` gives `x` its small instances. A definition
whose name has a suffix (`Connect_NewLoop`) is a fault: the mutant that shows that
a property can fail.

### Stream

One action per step that another thread can observe. `send` is `CallBegins`,
`FuturesPut`, `PutMessageChecks`, `PutMessageWaits`, `PutMessageSchedules`;
`result()` is `Result` or `ResultTimesOut`; `receive` schedules a handle. The
background thread is `Connect`, `ConnectFails`, `RunForever`, `LoopStops` and the
handles of its loop. `runq` is the loop's queue of handles and `todo` what is left
of the batch it is in: `loop.stop()` lets the batch finish, so handles run after
`_monitor_disconnects` has set the queues to `None`, and those that were appended
during the last batch run in the next connection, as the code does by keeping its
event loop. `MonitorClears`, `SweepBegins`, `SweepNext`, `SweepFails`, `StopLoop`
are `_monitor_disconnects`; the iterator over the live dictionary view raises when
the table has changed (`SweepFails`). `close()` schedules `CancelTasks` and
`DoneCallback`. The validator, the link and the loss of messages are external.

Left out: the contents of messages, multipart framing, and the copy of the loop's
task set in `close()`, which the interpreter may make fail.

### StreamSpec

A call is a slot: idle, begun, pending, then an error or a response. A call may be
dropped without a word when the connection goes between the two checks of the ready
event; only a disconnect fails a call; the reconnect event comes before everything
of its connection. `StreamRefinement` maps the steps of `Stream` onto it.

### TransactionProcessor

`pc` says where the main thread is. `regOn[f]` and `arrivedOn[r]` are history: the
connection on which a family was registered last, and on which a request came.
The order in which the answers to registrations are read is left open, which
allows more than the code. After an interrupt the calls under way are abandoned,
as the exception unwinds the stack, and the loop begins with the last future.
The handler's `apply` is external: any number of context calls, then a result
(`ApplyEnds`) or an exception that `_process` does not catch (`ApplyRaises`), which ends
the process. `held` is history too: the message at hand when the interrupt came, the
only one that may be answered twice. The bound `MaxRequests` says how many messages the
validator sends. An interrupt inside `receive()` itself is not modelled, nor is a
second one.

### ConsensusDriver

Both threads run beside each other, sharing `exit` and the stream. `told` says
that `Engine.stop` was called; the engine is external and returns when told, or
when it likes. The methods of `ZmqService` differ in the message they send and in
the exception that a status becomes: they are one call that returns or raises.
`acked` is what was handed to `send_back`.

### XoProcessor

`apply` is one action: the processor runs one transaction at a time, each in a
context that the validator commits or discards as a whole, so no other step sees
the state between its read and its write. The cache of `XoState` lives as long as
one `apply` and is not visible between transactions. Serialisation is modelled by
the entry it makes: the games by name, or no entry. A number out of range indexes
a string from its end, as in Python. `Address` is any function of names, so that
names may share an entry.

### ZmqStream and ZmqStreamSpec

`send` is `Register`, `AwaitSocket` and `SendMessage`; `getResult` is `GetResult`,
which looks at the result and may wait, and `Wake` (with the signal, or without a
cause) or `Expire`. The event loop is `Poll`, which takes a message and looks for its
future, then `Resolve` and `Remove`, or `Enqueue`: between any two of them the
disconnect thread may sweep the map (`EventRecv`, `SweepNext`), clear the queue
(`ClearQueue`) and put the message that tells of the disconnect (`Tell`). The sweep is
that of a concurrent map: what is put or removed meanwhile is met or not, never an
exception. `socket` is a field that the callers read without a lock while the thread
writes it, so a reader may find the old value (`AwaitSocket`, `SocketSpurious`). The
socket reconnects by itself and keeps what is sent meanwhile. What concurrent use does
inside the ZeroMQ socket is undefined in the library; a send and a receive are one
step each.

`ZmqStreamSpec` promises less than `StreamSpec`: a call is never refused, and one that
a disconnect met is lost without anybody being told.

### JavaProcessor

`pc` says where the thread of `addHandler` and `run` is, `hook` where the shutdown
hook is; the two share `currentMessage` and the queue, and every access is a step.
`shared` is history: the message that the hook read from the loop's field.
`process` catches two exceptions of a handler's `apply`; any other ends the loop without
a response (`ApplyRaises`), or the hook (`HookApplyRaises`). The JVM, a handler's `apply`
and the validator are external. Messages of a type that the
validator does not send to a processor are left out.

### JavaXo

As `XoProcessor`, one action per transaction. An entry holds one game at most, and is
found by every name that its own name begins with: `Begins` is that relation among the
names, `Address` any function. Two names share an address only when their hashes agree
in 64 digits, so in practice they do not; the model does not depend on it: an attempt to
add a second game raises (`XoHandler.java:235`) and leaves the entry as it was. The board is a square of 1 to 12 a side.

### WorkflowGen

`generate` draws a workflow's size and makes its chain; `Branch`, `Extend` and `Merge`
begin a branch, lengthen it and lead it back; `Finish` ends the workflow. Every random
number is any that it can be. What is printed is left out. The properties speak of paths
through the graph by sets of tasks: a graph has no cycle when every nonempty set has a
task that waits for none of the set, and a task comes from another when every set that
has it and is closed under parents (`Closed`) has the other.

## 3. What the runs check

| Run | Question | Bounds | Result |
|---|---|---|---|
| `stream_live` | does a call survive two disconnects in every interleaving, does `Stream` keep its promise, does everybody who waits get an end, and does `close()` end the thread? | 1 call with a timeout, 1 request, 2 disconnects, `close()` at any moment | holds, with the exceptions named |
| `stream_recovers` | does the stream always recover? | 1 call, 1 reply, 1 disconnect | violated |
| `tp` | registered before serving, one response; registers again, answers, ends | 2 families, 2 transactions and 1 ping of which 2 are sent, 2 disconnects, Ctrl-C, mismatch, context timeouts | holds, with the exceptions named |
| `driver` | order of updates, activation; what is acknowledged arrives, stopping ends | 2 notifications, activation, deactivation, 1 disconnect, service calls | holds |
| `driver_notices` | do notifications reach the engine after a disconnect? | 2 notifications, activation, 1 disconnect | violated |
| `xo` | do all games keep the rules, and leave each other alone? | 2 games in one entry, 2 signers, whole boards | holds |
| `jstream` | does the Java stream keep its promise, and who waits in vain? | 2 calls, one with a timeout, 1 request, 1 disconnect, spurious wake-ups | holds, with the exceptions named |
| `jtp` | one response, registers again, answers, the hook unregisters and ends | 1 family, 2 transactions (one without a handler), 1 disconnect, a shutdown, spurious wake-ups, exceptions of `apply` | holds, with the exceptions named |
| `jtp_leftovers` | are left over messages given to their handler? | 1 transaction, 1 ping, a shutdown, no disconnect | violated |
| `jxo` | do turns and players follow the marks, and is play kept? | 3 names with one address, 2 signers, boards of 1 to 3 a side and sizes out of range | holds |
| `jxo_wins` | does who completes a line win? | 1 game on a board of 3 a side, 2 signers | violated |
| `workflow` | are the graphs free of cycles, with one beginning and one end? | 2 workflows of size 3 and 5, branches of 0 to 2 | holds |

*Why the bounds are enough.* In `stream_live` one call contends for the table and for a
batch with the receiver, the sweep and `close()`; calls do not read each other's state,
and what the run checks of safety is proved for any number of them (section 4). Two
calls would matter to the iterator of the sweep, which one already makes raise
(`stream_recovers`). A second disconnect is needed for what is left over from the first
(an error in the table, a handle in the queue) to meet a sweep. One request and the
reconnect event are enough to be out of order. A response of the client takes the way
of a call without its future (`Replies`); `stream_recovers` has one, which cannot
disturb the sweep, beside the call that does. In `tp` a second family makes a registration that a disconnect can
interrupt half-way, and a second connection of the same kind lets events of an
earlier one arrive late; a second transaction tells the one at hand at an interrupt from
the others. For the driver, two notifications can overtake each other.
In `xo` a game is played over the whole board while the other is not there, and
both have at most one mark beside each other (the constraint `Bounded`): one mark is
enough for a game to differ from a new one, and the product of two whole games would
show nothing more, as `apply` looks at one game. Two signers suffice since a player's
stranger is the other player. In `jstream` one disconnect already meets a call at each
of its steps, as the sweep, the receiver and the callers interleave freely. In `jtp` a
disconnect before and after the hook has started differ; both occur. In `jxo` one name
is the beginning of another, and the third only shares its address; the proofs hold for
all 12 sizes of board.
In `workflow` a size of 3 gives the shortest chain that can branch. Symmetry is used
among calls, signers and names, in runs without liveness only.

`TypeOK` is an invariant of `stream_live`; the types of all modules of the program are
proved (section 4).

*Fairness.* `Stream`: the event loop and the run loop are weakly fair, since a
thread that can run does; so are a call once begun and a validator that is
connected. Nobody has to begin a call, break a connection, fail to connect or let
a timeout fire. `TransactionProcessor`: the main thread is weakly fair, a handler
eventually returns or raises (strongly fair, as it may alternate with context calls), the
second of a timeout passes, and a connected validator answers. `ConsensusDriver`:
both threads are weakly fair, a service call returns or times out (the code gives
it a timeout), and an engine that was told to stop eventually returns; the
validator need not do anything. Reconnecting is fair in both, giving up is not.
`ZmqStream`: every thread is weakly fair, the socket reconnects by itself, a timeout
passes, and the validator answers what reaches it. `JavaProcessor`: the loop and the
hook are weakly fair, a handler returns or raises (strongly fair, as above), the disconnect
thread runs; nobody has to ask, break the connection, shut down or wake a thread
without a cause. `XoProcessor`, `JavaXo` and `WorkflowGen` have no liveness.

### Findings

- `stream.py:147`: the sweep iterates over the live view of the table; a `send`
  that puts its future meanwhile makes it raise, and the ready event is never set
  again (`RecoversFromDisconnect`; `RecoversUnlessSweepFails` shows that this and a
  failed connect are the only reasons).
- `zmq_driver.py:83`: a disconnect ends the driver thread, silently, while the
  engine goes on (`NotificationsReachEngine`).
- `TransactionProcessor.java:195`: `findHandler` reads the field of the loop's message
  instead of its parameter, so that a left over message raises in the hook or is given
  to another's handler (`LeftoversFindTheirHandler`).
- `XoHandler.java:352`: `determineState` looks for lines of X and O where moves write H
  and Q, so who completes a line does not win, though `test_take_win`, which is run
  against this handler, expects it (`test_tp_xo.py:186`, `WinsAreSeen`).

Other divergences are stated as the exceptions of properties that hold, or visible in
the models.

- `core.py:317`: an interrupt before the first `receive()` leaves a loop that spins;
  `InterruptEnds` shows that it is the only way not to end, but for a lost connection
  and a call that was dropped.
- `SendReceiveThread.java:261`: the error that a disconnect puts into the map never
  reaches a caller, who holds the future it replaced; `EveryCallReturns` of `ZmqStream`
  excepts such calls, unless they have a timeout.
- `TransactionProcessor.java:255`: a registration that a disconnect meets hangs the loop
  (`Hangs`, the exception of `RegistersAgain`).
- `TransactionProcessor.java:160`: an exception of `apply` other than the two that
  `process` catches ends the loop, and the transaction gets no response (`ApplyRaises`;
  the exception of `TransactionsAreAnswered` and `RegistersAgain`).
- After a disconnect `_monitor_sock` is `None`, so a `_done_callback` left in the
  batch raises at `stream.py:204` and does not destroy the context (`DoneCallback`).
- What comes before the activation is dropped without an acknowledgement at
  `zmq_driver.py:180` (`ActivationIgnores`), though `consensus.proto:86` asks for one
  for every notification.

## 4. What is proved

For every value of the constants that satisfies the module's assumption.

**`StreamProofs`.** `TypeCorrect`, `HandlesCorrect`, `LoopNeverBlocks`, `StreamCorrect`,
`AnswersKeptApart`, `ReconnectIsFirst`, `OnlyDroppedStranded`, `SweepCompletes`,
`AnswersStay`, `Implements`. None of the properties is inductive; `StreamInv` is, and
consists of

- `QueueInv`, about handles. Every task has at most one (`OneHandle`), whose kind agrees
  with the state of the task (`HandlesAgree`); a call that has not reached
  `run_coroutine_threadsafe` has no task (`NotYetScheduled`); the queues exist while
  connected (`QueuesWhileConnected`), and what is left of the batch after they were
  dropped is no live first step (`DrainHasNoLiveStep`), since `StopLoop` cancels every
  task and callbacks append behind the batch. From it the loop never uses a queue that
  is `None`;
- `JourneyInv`, about messages. A message is in the queue, with the validator or on its
  way back, in one of these at most, and its future is in the table from registration
  until its answer: so an answer always finds its future, and a sweep never meets a
  future that holds an answer;
- `PhaseInv`, about the background thread: what the ready event, the tasks and the queue
  of requests are in each phase, and that only `close()` puts the handles that stop the
  loop (`OnlyShutdownStops`);
- `StrandInv`, about calls without an answer: between two connections they have not been
  put into the queue, on a connection they are under way or were dropped, and a sweep
  leaves none behind;
- `OnlyEvents` and `ReconnectFirst`, about the queue of requests.

`Implements` takes the actions of `Stream` one by one (`CallPromise`, `FuturePromise`,
`RunPromise`, `CallbackPromise`, `MonitorPromise`, `TransportPromise`). `Slot` and `Dropped`
give the part of the mapping that belongs to one call, so that a step of one call is
shown to leave the others alone once (`SlotChanges`). The proof needs the invariants: that
a response is only found for a pending call is `JourneyInv`, that a call fails only after
a disconnect and that the reconnect event meets an empty queue are `PhaseInv`. Assumes
`StreamAssumption`.

**`TransactionProcessorProofs`.** `TypeCorrect`, `ServingCorrect`,
`RegistersFirst`, `AnsweredOnce`. `ServingInv` says of every moment before an interrupt: either
all families are registered on the current connection, or the reconnect event is
the first thing in the inbox or at hand, or the registration is under way with the
families already sent on this connection (`Announced`); and whatever message is at
hand came on a connection that all families are registered on (`GotKnown`).
Of responses, `OnceInv` says that a transaction waits in the inbox once, without a
response and apart from the one at hand (`WaitsOnce`), and that every time one is taken
up it may earn one response, an interrupt allowing one more to the message at hand then
(`held`), and to no other (`Allowed`).
Assumes `ProcessorAssumption`.

**`ConsensusDriverProofs`.** `TypeCorrect`, `UpdatesOrdered`, `UpdatesActivated`.
Messages are numbered as they come; a message is in the inbox, fetched, in the
driver's hand, then put. `Order` says that one further on its way came before one that
is less far, and `Numbered` that the next number is larger than all given, by the
cardinality of what has come. Assumes `DriverAssumption`.

**`XoProofs`.** `TypeCorrect`, `ApplyNeverFails`, `EntriesReadable`, `StateFollows`,
`OnlyFoulsRefused`, `RulesKept`. `XoInv` says that every stored game is `Sound`: its state and
its players are those its board shows (`Follows`), where X is level with O or one ahead and
at most one of them has a line. A mark completes no line of the other letter
(`OtherLetter`), so a move makes at most one winner and the branches that raise
`InternalError` are dead; by the cardinality theorems it hands the turn to the other letter.
Since the stored state is the one the rules read off the board, what the handler checks is
what the rules forbid, and every transaction is a step of `TicTacToe` or changes no game.
Assumes `XoAssumption` and `NoEntryAssumption`, that an entry's absence is not a game.

**`ZmqStreamProofs`.** `TypeCorrect`, `AnswersKeptApart`, `NobodyWaitsInVain` and
`Implements`, that `ZmqStream` implements `ZmqStreamSpec`: every step of a caller, of the
event loop and of the disconnect thread is a step of the promise or changes nothing of
it. The invariant is that a call's message and answer are in one place at most
(`OnePlace`) and that its future is in the table while they are under way (`InTable`),
since a disconnect replaces futures and takes none out. Assumes `ZmqAssumption`.

**`JavaProcessorProofs`.** `TypeCorrect`, `AnsweredOnce`. `OnceInv`: a request is on its
way, in the queue, at the loop or at the hook, in one of these at most and unanswered
there; only the message that the hook read from the loop's field is in two, and has two
responses at most. Assumes `JavaProcessorAssumption`.

**`JavaXoProofs`.** `TypeCorrect`, `PlayKept`, `TurnsFollow`, for every size of board.
No mark is an X or an O, so no line changes the state (`NobodyWins`); a move adds one mark to the
mark whose turn it is, by the cardinality theorems (`TakenFollows`). Assumes
`JavaXoAssumption` and `NoEntryAssumption`.

**`WorkflowGenProofs`.** `TypeCorrect`, `WorkflowsAcyclic`, `WorkflowsConnected`. `OrderInv` says that every task belongs to a place in the chain, its
branch's beginning, such that every parent has an earlier place, or the same and a lower
number (`Lower`): that a branch leads back to a later place than its own is the offset of
the random number in `Merge`. `ConnectedInv` says that the chain is linked and that every task of
a branch is a parent of the next one or of a task of the chain, but the one at hand.
`Acyclic` and `OneBeginningOneEnd` follow by a least or a greatest counterexample (`Least`,
`Greatest`), which the library's theorem on well-founded relations gives without induction.
Assumes `WorkflowAssumption`.

Only model-checked: the liveness properties, `CloseEndsThread`, `RecoversUnlessSweepFails`,
`EveryCallReturns` and `ReceiveReleased` of `Stream`; `RegistersAgain` and
`TransactionsAreAnswered` of both processors, `InterruptEnds`, `ShutdownEnds` and
`ShutdownUnregisters`;
`AckedReachesEngine` and `StopEnds` of the driver; `EveryCallReturns` and `DisconnectsAreTold`
of `ZmqStream`. Each says that something happens in the end and rests on fairness, hence on
ENABLED, which the prover does not reach. Every other property that a passing run checks is
proved.

## 5. Not modelled

*Quorum experiments* (`SciFlowTesting/src/quorumTesting`): a sequential simulation
that shuffles nodes and averages how often enough of them are good. Its result is a
frequency, about which a model without probabilities says nothing.

*Signing* (`sawtooth_signing`): wrappers of an elliptic-curve library, without state.

*XO client and command line* (`xo_client.py`, `xo_cli.py`): build a batch, post it and
print what comes back, one request at a time.

*Configuration and logging*: files and log handlers, no state of the protocol.

*Generated protocol buffers* (`sawtooth_sdk/protobuf`): generated tables of field
descriptors, and more than half of the lines of the implementation; there is nothing in
them to check. The messages are members of small sets in the models, with their status
where a caller looks at it.

*Deployment and build*: scripts, containers, build files.

## 6. Plan

The parts of the program that have a logic of their own are modelled, and what the runs
check of safety is proved. What is left is the safety behind the liveness properties: that
while a caller, a registration or the hook waits there is something under way that it
waits for, or one of the exceptions that the property names. `LoneCallsUnderWay` is this
for `Stream`; `EveryCallReturns` of `ZmqStream` (a call that waits has its message under way or
was met by a disconnect) and `RegistersAgain` of the two processors (a family that is not
registered is being registered, or the event that tells of it waits) come next.
