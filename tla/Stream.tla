------------------------------- MODULE Stream -------------------------------
(***************************************************************************)
(* The connection of a Sawtooth client to its validator: the class Stream  *)
(* and its background thread _SendReceiveThread (messaging/stream.py),     *)
(* with the Future and FutureCollection they share (messaging/future.py).  *)
(*                                                                         *)
(* Two kinds of thread meet here.  Application threads call send, result,  *)
(* send_back, receive and close; each such call is a process of its own,   *)
(* with a step for every point at which another thread can observe or      *)
(* change what it relies on.  The background thread runs an asyncio event  *)
(* loop: a FIFO of handles (runq), executed in batches, the rest of a      *)
(* batch still being executed after loop.stop().  When the monitor socket  *)
(* reports a disconnect the loop is stopped and started again on the same  *)
(* socket with fresh queues.                                               *)
(*                                                                         *)
(* The validator and the TCP connection are external: messages may be lost *)
(* when the connection breaks, and, since the socket keeps its identity,   *)
(* may also arrive on the next connection.                                 *)
(***************************************************************************)
EXTENDS Integers, Sequences

CONSTANTS
  Sends,          \* correlation ids of calls of Stream.send, one call each
  Timed,          \* the calls among them whose result() is given a timeout
  Replies,        \* correlation ids answered with Stream.send_back
  Requests,       \* unsolicited messages of the validator
  NoMessage,      \* the operand of a handle that carries no message
  ReconnectEvent, \* RECONNECT_EVENT
  MaxDisconnects, \* bound: how often the connection breaks
  AllowClose      \* whether the application may close the stream

ASSUME StreamAssumption ==
  /\ Timed \subseteq Sends
  /\ Sends \cap Replies = {}
  /\ (Sends \cup Replies) \cap Requests = {}
  /\ NoMessage \notin Sends \cup Replies \cup Requests
  /\ ReconnectEvent \notin Sends \cup Replies \cup Requests
  /\ MaxDisconnects \in Nat
  /\ AllowClose \in BOOLEAN

Messages == Sends \cup Replies

VARIABLES
  \* shared between the threads
  ready,     \* _ready_event
  queues,    \* _send_queue and _recv_queue are not None
  sendQ,     \* the items of _send_queue
  recvQ,     \* the items of _recv_queue
  table,     \* the keys of FutureCollection._futures
  res,       \* Future._result of each call
  runq,      \* the event loop's FIFO of handles that are ready to run
  shutdown,  \* _shutdown
  \* the background thread
  phase,     \* where run() is
  todo,      \* handles of the current batch that are yet to run
  tasks,     \* the three tasks run() starts: sender, receiver and monitor
  view,      \* the keys the monitor's iteration over the futures began with
  unswept,   \* those of them it has not reached yet
  putTask,   \* the _put_message task of each message
  context,   \* the state of the zmq context: "open" or "destroyed"
  monitor,   \* _monitor_sock is not None
  \* the application
  pc,        \* where the call for each message is
  opened,    \* Stream() has returned
  get,       \* the concurrent future of the last receive()
  got,       \* its result
  \* the validator and the connection
  link,      \* the TCP connection: "up" or "down"
  out,       \* messages under way to the validator
  in,        \* messages under way to the client
  asked,     \* the requests the validator has made
  drops,     \* how often the connection broke
  \* history
  announced  \* the consumer has taken the reconnect event of this connection

flags      == <<ready, shutdown>>
channel    == <<queues, sendQ, recvQ>>
futures    == <<table, res>>
batch      == <<runq, todo>>
monitoring == <<tasks, view, unswept, monitor>>
calls      == <<pc, putTask>>
consumer   == <<get, got, announced>>
wire       == <<link, out, in, asked, drops>>
vars       == <<flags, channel, futures, batch, phase, monitoring, context,
                calls, opened, consumer, wire>>

\* Handles of the event loop.  "put" and "get" are the callbacks that
\* run_coroutine_threadsafe schedules, which create a task; "putStep" and
\* "getStep" are the first steps of these tasks; "getCancel" tells the waiting
\* thread that its task was cancelled; "cancel", "done" and "stop" belong to
\* shutdown().
Handle == {"put", "putStep", "get", "getStep", "getCancel",
           "cancel", "done", "stop"} \X (Messages \cup {NoMessage})

Phases    == {"connecting", "starting", "running", "cleared", "sweeping",
              "draining", "dead"}
PutStates == {"none", "dropped", "scheduled", "created", "cancelled", "queued"}
CallSteps == {"idle", "refused", "checked", "registered", "passed", "granted",
              "returned", "answered", "failed", "timedout"}
GetStates == {"idle", "scheduled", "created", "waiting", "cancelling",
              "cancelled", "item"}
Items     == Messages \cup Requests \cup {ReconnectEvent}

TypeOK ==
  /\ ready \in BOOLEAN /\ queues \in BOOLEAN /\ shutdown \in BOOLEAN
  /\ sendQ \in Seq(Messages)
  /\ recvQ \in Seq(Items)
  /\ table \subseteq Sends
  /\ res \in [Sends -> {"none", "response", "error"}]
  /\ runq \in Seq(Handle)
  /\ phase \in Phases
  /\ todo \in Nat /\ todo <= Len(runq)
  /\ tasks \in {"alive", "failed", "ended"}
  /\ view \subseteq Sends /\ unswept \subseteq view
  /\ putTask \in [Messages -> PutStates]
  /\ context \in {"open", "destroyed"}
  /\ monitor \in BOOLEAN
  /\ pc \in [Messages -> CallSteps]
  /\ opened \in BOOLEAN
  /\ get \in GetStates
  /\ got \in Items \cup {NoMessage}
  /\ link \in {"up", "down"}
  /\ out \subseteq Messages
  /\ in \subseteq Sends \cup Requests
  /\ asked \subseteq Requests
  /\ drops \in 0 .. MaxDisconnects
  /\ announced \in BOOLEAN

\* Stream.__init__ has set the ready event and started the thread.
Init ==
  /\ ready = TRUE /\ queues = FALSE /\ shutdown = FALSE
  /\ sendQ = <<>> /\ recvQ = <<>>
  /\ table = {} /\ res = [c \in Sends |-> "none"]
  /\ runq = <<>>
  /\ phase = "connecting" /\ todo = 0 /\ tasks = "ended"
  /\ view = {} /\ unswept = {}
  /\ putTask = [m \in Messages |-> "none"]
  /\ context = "open" /\ monitor = FALSE
  /\ pc = [m \in Messages |-> "idle"]
  /\ opened = FALSE
  /\ get = "idle" /\ got = NoMessage
  /\ link = "down" /\ out = {} /\ in = {} /\ asked = {} /\ drops = 0
  /\ announced = TRUE

-----------------------------------------------------------------------------
(***************************************************************************)
(* Application threads                                                     *)
(***************************************************************************)

\* The ready check at the head of send and send_back; a message is refused
\* with ValidatorConnectionError.
CallBegins(m) ==
  /\ opened /\ pc[m] = "idle"
  /\ pc' = [pc EXCEPT ![m] = IF ready THEN "checked" ELSE "refused"]
  /\ UNCHANGED <<flags, channel, futures, batch, phase, monitoring, context,
                 putTask, opened, consumer, wire>>

\* send registers its future before it hands the message over.
FuturesPut(c) ==
  /\ pc[c] = "checked"
  /\ table' = table \cup {c}
  /\ pc' = [pc EXCEPT ![c] = "registered"]
  /\ UNCHANGED <<flags, channel, res, batch, phase, monitoring, context,
                 putTask, opened, consumer, wire>>

\* put_message looks at the ready event again, and returns without a word
\* when the connection went away in between.
PutMessageChecks(m) ==
  /\ pc[m] = IF m \in Sends THEN "registered" ELSE "checked"
  /\ IF ready
       THEN /\ pc' = [pc EXCEPT ![m] = "passed"]
            /\ UNCHANGED putTask
       ELSE /\ pc' = [pc EXCEPT ![m] = "returned"]
            /\ putTask' = [putTask EXCEPT ![m] = "dropped"]
  /\ UNCHANGED <<flags, channel, futures, batch, phase, monitoring, context,
                 opened, consumer, wire>>

\* It then waits on the condition until the queues exist ...
PutMessageWaits(m) ==
  /\ pc[m] = "passed"
  /\ queues
  /\ pc' = [pc EXCEPT ![m] = "granted"]
  /\ UNCHANGED <<flags, channel, futures, batch, phase, monitoring, context,
                 putTask, opened, consumer, wire>>

\* ... and schedules the _put_message coroutine on the event loop.
PutMessageSchedules(m) ==
  /\ pc[m] = "granted"
  /\ runq' = Append(runq, <<"put", m>>)
  /\ putTask' = [putTask EXCEPT ![m] = "scheduled"]
  /\ pc' = [pc EXCEPT ![m] = "returned"]
  /\ UNCHANGED <<flags, channel, futures, todo, phase, monitoring, context,
                 opened, consumer, wire>>

\* Fault: the caller of a failed call takes its future out of the table.
Result_Discards(c) ==
  /\ pc[c] = "returned"
  /\ res[c] # "none"
  /\ pc' = [pc EXCEPT ![c] = IF res[c] = "error" THEN "failed" ELSE "answered"]
  /\ table' = table \ {c}
  /\ UNCHANGED <<flags, channel, res, batch, phase, monitoring, context,
                 putTask, opened, consumer, wire>>

\* Future.result: a FutureError makes the caller fail when it looks at it.
Result(c) ==
  /\ pc[c] = "returned"
  /\ res[c] # "none"
  /\ pc' = [pc EXCEPT ![c] = IF res[c] = "error" THEN "failed" ELSE "answered"]
  /\ UNCHANGED <<flags, channel, futures, batch, phase, monitoring, context,
                 putTask, opened, consumer, wire>>

\* The future stays in the table.
ResultTimesOut(c) ==
  /\ c \in Timed /\ pc[c] = "returned"
  /\ res[c] = "none"
  /\ pc' = [pc EXCEPT ![c] = "timedout"]
  /\ UNCHANGED <<flags, channel, futures, batch, phase, monitoring, context,
                 putTask, opened, consumer, wire>>

\* receive() schedules _get_message; the event loop exists once Stream() has
\* returned.  The consumer calls it again when it has seen the result of the
\* last call, or that it was cancelled.
Receive ==
  /\ opened /\ get \in {"idle", "item", "cancelled"}
  /\ runq' = Append(runq, <<"get", NoMessage>>)
  /\ get' = "scheduled" /\ got' = NoMessage
  /\ UNCHANGED <<flags, channel, futures, todo, phase, monitoring, context,
                 calls, opened, announced, wire>>

\* close(): _shutdown is set, then the cancellation of every task and
\* _done_callback are scheduled.
Close ==
  /\ AllowClose /\ opened /\ ~shutdown
  /\ shutdown' = TRUE
  /\ runq' = Append(Append(runq, <<"cancel", NoMessage>>), <<"done", NoMessage>>)
  /\ UNCHANGED <<ready, channel, futures, todo, phase, monitoring, context,
                 calls, opened, consumer, wire>>

-----------------------------------------------------------------------------
(***************************************************************************)
(* The background thread: run()                                            *)
(***************************************************************************)

\* Fault: a new connection comes with a new event loop.
Connect_NewLoop ==
  /\ phase = "connecting"
  /\ queues' = TRUE /\ sendQ' = <<>>
  /\ recvQ' = IF opened THEN <<ReconnectEvent>> ELSE <<>>
  /\ announced' = ~opened
  /\ tasks' = "alive" /\ monitor' = TRUE
  /\ phase' = "starting"
  /\ link' = "up"
  /\ runq' = <<>>
  /\ UNCHANGED <<flags, futures, todo, view, unswept, context, calls, opened,
                 get, got, out, in, asked, drops>>

\* Connect the socket and its monitor, make new queues, announce the
\* reconnection, wake who waits for the queues, start the three tasks.
Connect ==
  /\ phase = "connecting"
  /\ queues' = TRUE /\ sendQ' = <<>>
  /\ recvQ' = IF opened THEN <<ReconnectEvent>> ELSE <<>>
  /\ announced' = ~opened
  /\ tasks' = "alive" /\ monitor' = TRUE
  /\ phase' = "starting"
  /\ link' = "up"
  /\ UNCHANGED <<flags, futures, batch, view, unswept, context, calls, opened,
                 get, got, out, in, asked, drops>>

\* An exception while connecting ends the thread; the first time Stream()
\* raises it, later nobody reads the error queue.
ConnectFails ==
  /\ phase = "connecting"
  /\ phase' = "dead"
  /\ UNCHANGED <<flags, channel, futures, batch, monitoring, context, calls,
                 opened, consumer, wire>>

\* Fault: the ready event is set on the first connection only.
RunForever_Once ==
  /\ phase = "starting"
  /\ ready' = (ready \/ ~opened) /\ opened' = TRUE
  /\ phase' = "running"
  /\ UNCHANGED <<shutdown, channel, futures, batch, monitoring, context, calls,
                 consumer, wire>>

\* Fault: the reconnect event is forgotten once the ready event was set.
RunForever_FreshQueue ==
  /\ phase = "starting"
  /\ ready' = TRUE /\ opened' = TRUE
  /\ recvQ' = <<>>
  /\ phase' = "running"
  /\ UNCHANGED <<shutdown, queues, sendQ, futures, batch, monitoring, context,
                 calls, consumer, wire>>

\* The error queue releases Stream(), the ready event is set, the loop runs.
RunForever ==
  /\ phase = "starting"
  /\ ready' = TRUE /\ opened' = TRUE
  /\ phase' = "running"
  /\ UNCHANGED <<shutdown, channel, futures, batch, monitoring, context, calls,
                 consumer, wire>>

\* run_forever returns once the batch in which stop() was called is finished.
\* After shutdown the thread closes what it owns, which raises when the
\* monitor socket is gone already.
LoopStops ==
  /\ phase = "draining" /\ todo = 0
  /\ phase' = IF shutdown THEN "dead" ELSE "connecting"
  /\ context' = IF shutdown /\ monitor THEN "destroyed" ELSE context
  /\ UNCHANGED <<flags, channel, futures, batch, monitoring, calls, opened,
                 consumer, wire>>

-----------------------------------------------------------------------------
(***************************************************************************)
(* Handles of the event loop                                               *)
(***************************************************************************)

\* A batch is what runq holds when the loop comes round; handles appended
\* meanwhile belong to the next one.  Once stopped, the loop only finishes its
\* batch.
Runs(op, m) ==
  /\ runq # <<>> /\ Head(runq) = <<op, m>>
  /\ phase = "running" \/ (phase = "draining" /\ todo > 0)

\* Fault: the handle at hand is counted as left.
BatchLeft_OffByOne == IF todo = 0 THEN Len(runq) ELSE todo

BatchLeft == (IF todo = 0 THEN Len(runq) ELSE todo) - 1

\* run_coroutine_threadsafe's callback makes a task, whose first step is a
\* handle of the next batch.
PutCallback(m) ==
  /\ Runs("put", m)
  /\ runq' = Append(Tail(runq), <<"putStep", m>>) /\ todo' = BatchLeft
  /\ putTask' = [putTask EXCEPT ![m] = "created"]
  /\ UNCHANGED <<flags, channel, futures, phase, monitoring, context, pc,
                 opened, consumer, wire>>

\* _put_message; a task cancelled before its first step does nothing.  Without
\* a queue the statement would raise.
PutStep(m) ==
  /\ Runs("putStep", m)
  /\ runq' = Tail(runq) /\ todo' = BatchLeft
  /\ \/ /\ putTask[m] = "created" /\ queues
        /\ sendQ' = Append(sendQ, m)
        /\ putTask' = [putTask EXCEPT ![m] = "queued"]
     \/ /\ putTask[m] = "cancelled"
        /\ UNCHANGED <<sendQ, putTask>>
  /\ UNCHANGED <<flags, queues, recvQ, futures, phase, monitoring, context, pc,
                 opened, consumer, wire>>

GetCallback ==
  /\ Runs("get", NoMessage)
  /\ runq' = Append(Tail(runq), <<"getStep", NoMessage>>) /\ todo' = BatchLeft
  /\ get' = "created"
  /\ UNCHANGED <<flags, channel, futures, phase, monitoring, context, calls,
                 opened, got, announced, wire>>

\* _get_message as far as the wait for an item.  Without a queue the loop's
\* own thread would wait for ever on the condition.
GetStep ==
  /\ Runs("getStep", NoMessage)
  /\ todo' = BatchLeft
  /\ \/ /\ get = "created" /\ queues
        /\ get' = "waiting"
        /\ runq' = Tail(runq)
     \/ /\ get = "cancelling"
        /\ get' = get
        /\ runq' = Append(Tail(runq), <<"getCancel", NoMessage>>)
  /\ UNCHANGED <<flags, channel, futures, phase, monitoring, context, calls,
                 opened, got, announced, wire>>

\* The cancelled task passes its state on to the concurrent future.
GetCancelled ==
  /\ Runs("getCancel", NoMessage)
  /\ runq' = Tail(runq) /\ todo' = BatchLeft
  /\ get' = "cancelled"
  /\ UNCHANGED <<flags, channel, futures, phase, monitoring, context, calls,
                 opened, got, announced, wire>>

\* The waiting _get_message takes an item.
GetItem ==
  /\ phase = "running" /\ get = "waiting"
  /\ recvQ # <<>>
  /\ got' = Head(recvQ) /\ get' = "item"
  /\ recvQ' = Tail(recvQ)
  /\ announced' = (announced \/ Head(recvQ) = ReconnectEvent)
  /\ UNCHANGED <<flags, queues, sendQ, futures, batch, phase, monitoring,
                 context, calls, opened, wire>>

\* _send_message hands an item to the socket.
SendMessage ==
  /\ phase = "running" /\ tasks = "alive"
  /\ sendQ # <<>>
  /\ out' = out \cup {Head(sendQ)}
  /\ sendQ' = Tail(sendQ)
  /\ UNCHANGED <<flags, queues, recvQ, futures, batch, phase, monitoring,
                 context, calls, opened, consumer, link, in, asked, drops>>

\* Fault: the entry of an answered call stays in the table.
ReceiveMessage_Keeps(m) ==
  /\ phase = "running" /\ tasks = "alive"
  /\ m \in in
  /\ in' = in \ {m}
  /\ \/ /\ m \in table
        /\ res' = [res EXCEPT ![m] = "response"]
        /\ UNCHANGED recvQ
     \/ /\ m \notin table
        /\ recvQ' = Append(recvQ, m)
        /\ UNCHANGED res
  /\ UNCHANGED <<flags, queues, sendQ, table, batch, phase, monitoring,
                 context, calls, opened, consumer, link, out, asked, drops>>

\* _receive_message: an answer resolves its future, whose entry is removed;
\* any other message is for the consumer of receive().
ReceiveMessage(m) ==
  /\ phase = "running" /\ tasks = "alive"
  /\ m \in in
  /\ in' = in \ {m}
  /\ \/ /\ m \in table
        /\ res' = [res EXCEPT ![m] = "response"]
        /\ table' = table \ {m}
        /\ UNCHANGED recvQ
     \/ /\ m \notin table
        /\ recvQ' = Append(recvQ, m)
        /\ UNCHANGED <<res, table>>
  /\ UNCHANGED <<flags, queues, sendQ, batch, phase, monitoring, context,
                 calls, opened, consumer, link, out, asked, drops>>

\* _monitor_disconnects is woken by the disconnect event, closes the monitor
\* socket and clears the ready event.  It may be anywhere in a batch: when no
\* batch is under way it is the first or the last handle of one.
MonitorClears ==
  /\ phase = "running" /\ tasks = "alive" /\ link = "down"
  /\ ready' = FALSE /\ monitor' = FALSE
  /\ todo' \in IF todo = 0 THEN {0, Len(runq)} ELSE {todo}
  /\ phase' = "cleared"
  /\ UNCHANGED <<shutdown, channel, futures, runq, tasks, view, unswept,
                 context, calls, opened, consumer, wire>>

\* Fault: the futures of a lost connection are left as they are.
SweepBegins_Skips ==
  /\ phase = "cleared"
  /\ view' = table /\ unswept' = {}
  /\ phase' = "sweeping"
  /\ UNCHANGED <<flags, channel, futures, batch, tasks, monitor, context,
                 calls, opened, consumer, wire>>

\* The iteration over the live view of the futures begins.
SweepBegins ==
  /\ phase = "cleared"
  /\ view' = table /\ unswept' = table
  /\ phase' = "sweeping"
  /\ UNCHANGED <<flags, channel, futures, batch, tasks, monitor, context,
                 calls, opened, consumer, wire>>

\* Each future is resolved with a FutureError; none leaves the table.
SweepNext(c) ==
  /\ phase = "sweeping" /\ table = view
  /\ c \in unswept
  /\ res' = [res EXCEPT ![c] = "error"]
  /\ unswept' = unswept \ {c}
  /\ UNCHANGED <<flags, channel, table, batch, phase, tasks, view, monitor,
                 context, calls, opened, consumer, wire>>

\* When a call has put its future into the table meanwhile, the iterator
\* raises RuntimeError, which ends the monitor's task: the loop keeps running
\* on a socket that is connected to nothing.
SweepFails ==
  /\ phase = "sweeping" /\ table # view
  /\ tasks' = "failed"
  /\ phase' = "running"
  /\ view' = {} /\ unswept' = {}
  /\ UNCHANGED <<flags, channel, futures, batch, monitor, context, calls,
                 opened, consumer, wire>>

\* Fault: the tasks of _put_message are not cancelled.
CancelPutTasks_Spared == UNCHANGED putTask

CancelPutTasks ==
  putTask' = [m \in Messages |->
                IF putTask[m] = "created" THEN "cancelled" ELSE putTask[m]]

\* Fault: the sweep goes over a copy of the futures.
StopLoop_Copy ==
  /\ phase = "sweeping" /\ unswept = {}
  /\ CancelPutTasks
  /\ get' = IF get \in {"created", "waiting"} THEN "cancelling" ELSE get
  /\ runq' = IF get = "waiting"
               THEN Append(runq, <<"getCancel", NoMessage>>) ELSE runq
  /\ tasks' = "ended"
  /\ phase' = "draining"
  /\ queues' = FALSE /\ sendQ' = <<>> /\ recvQ' = <<>>
  /\ view' = {}
  /\ UNCHANGED <<flags, futures, todo, unswept, monitor, context, pc, opened,
                 got, announced, wire>>

\* After the sweep every task is cancelled, the loop is told to stop and the
\* queues are dropped with what they hold.
StopLoop ==
  /\ phase = "sweeping" /\ table = view /\ unswept = {}
  /\ CancelPutTasks
  /\ get' = IF get \in {"created", "waiting"} THEN "cancelling" ELSE get
  /\ runq' = IF get = "waiting"
               THEN Append(runq, <<"getCancel", NoMessage>>) ELSE runq
  /\ tasks' = "ended"
  /\ phase' = "draining"
  /\ queues' = FALSE /\ sendQ' = <<>> /\ recvQ' = <<>>
  /\ view' = {}
  /\ UNCHANGED <<flags, futures, todo, unswept, monitor, context, pc, opened,
                 got, announced, wire>>

\* shutdown(): the tasks are cancelled; the one of receive() only if it existed
\* when close() was called, and was told before the loop stopped.
CancelTasks ==
  /\ Runs("cancel", NoMessage)
  /\ todo' = BatchLeft
  /\ CancelPutTasks
  /\ tasks' = IF tasks = "failed" THEN "failed" ELSE "ended"
  /\ \/ /\ get = "waiting"
        /\ get' = "cancelling"
        /\ runq' = Append(Tail(runq), <<"getCancel", NoMessage>>)
     \/ /\ get = "created"
        /\ get' = "cancelling" /\ runq' = Tail(runq)
     \/ /\ UNCHANGED get /\ runq' = Tail(runq)
  /\ UNCHANGED <<flags, channel, futures, phase, view, unswept, monitor,
                 context, pc, opened, got, announced, wire>>

\* _done_callback asks for the loop to stop, closes the sockets and destroys
\* the context; it raises before that when the monitor socket is gone.
DoneCallback ==
  /\ Runs("done", NoMessage)
  /\ runq' = Append(Tail(runq), <<"stop", NoMessage>>) /\ todo' = BatchLeft
  /\ context' = IF monitor THEN "destroyed" ELSE context
  /\ UNCHANGED <<flags, channel, futures, phase, monitoring, calls, opened,
                 consumer, wire>>

StopHandle ==
  /\ Runs("stop", NoMessage)
  /\ runq' = Tail(runq) /\ todo' = BatchLeft
  /\ phase' = "draining"
  /\ UNCHANGED <<flags, channel, futures, monitoring, context, calls, opened,
                 consumer, wire>>

-----------------------------------------------------------------------------
(***************************************************************************)
(* The validator and the connection (external)                             *)
(***************************************************************************)

\* A message arrives; the validator answers the requests among them.
Deliver(m) ==
  /\ m \in out
  /\ out' = out \ {m}
  /\ in' = IF m \in Sends THEN in \cup {m} ELSE in
  /\ UNCHANGED <<flags, channel, futures, batch, phase, monitoring, context,
                 calls, opened, consumer, link, asked, drops>>

Ask(r) ==
  /\ link = "up" /\ r \notin asked
  /\ asked' = asked \cup {r}
  /\ in' = in \cup {r}
  /\ UNCHANGED <<flags, channel, futures, batch, phase, monitoring, context,
                 calls, opened, consumer, link, out, drops>>

LinkBreaks ==
  /\ link = "up" /\ drops < MaxDisconnects
  /\ link' = "down" /\ drops' = drops + 1
  /\ UNCHANGED <<flags, channel, futures, batch, phase, monitoring, context,
                 calls, opened, consumer, out, in, asked>>

Lose(m) ==
  /\ link = "down"
  /\ m \in out \cup in
  /\ out' = out \ {m} /\ in' = in \ {m}
  /\ UNCHANGED <<flags, channel, futures, batch, phase, monitoring, context,
                 calls, opened, consumer, link, asked, drops>>

-----------------------------------------------------------------------------
Call(m) ==
  CallBegins(m) \/ PutMessageChecks(m) \/ PutMessageWaits(m)
    \/ PutMessageSchedules(m)

Future(c) == FuturesPut(c) \/ Result(c) \/ ResultTimesOut(c)

Callback ==
  \/ \E m \in Messages : PutCallback(m) \/ PutStep(m)
  \/ GetCallback \/ GetStep \/ GetCancelled
  \/ CancelTasks \/ DoneCallback \/ StopHandle

Monitor ==
  \/ MonitorClears \/ SweepBegins \/ SweepFails \/ StopLoop
  \/ \E c \in Sends : SweepNext(c)

Run == Connect \/ ConnectFails \/ RunForever \/ LoopStops

Validator ==
  \/ \E m \in Messages : Deliver(m)
  \/ \E r \in Requests : Ask(r)

Next ==
  \/ \E m \in Messages : Call(m)
  \/ \E c \in Sends : Future(c)
  \/ Receive \/ Close
  \/ Run \/ Callback \/ Monitor
  \/ GetItem \/ SendMessage
  \/ \E m \in Messages \cup Requests : ReceiveMessage(m) \/ Lose(m)
  \/ Validator \/ LinkBreaks

Spec == Init /\ [][Next]_vars

\* The threads that are past a choice keep going: run() and the event loop,
\* a call once it has begun, and a validator that is connected.  Nobody has to
\* begin a call, to close the stream, to break or lose anything; connecting
\* need not fail, and a timeout need not fire.
Fairness ==
  /\ WF_vars(Connect \/ RunForever \/ LoopStops)
  /\ WF_vars(Callback) /\ WF_vars(Monitor)
  /\ WF_vars(GetItem) /\ WF_vars(SendMessage)
  /\ \A m \in Messages :
       WF_vars(PutMessageChecks(m) \/ PutMessageWaits(m)
                 \/ PutMessageSchedules(m))
  /\ \A c \in Sends : WF_vars(FuturesPut(c) \/ Result(c))
  /\ \A m \in Messages \cup Requests : WF_vars(ReceiveMessage(m))
  /\ \A m \in Messages : WF_vars(Deliver(m))

FairSpec == Spec /\ Fairness

-----------------------------------------------------------------------------
(***************************************************************************)
(* Properties                                                              *)
(***************************************************************************)

\* The code of the event loop never meets a queue that is None, although
\* handles outlive loop.stop() and the queues do not: the first step of
\* _put_message would raise, that of _get_message would block the loop's own
\* thread on a condition only this thread can notify.
QueuesLive ==
  /\ \A m \in Messages : Runs("putStep", m) /\ putTask[m] = "created" => queues
  /\ Runs("getStep", NoMessage) /\ get = "created" => queues

\* The late answer to a call that has already been failed by a disconnect is
\* never taken for a request of the validator: nothing but requests and the
\* reconnect event reaches the consumer of receive().
AnswersAreNotRequests ==
  /\ \A i \in 1 .. Len(recvQ) : recvQ[i] \notin Messages
  /\ got \notin Messages

\* On every connection but the first the consumer learns of the reconnection
\* before it gets any of the requests that came with it, so that it registers
\* again first.
ReconnectFirst ==
  queues /\ ~announced => recvQ # <<>> /\ Head(recvQ) = ReconnectEvent

\* Where the message of a call is, once the call is past put_message.
UnderWay(c) ==
  \/ pc[c] \in {"registered", "passed", "granted"}
  \/ putTask[c] \in {"scheduled", "created"}
  \/ c \in out \cup in
  \/ \E i \in 1 .. Len(sendQ) : sendQ[i] = c

\* While the connection is up, a call whose future is unresolved has its message
\* under way, unless put_message dropped it without a word: a disconnect
\* strands no other call, however it falls between the call's steps.
StrandedOnlyWhenDropped ==
  link = "up" /\ tasks = "alive" /\ phase = "running" =>
    \A c \in table : res[c] = "none" => UnderWay(c) \/ putTask[c] = "dropped"

\* When the monitor gets as far as stopping the loop, every future that is in
\* the table has been resolved, those put there during its sweep included.
SweepIsComplete ==
  [][phase = "sweeping" /\ phase' = "draining" =>
       \A c \in table : res[c] # "none"]_vars

\* An answer that has arrived is not replaced by the error of a later
\* disconnect, however late the caller looks at it.
AnswerKept ==
  [][\A c \in Sends : res[c] = "response" => res'[c] = "response"]_vars

\* A disconnect is followed by the ready event being set again, unless the
\* sweep failed or connecting did: wait_for_ready() returns.
RecoversUnlessSweepFails ==
  ~ready ~> (ready \/ tasks = "failed" \/ phase = "dead")

\* result() returns to every caller, even without a timeout, unless its message
\* was dropped by put_message, or the stream was closed, its monitor failed or
\* it could not connect again.
EveryCallReturns ==
  \A c \in Sends :
    pc[c] = "returned" ~> \/ pc[c] \in {"answered", "failed", "timedout"}
                          \/ putTask[c] = "dropped"
                          \/ shutdown \/ tasks = "failed" \/ phase = "dead"

\* A receive() that is under way when the connection breaks does not wait for
\* ever: it is cancelled, or finds an item (the reconnect event, at the latest),
\* unless the sweep raises, which leaves it as it is, or the thread ends.
ReceiveReleased ==
  opened /\ link = "down" /\ get \in {"scheduled", "created", "waiting", "cancelling"}
    ~> get \in {"cancelled", "item"} \/ tasks = "failed" \/ phase = "dead"

-----------------------------------------------------------------------------
(***************************************************************************)
(* The inductive invariant behind QueuesLive: handles and the state of     *)
(* their tasks agree, no task has two handles, and what is left of the     *)
(* batch after the queues were dropped has no step that would use them.    *)
(***************************************************************************)
PutOps == {"put", "putStep"}
GetOps == {"get", "getStep", "getCancel"}

\* Two handles of one task.
SameTask(g, h) ==
  \/ g[1] \in GetOps /\ h[1] \in GetOps
  \/ g[1] \in PutOps /\ h[1] \in PutOps /\ g[2] = h[2]

Distinct(q) == \A i, j \in 1 .. Len(q) : SameTask(q[i], q[j]) => i = j

OneHandle == Distinct(runq)

\* The state of the task a handle belongs to.
HandleState(h) ==
  /\ h[1] \in PutOps => h[2] \in Messages
  /\ h[1] = "put" => putTask[h[2]] = "scheduled"
  /\ h[1] = "putStep" => putTask[h[2]] \in {"created", "cancelled"}
  /\ h[1] = "get" => get = "scheduled"
  /\ h[1] = "getStep" => get \in {"created", "cancelling"}
  /\ h[1] = "getCancel" => get = "cancelling"

HandlesAgree == \A i \in 1 .. Len(runq) : HandleState(runq[i])

NotYetScheduled ==
  \A m \in Messages :
    pc[m] \in {"idle", "refused", "checked", "registered", "passed", "granted"}
      => putTask[m] = "none"

QueuesWhileConnected ==
  phase \in {"starting", "running", "cleared", "sweeping"} => queues

\* The first step of a task that has not been cancelled.
LiveStep(h) ==
  \/ h[1] = "putStep" /\ putTask[h[2]] = "created"
  \/ h[1] = "getStep" /\ get = "created"

DrainHasNoLiveStep ==
  phase = "draining" /\ ~queues => \A i \in 1 .. todo : ~LiveStep(runq[i])

\* What every step of the event loop preserves, whoever interleaves with it.
QueueInv ==
  /\ OneHandle
  /\ HandlesAgree
  /\ NotYetScheduled
  /\ QueuesWhileConnected
  /\ DrainHasNoLiveStep

-----------------------------------------------------------------------------
\* What the documentation of Stream.wait_for_ready says of the background
\* thread: that it recovers from a disconnect with the validator.
RecoversFromDisconnect ==
  ~ready ~> (ready \/ phase = "dead")

\* close() ends the background thread, whatever state it was in.
CloseEndsThread == shutdown ~> phase = "dead"
=============================================================================
