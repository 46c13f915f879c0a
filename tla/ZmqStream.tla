------------------------------ MODULE ZmqStream ------------------------------
(***************************************************************************)
(* The messaging of the Java SDK: ZmqStream, SendReceiveThread and         *)
(* FutureByteString (sawtooth.sdk.messaging).                              *)
(*                                                                         *)
(* Any thread sends and waits for results.  The event loop's thread        *)
(* handles what arrives: an answer resolves the future that the table has  *)
(* under its correlation id, anything else goes to the queue of messages.  *)
(* A third thread is told of every disconnect by the socket's monitor: it  *)
(* puts an error in place of every future in the table, clears the queue   *)
(* and puts a message without content.  The three share the table and the  *)
(* queue, which are safe for threads, and nothing else: every access is a  *)
(* step of its own.                                                        *)
(*                                                                         *)
(* The socket connects again by itself and keeps what is sent meanwhile.   *)
(* What was on its way when the connection broke may be lost.              *)
(***************************************************************************)
EXTENDS Integers, Sequences

CONSTANTS
  Calls,          \* calls of send, each with the getResult() that follows
  Timed,          \* those whose getResult() has a timeout
  Requests,       \* unsolicited messages of the validator
  Disconnect,     \* the null message
  NoMessage,
  AllowSpurious,  \* whether a Condition may wake up without a cause
  MaxDisconnects  \* bound: how often the connection breaks

ASSUME ZmqAssumption ==
  /\ Timed \subseteq Calls
  /\ Calls \cap Requests = {}
  /\ Disconnect \notin Calls \cup Requests
  /\ NoMessage \notin Calls \cup Requests \cup {Disconnect}
  /\ AllowSpurious \in BOOLEAN
  /\ MaxDisconnects \in Nat

VARIABLES
  setup,         \* where run() is before its event loop
  closed,        \* stop() was called
  futures,       \* the table: the call's future, a FutureError, or neither
  result,        \* whether the call's own future has its result
  pc,            \* where the calling thread is
  receiveQueue,
  handling, msg, \* where Receiver.handle is, and its message
  sweeping,      \* where the DisconnectThread is
  ahead, due, seen, \* its iterator: the next key, those of the start, those had
  \* the socket and the validator
  events,        \* disconnects the monitor has reported and nobody has read
  link, breaks,  \* whether the connection is up, and how often it broke
  out, in,       \* what is on its way
  asked          \* the requests made so far

threads  == <<setup, closed, futures, result, pc, receiveQueue>>
receiver == <<handling, msg>>
monitor  == <<sweeping, ahead, due, seen>>
socket   == <<events, link, breaks, out, in, asked>>
vars     == <<threads, receiver, monitor, socket>>

Done == {"answered", "empty", "failed"}

TypeOK ==
  /\ setup \in {"none", "socket", "loop", "dead"} /\ closed \in BOOLEAN
  /\ futures \in [Calls -> {"none", "future", "error"}]
  /\ result \in [Calls -> BOOLEAN]
  /\ pc \in [Calls -> {"idle", "registered", "socketWait", "sending", "sent",
                       "awaiting", "awake"} \cup Done]
  /\ receiveQueue \in Seq(Calls \cup Requests \cup {Disconnect})
  /\ handling \in {"poll", "found", "remove", "queue"}
  /\ msg \in Calls \cup Requests \cup {NoMessage}
  /\ handling # "poll" => msg # NoMessage
  /\ handling \in {"found", "remove"} => msg \in Calls
  /\ sweeping \in {"recv", "sweep", "tell"}
  /\ ahead \in Calls \cup {NoMessage}
  /\ due \subseteq Calls /\ seen \subseteq Calls
  /\ events \in Nat /\ breaks \in Nat /\ link \in {"up", "down"}
  /\ out \subseteq Calls /\ in \subseteq Calls \cup Requests
  /\ asked \subseteq Requests

Init ==
  /\ setup = "none" /\ closed = FALSE
  /\ futures = [c \in Calls |-> "none"] /\ result = [c \in Calls |-> FALSE]
  /\ pc = [c \in Calls |-> "idle"]
  /\ receiveQueue = <<>>
  /\ handling = "poll" /\ msg = NoMessage
  /\ sweeping = "recv" /\ ahead = NoMessage /\ due = {} /\ seen = {}
  /\ events = 0 /\ link = "down" /\ breaks = 0
  /\ out = {} /\ in = {} /\ asked = {}

-----------------------------------------------------------------------------
(***************************************************************************)
(* run(), up to the event loop                                             *)
(***************************************************************************)

\* The field is set before the socket is connected, and without the lock.
CreateSocket ==
  /\ setup = "none"
  /\ setup' = "socket"
  /\ UNCHANGED <<closed, futures, result, pc, receiveQueue, receiver, monitor, socket>>

\* Fault: nobody is signalled.
Connect_Silent ==
  /\ setup = "socket" /\ ~closed
  /\ setup' = "loop"
  /\ UNCHANGED <<closed, futures, result, pc, receiveQueue, receiver, monitor, socket>>

\* Whoever waits for the socket is signalled.
Connect ==
  /\ setup = "socket" /\ ~closed
  /\ setup' = "loop"
  /\ pc' = [c \in Calls |-> IF pc[c] = "socketWait" THEN "sending" ELSE pc[c]]
  /\ UNCHANGED <<closed, futures, result, receiveQueue, receiver, monitor, socket>>

\* A bad address, or a socket closed meanwhile: the thread ends.
ConnectFails ==
  /\ setup = "socket"
  /\ setup' = "dead"
  /\ UNCHANGED <<closed, futures, result, pc, receiveQueue, receiver, monitor, socket>>

\* stop(): without a socket it raises.
Close ==
  /\ setup # "none" /\ ~closed
  /\ closed' = TRUE
  /\ UNCHANGED <<setup, futures, result, pc, receiveQueue, receiver, monitor, socket>>

-----------------------------------------------------------------------------
(***************************************************************************)
(* send() and getResult(), in any thread                                   *)
(***************************************************************************)
Goto(c, where) == pc' = [pc EXCEPT ![c] = where]

Register(c) ==
  /\ pc[c] = "idle"
  /\ futures' = [futures EXCEPT ![c] = "future"]
  /\ Goto(c, "registered")
  /\ UNCHANGED <<setup, closed, result, receiveQueue, receiver, monitor, socket>>

\* sendMessage waits once for the socket.  The field is set without the lock, so that
\* until the signal it may be seen or not.
AwaitSocket(c) ==
  /\ pc[c] = "registered"
  /\ \/ setup # "none" /\ Goto(c, "sending")
     \/ setup # "loop" /\ Goto(c, "socketWait")
  /\ UNCHANGED <<setup, closed, futures, result, receiveQueue, receiver, monitor, socket>>

\* Woken without a cause it goes on without a socket, which raises.
SocketSpurious(c) ==
  /\ AllowSpurious /\ pc[c] = "socketWait"
  /\ \/ setup # "none" /\ Goto(c, "sending")
     \/ setup # "loop" /\ Goto(c, "failed")
  /\ UNCHANGED <<setup, closed, futures, result, receiveQueue, receiver, monitor, socket>>

\* A socket that is not connected yet makes the sender wait, a closed one raises.
SendMessage(c) ==
  /\ pc[c] = "sending"
  /\ IF closed
       THEN Goto(c, "failed") /\ UNCHANGED out
       ELSE setup = "loop" /\ Goto(c, "sent") /\ out' = out \cup {c}
  /\ UNCHANGED <<setup, closed, futures, result, receiveQueue, receiver, monitor,
                 events, link, breaks, in, asked>>

\* Fault: the result is not looked at before waiting for it.
GetResult_Awaits(c) ==
  /\ pc[c] = "sent"
  /\ Goto(c, "awaiting")
  /\ UNCHANGED <<setup, closed, futures, result, receiveQueue, receiver, monitor, socket>>

GetResult(c) ==
  /\ pc[c] = "sent"
  /\ Goto(c, IF result[c] THEN "answered" ELSE "awaiting")
  /\ UNCHANGED <<setup, closed, futures, result, receiveQueue, receiver, monitor, socket>>

\* await returns without a signal: the timeout has passed, or for no cause.
Expire(c) ==
  /\ pc[c] = "awaiting" /\ (c \in Timed \/ AllowSpurious)
  /\ Goto(c, "awake")
  /\ UNCHANGED <<setup, closed, futures, result, receiveQueue, receiver, monitor, socket>>

\* Whatever woke it, the caller returns what there is: without a timeout that may
\* be null, with one its absence raises TimeoutException.
Wake(c) ==
  /\ pc[c] = "awake"
  /\ Goto(c, IF result[c] THEN "answered" ELSE "empty")
  /\ UNCHANGED <<setup, closed, futures, result, receiveQueue, receiver, monitor, socket>>

\* receive(): take() waits, poll() raises TimeoutException and changes nothing.
Receive ==
  /\ receiveQueue # <<>>
  /\ receiveQueue' = Tail(receiveQueue)
  /\ UNCHANGED <<setup, closed, futures, result, pc, receiver, monitor, socket>>

-----------------------------------------------------------------------------
(***************************************************************************)
(* Receiver.handle, in the event loop's thread                             *)
(***************************************************************************)

\* A message is an answer if the table has its correlation id.
Poll(m) ==
  /\ setup = "loop" /\ ~closed /\ handling = "poll" /\ m \in in
  /\ in' = in \ {m} /\ msg' = m
  /\ handling' = IF m \in Calls /\ futures[m] # "none" THEN "found" ELSE "queue"
  /\ UNCHANGED <<threads, monitor, events, link, breaks, out, asked>>

\* setResult wakes the caller, whose future it may find ...
Resolve ==
  /\ handling = "found" /\ futures[msg] = "future"
  /\ result' = [result EXCEPT ![msg] = TRUE]
  /\ pc' = [pc EXCEPT ![msg] = IF @ = "awaiting" THEN "awake" ELSE @]
  /\ handling' = "remove"
  /\ UNCHANGED <<setup, closed, futures, receiveQueue, msg, monitor, socket>>

\* ... or the error that a disconnect left there, which raises: the answer is lost
\* and the error stays in the table.
ResolveRaises ==
  /\ handling = "found" /\ futures[msg] = "error"
  /\ handling' = "poll" /\ msg' = NoMessage
  /\ UNCHANGED <<threads, monitor, socket>>

\* Only the future it resolved is removed, not what replaced it meanwhile.
Remove ==
  /\ handling = "remove"
  /\ futures' = [futures EXCEPT ![msg] = IF @ = "future" THEN "none" ELSE @]
  /\ handling' = "poll" /\ msg' = NoMessage
  /\ UNCHANGED <<setup, closed, result, pc, receiveQueue, monitor, socket>>

Enqueue ==
  /\ handling = "queue"
  /\ receiveQueue' = Append(receiveQueue, msg)
  /\ handling' = "poll" /\ msg' = NoMessage
  /\ UNCHANGED <<setup, closed, futures, result, pc, monitor, socket>>

-----------------------------------------------------------------------------
(***************************************************************************)
(* The DisconnectThread                                                    *)
(***************************************************************************)
Present == {c \in Calls : futures[c] # "none"}

\* The iterator of a ConcurrentHashMap reads one entry ahead.  It meets every key
\* that is there from the start and stays, and may meet one that comes.
LooksAt(c, had) ==
  \/ c \in Present \ had
  \/ c = NoMessage /\ due \cap Present \subseteq had

EventRecv ==
  /\ setup # "none" /\ ~closed /\ sweeping = "recv" /\ events > 0
  /\ events' = events - 1
  /\ due' = Present /\ seen' = {}
  /\ ahead' \in (IF Present = {} THEN {NoMessage} ELSE Present)
  /\ sweeping' = "sweep"
  /\ UNCHANGED <<threads, receiver, link, breaks, out, in, asked>>

\* Fault: the future is taken out of the table instead.
SweepNext_Removes ==
  /\ sweeping = "sweep" /\ ahead # NoMessage
  /\ futures' = [futures EXCEPT ![ahead] = "none"]
  /\ seen' = seen \cup {ahead}
  /\ \E c \in Calls \cup {NoMessage} : LooksAt(c, seen') /\ ahead' = c
  /\ UNCHANGED <<setup, closed, result, pc, receiveQueue, receiver, sweeping, due, socket>>

\* put() replaces the future by an error, and brings back a key that was removed
\* after the iterator had read it.
SweepNext ==
  /\ sweeping = "sweep" /\ ahead # NoMessage
  /\ futures' = [futures EXCEPT ![ahead] = "error"]
  /\ seen' = seen \cup {ahead}
  /\ \E c \in Calls \cup {NoMessage} : LooksAt(c, seen') /\ ahead' = c
  /\ UNCHANGED <<setup, closed, result, pc, receiveQueue, receiver, sweeping, due, socket>>

ClearQueue ==
  /\ sweeping = "sweep" /\ ahead = NoMessage
  /\ receiveQueue' = <<>>
  /\ sweeping' = "tell" /\ due' = {} /\ seen' = {}
  /\ UNCHANGED <<setup, closed, futures, result, pc, receiver, ahead, socket>>

\* Fault: what has arrived since the queue was cleared keeps the message out.
Tell_IfEmpty ==
  /\ sweeping = "tell"
  /\ receiveQueue' = IF receiveQueue = <<>> THEN <<Disconnect>> ELSE receiveQueue
  /\ sweeping' = "recv"
  /\ UNCHANGED <<setup, closed, futures, result, pc, receiver, ahead, due, seen, socket>>

\* The consumer gets a message without content.
Tell ==
  /\ sweeping = "tell"
  /\ receiveQueue' = Append(receiveQueue, Disconnect)
  /\ sweeping' = "recv"
  /\ UNCHANGED <<setup, closed, futures, result, pc, receiver, ahead, due, seen, socket>>

-----------------------------------------------------------------------------
(***************************************************************************)
(* The socket and the validator                                            *)
(***************************************************************************)
LinkUp ==
  /\ setup = "loop" /\ ~closed /\ link = "down"
  /\ link' = "up"
  /\ UNCHANGED <<threads, receiver, monitor, events, breaks, out, in, asked>>

\* Any part of what is on its way is lost; the rest stays queued in the socket.
LinkBreaks ==
  /\ link = "up" /\ ~closed /\ breaks < MaxDisconnects
  /\ link' = "down" /\ breaks' = breaks + 1 /\ events' = events + 1
  /\ \E lost \in SUBSET (out \cup in) : out' = out \ lost /\ in' = in \ lost
  /\ UNCHANGED <<threads, receiver, monitor, asked>>

ValidatorAnswers(c) ==
  /\ link = "up" /\ c \in out
  /\ out' = out \ {c} /\ in' = in \cup {c}
  /\ UNCHANGED <<threads, receiver, monitor, events, link, breaks, asked>>

ValidatorAsks(r) ==
  /\ link = "up" /\ r \notin asked
  /\ asked' = asked \cup {r} /\ in' = in \cup {r}
  /\ UNCHANGED <<threads, receiver, monitor, events, link, breaks, out>>

-----------------------------------------------------------------------------
Setup == CreateSocket \/ Connect

Caller(c) == Register(c) \/ AwaitSocket(c) \/ SendMessage(c) \/ GetResult(c) \/ Wake(c)

Handle == (\E m \in Calls \cup Requests : Poll(m))
            \/ Resolve \/ ResolveRaises \/ Remove \/ Enqueue

Monitor == EventRecv \/ SweepNext \/ ClearQueue \/ Tell

Validator == (\E c \in Calls : ValidatorAnswers(c)) \/ (\E r \in Requests : ValidatorAsks(r))

Next ==
  \/ Setup \/ ConnectFails \/ Close
  \/ \E c \in Calls : Caller(c) \/ SocketSpurious(c) \/ Expire(c)
  \/ Receive \/ Handle \/ Monitor \/ LinkUp \/ LinkBreaks \/ Validator

Spec == Init /\ [][Next]_vars

(***************************************************************************)
(* Every thread that can go on does; the socket connects again, and a      *)
(* timeout passes.  The validator answers what reaches it.  Nobody has to  *)
(* begin a call, to receive, to ask or to close, and nothing has to fail.  *)
(***************************************************************************)
Fairness ==
  /\ WF_vars(CreateSocket \/ Connect)
  /\ \A c \in Calls :
       /\ WF_vars(AwaitSocket(c)) /\ WF_vars(SendMessage(c))
       /\ WF_vars(GetResult(c)) /\ WF_vars(Wake(c))
       /\ WF_vars(c \in Timed /\ Expire(c))
       /\ WF_vars(ValidatorAnswers(c))
       /\ WF_vars(Poll(c))
  /\ WF_vars(Resolve) /\ WF_vars(ResolveRaises) /\ WF_vars(Remove) /\ WF_vars(Enqueue)
  /\ WF_vars(Monitor) /\ WF_vars(LinkUp)

FairSpec == Spec /\ Fairness

-----------------------------------------------------------------------------
(***************************************************************************)
(* Properties                                                              *)
(***************************************************************************)

\* An answer never reaches the consumer of requests, however late it comes: a
\* disconnect puts an error in place of a future and takes none away, and a future
\* is registered before its message is sent (ZmqStream.send, Receiver.handle).
AnswersAreNotRequests ==
  \A i \in 1..Len(receiveQueue) : receiveQueue[i] \notin Calls

\* Nobody waits for a result that is there: the lock of FutureByteString makes the
\* check, the wait and the signal safe although the wait is not in a loop.
NoLostWakeup == \A c \in Calls : ~(result[c] /\ pc[c] = "awaiting")

\* What a disconnect found in the table of futures.
Abandoned(c) == futures[c] = "error"

\* A call ends unless the thread could not start, the stream is closed or a
\* disconnect has put an error in place of its future: that one "resolve[s] a future
\* with an error response" (FutureError.java:24) in the table only, where the caller,
\* who holds the old future, never looks.  One with a timeout ends in that case too
\* (FutureByteString.getResult, SendReceiveThread.run).
EveryCallReturns ==
  \A c \in Calls :
    pc[c] = "registered" ~>
      \/ pc[c] \in Done \/ setup = "dead" \/ closed
      \/ Abandoned(c) /\ c \notin Timed

\* Every disconnect reaches the consumer, who has to register again, unless the
\* stream is closed (SendReceiveThread.DisconnectThread).
DisconnectsAreTold ==
  events > 0 ~> closed \/ \E i \in 1..Len(receiveQueue) : receiveQueue[i] = Disconnect
=============================================================================
