--------------------------- MODULE ConsensusDriver ---------------------------
(***************************************************************************)
(* The driver of a consensus engine: ZmqDriver (consensus/zmq_driver.py)   *)
(* and ZmqService (consensus/zmq_service.py), on a Stream of which they    *)
(* know what StreamSpec promises.                                          *)
(*                                                                         *)
(* The main thread registers the engine, waits for its activation, starts  *)
(* the driver thread and runs the engine, which calls the validator        *)
(* through the service.  The driver thread acknowledges what the validator *)
(* notifies and puts it on the queue of updates.  Both threads may stop    *)
(* the driver: the driver thread when the validator deactivates the        *)
(* engine, the main thread when the engine returns.                        *)
(*                                                                         *)
(* The engine is external: it returns when it was told to stop, or when it *)
(* likes, and calls the service when it likes.                             *)
(***************************************************************************)
EXTENDS Integers, Sequences, FiniteSets

CONSTANTS
  Register,       \* the slot of the call that registers
  Service,        \* the slot of the engine's service call
  Notifications,  \* messages about peers and blocks
  Activations,    \* CONSENSUS_NOTIFY_ENGINE_ACTIVATED
  Deactivations,  \* CONSENSUS_NOTIFY_ENGINE_DEACTIVATED
  Pings,          \* PING_REQUEST
  NoMessage, ReconnectEvent,
  MaxDisconnects  \* bound: how often the connection breaks

Requests == Notifications \cup Activations \cup Deactivations \cup Pings
Sends    == {Register, Service}

ASSUME DriverAssumption ==
  /\ Register # Service
  /\ IsFiniteSet(Requests)
  /\ Notifications \cap (Activations \cup Deactivations \cup Pings) = {}
  /\ Activations \cap (Deactivations \cup Pings) = {}
  /\ Deactivations \cap Pings = {}
  /\ ReconnectEvent \notin Requests /\ NoMessage \notin Requests
  /\ ReconnectEvent # NoMessage
  /\ MaxDisconnects \in Nat

VARIABLES
  conn, call, dropped, inbox, get, got, closed,  \* the stream
  main,      \* where start() is
  driver,    \* where _driver_loop is
  message,   \* the message _driver_loop has at hand
  exit,      \* _exit
  told,      \* Engine.stop was called
  updates,   \* what was put on the queue of updates
  cameAt,    \* history: the place of a message in the order of arrival, or 0
  acked,     \* history: what was acknowledged to the stream, by send_back
  drops      \* history: how often the connection broke

Stream == INSTANCE StreamSpec

stream  == <<conn, call, dropped, inbox, get, got, closed>>
threads == <<main, driver, message, exit, told>>
history == <<cameAt, acked, drops>>
vars    == <<stream, threads, updates, history>>

Starting == {"register", "registerSend", "registerReply", "activate", "activation"}
Running  == {"engine", "service", "stop", "close", "join"}

Ready == conn = "up"

TypeOK ==
  /\ Stream!SpecTypeOK
  /\ main \in Starting \cup Running \cup {"crashed", "done"}
  /\ driver \in {"none", "begin", "loop", "wait", "process", "close", "ack", "put",
                 "ended"}
  /\ (driver = "none") = (main \in Starting \cup {"crashed"})
  /\ message \in Requests \cup {ReconnectEvent, NoMessage}
  /\ driver = "put" => message \in Notifications \cup Deactivations
  /\ exit \in BOOLEAN /\ told \in BOOLEAN
  /\ updates \in Seq(Notifications \cup Deactivations)
  /\ cameAt \in [Requests -> Nat]
  /\ acked \subseteq Requests
  /\ drops \in 0 .. MaxDisconnects

Init ==
  /\ Stream!SpecInit
  /\ main = "register" /\ driver = "none" /\ message = NoMessage
  /\ exit = FALSE /\ told = FALSE
  /\ updates = <<>>
  /\ cameAt = [r \in Requests |-> 0] /\ acked = {} /\ drops = 0

-----------------------------------------------------------------------------
(***************************************************************************)
(* The main thread: start, _register, _wait_until_active                   *)
(***************************************************************************)

RegisterWaits ==
  /\ main = "register" /\ Ready
  /\ main' = "registerSend"
  /\ UNCHANGED <<stream, driver, message, exit, told, updates, history>>

\* An exception of send() leaves start().
RegisterSends ==
  /\ main = "registerSend"
  /\ IF Ready
       THEN Stream!Begin(Register) /\ main' = "registerReply"
       ELSE main' = "crashed" /\ UNCHANGED stream
  /\ UNCHANGED <<driver, message, exit, told, updates, history>>

\* NOT_READY is tried again at once; OK comes with the startup state or
\* without; another status, and a disconnect, leave start().
RegisterReplies ==
  /\ main = "registerReply"
  /\ Stream!Return(Register)
  /\ \/ /\ call[Register] = "response"
        /\ main' \in {"registerSend", "activate"} /\ UNCHANGED driver
     \/ /\ call[Register] = "response"
        /\ main' = "engine" /\ driver' = "begin"
     \/ main' = "crashed" /\ UNCHANGED driver
  /\ UNCHANGED <<message, exit, told, updates, history>>

\* So does a validator that is silent for REGISTER_TIMEOUT.
RegisterTimesOut ==
  /\ main = "registerReply"
  /\ Stream!TimeOut(Register)
  /\ main' = "crashed"
  /\ UNCHANGED <<driver, message, exit, told, updates, history>>

ActivationReceives ==
  /\ main = "activate"
  /\ Stream!Receive
  /\ main' = "activation"
  /\ UNCHANGED <<driver, message, exit, told, updates, history>>

\* The activation is acknowledged, then the driver thread and the engine start;
\* without a connection, send_back raises.
Activation ==
  /\ main = "activation" /\ get = "item" /\ got \in Activations
  /\ IF Ready
       THEN acked' = acked \cup {got} /\ main' = "engine" /\ driver' = "begin"
       ELSE main' = "crashed" /\ UNCHANGED <<acked, driver>>
  /\ UNCHANGED <<stream, message, exit, told, updates, cameAt, drops>>

\* Any other message is dropped, without an acknowledgement.
ActivationIgnores ==
  /\ main = "activation" /\ get = "item" /\ got \in Requests \ Activations
  /\ main' = "activate"
  /\ UNCHANGED <<stream, driver, message, exit, told, updates, history>>

\* The reconnect event has no message type, and a cancelled future raises.
ActivationFails ==
  /\ main = "activation"
  /\ get = "cancelled" \/ (get = "item" /\ got = ReconnectEvent)
  /\ main' = "crashed"
  /\ UNCHANGED <<stream, driver, message, exit, told, updates, history>>

-----------------------------------------------------------------------------
(***************************************************************************)
(* The main thread: the engine, its service, stop                          *)
(***************************************************************************)

\* ZmqService._send; a call without a connection raises in the engine.
ServiceCalls ==
  /\ main = "engine"
  /\ Ready
  /\ Stream!Begin(Service)
  /\ main' = "service"
  /\ UNCHANGED <<driver, message, exit, told, updates, history>>

ServiceReturns ==
  /\ main = "service"
  /\ Stream!Return(Service) \/ Stream!TimeOut(Service)
  /\ main' = "engine"
  /\ UNCHANGED <<driver, message, exit, told, updates, history>>

\* The engine returns, or raises.
EngineReturns ==
  /\ main = "engine"
  /\ main' = "stop"
  /\ UNCHANGED <<stream, driver, message, exit, told, updates, history>>

\* stop() sets _exit and tells the engine ...
Stops ==
  /\ main = "stop"
  /\ exit' = TRUE /\ told' = TRUE
  /\ main' = "close"
  /\ UNCHANGED <<stream, driver, message, updates, history>>

\* ... and closes the stream, once more if the driver thread has.
Closes ==
  /\ main = "close"
  /\ Stream!Close \/ (closed /\ UNCHANGED stream)
  /\ main' = "join"
  /\ UNCHANGED <<driver, message, exit, told, updates, history>>

Joins ==
  /\ main = "join" /\ driver = "ended"
  /\ main' = "done"
  /\ UNCHANGED <<stream, driver, message, exit, told, updates, history>>

-----------------------------------------------------------------------------
(***************************************************************************)
(* The driver thread: _driver_loop, _process                               *)
(***************************************************************************)

DriverBegins ==
  /\ driver = "begin"
  /\ Stream!Receive
  /\ driver' = "loop"
  /\ UNCHANGED <<main, message, exit, told, updates, history>>

\* Fault: the flag is not looked at while messages come.
DriverLoops_Busy ==
  /\ driver = "loop"
  /\ IF exit /\ get = "item"
       THEN driver' = "ended" /\ told' = TRUE
       ELSE driver' = "wait" /\ UNCHANGED told
  /\ UNCHANGED <<stream, main, message, exit, updates, history>>

DriverLoops ==
  /\ driver = "loop"
  /\ IF exit
       THEN driver' = "ended" /\ told' = TRUE
       ELSE driver' = "wait" /\ UNCHANGED told
  /\ UNCHANGED <<stream, main, message, exit, updates, history>>

DriverTimesOut ==
  /\ driver = "wait" /\ get \in {"waiting", "doomed"}
  /\ driver' = "loop"
  /\ UNCHANGED <<stream, main, message, exit, told, updates, history>>

\* The next message is asked for before this one is processed.
DriverTakes ==
  /\ driver = "wait" /\ get = "item"
  /\ message' = got
  /\ Stream!Receive
  /\ driver' = "process"
  /\ UNCHANGED <<main, exit, told, updates, history>>

\* A cancelled future, and the reconnect event, raise in the thread, which
\* catches every exception outside its loop.
DriverFails ==
  /\ \/ driver = "wait" /\ get = "cancelled"
     \/ driver = "process" /\ message = ReconnectEvent
  /\ driver' = "ended"
  /\ UNCHANGED <<stream, main, message, exit, told, updates, history>>

\* Fault: an activation is acknowledged whenever it comes.
DriverProcesses_Activations ==
  /\ driver = "process" /\ message \in Requests
  /\ IF message \in Deactivations
       THEN exit' = TRUE /\ told' = TRUE /\ driver' = "close"
       ELSE driver' = "ack" /\ UNCHANGED <<exit, told>>
  /\ UNCHANGED <<stream, main, message, updates, history>>

\* A deactivation stops the driver before it is acknowledged; an activation is
\* unexpected here, and is neither acknowledged nor put.
DriverProcesses ==
  /\ driver = "process" /\ message \in Requests
  /\ IF message \in Deactivations
       THEN exit' = TRUE /\ told' = TRUE
       ELSE UNCHANGED <<exit, told>>
  /\ driver' = IF message \in Deactivations THEN "close"
               ELSE IF message \in Activations THEN "loop" ELSE "ack"
  /\ UNCHANGED <<stream, main, message, updates, history>>

DriverCloses ==
  /\ driver = "close"
  /\ Stream!Close \/ (closed /\ UNCHANGED stream)
  /\ driver' = "ack"
  /\ UNCHANGED <<main, message, exit, told, updates, history>>

\* Every message is acknowledged alike, pings included; without a connection
\* the thread ends.
DriverAcks ==
  /\ driver = "ack"
  /\ IF Ready
       THEN /\ acked' = acked \cup {message}
            /\ driver' = IF message \in Pings THEN "loop" ELSE "put"
       ELSE driver' = "ended" /\ UNCHANGED acked
  /\ UNCHANGED <<stream, main, message, exit, told, updates, cameAt, drops>>

\* Fault: what the next receive() has got is put in place of the message.
DriverPuts_Next ==
  /\ driver = "put"
  /\ updates' = Append(updates, IF get = "item" /\ got \in Notifications THEN got ELSE message)
  /\ driver' = "loop"
  /\ UNCHANGED <<stream, main, message, exit, told, history>>

\* Fault: nothing is put once the driver is to exit.
DriverPuts_UnlessExit ==
  /\ driver = "put"
  /\ updates' = IF exit THEN updates ELSE Append(updates, message)
  /\ driver' = "loop"
  /\ UNCHANGED <<stream, main, message, exit, told, history>>

DriverPuts ==
  /\ driver = "put"
  /\ updates' = Append(updates, message)
  /\ driver' = "loop"
  /\ UNCHANGED <<stream, main, message, exit, told, history>>

-----------------------------------------------------------------------------
(***************************************************************************)
(* The background thread and the validator, as StreamSpec has them         *)
(***************************************************************************)
Background ==
  /\ \/ \E c \in Sends :
          \/ Stream!Registered(c) \/ Stream!Drop(c) \/ Stream!Answer(c)
          \/ Stream!Fail(c)
     \/ Stream!Take \/ Stream!Cancelled
     \/ Stream!Stop \/ Stream!Reconnect \/ Stream!GiveUp \/ Stream!Doom
  /\ UNCHANGED <<threads, updates, history>>

Break ==
  /\ drops < MaxDisconnects
  /\ Stream!Break
  /\ drops' = drops + 1
  /\ UNCHANGED <<threads, updates, cameAt, acked>>

Arrive(r) ==
  /\ cameAt[r] = 0
  /\ Stream!Arrive(r)
  /\ cameAt' = [cameAt EXCEPT ![r] = Cardinality({q \in Requests : cameAt[q] > 0}) + 1]
  /\ UNCHANGED <<threads, updates, acked, drops>>

-----------------------------------------------------------------------------
MainSteps ==
  \/ RegisterWaits \/ RegisterSends \/ RegisterReplies
  \/ ActivationReceives \/ Activation \/ ActivationIgnores \/ ActivationFails
  \/ ServiceReturns \/ Stops \/ Closes \/ Joins

DriverSteps ==
  \/ DriverBegins \/ DriverLoops \/ DriverTimesOut \/ DriverTakes \/ DriverFails
  \/ DriverProcesses \/ DriverCloses \/ DriverAcks \/ DriverPuts

Next ==
  \/ MainSteps \/ RegisterTimesOut \/ ServiceCalls \/ EngineReturns
  \/ DriverSteps
  \/ Background \/ Break
  \/ \E r \in Requests : Arrive(r)

Spec == Init /\ [][Next]_vars

\* Both threads go on while they can, the timeouts of the service and of the
\* driver's receive() pass, and an engine that was told to stop returns, however
\* many calls it makes before.  The validator need not send or answer anything.
Fairness ==
  /\ WF_vars(MainSteps) /\ WF_vars(DriverSteps)
  /\ SF_vars(told /\ EngineReturns)
  /\ WF_vars(/\ Stream!Take \/ Stream!Stop \/ Stream!Reconnect \/ Stream!Cancelled
             /\ UNCHANGED <<threads, updates, history>>)
  /\ \A c \in Sends :
       WF_vars(/\ Stream!Registered(c) \/ Stream!Fail(c)
               /\ UNCHANGED <<threads, updates, history>>)

FairSpec == Spec /\ Fairness

-----------------------------------------------------------------------------
(***************************************************************************)
(* Properties                                                              *)
(***************************************************************************)

\* The engine gets its updates in the order the validator sent them, although
\* the next message is on its way while one is processed.
UpdatesInOrder ==
  \A i, j \in 1 .. Len(updates) :
    i < j => cameAt[updates[i]] < cameAt[updates[j]]

\* An update never overtakes the activation it presupposes: what the validator
\* sent before the activation that start() acknowledged is not put, however late
\* it is processed, and an activation that comes while the engine runs is not
\* acknowledged as if it had started it.
UpdatesFollowActivation ==
  \A i \in 1 .. Len(updates) : \A a \in acked \cap Activations :
    cameAt[a] < cameAt[updates[i]]

\* What was acknowledged while the engine ran reaches it, even when the driver
\* is stopped meanwhile: the validator will not send it again.  (Both sets only
\* grow, so that an acknowledged update that is missing must be put later.)
AckedReachesEngine ==
  []<>(\A n \in Notifications \cap acked :
         \E i \in 1 .. Len(updates) : updates[i] = n)

\* Once somebody has stopped the driver, both threads end: the main thread joins
\* the driver thread, which may be stopping the driver itself, and the engine
\* may wait for a service call that the closed stream never answers.
StopEnds == exit ~> main = "done"

-----------------------------------------------------------------------------
\* What the documentation of Engine.start says: notifications from the validator
\* are sent along UPDATES; here, while the connection stays up and nobody stops
\* the driver.
NotificationsReachEngine ==
  \A n \in Notifications :
    cameAt[n] > 0 /\ main = "engine" ~>
      \/ \E i \in 1 .. Len(updates) : updates[i] = n
      \/ conn # "up" \/ exit \/ main = "stop"
=============================================================================
