---------------------------- MODULE JavaProcessor ----------------------------
(***************************************************************************)
(* The transaction processor of the Java SDK: TransactionProcessor and the *)
(* calls a handler makes through StreamContext (sawtooth.sdk.processor),   *)
(* on the stream, of which it knows what ZmqStreamSpec promises.           *)
(*                                                                         *)
(* One thread adds the handlers, each with a registration, and then runs   *)
(* the loop.  A message without content makes it register every handler    *)
(* again.  When the JVM is told to end, a shutdown hook runs beside it: it *)
(* unregisters, processes the message the loop may be processing and what  *)
(* is left in the queue, and the JVM halts.  The two threads share fields  *)
(* without a lock; every access is a step of its own.                      *)
(*                                                                         *)
(* A handler's apply is external: it makes any number of calls of its      *)
(* context, then returns, or raises InvalidTransactionException or         *)
(* InternalError, all of which are answered; any other exception leaves    *)
(* process() without a response and ends the thread it is raised in.       *)
(* So is the validator, which sends transactions of the families it knows, *)
(* and pings; what it does not send, messages of another type, is left out. *)
(***************************************************************************)
EXTENDS Integers, Sequences

CONSTANTS
  Families,         \* what the handlers are registered for, one each
  Access,           \* the slot of the context's call, from the loop ...
  HookAccess,       \* ... and from the hook
  Unregister,       \* the slot of the call that unregisters
  Transactions,     \* messages of type TP_PROCESS_REQUEST
  FamilyOf,         \* the family of each, NoHandler if it is nobody's
  Pings,            \* messages of type PING_REQUEST
  NoMessage, NoHandler, Disconnect,
  AllowShutdown,    \* whether the JVM may be told to end
  AllowSpurious,    \* whether getResult() may wake up without a cause
  MaxDisconnects    \* bound: how often the connection breaks

Requests == Transactions \cup Pings
Calls    == Families \cup {Access, HookAccess, Unregister}
Handled  == {t \in Transactions : FamilyOf[t] \in Families}

ASSUME JavaProcessorAssumption ==
  /\ Transactions \cap Pings = {}
  /\ {Access, HookAccess, Unregister} \cap Families = {}
  /\ Access # HookAccess /\ Access # Unregister /\ HookAccess # Unregister
  /\ Families \cap Requests = {}
  /\ NoHandler \notin Families
  /\ FamilyOf \in [Transactions -> Families \cup {NoHandler}]
  /\ Disconnect \notin Requests /\ NoMessage \notin Requests
  /\ {AllowShutdown, AllowSpurious} \subseteq BOOLEAN
  /\ MaxDisconnects \in Nat

VARIABLES
  \* the stream
  call, inbox, events, telling,
  \* the fields of the processor
  registered, currentMessage,
  handlers,       \* the families of the list
  \* the loop
  pc, todo,       \* where it is, and the families it has yet to register
  \* the shutdown hook
  hook,           \* where it is
  message,        \* the message at hand
  handler,        \* what findHandler returned
  \* the connection and the validator
  link, conns,    \* whether it is up, and its number
  known,          \* the families registered on it
  out, in,        \* registrations, and answers to them and requests, on their way
  \* history
  arrivedOn,      \* the connection on which a request was made, 0 if it was not
  responses,      \* how many responses a transaction has got
  shared          \* the message the hook found in the field

Zmq == INSTANCE ZmqStreamSpec

stream  == <<call, inbox, events, telling>>
fields  == <<registered, currentMessage, handlers>>
loop    == <<pc, todo>>
leaving == <<hook, message, handler>>
network == <<link, conns, known, out, in>>
history == <<arrivedOn, responses, shared>>
vars    == <<stream, fields, loop, leaving, network, history>>

Over == {"done", "dead"}

TypeOK ==
  /\ Zmq!SpecTypeOK
  /\ registered \in BOOLEAN /\ currentMessage \in Requests \cup {NoMessage}
  /\ handlers \subseteq Families
  /\ pc \in {"add", "addReply", "receive", "dispatch", "apply", "access", "respond",
             "clear", "lost", "again", "againReply", "ended", "halted"}
  /\ pc \in {"apply", "access", "respond"} => currentMessage \in Handled
  /\ todo \subseteq Families
  /\ hook \in {"none", "started", "log", "unregister", "reply", "current", "receive", "find", "apply",
               "access", "respond"} \cup Over
  /\ message \in Requests \cup {NoMessage}
  /\ hook \in {"find", "apply", "access", "respond"} => message # NoMessage
  /\ handler \in Families \cup {NoHandler}
  /\ link \in {"up", "down"} /\ conns \in Nat
  /\ known \subseteq Families
  /\ out \subseteq Families /\ in \subseteq Families \cup Requests
  /\ arrivedOn \in [Requests -> Nat]
  /\ responses \in [Requests -> Nat]
  /\ shared \in Requests \cup {NoMessage}

Init ==
  /\ Zmq!SpecInit
  /\ registered = FALSE /\ currentMessage = NoMessage /\ handlers = {}
  /\ pc = "add" /\ todo = Families
  /\ hook = "none" /\ message = NoMessage /\ handler = NoHandler
  /\ link = "down" /\ conns = 0 /\ known = {} /\ out = {} /\ in = {}
  /\ arrivedOn = [r \in Requests |-> 0]
  /\ responses = [r \in Requests |-> 0] /\ shared = NoMessage

-----------------------------------------------------------------------------
(***************************************************************************)
(* addHandler, and the registrations that follow a disconnect              *)
(***************************************************************************)

\* An answer to an earlier call of the slot finds nobody who waits for it.
SendRegistration(f) ==
  /\ Zmq!Send(f)
  /\ todo' = todo \ {f}
  /\ out' = out \cup {f} /\ in' = in \ {f}

AddHandler(f) ==
  /\ pc = "add" /\ f \in todo
  /\ SendRegistration(f)
  /\ pc' = "addReply"
  /\ UNCHANGED <<fields, leaving, link, conns, known, history>>

\* The result is not looked at.
Added(f) ==
  /\ pc = "addReply"
  /\ registered' = TRUE /\ handlers' = handlers \cup {f}
  /\ pc' = IF todo = {} THEN "receive" ELSE "add"
  /\ UNCHANGED <<currentMessage, todo, leaving, network, history>>

AddReply(f) == Zmq!Return(f) /\ Added(f)

\* Fault: the handlers are not registered again.
Disconnected_Ignored ==
  /\ pc = "lost"
  /\ registered' = FALSE /\ pc' = "receive"
  /\ UNCHANGED <<stream, currentMessage, handlers, todo, leaving, network, history>>

Disconnected ==
  /\ pc = "lost"
  /\ registered' = FALSE
  /\ todo' = handlers /\ pc' = "again"
  /\ UNCHANGED <<stream, currentMessage, handlers, leaving, network, history>>

RegisterAgain(f) ==
  /\ pc = "again" /\ f \in todo
  /\ SendRegistration(f)
  /\ pc' = "againReply"
  /\ UNCHANGED <<fields, leaving, link, conns, known, history>>

AddedAgain ==
  /\ pc = "againReply"
  /\ registered' = TRUE
  /\ pc' = IF todo = {} THEN "receive" ELSE "again"
  /\ UNCHANGED <<currentMessage, handlers, todo, leaving, network, history>>

AgainReply(f) == Zmq!Return(f) /\ AddedAgain

\* Woken without a cause the thread goes on as if it had been answered.
SpuriousReply(f) ==
  /\ AllowSpurious
  /\ Zmq!GiveUp(f)
  /\ Added(f) \/ AddedAgain

-----------------------------------------------------------------------------
(***************************************************************************)
(* run                                                                     *)
(***************************************************************************)

\* The message without content is null in the field.
Receives ==
  /\ pc = "receive"
  /\ Zmq!Take
  /\ IF Head(inbox) = Disconnect
       THEN currentMessage' = NoMessage /\ pc' = "lost"
       ELSE currentMessage' = Head(inbox) /\ pc' = "dispatch"
  /\ UNCHANGED <<registered, handlers, todo, leaving, network, history>>

\* findHandler() reads the field.
HandlerOfCurrent ==
  IF currentMessage \in Transactions /\ FamilyOf[currentMessage] \in handlers
    THEN FamilyOf[currentMessage] ELSE NoHandler

\* A ping is answered; a transaction that no handler is for ends the loop.
Dispatch ==
  /\ pc = "dispatch"
  /\ pc' = IF currentMessage \notin Transactions THEN "clear"
           ELSE IF HandlerOfCurrent = NoHandler THEN "ended" ELSE "apply"
  /\ UNCHANGED <<stream, fields, todo, leaving, network, history>>

\* getState, setState, deleteState, addReceiptData, addEvent
ApplyCalls ==
  /\ pc = "apply"
  /\ Zmq!Send(Access)
  /\ pc' = "access"
  /\ UNCHANGED <<fields, todo, leaving, network, history>>

\* The call returns, or raises what process() catches; apply goes on or ends.
AccessReturns ==
  /\ pc = "access"
  /\ Zmq!Return(Access)
  /\ pc' \in {"apply", "respond"}
  /\ UNCHANGED <<fields, todo, leaving, network, history>>

\* Fault: the call has no timeout.
AccessTimesOut_Waits == pc = "access" /\ UNCHANGED vars

\* After two seconds, or woken without a cause: InternalError, which apply may
\* catch.
AccessTimesOut ==
  /\ pc = "access"
  /\ Zmq!GiveUp(Access)
  /\ pc' \in {"apply", "respond"}
  /\ UNCHANGED <<fields, todo, leaving, network, history>>

\* apply returns, or raises what process() answers.
ApplyEnds ==
  /\ pc = "apply"
  /\ pc' = "respond"
  /\ UNCHANGED <<stream, fields, todo, leaving, network, history>>

\* Nobody catches another exception: no response, the loop ends, and the message
\* stays in the field.
ApplyRaises ==
  /\ pc = "apply"
  /\ pc' = "ended"
  /\ UNCHANGED <<stream, fields, todo, leaving, network, history>>

\* The response is sent whatever the connection does; the socket keeps it.
Respond(m) == responses' = [responses EXCEPT ![m] = @ + 1]

Responds ==
  /\ pc = "respond"
  /\ Respond(currentMessage)
  /\ pc' = "clear"
  /\ UNCHANGED <<stream, fields, todo, leaving, network, arrivedOn, shared>>

Clears ==
  /\ pc = "clear"
  /\ currentMessage' = NoMessage /\ pc' = "receive"
  /\ UNCHANGED <<stream, registered, handlers, todo, leaving, network, history>>

-----------------------------------------------------------------------------
(***************************************************************************)
(* Shutdown.run                                                            *)
(***************************************************************************)
HookStarts ==
  /\ AllowShutdown /\ hook = "none"
  /\ hook' = "started"
  /\ UNCHANGED <<stream, fields, loop, message, handler, network, history>>

\* Fault: a message being processed keeps the hook from unregistering.
HookChecks_Idle ==
  /\ hook = "started"
  /\ hook' = IF ~registered \/ currentMessage # NoMessage THEN "done" ELSE "unregister"
  /\ UNCHANGED <<stream, fields, loop, message, handler, network, history>>

HookChecks ==
  /\ hook = "started"
  /\ hook' = IF ~registered THEN "done"
             ELSE IF currentMessage # NoMessage THEN "log" ELSE "unregister"
  /\ UNCHANGED <<stream, fields, loop, message, handler, network, history>>

\* The message that is logged may be gone by now, which raises.
HookLogs ==
  /\ hook = "log"
  /\ hook' = IF currentMessage = NoMessage THEN "dead" ELSE "unregister"
  /\ UNCHANGED <<stream, fields, loop, message, handler, network, history>>

HookUnregisters ==
  /\ hook = "unregister"
  /\ Zmq!Send(Unregister) /\ hook' = "reply"
  /\ UNCHANGED <<fields, loop, message, handler, network, history>>

\* Whatever the answer is.
HookReply ==
  /\ hook = "reply"
  /\ Zmq!Return(Unregister)
  /\ hook' = "current"
  /\ UNCHANGED <<fields, loop, message, handler, network, history>>

\* Fault: the wait has no timeout, as those for the registrations.
HookReplyTimesOut_Waits == hook = "reply" /\ UNCHANGED vars

\* No answer for a second.
HookReplyTimesOut ==
  /\ hook = "reply"
  /\ Zmq!GiveUp(Unregister)
  /\ hook' = "done"
  /\ UNCHANGED <<fields, loop, message, handler, network, history>>

HookReadsCurrent ==
  /\ hook = "current"
  /\ message' = currentMessage /\ shared' = currentMessage
  /\ hook' = IF currentMessage = NoMessage THEN "receive" ELSE "find"
  /\ UNCHANGED <<stream, fields, loop, handler, network, arrivedOn, responses>>

\* Fault: the message stays in the queue.
HookReceives_Peeks ==
  /\ hook = "receive" /\ inbox # <<>>
  /\ IF Head(inbox) = Disconnect
       THEN hook' = "done" /\ UNCHANGED message
       ELSE hook' = "find" /\ message' = Head(inbox)
  /\ UNCHANGED <<stream, fields, loop, handler, network, history>>

\* The queue is the loop's too; the message without content ends the hook.
HookReceives ==
  /\ hook = "receive"
  /\ Zmq!Take
  /\ IF Head(inbox) = Disconnect
       THEN hook' = "done" /\ UNCHANGED message
       ELSE hook' = "find" /\ message' = Head(inbox)
  /\ UNCHANGED <<fields, loop, handler, network, history>>

\* Nothing came for a second.
HookReceiveTimesOut ==
  /\ hook = "receive" /\ inbox = <<>>
  /\ hook' = "done"
  /\ UNCHANGED <<stream, fields, loop, message, handler, network, history>>

\* Null in the field raises, and so does the null that findHandler returns.
HookFinds ==
  /\ hook = "find"
  /\ handler' = HandlerOfCurrent
  /\ hook' = IF HandlerOfCurrent = NoHandler THEN "dead" ELSE "apply"
  /\ UNCHANGED <<stream, fields, loop, message, network, history>>

HookApplyCalls ==
  /\ hook = "apply"
  /\ Zmq!Send(HookAccess)
  /\ hook' = "access"
  /\ UNCHANGED <<fields, loop, message, handler, network, history>>

HookAccessReturns ==
  /\ hook = "access"
  /\ Zmq!Return(HookAccess)
  /\ hook' \in {"apply", "respond"}
  /\ UNCHANGED <<fields, loop, message, handler, network, history>>

HookAccessTimesOut ==
  /\ hook = "access"
  /\ Zmq!GiveUp(HookAccess)
  /\ hook' \in {"apply", "respond"}
  /\ UNCHANGED <<fields, loop, message, handler, network, history>>

HookApplyEnds ==
  /\ hook = "apply"
  /\ hook' = "respond"
  /\ UNCHANGED <<stream, fields, loop, message, handler, network, history>>

\* What process() does not catch ends the hook.
HookApplyRaises ==
  /\ hook = "apply"
  /\ hook' = "dead"
  /\ UNCHANGED <<stream, fields, loop, message, handler, network, history>>

HookResponds ==
  /\ hook = "respond"
  /\ Respond(message)
  /\ hook' = "receive"
  /\ UNCHANGED <<stream, fields, loop, message, handler, network, arrivedOn, shared>>

\* The hook has ended, in whatever way.
Halt ==
  /\ hook \in Over /\ pc # "halted"
  /\ pc' = "halted"
  /\ UNCHANGED <<stream, fields, todo, leaving, network, history>>

-----------------------------------------------------------------------------
(***************************************************************************)
(* The connection, the validator, and the threads of the stream            *)
(***************************************************************************)
Connects ==
  /\ link = "down"
  /\ link' = "up" /\ conns' = conns + 1
  /\ UNCHANGED <<stream, fields, loop, leaving, known, out, in, history>>

\* Any part of what is on its way is lost; the validator forgets the processor.
Breaks ==
  /\ link = "up" /\ conns <= MaxDisconnects
  /\ Zmq!Break
  /\ link' = "down" /\ known' = {}
  /\ \E lost \in SUBSET (out \cup in) : out' = out \ lost /\ in' = in \ lost
  /\ UNCHANGED <<fields, loop, leaving, conns, history>>

ValidatorRegisters(f) ==
  /\ link = "up" /\ f \in out
  /\ known' = known \cup {f}
  /\ out' = out \ {f} /\ in' = in \cup {f}
  /\ UNCHANGED <<stream, fields, loop, leaving, link, conns, history>>

\* It knows the processor by some family; a transaction it sends to has its own.
ValidatorAsks(r) ==
  /\ link = "up" /\ known # {} /\ arrivedOn[r] = 0
  /\ r \in Handled => FamilyOf[r] \in known
  /\ in' = in \cup {r} /\ arrivedOn' = [arrivedOn EXCEPT ![r] = conns]
  /\ UNCHANGED <<stream, fields, loop, leaving, link, conns, known, out, responses, shared>>

\* An answer whose call was lost, or is over, is thrown away.
Answered(f) ==
  /\ f \in in
  /\ in' = in \ {f}
  /\ IF call[f] = "pending" THEN Zmq!Answer(f) ELSE UNCHANGED stream
  /\ UNCHANGED <<fields, loop, leaving, link, conns, known, out, history>>

\* The validator answers the other calls, or does not.
AnsweredCall(c) ==
  /\ Zmq!Answer(c)
  /\ UNCHANGED <<fields, loop, leaving, network, history>>

Arrives(r) ==
  /\ r \in in
  /\ in' = in \ {r}
  /\ Zmq!Arrive(r)
  /\ UNCHANGED <<fields, loop, leaving, link, conns, known, out, history>>

Lost(c)   == Zmq!Lose(c) /\ UNCHANGED <<fields, loop, leaving, network, history>>
Cleared   == Zmq!Clear   /\ UNCHANGED <<fields, loop, leaving, network, history>>
Told      == Zmq!Tell    /\ UNCHANGED <<fields, loop, leaving, network, history>>

-----------------------------------------------------------------------------
Loop ==
  \/ \E f \in Families : AddHandler(f) \/ AddReply(f) \/ RegisterAgain(f) \/ AgainReply(f)
  \/ Disconnected \/ Receives \/ Dispatch \/ AccessReturns \/ AccessTimesOut
  \/ Responds \/ Clears

Hook ==
  \/ HookChecks \/ HookLogs \/ HookUnregisters \/ HookReply \/ HookReplyTimesOut \/ HookReadsCurrent
  \/ HookReceives \/ HookReceiveTimesOut \/ HookFinds
  \/ HookAccessReturns \/ HookAccessTimesOut \/ HookResponds \/ Halt

Transport ==
  \/ Connects \/ Cleared \/ Told
  \/ \E f \in Families : ValidatorRegisters(f) \/ Answered(f)
  \/ \E r \in Requests : Arrives(r)

Next ==
  \/ Loop \/ ApplyCalls \/ ApplyEnds \/ ApplyRaises
  \/ \E f \in Families : SpuriousReply(f)
  \/ Hook \/ HookStarts \/ HookApplyCalls \/ HookApplyEnds \/ HookApplyRaises
  \/ Transport \/ Breaks
  \/ \E c \in {Access, HookAccess, Unregister} : AnsweredCall(c)
  \/ \E c \in Calls : Lost(c)
  \/ \E r \in Requests : ValidatorAsks(r)

Spec == Init /\ [][Next]_vars

\* Both threads go on while they can, a handler does not make calls for ever, a
\* timeout passes, the socket connects again and the stream's threads do what they
\* have to.  The validator deals with registrations; it need not send anything.
Fairness ==
  /\ WF_vars(Loop) /\ WF_vars(Hook) /\ SF_vars(ApplyEnds) /\ SF_vars(HookApplyEnds)
  /\ WF_vars(Connects) /\ WF_vars(Cleared \/ Told)
  /\ \A f \in Families : WF_vars(ValidatorRegisters(f)) /\ WF_vars(Answered(f))
  /\ \A r \in Requests : WF_vars(Arrives(r))

FairSpec == Spec /\ Fairness

-----------------------------------------------------------------------------
(***************************************************************************)
(* Properties                                                              *)
(***************************************************************************)

\* No message is answered twice, but for the one the hook found being processed:
\* the loop and the hook take from the same queue, over connections that break and
\* come back (TransactionProcessor.run and Shutdown.run).
OneResponse ==
  \A r \in Requests : responses[r] <= IF r = shared THEN 2 ELSE 1

\* The loop waits for an answer that will not come: getResult() has no timeout, and
\* nobody tells it of the disconnect.
Hangs ==
  /\ pc \in {"addReply", "againReply"}
  /\ \E f \in Families : \/ call[f] = "lost"
                         \/ call[f] = "pending" /\ f \notin out \cup in

\* What ends the loop: a shutdown, a transaction without a handler, or an exception
\* of apply that process() does not catch.
Leaves == hook # "none" \/ pc = "ended"

\* A connection that stays up gets every handler registered, however many
\* disconnects are dealt with late, unless the loop hangs in a registration that a
\* disconnect met, or has ended or is about to (TransactionProcessor.run).
RegistersAgain ==
  link = "up" ~> known = Families \/ link # "up" \/ Hangs \/ Leaves

\* The transaction is on its way to its handler.
Waits(t) ==
  \/ t \in in
  \/ \E i \in 1..Len(inbox) : inbox[i] = t
  \/ pc = "dispatch" /\ currentMessage = t

\* A transaction is answered on the connection it came on, once no disconnect is
\* waiting to be dealt with, which could throw it away, unless the connection breaks,
\* the loop hangs, or has ended or is about to, be it by an exception of this
\* transaction's apply (SendReceiveThread, TransactionProcessor.process).
TransactionsAreAnswered ==
  \A t \in Handled :
    Waits(t) /\ events = 0 ~>
      \/ responses[t] > 0
      \/ link # "up" \/ conns > arrivedOn[t] \/ Hangs \/ Leaves

\* The shutdown hook ends, in an orderly way or by an exception, whatever the
\* connection does: all its waits have a timeout, and its context's calls too
\* (TransactionProcessor.Shutdown).
ShutdownEnds == hook = "started" ~> hook \in Over

\* A registered processor that is told to end unregisters, whatever the loop and the
\* connection do beside the hook, with one exception: the loop clears the field
\* between the hook's two looks at it, and the message to be logged is null
\* (TransactionProcessor.Shutdown).
ShutdownUnregisters ==
  hook = "started" ~>
    \/ call[Unregister] # "idle"
    \/ hook = "done" /\ ~registered
    \/ hook = "dead" /\ currentMessage = NoMessage

\* TransactionProcessor.java:79: "Finish processing any left over messages."  A left
\* over transaction would be given to the handler of its family.
LeftoversFindTheirHandler ==
  message \in Handled /\ hook \in {"apply", "access", "respond", "dead"} =>
    handler = FamilyOf[message]
=============================================================================
