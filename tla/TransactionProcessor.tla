------------------------ MODULE TransactionProcessor ------------------------
(***************************************************************************)
(* The main thread of a transaction processor: TransactionProcessor        *)
(* (processor/core.py), the calls a handler makes through its Context      *)
(* (processor/context.py), and the Stream under them, of which it knows    *)
(* what StreamSpec promises.                                               *)
(*                                                                         *)
(* start() registers every family, then takes one message at a time from   *)
(* the stream.  A reconnect event makes it register again; an interrupt or *)
(* a version mismatch makes it unregister and process what still comes     *)
(* until nothing does for a second.  An exception that nobody catches ends *)
(* the process.                                                            *)
(*                                                                         *)
(* The handler's apply is external: it makes any number of calls of its    *)
(* context, then returns, raises InvalidTransaction or InternalError, or   *)
(* raises what nobody catches.                                             *)
(* So is the validator: it sends what it likes and may stay silent.        *)
(***************************************************************************)
EXTENDS Integers, Sequences, FiniteSets

CONSTANTS
  Families,       \* the families and versions to register, one request each
  Access,         \* the slot of the handler's call of its context
  Unregister,     \* the slot of the call that unregisters
  Transactions,   \* messages of type TP_PROCESS_REQUEST ...
  Handled,        \* ... those among them that match a handler
  Pings,          \* messages of type PING_REQUEST
  Others,         \* messages of another type
  HandlerTimed,   \* whether the handler gives its context calls a timeout
  NoMessage, ReconnectEvent,
  MaxDisconnects, \* bound: how often the connection breaks
  MaxRequests,    \* bound: how many of the requests come
  AllowInterrupt, \* whether Ctrl-C may be pressed, once
  AllowMismatch   \* whether the validator may lack the requested feature

Requests == Transactions \cup Pings \cup Others
Sends    == Families \cup {Access, Unregister}

ASSUME ProcessorAssumption ==
  /\ Handled \subseteq Transactions
  /\ Transactions \cap (Pings \cup Others) = {} /\ Pings \cap Others = {}
  /\ Access \notin Families /\ Unregister \notin Families
  /\ Access # Unregister
  /\ ReconnectEvent \notin Requests /\ NoMessage \notin Requests
  /\ ReconnectEvent # NoMessage
  /\ MaxDisconnects \in Nat /\ MaxRequests \in Nat
  /\ {HandlerTimed, AllowInterrupt, AllowMismatch} \subseteq BOOLEAN

VARIABLES
  \* the stream
  conn, call, dropped, inbox, get, got, closed,
  \* the main thread
  pc,          \* where start() is
  unsent,      \* the families _register has yet to send
  unread,      \* those whose answer it has yet to read
  interrupted, \* start() is in its except block
  \* history
  conns,       \* number of the connection, the first being 1
  regOn,       \* the connection on which a family was last registered
  arrivedOn,   \* the connection on which a request came, 0 if it has not
  responses,   \* how many responses a transaction has got
  held         \* the last message taken up when the processor began to leave

Stream == INSTANCE StreamSpec

stream  == <<conn, call, dropped, inbox, get, got, closed>>
thread  == <<pc, unsent, unread, interrupted>>
history == <<conns, regOn, arrivedOn, responses, held>>
vars    == <<stream, thread, history>>

Registering == {"register", "registerSend", "registerReply"}
Applying    == {"apply", "access", "respond"}
Serving     == {"receive", "await"} \cup Applying
Leaving     == {"unregister", "unregisterSend", "unregisterReply"}
Ended       == {"exited", "crashed", "stopped"}

Ready == conn = "up"

TypeOK ==
  /\ Stream!SpecTypeOK
  /\ pc \in Registering \cup Serving \cup Leaving \cup Ended
  /\ pc \in Applying => got \in Handled
  /\ unsent \subseteq Families /\ unread \subseteq Families
  /\ interrupted \in BOOLEAN
  /\ conns \in Nat \ {0}
  /\ regOn \in [Families -> Nat]
  /\ arrivedOn \in [Requests -> Nat]
  /\ responses \in [Transactions -> Nat]
  /\ held \in Requests \cup {ReconnectEvent, NoMessage}

Init ==
  /\ Stream!SpecInit
  /\ pc = "register" /\ unsent = Families /\ unread = {}
  /\ interrupted = FALSE
  /\ conns = 1
  /\ regOn = [f \in Families |-> 0]
  /\ arrivedOn = [r \in Requests |-> 0]
  /\ responses = [t \in Transactions |-> 0]
  /\ held = NoMessage

-----------------------------------------------------------------------------
(***************************************************************************)
(* _register                                                               *)
(***************************************************************************)

\* For each request it waits for the stream to be ready ...
RegisterWaits ==
  /\ pc = "register" /\ unsent # {}
  /\ Ready /\ \A f \in unread : call[f] # "begun"
  /\ pc' = "registerSend"
  /\ UNCHANGED <<stream, unsent, unread, interrupted, history>>

\* ... and sends it; send() raises when the connection broke in between, and
\* nobody catches that.
RegisterSends(f) ==
  /\ pc = "registerSend" /\ f \in unsent
  /\ IF Ready
       THEN /\ Stream!Begin(f)
            /\ unsent' = unsent \ {f} /\ unread' = unread \cup {f}
            /\ regOn' = [regOn EXCEPT ![f] = conns]
            /\ pc' = "register"
       ELSE /\ pc' = "crashed"
            /\ UNCHANGED <<stream, unsent, unread, regOn>>
  /\ UNCHANGED <<interrupted, conns, arrivedOn, responses, held>>

RegisterSent ==
  /\ pc = "register" /\ unsent = {}
  /\ pc' = IF unread = {} THEN "receive" ELSE "registerReply"
  /\ UNCHANGED <<stream, unsent, unread, interrupted, history>>

\* A registration that a disconnect failed is given up: the reconnect event
\* that follows will have it made again.
RegisterReplies(f) ==
  /\ pc = "registerReply" /\ f \in unread
  /\ Stream!Return(f)
  /\ unread' = unread \ {f}
  /\ pc' = IF unread = {f} THEN "receive" ELSE pc
  /\ UNCHANGED <<unsent, interrupted, history>>

\* The validator refuses: start() closes the stream.
RegisterRefused(f) ==
  /\ pc = "registerReply" /\ f \in unread /\ call[f] = "response"
  /\ ~closed /\ closed' = TRUE
  /\ pc' = "stopped"
  /\ UNCHANGED <<conn, call, dropped, inbox, get, got, unsent, unread,
                 interrupted, history>>

\* The calls under way are left to themselves: their slots are free for the
\* calls that come next, which have ids of their own.
Abandon ==
  /\ call' = [c \in Sends |-> "idle"] /\ dropped' = {}
  /\ unsent' = {} /\ unread' = {}
  /\ UNCHANGED <<conn, inbox, get, got, closed>>

\* The except block is entered; `fut` stays what it was.  A message nobody has
\* looked at yet is not held: it is still to be processed for the first time.
BeginsToLeave ==
  /\ interrupted' = TRUE /\ pc' = "unregister"
  /\ held' = IF pc = "await" THEN NoMessage ELSE got
  /\ UNCHANGED <<conns, regOn, arrivedOn, responses>>

\* The validator lacks a feature that was asked for: ValidatorVersionError.
RegisterMismatch(f) ==
  /\ AllowMismatch
  /\ pc = "registerReply" /\ f \in unread /\ call[f] = "response"
  /\ Abandon /\ BeginsToLeave

-----------------------------------------------------------------------------
(***************************************************************************)
(* start: the loop, and _process_future                                    *)
(***************************************************************************)

Receives ==
  /\ pc = "receive"
  /\ Stream!Receive
  /\ pc' = "await"
  /\ UNCHANGED <<unsent, unread, interrupted, history>>

\* Fault: a cancelled future is asked again.
ProcessCancelled_Waits ==
  /\ pc = "await" /\ get = "cancelled"
  /\ UNCHANGED <<stream, thread, history>>

\* The message at hand was cancelled by a disconnect.
ProcessCancelled ==
  /\ pc = "await" /\ get = "cancelled"
  /\ pc' = "receive"
  /\ UNCHANGED <<stream, unsent, unread, interrupted, history>>

\* Fault: the reconnect event is taken for a message of no interest.
ProcessReconnect_Ignored ==
  /\ pc = "await" /\ get = "item" /\ got = ReconnectEvent
  /\ pc' = "receive"
  /\ UNCHANGED <<stream, unsent, unread, interrupted, history>>

\* After the reconnect event every family is registered again, unless the
\* processor is about to leave.
ProcessReconnect ==
  /\ pc = "await" /\ get = "item" /\ got = ReconnectEvent
  /\ IF interrupted
       THEN pc' = "receive" /\ UNCHANGED unsent
       ELSE pc' = "register" /\ unsent' = Families
  /\ UNCHANGED <<stream, unread, interrupted, history>>

\* A ping is answered outside every try block that catches
\* ValidatorConnectionError.
ProcessPing ==
  /\ pc = "await" /\ get = "item" /\ got \in Pings
  /\ pc' = IF Ready THEN "receive" ELSE "crashed"
  /\ UNCHANGED <<stream, unsent, unread, interrupted, history>>

\* _process ignores what is no transaction, and a transaction without a
\* handler, which gets no response; without a connection it gives up at once.
ProcessTransaction ==
  /\ pc = "await" /\ get = "item" /\ got \in Transactions \cup Others
  /\ pc' = IF got \in Handled /\ Ready THEN "apply" ELSE "receive"
  /\ UNCHANGED <<stream, unsent, unread, interrupted, history>>

\* Fault: the wait is repeated.
ProcessTimesOut_Repeats ==
  /\ pc = "await" /\ interrupted /\ get \in {"waiting", "doomed"}
  /\ UNCHANGED <<stream, thread, history>>

\* Nothing came for a second.
ProcessTimesOut ==
  /\ pc = "await" /\ interrupted /\ get \in {"waiting", "doomed"}
  /\ pc' = "exited"
  /\ UNCHANGED <<stream, unsent, unread, interrupted, history>>

-----------------------------------------------------------------------------
(***************************************************************************)
(* _process and the handler's Context                                      *)
(***************************************************************************)

\* The handler calls get_state, set_state, delete_state, add_receipt_data or
\* add_event; a send that is refused ends apply, and _process logs it.
ApplyCalls ==
  /\ pc = "apply"
  /\ IF Ready
       THEN Stream!Begin(Access) /\ pc' = "access"
       ELSE pc' = "receive" /\ UNCHANGED stream
  /\ UNCHANGED <<unsent, unread, interrupted, history>>

\* A disconnect ends apply, without a response.  So may an answer of the
\* validator that is negative, with one: AuthorizationException of a state
\* access, InternalError of a receipt or an event.
AccessReturns ==
  /\ pc = "access"
  /\ Stream!Return(Access)
  /\ pc' \in IF call[Access] = "error" THEN {"receive"} ELSE {"apply", "respond"}
  /\ UNCHANGED <<unsent, unread, interrupted, history>>

\* FutureTimeoutError ends the process: _process does not catch it and start
\* does so only in the loop that follows an interrupt.
AccessTimesOut ==
  /\ pc = "access" /\ HandlerTimed
  /\ Stream!TimeOut(Access)
  /\ pc' = IF interrupted THEN "exited" ELSE "crashed"
  /\ UNCHANGED <<unsent, unread, interrupted, history>>

ApplyEnds ==
  /\ pc = "apply"
  /\ pc' = "respond"
  /\ UNCHANGED <<stream, unsent, unread, interrupted, history>>

\* An exception that _process does not catch ends the process; a RuntimeError
\* does so by way of start(), which closes the stream, unless the processor is
\* leaving.
ApplyRaises ==
  /\ pc = "apply"
  /\ \/ pc' = "crashed" /\ UNCHANGED stream
     \/ /\ ~interrupted
        /\ pc' = "stopped" /\ closed' = TRUE
        /\ UNCHANGED <<conn, call, dropped, inbox, get, got>>
  /\ UNCHANGED <<unsent, unread, interrupted, history>>

\* Fault: having responded, the processor looks at the same message again.
Responds_Again ==
  /\ pc = "respond"
  /\ responses' = IF Ready THEN [responses EXCEPT ![got] = @ + 1] ELSE responses
  /\ responses[got] < 3
  /\ pc' = "await"
  /\ UNCHANGED <<stream, unsent, unread, interrupted, conns, regOn, arrivedOn, held>>

\* Whatever apply's outcome is, one response; none when the connection is gone.
Responds ==
  /\ pc = "respond"
  /\ responses' = IF Ready THEN [responses EXCEPT ![got] = @ + 1] ELSE responses
  /\ pc' = "receive"
  /\ UNCHANGED <<stream, unsent, unread, interrupted, conns, regOn, arrivedOn, held>>

-----------------------------------------------------------------------------
(***************************************************************************)
(* start: the except block, and _unregister                                *)
(***************************************************************************)

\* KeyboardInterrupt reaches the main thread wherever it is.
Interrupt ==
  /\ AllowInterrupt /\ ~interrupted /\ pc \in Registering \cup Serving
  /\ Abandon /\ BeginsToLeave

UnregisterWaits ==
  /\ pc = "unregister" /\ Ready
  /\ pc' = "unregisterSend"
  /\ UNCHANGED <<stream, unsent, unread, interrupted, history>>

UnregisterSends ==
  /\ pc = "unregisterSend"
  /\ IF Ready
       THEN Stream!Begin(Unregister) /\ pc' = "unregisterReply"
       ELSE pc' = "crashed" /\ UNCHANGED stream
  /\ UNCHANGED <<unsent, unread, interrupted, history>>

\* The loop that follows begins with the last future of the stream, even one
\* whose message the interrupt found being processed; while there has been none
\* the loop spins, which "await" with get = "idle" stands for.
UnregisterReplies ==
  /\ pc = "unregisterReply"
  /\ Stream!Return(Unregister)
  /\ pc' = "await"
  /\ UNCHANGED <<unsent, unread, interrupted, history>>

UnregisterTimesOut ==
  /\ pc = "unregisterReply"
  /\ Stream!TimeOut(Unregister)
  /\ pc' = "exited"
  /\ UNCHANGED <<unsent, unread, interrupted, history>>

-----------------------------------------------------------------------------
(***************************************************************************)
(* The background thread and the validator, as StreamSpec has them, but for *)
(* Doom: the stream is closed only inside _register, where no receive() is  *)
(* under way.                                                              *)
(***************************************************************************)

Registered(c) == Stream!Registered(c) /\ UNCHANGED <<thread, history>>
Drop(c)       == Stream!Drop(c)       /\ UNCHANGED <<thread, history>>
Answer(c)     == Stream!Answer(c)     /\ UNCHANGED <<thread, history>>
Fail(c)       == Stream!Fail(c)       /\ UNCHANGED <<thread, history>>
Take          == Stream!Take          /\ UNCHANGED <<thread, history>>
Stop          == Stream!Stop          /\ UNCHANGED <<thread, history>>
GiveUp        == Stream!GiveUp        /\ UNCHANGED <<thread, history>>
Cancelled     == Stream!Cancelled     /\ UNCHANGED <<thread, history>>

Arrive(r) ==
  /\ arrivedOn[r] = 0
  /\ Cardinality({q \in Requests : arrivedOn[q] # 0}) < MaxRequests
  /\ Stream!Arrive(r)
  /\ arrivedOn' = [arrivedOn EXCEPT ![r] = conns]
  /\ UNCHANGED <<thread, conns, regOn, responses, held>>

Break ==
  /\ conns <= MaxDisconnects
  /\ Stream!Break
  /\ UNCHANGED <<thread, history>>

Reconnect ==
  /\ Stream!Reconnect
  /\ conns' = conns + 1
  /\ UNCHANGED <<thread, regOn, arrivedOn, responses, held>>

-----------------------------------------------------------------------------
Register ==
  \/ RegisterWaits \/ RegisterSent
  \/ \E f \in Families : RegisterSends(f) \/ RegisterReplies(f)

Process ==
  \/ Receives
  \/ ProcessCancelled \/ ProcessReconnect \/ ProcessPing \/ ProcessTransaction
  \/ AccessReturns \/ Responds

Leave ==
  \/ UnregisterWaits \/ UnregisterSends \/ UnregisterReplies
  \/ UnregisterTimesOut \/ ProcessTimesOut

Transport == Take \/ Stop \/ Reconnect \/ Cancelled

Next ==
  \/ Register \/ Process \/ Leave
  \/ \E f \in Families : RegisterRefused(f) \/ RegisterMismatch(f)
  \/ ApplyCalls \/ ApplyEnds \/ ApplyRaises \/ AccessTimesOut \/ Interrupt
  \/ Transport \/ Break \/ GiveUp
  \/ \E c \in Sends : Registered(c) \/ Drop(c) \/ Answer(c) \/ Fail(c)
  \/ \E r \in Requests : Arrive(r)

Spec == Init /\ [][Next]_vars

\* The main thread goes on while it can, a handler does not make calls for ever,
\* a second passes, and the background thread keeps what Stream was shown to
\* keep.  The validator answers what reaches it; it need not send anything.
Fairness ==
  /\ WF_vars(Register) /\ WF_vars(Process) /\ WF_vars(Leave)
  /\ SF_vars(ApplyEnds) /\ WF_vars(Transport)
  /\ \A c \in Sends : WF_vars(Registered(c)) /\ WF_vars(Fail(c)) /\ WF_vars(Answer(c))

FairSpec == Spec /\ Fairness

-----------------------------------------------------------------------------
(***************************************************************************)
(* Properties                                                              *)
(***************************************************************************)

\* A transaction is applied only if every family was registered on the
\* connection it came on, or a later one, although connections break and come
\* back at any moment and their events are handled late; an interrupt ends the
\* obligation.
RegistersBeforeServing ==
  pc \in Applying /\ ~interrupted =>
    \A f \in Families : regOn[f] >= arrivedOn[got]

\* No transaction is answered twice, over all connections, but for the one the
\* thread was processing, or had just processed, when an interrupt came: the
\* last future is looked at once more, and that one may be answered again.
OneResponse ==
  \A t \in Transactions :
    responses[t] <= IF interrupted /\ t = held THEN 2 ELSE 1

\* A message that put_message dropped without a word leaves a result() that only
\* the next disconnect ends.
Stranded == \E c \in Sends : c \in dropped /\ call[c] = "pending"

\* A connection that stays up is registered on, unless a registration is stranded
\* or the processor leaves or was ended by an exception.
RegistersAgain ==
  \A n \in 1 .. MaxDisconnects + 1 :
    conn = "up" /\ conns = n ~>
      \/ \A f \in Families : regOn[f] >= n
      \/ conn # "up" \/ Stranded \/ interrupted \/ pc \in Ended

\* A transaction with a handler is answered, unless its connection breaks first,
\* the thread still hangs in a call stranded earlier, or the processor leaves or
\* was ended by an exception, of this transaction's apply or of an earlier one's.
TransactionsAreAnswered ==
  \A t \in Handled :
    arrivedOn[t] > 0 ~>
      \/ responses[t] > 0
      \/ conn # "up" \/ conns > arrivedOn[t] \/ Stranded
      \/ interrupted \/ pc \in Ended

\* An interrupt ends the process, if the connection is not lost and a receive() has
\* begun: before that fut is None, and the loop that should end with the timeout in
\* _process_future (core.py:325-327) turns without a wait and never ends.
InterruptEnds ==
  interrupted /\ get # "idle" ~> pc \in Ended \/ conn = "lost" \/ Stranded

-----------------------------------------------------------------------------
(***************************************************************************)
(* The inductive invariant behind RegistersBeforeServing: whenever a       *)
(* request can come next, the registrations for its connection have been   *)
(* made, or something stands before it that will have them made.           *)
(***************************************************************************)

\* The thread does nothing else while a receive() is under way, except leave.
OneThing ==
  get \in {"waiting", "doomed"} => pc \in {"await"} \cup Leaving \cup Ended

LeavesOnce == pc \in Leaving => interrupted

SentBeforeRead == pc = "registerReply" => unsent = {}

Arrived(r) == r \in Requests => arrivedOn[r] \in 1 .. conns

\* What is in the inbox came on this connection or one before.
Arrivals ==
  /\ \A i \in 1 .. Len(inbox) : Arrived(inbox[i])
  /\ Arrived(got)

KnownOn(n) == \A f \in Families : regOn[f] >= n

Announced ==
  conn \in {"up", "failing"} \/ inbox # <<>> =>
    \/ KnownOn(conns)
    \/ inbox # <<>> /\ Head(inbox) = ReconnectEvent
    \/ pc = "await" /\ get = "item" /\ got = ReconnectEvent
    \/ pc \in Registering /\ \A f \in Families \ unsent : regOn[f] >= conns

GotKnown == got \in Requests => KnownOn(arrivedOn[got])

ServingInv ==
  /\ OneThing /\ LeavesOnce /\ SentBeforeRead /\ Arrivals
  /\ ~interrupted /\ pc \notin Ended => Announced /\ GotKnown

=============================================================================
