----------------------------- MODULE StreamSpec -----------------------------
(***************************************************************************)
(* What the class Stream promises to the threads that use it, without its  *)
(* event loop, its queues and its handles.  Module StreamRefinement shows  *)
(* that Stream keeps the promise; TransactionProcessor is built on it.     *)
(*                                                                         *)
(* A call is a slot: the caller occupies it with send() and it is free     *)
(* again when result() has returned or raised.  A send() that is refused,  *)
(* because the connection is not up, occupies nothing.                     *)
(***************************************************************************)
EXTENDS Sequences

CONSTANTS
  Sends,          \* slots for calls of send
  Requests,       \* unsolicited messages of the validator
  NoMessage,      \* the result of a receive() that has none yet
  ReconnectEvent  \* RECONNECT_EVENT

VARIABLES
  conn,     \* "up", "failing", "down" or "lost": the ready event is set when up
  call,     \* the state of each call
  dropped,  \* the calls whose message was dropped without a word
  inbox,    \* what the next calls of receive() will get
  get,      \* the future of the last receive()
  got,      \* its result
  closed    \* close() was called

specVars == <<conn, call, dropped, inbox, get, got, closed>>

CallStates    == {"idle", "begun", "pending", "error", "response"}
FutureStates  == {"idle", "waiting", "doomed", "cancelled", "item"}

SpecTypeOK ==
  /\ conn \in {"up", "failing", "down", "lost"}
  /\ call \in [Sends -> CallStates]
  /\ dropped \subseteq Sends
  /\ inbox \in Seq(Requests \cup {ReconnectEvent})
  /\ get \in FutureStates
  /\ got \in Requests \cup {ReconnectEvent, NoMessage}
  /\ closed \in BOOLEAN

SpecInit ==
  /\ conn = "up"
  /\ call = [c \in Sends |-> "idle"] /\ dropped = {}
  /\ inbox = <<>> /\ get = "idle" /\ got = NoMessage
  /\ closed = FALSE

-----------------------------------------------------------------------------
\* send() has found the ready event set.
Begin(c) ==
  /\ conn = "up" /\ call[c] = "idle"
  /\ call' = [call EXCEPT ![c] = "begun"]
  /\ UNCHANGED <<conn, dropped, inbox, get, got, closed>>

\* The future of the call is registered, whatever the connection does now.
Registered(c) ==
  /\ call[c] = "begun"
  /\ call' = [call EXCEPT ![c] = "pending"]
  /\ UNCHANGED <<conn, dropped, inbox, get, got, closed>>

\* put_message finds the ready event cleared and returns without a word.
Drop(c) ==
  /\ conn # "up" /\ call[c] \in {"pending", "error"}
  /\ dropped' = dropped \cup {c}
  /\ UNCHANGED <<conn, call, inbox, get, got, closed>>

\* The answer arrives, perhaps for a call that a disconnect has failed and whose
\* caller has not looked yet; a message that was dropped has none.
Answer(c) ==
  /\ conn = "up"
  /\ call[c] \in {"pending", "error"} /\ c \notin dropped
  /\ call' = [call EXCEPT ![c] = "response"]
  /\ UNCHANGED <<conn, dropped, inbox, get, got, closed>>

\* Only a disconnect fails a call.
Fail(c) ==
  /\ conn = "failing" /\ call[c] = "pending"
  /\ call' = [call EXCEPT ![c] = "error"]
  /\ UNCHANGED <<conn, dropped, inbox, get, got, closed>>

\* result() returns what there is, or raises.
Return(c) ==
  /\ call[c] \in {"error", "response"}
  /\ call' = [call EXCEPT ![c] = "idle"] /\ dropped' = dropped \ {c}
  /\ UNCHANGED <<conn, inbox, get, got, closed>>

TimeOut(c) ==
  /\ call[c] = "pending"
  /\ call' = [call EXCEPT ![c] = "idle"] /\ dropped' = dropped \ {c}
  /\ UNCHANGED <<conn, inbox, get, got, closed>>

Receive ==
  /\ get \in {"idle", "item", "cancelled"}
  /\ get' = "waiting" /\ got' = NoMessage
  /\ UNCHANGED <<conn, call, dropped, inbox, closed>>

Take ==
  /\ get = "waiting" /\ inbox # <<>>
  /\ got' = Head(inbox) /\ get' = "item"
  /\ inbox' = Tail(inbox)
  /\ UNCHANGED <<conn, call, dropped, closed>>

Arrive(r) ==
  /\ conn = "up"
  /\ inbox' = Append(inbox, r)
  /\ UNCHANGED <<conn, call, dropped, get, got, closed>>

-----------------------------------------------------------------------------
\* The connection breaks: every registered call is failed, and only then is
\* what was received thrown away and a receive() under way doomed, unless its
\* coroutine has yet to begin.
Break ==
  /\ conn = "up"
  /\ conn' = "failing"
  /\ UNCHANGED <<call, dropped, inbox, get, got, closed>>

Stop ==
  /\ conn = "failing"
  /\ \A c \in Sends : call[c] # "pending"
  /\ conn' = "down"
  /\ inbox' = <<>>
  /\ get' \in IF get = "waiting" THEN {"waiting", "doomed"} ELSE {get}
  /\ UNCHANGED <<call, dropped, got, closed>>

\* The consumer is told of the new connection before anything that comes with it.
Reconnect ==
  /\ conn = "down" /\ inbox = <<>>
  /\ conn' = "up"
  /\ inbox' = <<ReconnectEvent>>
  /\ UNCHANGED <<call, dropped, get, got, closed>>

\* The monitor failed, or connecting did.
GiveUp ==
  /\ conn \in {"failing", "down"}
  /\ conn' = "lost"
  /\ UNCHANGED <<call, dropped, inbox, get, got, closed>>

Cancelled ==
  /\ get = "doomed"
  /\ get' = "cancelled"
  /\ UNCHANGED <<conn, call, dropped, inbox, got, closed>>

Close ==
  /\ ~closed
  /\ closed' = TRUE
  /\ UNCHANGED <<conn, call, dropped, inbox, get, got>>

\* Closing cancels a receive() under way.
Doom ==
  /\ closed /\ get = "waiting"
  /\ get' = "doomed"
  /\ UNCHANGED <<conn, call, dropped, inbox, got, closed>>

SpecNext ==
  \/ \E c \in Sends :
       \/ Begin(c) \/ Registered(c) \/ Drop(c) \/ Answer(c) \/ Fail(c)
       \/ Return(c) \/ TimeOut(c)
  \/ Receive \/ Take \/ Cancelled
  \/ \E r \in Requests : Arrive(r)
  \/ Break \/ Stop \/ Reconnect \/ GiveUp
  \/ Close \/ Doom

SpecSpec == SpecInit /\ [][SpecNext]_specVars
=============================================================================
