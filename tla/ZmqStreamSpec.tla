---------------------------- MODULE ZmqStreamSpec ----------------------------
(***************************************************************************)
(* What the Java class ZmqStream promises to the threads that use it,      *)
(* without its table of futures and its threads.  It is less than the      *)
(* Python Stream promises: a call that a disconnect meets is lost, and     *)
(* nobody is told; only a timeout, or a wake-up without a cause, ends it.  *)
(* Module ZmqStreamRefinement shows that ZmqStream keeps this much;        *)
(* JavaProcessor is built on it.                                           *)
(***************************************************************************)
EXTENDS Integers, Sequences

CONSTANTS
  Calls,      \* slots for calls of send
  Requests,   \* unsolicited messages of the validator
  Disconnect  \* the null message that tells of a disconnect

VARIABLES
  call,     \* the state of each call
  inbox,    \* what the next calls of receive() will get
  events,   \* how many disconnects are not dealt with yet
  telling   \* the queue was cleared for one, and its message is still to come

specVars == <<call, inbox, events, telling>>

SpecTypeOK ==
  /\ call \in [Calls -> {"idle", "pending", "lost", "response"}]
  /\ inbox \in Seq(Requests \cup {Disconnect})
  /\ events \in Nat
  /\ telling \in BOOLEAN

SpecInit ==
  /\ call = [c \in Calls |-> "idle"]
  /\ inbox = <<>> /\ events = 0 /\ telling = FALSE

-----------------------------------------------------------------------------
\* send() never waits for the connection and never refuses.
Send(c) ==
  /\ call[c] = "idle"
  /\ call' = [call EXCEPT ![c] = "pending"]
  /\ UNCHANGED <<inbox, events, telling>>

Answer(c) ==
  /\ call[c] = "pending"
  /\ call' = [call EXCEPT ![c] = "response"]
  /\ UNCHANGED <<inbox, events, telling>>

\* Only a disconnect loses a call.
Lose(c) ==
  /\ call[c] = "pending" /\ events > 0
  /\ call' = [call EXCEPT ![c] = "lost"]
  /\ UNCHANGED <<inbox, events, telling>>

\* getResult() returns the response ...
Return(c) ==
  /\ call[c] = "response"
  /\ call' = [call EXCEPT ![c] = "idle"]
  /\ UNCHANGED <<inbox, events, telling>>

\* ... or nothing: its time is up, or it was woken without a cause.
GiveUp(c) ==
  /\ call[c] \in {"pending", "lost"}
  /\ call' = [call EXCEPT ![c] = "idle"]
  /\ UNCHANGED <<inbox, events, telling>>

Arrive(r) ==
  /\ inbox' = Append(inbox, r)
  /\ UNCHANGED <<call, events, telling>>

Take ==
  /\ inbox # <<>>
  /\ inbox' = Tail(inbox)
  /\ UNCHANGED <<call, events, telling>>

-----------------------------------------------------------------------------
\* The connection breaks, and comes back by itself.  The disconnect is dealt with
\* later: what has been received by then is thrown away, whichever connection it
\* came on, and the consumer is told.
Break ==
  /\ events' = events + 1
  /\ UNCHANGED <<call, inbox, telling>>

Clear ==
  /\ events > 0 /\ ~telling
  /\ inbox' = <<>> /\ telling' = TRUE
  /\ UNCHANGED <<call, events>>

Tell ==
  /\ telling
  /\ inbox' = Append(inbox, Disconnect) /\ telling' = FALSE
  /\ events' = events - 1
  /\ UNCHANGED call

SpecNext ==
  \/ \E c \in Calls : Send(c) \/ Answer(c) \/ Lose(c) \/ Return(c) \/ GiveUp(c)
  \/ \E r \in Requests : Arrive(r)
  \/ Take \/ Break \/ Clear \/ Tell

SpecSpec == SpecInit /\ [][SpecNext]_specVars
=============================================================================
