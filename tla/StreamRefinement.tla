-------------------------- MODULE StreamRefinement --------------------------
(***************************************************************************)
(* Stream, with its event loop, implements StreamSpec.                     *)
(***************************************************************************)
EXTENDS Stream

\* The ready event and the phases of the background thread.
connBar ==
  IF ready THEN "up"
  ELSE IF tasks = "failed" \/ phase = "dead" THEN "lost"
  ELSE IF phase \in {"cleared", "sweeping"} THEN "failing"
  ELSE "down"

\* A call occupies its slot from its ready check until it has its outcome.
callBar ==
  [c \in Sends |->
     IF pc[c] \in {"idle", "refused", "answered", "failed", "timedout"} THEN "idle"
     ELSE IF res[c] # "none" THEN res[c]
     ELSE IF pc[c] = "checked" THEN "begun" ELSE "pending"]

droppedBar == {c \in Sends : pc[c] = "returned" /\ putTask[c] = "dropped"}

\* The reconnect event is put into the new queue before the ready event is set;
\* nobody can take it in between.
inboxBar == IF phase = "starting" THEN <<>> ELSE recvQ

getBar ==
  IF get \in {"scheduled", "created", "waiting"} THEN "waiting"
  ELSE IF get = "cancelling" THEN "doomed"
  ELSE get

Promise == INSTANCE StreamSpec WITH
  conn <- connBar, call <- callBar, dropped <- droppedBar,
  inbox <- inboxBar, get <- getBar, closed <- shutdown

\* Every step of the two threads is a step of the promise, or one that the
\* callers of Stream cannot tell from none: calls are failed by a disconnect and
\* by nothing else, all that are registered are failed before the connection
\* comes back, a dropped message has no answer, and each connection begins with
\* the reconnect event.
KeepsPromise == Promise!SpecSpec
=============================================================================
