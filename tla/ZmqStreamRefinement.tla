------------------------- MODULE ZmqStreamRefinement -------------------------
(***************************************************************************)
(* ZmqStream implements ZmqStreamSpec.  A call is lost once an error       *)
(* stands for its future in the table while its own future has no result.  *)
(***************************************************************************)
EXTENDS ZmqStream

Under(c) == pc[c] # "idle" /\ pc[c] \notin Done

Bar(c) ==
  IF ~Under(c) THEN "idle"
  ELSE IF result[c] THEN "response"
  ELSE IF Abandoned(c) THEN "lost" ELSE "pending"

callBar == [c \in Calls |-> Bar(c)]

eventsBar  == IF sweeping = "recv" THEN events ELSE events + 1
tellingBar == sweeping = "tell"

Promise == INSTANCE ZmqStreamSpec WITH
  call <- callBar, inbox <- receiveQueue,
  events <- eventsBar, telling <- tellingBar

\* ZmqStream and SendReceiveThread do nothing that ZmqStreamSpec does not allow.
KeepsPromise == Promise!SpecSpec
=============================================================================
