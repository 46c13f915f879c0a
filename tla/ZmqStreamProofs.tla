--------------------------- MODULE ZmqStreamProofs ---------------------------
(***************************************************************************)
(* Theorems about ZmqStream, for any number of calls, requests and         *)
(* disconnects: what its type is, that an answer is never taken for a      *)
(* request, that no wake-up is lost, and that it implements ZmqStreamSpec. *)
(*                                                                         *)
(* The invariant they share says where the message of a call can be: in    *)
(* one place at most, on the way out, on the way in or in the receiver's   *)
(* hands, in none before the call has sent it; and that the table of       *)
(* futures has its key from then on, until the receiver has resolved it.   *)
(***************************************************************************)
EXTENDS ZmqStreamRefinement, TLAPS

\* The call's message is not sent yet.
Unsent == {"idle", "registered", "socketWait", "sending"}

Handled(c) == handling # "poll" /\ msg = c

\* A message is in one place, and in none before it is sent.
OnePlace ==
  \A c \in Calls :
    /\ ~(c \in out /\ c \in in)
    /\ Handled(c) => c \notin out \cup in
    /\ pc[c] \in Unsent => c \notin out \cup in /\ ~Handled(c) /\ ~result[c]

\* The table has the key of a call that is to be sent, or whose message is somewhere.
InTable ==
  \A c \in Calls :
    pc[c] \in Unsent \ {"idle"} \/ c \in out \cup in \/ Handled(c) => futures[c] # "none"

\* What the receiver is about to put on the queue is a request.
QueuesRequests == handling = "queue" => msg \in Requests

IInv ==
  /\ TypeOK /\ OnePlace /\ InTable /\ QueuesRequests
  /\ AnswersAreNotRequests /\ NoLostWakeup

-----------------------------------------------------------------------------
LEMMA InitIInv == Init => IInv
<1> SUFFICES ASSUME Init PROVE IInv
    OBVIOUS
<1>1. TypeOK
  <2>1. receiveQueue \in Seq(Calls \cup Requests \cup {Disconnect})
        BY DEF Init
  <2> QED
      BY <2>1, ZmqAssumption DEF Init, TypeOK, Done
<1>2. OnePlace /\ InTable /\ QueuesRequests /\ NoLostWakeup
      BY DEF Init, OnePlace, InTable, QueuesRequests, NoLostWakeup, Handled, Unsent
<1>3. AnswersAreNotRequests
      BY DEF Init, AnswersAreNotRequests
<1> QED
    BY <1>1, <1>2, <1>3 DEF IInv

\* Every step keeps the types.
LEMMA StepTypeOK == TypeOK /\ [Next]_vars => TypeOK'
<1> SUFFICES ASSUME TypeOK, [Next]_vars PROVE TypeOK'
    OBVIOUS
<1> USE ZmqAssumption DEF TypeOK, Done
<1>1. CASE UNCHANGED vars
      BY <1>1 DEF vars, threads, receiver, monitor, socket
<1>2. CASE CreateSocket \/ Connect \/ ConnectFails \/ Close
      BY <1>2 DEF CreateSocket, Connect, ConnectFails, Close, receiver, monitor, socket
<1>3. ASSUME NEW c \in Calls,
             Register(c) \/ AwaitSocket(c) \/ SocketSpurious(c) \/ SendMessage(c)
               \/ GetResult(c) \/ Expire(c) \/ Wake(c)
      PROVE TypeOK'
      BY <1>3 DEF Register, AwaitSocket, SocketSpurious, SendMessage, GetResult, Expire,
         Wake, Goto, receiver, monitor, socket
<1>4. CASE Receive
      BY <1>4 DEF Receive, receiver, monitor, socket
<1>5. ASSUME NEW m \in Calls \cup Requests, Poll(m) PROVE TypeOK'
      BY <1>5 DEF Poll, threads, monitor
<1>6. CASE Resolve \/ ResolveRaises \/ Remove
      BY <1>6 DEF Resolve, ResolveRaises, Remove, threads, monitor, socket
<1>7. CASE Enqueue
  <2>1. msg \in Calls \cup Requests \cup {Disconnect}
        BY <1>7 DEF Enqueue
  <2>2. receiveQueue' \in Seq(Calls \cup Requests \cup {Disconnect})
        BY <1>7, <2>1 DEF Enqueue
  <2> QED
      BY <1>7, <2>2 DEF Enqueue, monitor, socket
<1>8. CASE EventRecv
      BY <1>8 DEF EventRecv, Present, threads, receiver
<1>9. CASE SweepNext
      BY <1>9 DEF SweepNext, LooksAt, receiver, socket
<1>10. CASE ClearQueue
       BY <1>10 DEF ClearQueue, receiver, socket
<1>11. CASE Tell
  <2>1. receiveQueue' \in Seq(Calls \cup Requests \cup {Disconnect})
        BY <1>11 DEF Tell
  <2> QED
      BY <1>11, <2>1 DEF Tell, receiver, socket
<1>12. CASE LinkUp \/ LinkBreaks
       BY <1>12 DEF LinkUp, LinkBreaks, threads, receiver, monitor
<1>13. ASSUME NEW c \in Calls, ValidatorAnswers(c) PROVE TypeOK'
       BY <1>13 DEF ValidatorAnswers, threads, receiver, monitor
<1>14. ASSUME NEW r \in Requests, ValidatorAsks(r) PROVE TypeOK'
       BY <1>14 DEF ValidatorAsks, threads, receiver, monitor
<1> QED
    BY <1>1, <1>2, <1>3, <1>4, <1>5, <1>6, <1>7, <1>8, <1>9, <1>10, <1>11, <1>12, <1>13, <1>14
    DEF Next, Setup, Caller, Handle, Monitor, Validator

-----------------------------------------------------------------------------
\* What is no call may be put on the queue.
LEMMA QueueGrows ==
  ASSUME TypeOK, AnswersAreNotRequests, NEW m \in Requests \cup {Disconnect},
         receiveQueue' = Append(receiveQueue, m)
  PROVE  AnswersAreNotRequests'
<1>1. m \in Calls \cup Requests \cup {Disconnect} /\ m \notin Calls
      BY ZmqAssumption
<1>2. receiveQueue \in Seq(Calls \cup Requests \cup {Disconnect})
      BY DEF TypeOK
<1>3. /\ Len(receiveQueue') = Len(receiveQueue) + 1
      /\ \A i \in 1..Len(receiveQueue) : receiveQueue'[i] = receiveQueue[i]
      /\ receiveQueue'[Len(receiveQueue) + 1] = m
      BY <1>1, <1>2
<1>4. Len(receiveQueue) \in Nat
      BY <1>2
<1> QED
    BY <1>1, <1>3, <1>4 DEF AnswersAreNotRequests

\* Every step keeps the rest of the invariant; those that move no message and
\* touch no result or future disturb at most where a caller is.
LEMMA StepIInv == IInv /\ [Next]_vars => IInv'
<1> SUFFICES ASSUME IInv, [Next]_vars PROVE IInv'
    OBVIOUS
<1> TypeOK /\ TypeOK'
    BY StepTypeOK DEF IInv
<1> DEFINE Rest == OnePlace /\ InTable /\ QueuesRequests /\ AnswersAreNotRequests /\ NoLostWakeup
<1>r. Rest
      BY DEF IInv
<1> SUFFICES Rest'
    BY DEF IInv
<1> USE DEF Unsent, Done, Handled
<1>1. CASE UNCHANGED vars
      BY <1>1, <1>r DEF vars, threads, receiver, monitor, socket, OnePlace, InTable,
         QueuesRequests, AnswersAreNotRequests, NoLostWakeup
<1>2. CASE CreateSocket \/ Connect \/ ConnectFails \/ Close
  <2>1. UNCHANGED <<futures, result, receiveQueue, handling, msg, out, in>>
        BY <1>2 DEF CreateSocket, Connect, ConnectFails, Close, receiver, socket
  <2>2. ASSUME NEW c \in Calls
        PROVE /\ pc'[c] \in Unsent \ {"idle"} => pc[c] \in Unsent \ {"idle"}
              /\ pc'[c] \in Unsent => pc[c] \in Unsent
              /\ pc'[c] = "awaiting" => pc[c] = "awaiting"
        BY <1>2 DEF CreateSocket, Connect, ConnectFails, Close, TypeOK
  <2> QED
      BY <1>r, <2>1, <2>2 DEF OnePlace, InTable, QueuesRequests, AnswersAreNotRequests,
         NoLostWakeup
<1>3. ASSUME NEW c \in Calls,
             AwaitSocket(c) \/ SocketSpurious(c) \/ GetResult(c) \/ Expire(c) \/ Wake(c)
      PROVE Rest'
  <2>1. UNCHANGED <<futures, result, receiveQueue, handling, msg, out, in>>
        BY <1>3 DEF AwaitSocket, SocketSpurious, GetResult, Expire, Wake, receiver, socket
  <2>2. ASSUME NEW d \in Calls
        PROVE /\ pc'[d] \in Unsent \ {"idle"} => pc[d] \in Unsent \ {"idle"}
              /\ pc'[d] \in Unsent => pc[d] \in Unsent
              /\ pc'[d] = "awaiting" => pc[d] = "awaiting" \/ ~result[d]
        BY <1>3 DEF AwaitSocket, SocketSpurious, GetResult, Expire, Wake, Goto, TypeOK
  <2> QED
      BY <1>r, <2>1, <2>2 DEF OnePlace, InTable, QueuesRequests, AnswersAreNotRequests,
         NoLostWakeup
<1>4. ASSUME NEW c \in Calls, Register(c) PROVE Rest'
      BY <1>4, <1>r DEF Register, Goto, receiver, socket, TypeOK, OnePlace, InTable,
         QueuesRequests, AnswersAreNotRequests, NoLostWakeup
<1>5. ASSUME NEW c \in Calls, SendMessage(c) PROVE Rest'
      BY <1>5, <1>r DEF SendMessage, Goto, receiver, TypeOK, OnePlace, InTable,
         QueuesRequests, AnswersAreNotRequests, NoLostWakeup
<1>6. CASE Receive
      BY <1>6, <1>r DEF Receive, receiver, socket, TypeOK, OnePlace, InTable,
         QueuesRequests, AnswersAreNotRequests, NoLostWakeup
<1>7. ASSUME NEW m \in Calls \cup Requests, Poll(m) PROVE Rest'
      BY <1>7, <1>r, ZmqAssumption DEF Poll, threads, TypeOK, OnePlace, InTable,
         QueuesRequests, AnswersAreNotRequests, NoLostWakeup
<1>8. CASE Resolve
      BY <1>8, <1>r DEF Resolve, socket, TypeOK, OnePlace, InTable,
         QueuesRequests, AnswersAreNotRequests, NoLostWakeup
<1>9. CASE ResolveRaises
      BY <1>9, <1>r DEF ResolveRaises, threads, socket, TypeOK, OnePlace, InTable,
         QueuesRequests, AnswersAreNotRequests, NoLostWakeup
<1>10. CASE Remove
       BY <1>10, <1>r DEF Remove, socket, TypeOK, OnePlace, InTable,
          QueuesRequests, AnswersAreNotRequests, NoLostWakeup
<1>11. CASE Enqueue
  <2>1. AnswersAreNotRequests'
        BY <1>11, <1>r, QueueGrows DEF Enqueue, QueuesRequests
  <2> QED
      BY <1>11, <2>1, <1>r DEF Enqueue, socket, TypeOK, OnePlace, InTable, QueuesRequests,
         NoLostWakeup
<1>12. CASE EventRecv \/ LinkUp \/ LinkBreaks \/ \E r \in Requests : ValidatorAsks(r)
       BY <1>12, <1>r, ZmqAssumption DEF EventRecv, LinkUp, LinkBreaks, ValidatorAsks, threads,
          receiver, TypeOK, OnePlace, InTable, QueuesRequests, AnswersAreNotRequests, NoLostWakeup
<1>13. CASE SweepNext
       BY <1>13, <1>r DEF SweepNext, receiver, socket, TypeOK, OnePlace, InTable,
          QueuesRequests, AnswersAreNotRequests, NoLostWakeup
<1>14. CASE ClearQueue \/ Tell
  <2>1. CASE ClearQueue
        BY <2>1, <1>r DEF ClearQueue, receiver, socket, OnePlace, InTable, QueuesRequests,
           AnswersAreNotRequests, NoLostWakeup
  <2>2. CASE Tell
    <3>1. AnswersAreNotRequests'
          BY <2>2, <1>r, QueueGrows DEF Tell
    <3> QED
        BY <2>2, <3>1, <1>r DEF Tell, receiver, socket, OnePlace, InTable, QueuesRequests,
           NoLostWakeup
  <2> QED
      BY <1>14, <2>1, <2>2
<1>15. ASSUME NEW c \in Calls, ValidatorAnswers(c) PROVE Rest'
       BY <1>15, <1>r DEF ValidatorAnswers, threads, receiver, TypeOK, OnePlace, InTable,
          QueuesRequests, AnswersAreNotRequests, NoLostWakeup
<1> QED
    BY <1>1, <1>2, <1>3, <1>4, <1>5, <1>6, <1>7, <1>8, <1>9, <1>10, <1>11, <1>12, <1>13, <1>14,
       <1>15
    DEF Next, Setup, Caller, Handle, Monitor, Validator

-----------------------------------------------------------------------------
LEMMA Invariance == Spec => []IInv
<1>1. IInv /\ [Next]_vars => IInv'
      BY StepIInv
<1> QED
    BY InitIInv, <1>1, PTL DEF Spec

\* Every variable keeps its type, whatever the threads and the connection do.
THEOREM TypeCorrect == Spec => []TypeOK
<1>1. IInv => TypeOK
      BY DEF IInv
<1> QED
    BY Invariance, <1>1, PTL

\* The consumer of requests never gets the answer to a call: not even one whose
\* future a disconnect has replaced, nor one nobody waits for any more.
THEOREM AnswersKeptApart == Spec => []AnswersAreNotRequests
<1>1. IInv => AnswersAreNotRequests
      BY DEF IInv
<1> QED
    BY Invariance, <1>1, PTL

\* No caller of getResult() waits for a result that is there.
THEOREM NobodyWaitsInVain == Spec => []NoLostWakeup
<1>1. IInv => NoLostWakeup
      BY DEF IInv
<1> QED
    BY Invariance, <1>1, PTL

-----------------------------------------------------------------------------
(***************************************************************************)
(* ZmqStream implements ZmqStreamSpec                                      *)
(***************************************************************************)
\* What the consumer sees does not change.
Quiet == UNCHANGED <<receiveQueue, eventsBar, tellingBar>>

LEMMA SameCalls ==
  ASSUME \A c \in Calls : Bar(c)' = Bar(c)
  PROVE  callBar' = callBar
BY DEF callBar

LEMMA OneCall ==
  ASSUME NEW c \in Calls, NEW v, Bar(c)' = v,
         \A d \in Calls \ {c} : Bar(d)' = Bar(d)
  PROVE  callBar' = [callBar EXCEPT ![c] = v]
BY DEF callBar

LEMMA InitPromise == Init => Promise!SpecInit
BY DEF Init, Promise!SpecInit, callBar, Bar, Under, eventsBar, tellingBar

LEMMA StepPromise == IInv /\ IInv' /\ [Next]_vars => [Promise!SpecNext]_(Promise!specVars)
<1> SUFFICES ASSUME IInv, IInv', [Next]_vars
             PROVE  Promise!SpecNext \/ UNCHANGED <<callBar, receiveQueue, eventsBar, tellingBar>>
    BY DEF Promise!specVars
<1> DEFINE Stutter == UNCHANGED <<callBar, receiveQueue, eventsBar, tellingBar>>
           Goal    == Promise!SpecNext \/ Stutter
<1>t. TypeOK /\ TypeOK' /\ OnePlace /\ InTable /\ QueuesRequests
      BY DEF IInv
<1> SUFFICES Goal
    OBVIOUS
<1> HIDE DEF Goal
<1>s. ASSUME Quiet, \A c \in Calls : Bar(c)' = Bar(c) PROVE Goal
      BY <1>s, SameCalls DEF Quiet, Goal
<1>1. CASE UNCHANGED vars
  <2>1. Quiet /\ \A c \in Calls : Bar(c)' = Bar(c)
        BY <1>1 DEF vars, threads, monitor, socket, Quiet, eventsBar, tellingBar, Bar, Under, Abandoned
  <2> QED
      BY <1>s, <2>1
<1>2. CASE CreateSocket \/ Connect \/ ConnectFails \/ Close
  <2>1. Quiet
        BY <1>2 DEF CreateSocket, Connect, ConnectFails, Close, monitor, socket, Quiet,
           eventsBar, tellingBar
  <2>2. ASSUME NEW c \in Calls PROVE Bar(c)' = Bar(c)
        BY <1>2, <1>t DEF CreateSocket, Connect, ConnectFails, Close, TypeOK, Bar, Under,
           Abandoned, Done
  <2> QED
      BY <1>s, <2>1, <2>2
<1>3. ASSUME NEW c \in Calls, Register(c) PROVE Goal
  <2>1. Bar(c) = "idle" /\ Bar(c)' = "pending"
        BY <1>3, <1>t DEF Register, Goto, TypeOK, OnePlace, Unsent, Bar, Under, Abandoned, Done
  <2>2. \A d \in Calls \ {c} : Bar(d)' = Bar(d)
        BY <1>3, <1>t DEF Register, Goto, TypeOK, Bar, Under, Abandoned
  <2>3. Quiet
        BY <1>3 DEF Register, monitor, socket, Quiet, eventsBar, tellingBar
  <2>4. Promise!Send(c)
        BY <2>1, <2>2, <2>3, OneCall DEF Promise!Send, Quiet, callBar
  <2> QED
      BY <2>4 DEF Goal, Promise!SpecNext
<1>4. ASSUME NEW c \in Calls,
             AwaitSocket(c) \/ SocketSpurious(c) \/ SendMessage(c) \/ GetResult(c)
               \/ Expire(c) \/ Wake(c)
      PROVE Goal
  <2>1. Quiet
        BY <1>4 DEF AwaitSocket, SocketSpurious, SendMessage, GetResult, Expire, Wake,
           monitor, socket, Quiet, eventsBar, tellingBar
  <2>2. \A d \in Calls \ {c} : Bar(d)' = Bar(d)
        BY <1>4, <1>t DEF AwaitSocket, SocketSpurious, SendMessage, GetResult, Expire, Wake,
           Goto, TypeOK, Bar, Under, Abandoned
  <2>3. CASE Under(c)'
    <3>1. Bar(c)' = Bar(c)
          BY <1>4, <1>t, <2>3 DEF AwaitSocket, SocketSpurious, SendMessage, GetResult, Expire,
             Wake, Goto, TypeOK, Bar, Under, Abandoned, Done
    <3> QED
        BY <1>s, <2>1, <2>2, <3>1
  <2>4. CASE ~Under(c)'
    <3>1. Bar(c)' = "idle" /\ Bar(c) \in {"pending", "lost", "response"}
          BY <1>4, <2>4 DEF AwaitSocket, SocketSpurious, SendMessage, GetResult, Expire, Wake,
             Bar, Under, Done
    <3>2. Promise!Return(c) \/ Promise!GiveUp(c)
          BY <2>1, <2>2, <3>1, OneCall DEF Promise!Return, Promise!GiveUp, Quiet, callBar
    <3> QED
        BY <3>2 DEF Goal, Promise!SpecNext
  <2> QED
      BY <2>3, <2>4
<1>5. CASE Receive
  <2>1. \A c \in Calls : Bar(c)' = Bar(c)
        BY <1>5 DEF Receive, Bar, Under, Abandoned
  <2>2. Promise!Take
        BY <1>5, <2>1, SameCalls DEF Receive, monitor, socket, Promise!Take, eventsBar, tellingBar
  <2> QED
      BY <2>2 DEF Goal, Promise!SpecNext
<1>6. ASSUME NEW m \in Calls \cup Requests, Poll(m) PROVE Goal
  <2>1. Quiet /\ \A c \in Calls : Bar(c)' = Bar(c)
        BY <1>6 DEF Poll, threads, monitor, Quiet, eventsBar, tellingBar, Bar, Under, Abandoned
  <2> QED
      BY <1>s, <2>1
<1>7. ASSUME NEW c \in Calls, c = msg, Resolve PROVE Goal
  <2>1. Quiet
        BY <1>7, <1>t DEF Resolve, monitor, socket, TypeOK, Quiet, eventsBar, tellingBar
  <2>2. \A d \in Calls \ {c} : Bar(d)' = Bar(d)
        BY <1>7, <1>t DEF Resolve, TypeOK, Bar, Under, Abandoned
  <2>3. CASE Under(c) /\ ~result[c]
    <3>1. Bar(c) = "pending" /\ Bar(c)' = "response"
          BY <1>7, <1>t, <2>1, <2>3 DEF Resolve, TypeOK, Bar, Under, Abandoned, Done
    <3>2. Promise!Answer(c)
          BY <2>1, <2>2, <3>1, OneCall DEF Promise!Answer, Quiet, callBar
    <3> QED
        BY <2>1, <3>2 DEF Goal, Promise!SpecNext
  <2>4. CASE ~(Under(c) /\ ~result[c])
    <3>1. Bar(c)' = Bar(c)
          BY <1>7, <1>t, <2>1, <2>4 DEF Resolve, TypeOK, Bar, Under, Done
    <3> QED
        BY <1>s, <2>1, <2>2, <3>1
  <2> QED
      BY <2>3, <2>4
<1>8. CASE ResolveRaises
  <2>1. Quiet /\ \A c \in Calls : Bar(c)' = Bar(c)
        BY <1>8 DEF ResolveRaises, threads, monitor, socket, Quiet, eventsBar, tellingBar, Bar,
           Under, Abandoned
  <2> QED
      BY <1>s, <2>1
<1>9. CASE Remove
  <2>1. Quiet
        BY <1>9 DEF Remove, monitor, socket, Quiet, eventsBar, tellingBar
  <2>2. ASSUME NEW c \in Calls PROVE Bar(c)' = Bar(c)
        BY <1>9, <1>t DEF Remove, TypeOK, Bar, Under, Abandoned
  <2> QED
      BY <1>s, <2>1, <2>2
<1>10. CASE Enqueue
  <2>1. \A c \in Calls : Bar(c)' = Bar(c)
        BY <1>10 DEF Enqueue, Bar, Under, Abandoned
  <2>2. msg \in Requests /\ Promise!Arrive(msg)
        BY <1>10, <1>t, <2>1, SameCalls DEF Enqueue, QueuesRequests, monitor, socket,
           Promise!Arrive, eventsBar, tellingBar
  <2> QED
      BY <2>2 DEF Goal, Promise!SpecNext
<1>11. CASE EventRecv
  <2>1. Quiet /\ \A c \in Calls : Bar(c)' = Bar(c)
        BY <1>11, <1>t DEF EventRecv, threads, TypeOK, Quiet, eventsBar, tellingBar, Bar, Under,
           Abandoned
  <2> QED
      BY <1>s, <2>1
<1>12. ASSUME NEW c \in Calls, c = ahead, SweepNext PROVE Goal
  <2>1. Quiet
        BY <1>12, <1>t DEF SweepNext, socket, TypeOK, Quiet, eventsBar, tellingBar
  <2>2. \A d \in Calls \ {c} : Bar(d)' = Bar(d)
        BY <1>12, <1>t DEF SweepNext, TypeOK, Bar, Under, Abandoned
  <2>3. CASE Bar(c) = "pending"
    <3>1. Bar(c)' = "lost"
          BY <1>12, <1>t, <2>1, <2>3 DEF SweepNext, TypeOK, Bar, Under, Abandoned
    <3>2. eventsBar > 0
          BY <1>12, <1>t DEF SweepNext, TypeOK, eventsBar
    <3>3. Promise!Lose(c)
          BY <2>1, <2>2, <2>3, <3>1, <3>2, OneCall DEF Promise!Lose, Quiet, callBar
    <3> QED
        BY <2>1, <3>3 DEF Goal, Promise!SpecNext
  <2>4. CASE Bar(c) # "pending"
    <3>1. Bar(c)' = Bar(c)
          BY <1>12, <1>t, <2>1, <2>4 DEF SweepNext, TypeOK, Bar, Under, Abandoned
    <3> QED
        BY <1>s, <2>1, <2>2, <3>1
  <2> QED
      BY <2>3, <2>4
<1>13. CASE ClearQueue \/ Tell
  <2>1. \A c \in Calls : Bar(c)' = Bar(c)
        BY <1>13 DEF ClearQueue, Tell, Bar, Under, Abandoned
  <2>2. Promise!Clear \/ Promise!Tell
    <3>1. callBar' = callBar /\ events \in Nat
          BY <2>1, <1>t, SameCalls DEF TypeOK
    <3>2. CASE ClearQueue
      <4>1. eventsBar > 0 /\ ~tellingBar /\ eventsBar' = eventsBar /\ tellingBar'
            BY <3>1, <3>2 DEF ClearQueue, socket, eventsBar, tellingBar
      <4> QED
          BY <3>1, <3>2, <4>1 DEF ClearQueue, Promise!Clear
    <3>3. CASE Tell
      <4>1. tellingBar /\ ~tellingBar' /\ eventsBar' = eventsBar - 1
            BY <3>1, <3>3 DEF Tell, socket, eventsBar, tellingBar
      <4> QED
          BY <3>1, <3>3, <4>1 DEF Tell, Promise!Tell
    <3> QED
        BY <1>13, <3>2, <3>3
  <2> QED
      BY <2>2 DEF Goal, Promise!SpecNext
<1>14. CASE LinkBreaks
  <2>1. \A c \in Calls : Bar(c)' = Bar(c)
        BY <1>14 DEF LinkBreaks, threads, Bar, Under, Abandoned
  <2>2. Promise!Break
        BY <1>14, <1>t, <2>1, SameCalls DEF LinkBreaks, threads, monitor, TypeOK, Promise!Break,
           eventsBar, tellingBar
  <2> QED
      BY <2>2 DEF Goal, Promise!SpecNext
<1>15. CASE LinkUp \/ Validator
  <2>1. Quiet /\ \A c \in Calls : Bar(c)' = Bar(c)
        BY <1>15 DEF LinkUp, Validator, ValidatorAnswers, ValidatorAsks, threads, monitor, Quiet,
           eventsBar, tellingBar, Bar, Under, Abandoned
  <2> QED
      BY <1>s, <2>1
<1>16. Resolve => msg \in Calls
       BY <1>t DEF Resolve, TypeOK
<1>17. SweepNext => ahead \in Calls
       BY <1>t DEF SweepNext, TypeOK
<1> QED
    BY <1>1, <1>2, <1>3, <1>4, <1>5, <1>6, <1>7, <1>8, <1>9, <1>10, <1>11, <1>12, <1>13, <1>14,
       <1>15, <1>16, <1>17
    DEF Next, Setup, Caller, Handle, Monitor

\* ZmqStream does nothing that ZmqStreamSpec does not allow: what JavaProcessor is
\* built on is what the messaging does, for any number of calls and disconnects.
THEOREM Implements == Spec => KeepsPromise
<1>1. IInv /\ IInv' /\ [Next]_vars => [Promise!SpecNext]_(Promise!specVars)
      BY StepPromise
<1> QED
    BY InitPromise, Invariance, <1>1, PTL DEF Spec, KeepsPromise, Promise!SpecSpec
=============================================================================
