---------------------------- MODULE StreamProofs ----------------------------
(***************************************************************************)
(* Theorems about Stream, for every value of its constants: its types, its *)
(* handles, the journey of each message, and that it implements            *)
(* StreamSpec.                                                             *)
(***************************************************************************)
EXTENDS StreamRefinement, TLAPS

-----------------------------------------------------------------------------
(***************************************************************************)
(* Sequences                                                               *)
(***************************************************************************)

\* The elements of a sequence after Tail and after Append.
LEMMA TailIndex ==
  ASSUME NEW S, NEW q \in Seq(S), q # <<>>
  PROVE  /\ Tail(q) \in Seq(S) /\ Len(Tail(q)) = Len(q) - 1
         /\ Len(q) \in Nat \ {0} /\ Head(q) = q[1]
         /\ \A i \in 1 .. Len(Tail(q)) :
              Tail(q)[i] = q[i + 1] /\ i + 1 \in 2 .. Len(q)
OBVIOUS

LEMMA AppendIndex ==
  ASSUME NEW S, NEW q \in Seq(S), NEW h \in S
  PROVE  /\ Append(q, h) \in Seq(S) /\ Len(Append(q, h)) = Len(q) + 1
         /\ Len(q) \in Nat /\ Append(q, h)[Len(q) + 1] = h
         /\ \A i \in 1 .. Len(q) : Append(q, h)[i] = q[i]
OBVIOUS

-----------------------------------------------------------------------------
(***************************************************************************)
(* Types                                                                   *)
(***************************************************************************)

\* What a handle is made of.
LEMMA HandleType ==
  ASSUME NEW op \in {"put", "putStep", "get", "getStep", "getCancel",
                     "cancel", "done", "stop"},
         NEW m \in Messages \cup {NoMessage}
  PROVE  <<op, m>> \in Handle
BY DEF Handle

\* Running the handle at the head keeps the queue typed and the rest of the
\* batch within it.
LEMMA BatchType ==
  ASSUME TypeOK, NEW op, NEW m, Runs(op, m)
  PROVE  /\ runq \in Seq(Handle) /\ runq # <<>>
         /\ Tail(runq) \in Seq(Handle)
         /\ Len(Tail(runq)) = Len(runq) - 1
         /\ BatchLeft \in Nat /\ BatchLeft <= Len(runq) - 1
         /\ Len(runq) \in Nat \ {0}
<1>1. runq \in Seq(Handle) /\ runq # <<>> /\ todo \in Nat /\ todo <= Len(runq)
  BY DEF TypeOK, Runs
<1>2. Len(runq) \in Nat \ {0} /\ Tail(runq) \in Seq(Handle)
        /\ Len(Tail(runq)) = Len(runq) - 1
  BY <1>1
<1> QED
  BY <1>1, <1>2 DEF BatchLeft

\* The initial state is typed.
LEMMA InitType == Init => TypeOK
<1> SUFFICES ASSUME Init PROVE TypeOK
  OBVIOUS
<1>1. /\ sendQ \in Seq(Messages) /\ recvQ \in Seq(Items)
      /\ runq \in Seq(Handle) /\ todo \in Nat /\ todo <= Len(runq)
  BY DEF Init
<1>2. /\ putTask \in [Messages -> PutStates] /\ pc \in [Messages -> CallSteps]
      /\ res \in [Sends -> {"none", "response", "error"}]
  BY DEF Init, PutStates, CallSteps
<1>3. drops \in 0 .. MaxDisconnects
  BY StreamAssumption DEF Init
<1> QED
  BY <1>1, <1>2, <1>3 DEF Init, TypeOK, Phases, GetStates


\* Every step of a call keeps the types.
LEMMA CallType ==
  ASSUME TypeOK, NEW m \in Messages, Call(m)
  PROVE  TypeOK'
<1> USE DEF TypeOK, flags, channel, futures, batch, monitoring, calls, consumer,
        wire
<1>1. CASE CallBegins(m)
  BY <1>1 DEF CallBegins, CallSteps
<1>2. CASE PutMessageChecks(m)
  <2>1. pc' \in [Messages -> CallSteps] /\ putTask' \in [Messages -> PutStates]
    <3>1. CASE ready
      BY <1>2, <3>1 DEF PutMessageChecks, CallSteps
    <3>2. CASE ~ready
      BY <1>2, <3>2 DEF PutMessageChecks, CallSteps, PutStates
    <3> QED
      BY <3>1, <3>2
  <2> QED
    BY <1>2, <2>1 DEF PutMessageChecks
<1>3. CASE PutMessageWaits(m)
  BY <1>3 DEF PutMessageWaits, CallSteps
<1>4. CASE PutMessageSchedules(m)
  <2>1. <<"put", m>> \in Handle
    BY HandleType
  <2>2. runq' \in Seq(Handle) /\ todo' \in Nat /\ todo' <= Len(runq')
    BY <1>4, <2>1 DEF PutMessageSchedules
  <2>3. pc' \in [Messages -> CallSteps] /\ putTask' \in [Messages -> PutStates]
    BY <1>4 DEF PutMessageSchedules, CallSteps, PutStates
  <2> QED
    BY <1>4, <2>2, <2>3 DEF PutMessageSchedules
<1> QED
  BY <1>1, <1>2, <1>3, <1>4 DEF Call

LEMMA FutureType ==
  ASSUME TypeOK, NEW c \in Sends, Future(c)
  PROVE  TypeOK'
<1> USE DEF TypeOK, flags, channel, futures, batch, monitoring, calls, consumer,
        wire
<1>1. CASE FuturesPut(c)
  BY <1>1 DEF FuturesPut, CallSteps, Messages
<1>2. CASE Result(c)
  BY <1>2 DEF Result, CallSteps, Messages
<1>3. CASE ResultTimesOut(c)
  BY <1>3 DEF ResultTimesOut, CallSteps, Messages
<1> QED
  BY <1>1, <1>2, <1>3 DEF Future

\* receive() and close() keep the types.
LEMMA AppType ==
  ASSUME TypeOK, Receive \/ Close
  PROVE  TypeOK'
<1> USE DEF TypeOK, flags, channel, futures, batch, monitoring, calls, consumer,
        wire
<1>1. CASE Receive
  <2>1. <<"get", NoMessage>> \in Handle
    BY HandleType
  <2>2. runq' \in Seq(Handle) /\ todo' \in Nat /\ todo' <= Len(runq')
    BY <1>1, <2>1 DEF Receive
  <2> QED
    BY <1>1, <2>2 DEF Receive, GetStates
<1>2. CASE Close
  <2>1. <<"cancel", NoMessage>> \in Handle /\ <<"done", NoMessage>> \in Handle
    BY HandleType
  <2>2. /\ Append(runq, <<"cancel", NoMessage>>) \in Seq(Handle)
        /\ Len(Append(runq, <<"cancel", NoMessage>>)) = Len(runq) + 1
    BY <2>1
  <2>3. runq' \in Seq(Handle) /\ Len(runq') = Len(runq) + 2
    BY <1>2, <2>1, <2>2, AppendIndex DEF Close
  <2>4. todo' \in Nat /\ todo' <= Len(runq')
    BY <1>2, <2>3 DEF Close
  <2> QED
    BY <1>2, <2>3, <2>4 DEF Close
<1> QED
  BY <1>1, <1>2

LEMMA RunType ==
  ASSUME TypeOK, Run
  PROVE  TypeOK'
<1> USE DEF TypeOK, flags, channel, futures, batch, monitoring, calls, consumer,
        wire
<1>1. CASE Connect
  <2>1. sendQ' \in Seq(Messages) /\ recvQ' \in Seq(Items)
    <3>1. <<ReconnectEvent>> \in Seq(Items)
      BY DEF Items
    <3> QED
      BY <1>1, <3>1 DEF Connect
  <2> QED
    BY <1>1, <2>1 DEF Connect, Phases
<1>2. CASE ConnectFails
  BY <1>2 DEF ConnectFails, Phases
<1>3. CASE RunForever
  BY <1>3 DEF RunForever, Phases
<1>4. CASE LoopStops
  BY <1>4 DEF LoopStops, Phases
<1> QED
  BY <1>1, <1>2, <1>3, <1>4 DEF Run

\* Every handle of the event loop keeps the types.
LEMMA CallbackType ==
  ASSUME TypeOK, Callback
  PROVE  TypeOK'
<1> USE DEF TypeOK, flags, channel, futures, batch, monitoring, calls, consumer,
        wire
<1>a. \A op \in {"putStep", "getStep", "getCancel", "stop"} :
        \A m \in Messages \cup {NoMessage} : <<op, m>> \in Handle
  BY HandleType
<1>1. ASSUME NEW m \in Messages, PutCallback(m)
      PROVE  TypeOK'
  <2>1. runq' \in Seq(Handle) /\ todo' \in Nat /\ todo' <= Len(runq')
    BY <1>1, <1>a, BatchType DEF PutCallback
  <2> QED
    BY <1>1, <2>1 DEF PutCallback, PutStates
<1>2. ASSUME NEW m \in Messages, PutStep(m)
      PROVE  TypeOK'
  <2>1. runq' \in Seq(Handle) /\ todo' \in Nat /\ todo' <= Len(runq')
    BY <1>2, BatchType DEF PutStep
  <2>2. sendQ' \in Seq(Messages) /\ putTask' \in [Messages -> PutStates]
    <3>1. CASE /\ sendQ' = Append(sendQ, m)
               /\ putTask' = [putTask EXCEPT ![m] = "queued"]
      BY <3>1 DEF PutStates
    <3>2. CASE UNCHANGED <<sendQ, putTask>>
      BY <3>2
    <3> QED
      BY <1>2, <3>1, <3>2 DEF PutStep
  <2> QED
    BY <1>2, <2>1, <2>2 DEF PutStep
<1>3. CASE GetCallback
  <2>1. runq' \in Seq(Handle) /\ todo' \in Nat /\ todo' <= Len(runq')
    BY <1>3, <1>a, BatchType DEF GetCallback
  <2> QED
    BY <1>3, <2>1 DEF GetCallback, GetStates
<1>4. CASE GetStep
  <2>1. runq' \in Seq(Handle) /\ todo' \in Nat /\ todo' <= Len(runq')
    <3> DEFINE longer == Append(Tail(runq), <<"getCancel", NoMessage>>)
    <3>1. /\ Tail(runq) \in Seq(Handle) /\ Len(Tail(runq)) = Len(runq) - 1
          /\ BatchLeft \in Nat /\ BatchLeft <= Len(runq) - 1
          /\ Len(runq) \in Nat
      BY <1>4, BatchType DEF GetStep
    <3>2. longer \in Seq(Handle) /\ Len(longer) = Len(runq)
      BY <1>a, <3>1
    <3>3. todo' = BatchLeft /\ runq' \in {Tail(runq), longer}
      BY <1>4 DEF GetStep
    <3> HIDE DEF longer
    <3>4. CASE runq' = longer
      BY <3>1, <3>2, <3>3, <3>4
    <3>5. CASE runq' = Tail(runq)
      BY <3>1, <3>3, <3>5
    <3> QED
      BY <3>3, <3>4, <3>5
  <2> QED
    BY <1>4, <2>1 DEF GetStep, GetStates
<1>5. CASE GetCancelled
  <2>1. runq' \in Seq(Handle) /\ todo' \in Nat /\ todo' <= Len(runq')
    BY <1>5, BatchType DEF GetCancelled
  <2> QED
    BY <1>5, <2>1 DEF GetCancelled, GetStates
<1>6. CASE CancelTasks
  <2>1. runq' \in Seq(Handle) /\ todo' \in Nat /\ todo' <= Len(runq')
    <3> DEFINE longer == Append(Tail(runq), <<"getCancel", NoMessage>>)
    <3>1. /\ Tail(runq) \in Seq(Handle) /\ Len(Tail(runq)) = Len(runq) - 1
          /\ BatchLeft \in Nat /\ BatchLeft <= Len(runq) - 1
          /\ Len(runq) \in Nat
      BY <1>6, BatchType DEF CancelTasks
    <3>2. longer \in Seq(Handle) /\ Len(longer) = Len(runq)
      BY <1>a, <3>1
    <3>3. todo' = BatchLeft /\ runq' \in {Tail(runq), longer}
      BY <1>6 DEF CancelTasks
    <3> HIDE DEF longer
    <3>4. CASE runq' = longer
      BY <3>1, <3>2, <3>3, <3>4
    <3>5. CASE runq' = Tail(runq)
      BY <3>1, <3>3, <3>5
    <3> QED
      BY <3>3, <3>4, <3>5
  <2>2. putTask' \in [Messages -> PutStates] /\ get' \in GetStates
    BY <1>6 DEF CancelTasks, CancelPutTasks, PutStates, GetStates
  <2> QED
    BY <1>6, <2>1, <2>2 DEF CancelTasks
<1>7. CASE DoneCallback
  <2>1. runq' \in Seq(Handle) /\ todo' \in Nat /\ todo' <= Len(runq')
    BY <1>7, <1>a, BatchType DEF DoneCallback
  <2> QED
    BY <1>7, <2>1 DEF DoneCallback
<1>8. CASE StopHandle
  <2>1. runq' \in Seq(Handle) /\ todo' \in Nat /\ todo' <= Len(runq')
    BY <1>8, BatchType DEF StopHandle
  <2> QED
    BY <1>8, <2>1 DEF StopHandle, Phases
<1> QED
  BY <1>1, <1>2, <1>3, <1>4, <1>5, <1>6, <1>7, <1>8 DEF Callback

LEMMA MonitorType ==
  ASSUME TypeOK, Monitor
  PROVE  TypeOK'
<1> USE DEF TypeOK, flags, channel, futures, batch, monitoring, calls, consumer,
        wire
<1>1. CASE MonitorClears
  <2>1. todo' \in Nat /\ todo' <= Len(runq)
    BY <1>1 DEF MonitorClears
  <2> QED
    BY <1>1, <2>1 DEF MonitorClears, Phases
<1>2. CASE SweepBegins
  BY <1>2 DEF SweepBegins, Phases
<1>3. CASE SweepFails
  BY <1>3 DEF SweepFails, Phases
<1>4. CASE StopLoop
  <2>1. <<"getCancel", NoMessage>> \in Handle
    BY HandleType
  <2>2. runq' \in Seq(Handle) /\ todo' \in Nat /\ todo' <= Len(runq')
    BY <1>4, <2>1 DEF StopLoop
  <2>3. putTask' \in [Messages -> PutStates] /\ get' \in GetStates
    BY <1>4 DEF StopLoop, CancelPutTasks, PutStates, GetStates
  <2>4. /\ sendQ' \in Seq(Messages) /\ recvQ' \in Seq(Items)
        /\ view' \subseteq Sends /\ unswept' \subseteq view'
    BY <1>4 DEF StopLoop
  <2> QED
    BY <1>4, <2>2, <2>3, <2>4 DEF StopLoop, Phases
<1>5. ASSUME NEW c \in Sends, SweepNext(c)
      PROVE  TypeOK'
  BY <1>5 DEF SweepNext
<1> QED
  BY <1>1, <1>2, <1>3, <1>4, <1>5 DEF Monitor

\* The queues' other users and the outside world keep the types.
LEMMA TransportType ==
  ASSUME TypeOK,
         \/ GetItem \/ SendMessage \/ Validator \/ LinkBreaks
         \/ \E m \in Messages \cup Requests : ReceiveMessage(m) \/ Lose(m)
  PROVE  TypeOK'
<1> USE DEF TypeOK, flags, channel, futures, batch, monitoring, calls, consumer,
        wire
<1>1. CASE GetItem
  <2>1. Head(recvQ) \in Items /\ Tail(recvQ) \in Seq(Items)
    BY <1>1 DEF GetItem
  <2> QED
    BY <1>1, <2>1 DEF GetItem, GetStates
<1>2. CASE SendMessage
  <2>1. Head(sendQ) \in Messages /\ Tail(sendQ) \in Seq(Messages)
    BY <1>2 DEF SendMessage
  <2> QED
    BY <1>2, <2>1 DEF SendMessage
<1>3. ASSUME NEW m \in Messages \cup Requests, ReceiveMessage(m)
      PROVE  TypeOK'
  <2>1. recvQ' \in Seq(Items)
    <3>1. m \in Items /\ recvQ \in Seq(Items)
      BY DEF Items
    <3>2. Append(recvQ, m) \in Seq(Items)
      BY <3>1
    <3>3. recvQ' = recvQ \/ recvQ' = Append(recvQ, m)
      BY <1>3 DEF ReceiveMessage
    <3> QED
      BY <3>1, <3>2, <3>3
  <2>2. /\ table' \subseteq Sends
        /\ res' \in [Sends -> {"none", "response", "error"}]
    BY <1>3 DEF ReceiveMessage
  <2> QED
    BY <1>3, <2>1, <2>2 DEF ReceiveMessage
<1>4. ASSUME NEW m \in Messages \cup Requests, Lose(m)
      PROVE  TypeOK'
  BY <1>4 DEF Lose
<1>5. CASE Validator
  BY <1>5 DEF Validator, Deliver, Ask, Messages
<1>6. CASE LinkBreaks
  BY <1>6, StreamAssumption DEF LinkBreaks
<1> QED
  BY <1>1, <1>2, <1>3, <1>4, <1>5, <1>6

LEMMA StepType ==
  ASSUME TypeOK, [Next]_vars
  PROVE  TypeOK'
<1>1. CASE UNCHANGED vars
  BY <1>1 DEF TypeOK, vars, flags, channel, futures, batch, monitoring, calls,
     consumer, wire
<1> QED
  BY <1>1, CallType, FutureType, AppType, RunType, CallbackType, MonitorType,
     TransportType DEF Next

\* Every variable keeps its type, and the batch left is never longer than the
\* queue of handles, however calls, handles and disconnects interleave.
THEOREM TypeCorrect == Spec => []TypeOK
<1>1. Init => TypeOK
  BY InitType
<1>2. TypeOK /\ [Next]_vars => TypeOK'
  BY StepType
<1> QED
  BY <1>1, <1>2, PTL DEF Spec

-----------------------------------------------------------------------------
(***************************************************************************)
(* Handles                                                                 *)
(***************************************************************************)

\* Taking the head off leaves no handle of the head's task.
LEMMA TailDistinct ==
  ASSUME NEW q \in Seq(Handle), q # <<>>, Distinct(q)
  PROVE  /\ Distinct(Tail(q))
         /\ \A i \in 1 .. Len(Tail(q)) : ~SameTask(Tail(q)[i], Head(q))
<1> DEFINE t == Tail(q)
<1>1. /\ Len(t) = Len(q) - 1 /\ Len(q) \in Nat \ {0} /\ Head(q) = q[1]
      /\ \A i \in 1 .. Len(t) : t[i] = q[i + 1] /\ i + 1 \in 2 .. Len(q)
  BY TailIndex
<1> HIDE DEF t
<1>2. ASSUME NEW i \in 1 .. Len(t), NEW j \in 1 .. Len(t),
             SameTask(t[i], t[j])
      PROVE  i = j
  <2>1. i + 1 \in 1 .. Len(q) /\ j + 1 \in 1 .. Len(q)
    BY <1>1
  <2>2. i + 1 = j + 1
    BY <1>1, <1>2, <2>1 DEF Distinct
  <2> QED
    BY <2>2
<1>3. ASSUME NEW i \in 1 .. Len(t), SameTask(t[i], q[1])
      PROVE  FALSE
  <2>1. i + 1 \in 1 .. Len(q) /\ 1 \in 1 .. Len(q)
    BY <1>1
  <2>2. i + 1 = 1
    BY <1>1, <1>3, <2>1 DEF Distinct
  <2> QED
    BY <2>2
<1> QED
  BY <1>1, <1>2, <1>3 DEF Distinct, t

\* Appending a handle whose task has none keeps handles distinct.
LEMMA AppendDistinct ==
  ASSUME NEW q \in Seq(Handle), NEW h \in Handle, Distinct(q),
         \A i \in 1 .. Len(q) : ~SameTask(q[i], h)
  PROVE  Distinct(Append(q, h))
<1> DEFINE a == Append(q, h)
<1>1. /\ Len(a) = Len(q) + 1 /\ Len(q) \in Nat /\ a[Len(q) + 1] = h
      /\ \A i \in 1 .. Len(q) : a[i] = q[i]
  BY AppendIndex
<1> HIDE DEF a
<1>2. ASSUME NEW i \in 1 .. Len(a), NEW j \in 1 .. Len(a),
             SameTask(a[i], a[j])
      PROVE  i = j
  <2>1. CASE i \in 1 .. Len(q) /\ j \in 1 .. Len(q)
    BY <1>1, <1>2, <2>1 DEF Distinct
  <2>2. CASE i \in 1 .. Len(q) /\ j = Len(q) + 1
    BY <1>1, <1>2, <2>2
  <2>3. CASE i = Len(q) + 1 /\ j \in 1 .. Len(q)
    <3>1. SameTask(q[j], h)
      BY <1>1, <1>2, <2>3 DEF SameTask
    <3> QED
      BY <2>3, <3>1
  <2>4. CASE i = Len(q) + 1 /\ j = Len(q) + 1
    BY <2>4
  <2> QED
    BY <1>1, <2>1, <2>2, <2>3, <2>4
<1> QED
  BY <1>2 DEF Distinct, a

\* What a step has to leave of the other tasks' states.
Respects(g) == HandleState(g) => HandleState(g)' /\ (LiveStep(g)' => LiveStep(g))

\* A step that appends no handle and runs none.
LEMMA QuietStep ==
  ASSUME TypeOK, QueueInv, runq' = runq,
         \A g \in Handle : Respects(g),
         \/ todo' = todo /\ phase' = phase /\ queues' = queues
         \/ queues'
         \/ ~queues' /\ phase' \in {"connecting", "dead"}
         \/ todo' = todo /\ \A g \in Handle : HandleState(g) => ~LiveStep(g)'
  PROVE  OneHandle' /\ HandlesAgree' /\ DrainHasNoLiveStep'
<1>1. runq \in Seq(Handle) /\ todo <= Len(runq) /\ todo \in Nat
  BY DEF TypeOK
<1>2. \A i \in 1 .. Len(runq) : runq[i] \in Handle /\ HandleState(runq[i])
  BY <1>1 DEF QueueInv, HandlesAgree
<1>3. OneHandle'
  BY DEF QueueInv, OneHandle
<1>4. HandlesAgree'
  BY <1>2 DEF HandlesAgree, Respects
<1>5. DrainHasNoLiveStep'
  <2>1. CASE todo' = todo /\ phase' = phase /\ queues' = queues
    <3> SUFFICES ASSUME phase = "draining", ~queues, NEW i \in 1 .. todo
                 PROVE  ~LiveStep(runq[i])'
      BY <2>1 DEF DrainHasNoLiveStep
    <3>1. ~LiveStep(runq[i])
      BY DEF QueueInv, DrainHasNoLiveStep
    <3>2. i \in 1 .. Len(runq)
      BY <1>1
    <3> QED
      BY <1>2, <3>1, <3>2 DEF Respects
  <2>2. CASE queues'
    BY <2>2 DEF DrainHasNoLiveStep
  <2>3. CASE ~queues' /\ phase' \in {"connecting", "dead"}
    BY <2>3 DEF DrainHasNoLiveStep
  <2>4. CASE todo' = todo /\ \A g \in Handle : HandleState(g) => ~LiveStep(g)'
    <3> SUFFICES ASSUME NEW i \in 1 .. todo
                 PROVE  ~LiveStep(runq[i])'
      BY <2>4 DEF DrainHasNoLiveStep
    <3>1. PICK g \in Handle : g = runq[i] /\ HandleState(g)
      BY <1>1, <1>2
    <3> QED
      BY <2>4, <3>1
  <2> QED
    BY <2>1, <2>2, <2>3, <2>4
<1> QED
  BY <1>3, <1>4, <1>5

\* A step that appends a handle and runs none.
LEMMA AppendStep ==
  ASSUME TypeOK, QueueInv, NEW h \in Handle,
         runq' = Append(runq, h), HandleState(h)',
         \A i \in 1 .. Len(runq) : ~SameTask(runq[i], h),
         \A g \in Handle : Respects(g),
         todo' = todo,
         \/ UNCHANGED <<phase, queues>>
         \/ \A g \in Handle : HandleState(g) => ~LiveStep(g)'
  PROVE  OneHandle' /\ HandlesAgree' /\ DrainHasNoLiveStep'
<1>1. runq \in Seq(Handle) /\ todo <= Len(runq) /\ todo \in Nat
  BY DEF TypeOK
<1>2. \A i \in 1 .. Len(runq) : runq[i] \in Handle /\ HandleState(runq[i])
  BY <1>1 DEF QueueInv, HandlesAgree
<1>3. OneHandle'
  BY <1>1, AppendDistinct DEF QueueInv, OneHandle
<1>4. /\ Len(runq') = Len(runq) + 1 /\ Len(runq) \in Nat
      /\ runq'[Len(runq) + 1] = h
      /\ \A i \in 1 .. Len(runq) : runq'[i] = runq[i]
  BY <1>1, AppendIndex
<1>5. HandlesAgree'
  <2> SUFFICES ASSUME NEW i \in 1 .. Len(runq')
               PROVE  HandleState(runq[i])'
    BY DEF HandlesAgree
  <2>1. CASE i \in 1 .. Len(runq)
    <3>1. PICK g \in Handle : g = runq[i] /\ HandleState(g)
      BY <1>2, <2>1
    <3>2. HandleState(g)' /\ runq'[i] = g
      BY <1>4, <2>1, <3>1 DEF Respects
    <3> QED
      BY <3>2
  <2>2. CASE i = Len(runq) + 1
    BY <1>4, <2>2
  <2> QED
    BY <1>4, <2>1, <2>2
<1>6. DrainHasNoLiveStep'
  <2> SUFFICES ASSUME phase' = "draining", ~queues', NEW i \in 1 .. todo
               PROVE  ~LiveStep(runq[i])'
    BY DEF DrainHasNoLiveStep
  <2>1. i \in 1 .. Len(runq)
    BY <1>1
  <2>2. PICK g \in Handle : g = runq[i] /\ HandleState(g)
    BY <1>2, <2>1
  <2>3. runq'[i] = g
    BY <1>4, <2>1, <2>2
  <2>4. CASE UNCHANGED <<phase, queues>>
    <3>1. ~LiveStep(g)
      BY <2>2, <2>4 DEF QueueInv, DrainHasNoLiveStep
    <3>2. ~LiveStep(g)'
      BY <2>2, <3>1 DEF Respects
    <3> QED
      BY <2>3, <3>2
  <2>5. CASE \A g1 \in Handle : HandleState(g1) => ~LiveStep(g1)'
    BY <2>2, <2>3, <2>5
  <2> QED
    BY <2>4, <2>5
<1> QED
  BY <1>3, <1>5, <1>6

\* A step of the event loop: it runs the handle at the head, whose task may
\* get a new handle at the end, which is not of the batch under way.
LEMMA RunStep ==
  ASSUME TypeOK, QueueInv, NEW op, NEW m, Runs(op, m),
         todo' = BatchLeft, queues' = queues,
         phase' = phase \/ phase' = "draining",
         NEW h \in Handle,
         \/ runq' = Tail(runq)
         \/ /\ runq' = Append(Tail(runq), h)
            /\ HandleState(h)'
            /\ \A i \in 1 .. Len(Tail(runq)) : ~SameTask(Tail(runq)[i], h),
         \A g \in Handle : ~SameTask(g, <<op, m>>) => Respects(g)
  PROVE  OneHandle' /\ HandlesAgree' /\ DrainHasNoLiveStep'
<1> DEFINE t == Tail(runq)
<1>1. runq \in Seq(Handle) /\ runq # <<>> /\ Head(runq) = <<op, m>>
  BY DEF TypeOK, Runs
<1>2. /\ t \in Seq(Handle) /\ Len(t) = Len(runq) - 1 /\ Len(runq) \in Nat \ {0}
      /\ \A i \in 1 .. Len(t) : t[i] = runq[i + 1] /\ i + 1 \in 2 .. Len(runq)
  BY <1>1, TailIndex
<1>3. Distinct(t) /\ \A i \in 1 .. Len(t) : ~SameTask(t[i], <<op, m>>)
  BY <1>1, TailDistinct DEF QueueInv, OneHandle
<1>4. \A i \in 1 .. Len(t) : t[i] \in Handle /\ HandleState(t[i])
  BY <1>2 DEF QueueInv, HandlesAgree
<1>5. ASSUME NEW g \in Handle, NEW i \in 1 .. Len(t), t[i] = g
      PROVE  HandleState(g)' /\ (LiveStep(g)' => LiveStep(g))
  BY <1>3, <1>4, <1>5 DEF Respects
<1>6. todo' \in Nat /\ todo' <= Len(t)
  BY <1>2, BatchType
<1> DEFINE u == runq'
<1>7. /\ Len(t) <= Len(u)
      /\ \A i \in 1 .. Len(u) :
           \/ i \in 1 .. Len(t) /\ u[i] = t[i]
           \/ i \notin 1 .. Len(t) /\ u[i] = h /\ HandleState(h)'
  <2>1. CASE u = t
    BY <1>2, <2>1
  <2>2. CASE u = Append(t, h) /\ HandleState(h)'
    <3> HIDE DEF t, u
    <3>1. /\ Len(u) = Len(t) + 1 /\ Len(t) \in Nat /\ u[Len(t) + 1] = h
          /\ \A i \in 1 .. Len(t) : u[i] = t[i]
      BY <1>2, <2>2, AppendIndex
    <3>2. \A i \in 1 .. Len(u) : i \in 1 .. Len(t) \/ i = Len(t) + 1
      BY <3>1
    <3> QED
      BY <2>2, <3>1, <3>2
  <2> QED
    BY <2>1, <2>2
<1>8. OneHandle'
  <2>1. CASE u = t
    BY <1>3, <2>1 DEF OneHandle
  <2>2. CASE /\ u = Append(t, h)
             /\ \A i \in 1 .. Len(t) : ~SameTask(t[i], h)
    BY <1>2, <1>3, <2>2, AppendDistinct DEF OneHandle
  <2> QED
    BY <2>1, <2>2
<1>9. HandlesAgree'
  <2> SUFFICES ASSUME NEW i \in 1 .. Len(u)
               PROVE  HandleState(runq[i])'
    BY DEF HandlesAgree
  <2>1. CASE i \in 1 .. Len(t) /\ u[i] = t[i]
    <3>1. PICK g \in Handle : g = t[i]
      BY <1>4, <2>1
    <3>2. HandleState(g)' /\ u[i] = g
      BY <1>5, <2>1, <3>1
    <3> QED
      BY <3>2
  <2>2. CASE u[i] = h /\ HandleState(h)'
    BY <2>2
  <2> QED
    BY <1>7, <2>1, <2>2
<1>10. DrainHasNoLiveStep'
  <2> SUFFICES ASSUME phase' = "draining", ~queues, NEW i \in 1 .. todo'
               PROVE  ~LiveStep(runq[i])'
    BY DEF DrainHasNoLiveStep
  <2>1. phase = "draining" /\ todo > 0
    BY DEF Runs, QueueInv, QueuesWhileConnected
  <2>2. todo' = todo - 1 /\ todo \in Nat
    BY <2>1 DEF BatchLeft, TypeOK
  <2>3. i \in 1 .. Len(t) /\ i + 1 \in 1 .. todo
    BY <1>2, <1>6, <2>2
  <2>4. u[i] = t[i] /\ t[i] = runq[i + 1]
    BY <1>2, <1>6, <1>7, <2>3
  <2>5. ~LiveStep(t[i])
    BY <2>1, <2>3, <2>4 DEF QueueInv, DrainHasNoLiveStep
  <2>6. PICK g \in Handle : g = t[i]
    BY <1>4, <2>3
  <2>7. ~LiveStep(g)' /\ u[i] = g
    BY <1>5, <2>3, <2>4, <2>5, <2>6
  <2> QED
    BY <2>7
<1> QED
  BY <1>8, <1>9, <1>10

-----------------------------------------------------------------------------
(***************************************************************************)
(* The queues exist whenever the event loop uses them                      *)
(***************************************************************************)

LEMMA QueueInit == Init => QueueInv
BY DEF Init, QueueInv, OneHandle, Distinct, HandlesAgree, NotYetScheduled,
   QueuesWhileConnected, DrainHasNoLiveStep

\* A call's steps: only scheduling touches the event loop.
LEMMA QueueCall ==
  ASSUME TypeOK, QueueInv, NEW m \in Messages, Call(m)
  PROVE  QueueInv'
<1> USE DEF flags, channel, futures, batch, monitoring, calls, consumer, wire
<1>1. CASE CallBegins(m) \/ PutMessageWaits(m)
  <2>1. /\ UNCHANGED <<runq, putTask, get, todo, phase, queues>>
        /\ \A n \in Messages :
             pc'[n] \in {"idle", "refused", "checked", "registered", "passed",
                         "granted"}
               => pc[n] \in {"idle", "refused", "checked", "registered",
                             "passed", "granted"}
    BY <1>1 DEF CallBegins, PutMessageWaits, TypeOK
  <2>2. \A g \in Handle : Respects(g)
    BY <2>1 DEF Respects, HandleState, LiveStep
  <2>3. OneHandle' /\ HandlesAgree' /\ DrainHasNoLiveStep'
    BY <2>1, <2>2, QuietStep
  <2> QED
    BY <2>1, <2>3 DEF QueueInv, NotYetScheduled, QueuesWhileConnected
<1>2. CASE PutMessageChecks(m)
  <2>1. UNCHANGED <<runq, get, todo, phase, queues>>
    BY <1>2 DEF PutMessageChecks
  <2>2. putTask[m] = "none"
    BY <1>2 DEF PutMessageChecks, QueueInv, NotYetScheduled
  <2>3. /\ pc' = [pc EXCEPT ![m] = pc'[m]]
        /\ putTask' = [putTask EXCEPT ![m] = putTask'[m]]
        /\ \/ pc'[m] = "passed" /\ putTask'[m] = "none"
           \/ pc'[m] = "returned" /\ putTask'[m] = "dropped"
    BY <1>2, <2>2 DEF PutMessageChecks, TypeOK
  <2>4. \A g \in Handle : Respects(g)
    BY <2>1, <2>2, <2>3 DEF Respects, HandleState, LiveStep, TypeOK, PutOps
  <2>5. OneHandle' /\ HandlesAgree' /\ DrainHasNoLiveStep'
    BY <2>1, <2>4, QuietStep
  <2>6. NotYetScheduled'
    BY <2>3 DEF QueueInv, NotYetScheduled, TypeOK
  <2> QED
    BY <2>1, <2>5, <2>6 DEF QueueInv, QueuesWhileConnected
<1>3. CASE PutMessageSchedules(m)
  <2> DEFINE h == <<"put", m>>
  <2>1. UNCHANGED <<get, todo, phase, queues>> /\ runq' = Append(runq, h)
    BY <1>3 DEF PutMessageSchedules
  <2>2. putTask[m] = "none"
    BY <1>3 DEF PutMessageSchedules, QueueInv, NotYetScheduled
  <2>3. /\ putTask' = [putTask EXCEPT ![m] = "scheduled"]
        /\ pc' = [pc EXCEPT ![m] = "returned"]
    BY <1>3 DEF PutMessageSchedules
  <2>4. h \in Handle /\ HandleState(h)'
    BY <2>3, HandleType DEF HandleState, TypeOK
  <2>5. \A g \in Handle : HandleState(g) => ~SameTask(g, h)
    BY <2>2 DEF HandleState, SameTask, PutOps, GetOps, Handle
  <2>6. \A i \in 1 .. Len(runq) : ~SameTask(runq[i], h)
    <3>1. runq \in Seq(Handle)
      BY DEF TypeOK
    <3> QED
      BY <2>5, <3>1 DEF QueueInv, HandlesAgree
  <2>7. \A g \in Handle : Respects(g)
    BY <2>1, <2>2, <2>3 DEF Respects, HandleState, LiveStep, TypeOK, PutOps
  <2>8. OneHandle' /\ HandlesAgree' /\ DrainHasNoLiveStep'
    <3> HIDE DEF h
    <3> QED
      BY <2>1, <2>4, <2>6, <2>7, AppendStep
  <2>9. NotYetScheduled'
    BY <2>3 DEF QueueInv, NotYetScheduled, TypeOK
  <2> QED
    BY <2>1, <2>8, <2>9 DEF QueueInv, QueuesWhileConnected
<1> QED
  BY <1>1, <1>2, <1>3 DEF Call

\* The application's other steps.
LEMMA QueueApp ==
  ASSUME TypeOK, QueueInv, Receive \/ Close
  PROVE  QueueInv'
<1> USE DEF flags, channel, futures, batch, monitoring, calls, consumer, wire
<1>1. CASE Receive
  <2> DEFINE h == <<"get", NoMessage>>
  <2>1. /\ UNCHANGED <<putTask, pc, todo, phase, queues>>
        /\ runq' = Append(runq, h)
        /\ get \in {"idle", "item", "cancelled"} /\ get' = "scheduled"
    BY <1>1 DEF Receive
  <2>2. h \in Handle /\ HandleState(h)'
    BY <2>1, HandleType DEF HandleState, PutOps
  <2>3. \A g \in Handle : HandleState(g) => ~SameTask(g, h)
    BY <2>1 DEF HandleState, SameTask, PutOps, GetOps, Handle
  <2>4. \A i \in 1 .. Len(runq) : ~SameTask(runq[i], h)
    <3>1. runq \in Seq(Handle)
      BY DEF TypeOK
    <3> QED
      BY <2>3, <3>1 DEF QueueInv, HandlesAgree
  <2>5. \A g \in Handle : Respects(g)
    BY <2>1 DEF Respects, HandleState, LiveStep
  <2>6. OneHandle' /\ HandlesAgree' /\ DrainHasNoLiveStep'
    <3> HIDE DEF h
    <3> QED
      BY <2>1, <2>2, <2>4, <2>5, AppendStep
  <2> QED
    BY <2>1, <2>6 DEF QueueInv, NotYetScheduled, QueuesWhileConnected
<1>2. CASE Close
  <2> DEFINE c == <<"cancel", NoMessage>>
             d == <<"done", NoMessage>>
             q == Append(runq, c)
  <2>1. /\ UNCHANGED <<putTask, pc, get, todo, phase, queues>>
        /\ runq' = Append(q, d)
    BY <1>2 DEF Close
  <2>2. c \in Handle /\ d \in Handle
    BY HandleType
  <2>3. \A g \in Handle : ~SameTask(g, c) /\ ~SameTask(g, d)
    BY DEF SameTask, PutOps, GetOps
  <2>4. HandleState(c)' /\ HandleState(d)'
    BY DEF HandleState, PutOps
  <2>5. /\ runq \in Seq(Handle) /\ q \in Seq(Handle)
        /\ todo \in Nat /\ todo <= Len(runq)
    BY <2>2 DEF TypeOK
  <2> HIDE DEF c, d
  <2>6. /\ Len(q) = Len(runq) + 1 /\ Len(runq) \in Nat /\ q[Len(runq) + 1] = c
        /\ \A i \in 1 .. Len(runq) : q[i] = runq[i]
    BY <2>2, <2>5, AppendIndex
  <2>7. Distinct(q)
    <3>1. \A i \in 1 .. Len(runq) : ~SameTask(runq[i], c)
      BY <2>3, <2>5
    <3> QED
      BY <2>2, <2>5, <3>1, AppendDistinct DEF QueueInv, OneHandle
  <2> HIDE DEF q
  <2>8. /\ Len(runq') = Len(q) + 1 /\ runq'[Len(q) + 1] = d
        /\ \A i \in 1 .. Len(q) : runq'[i] = q[i]
    BY <2>1, <2>2, <2>5, AppendIndex
  <2>9. OneHandle'
    <3>1. \A i \in 1 .. Len(q) : ~SameTask(q[i], d)
      BY <2>3, <2>5
    <3> QED
      BY <2>1, <2>2, <2>5, <2>7, <3>1, AppendDistinct DEF OneHandle
  <2>10. ASSUME NEW g \in Handle
         PROVE  (HandleState(g) => HandleState(g)') /\ (LiveStep(g)' => LiveStep(g))
    BY <2>1 DEF HandleState, LiveStep
  <2>11. HandlesAgree'
    <3> SUFFICES ASSUME NEW i \in 1 .. Len(runq')
                 PROVE  HandleState(runq[i])'
      BY DEF HandlesAgree
    <3>1. CASE i \in 1 .. Len(runq)
      <4>1. PICK g \in Handle : g = runq[i] /\ HandleState(g)
        BY <2>5, <3>1 DEF QueueInv, HandlesAgree
      <4>2. HandleState(g)' /\ runq'[i] = g
        BY <2>6, <2>8, <2>10, <3>1, <4>1
      <4> QED
        BY <4>2
    <3>2. CASE i = Len(runq) + 1
      <4>1. i \in 1 .. Len(q) /\ runq'[i] = c
        BY <2>6, <2>8, <3>2
      <4> QED
        BY <2>4, <4>1 DEF c
    <3>3. CASE i = Len(q) + 1
      <4>1. runq'[i] = d
        BY <2>8, <3>3
      <4> QED
        BY <2>4, <4>1 DEF d
    <3> QED
      BY <2>6, <2>8, <3>1, <3>2, <3>3
  <2>12. DrainHasNoLiveStep'
    <3> SUFFICES ASSUME phase = "draining", ~queues, NEW i \in 1 .. todo
                 PROVE  ~LiveStep(runq[i])'
      BY <2>1 DEF DrainHasNoLiveStep
    <3>1. i \in 1 .. Len(runq)
      BY <2>5, <2>6
    <3>2. PICK g \in Handle : g = runq[i] /\ ~LiveStep(g)
      BY <2>5, <3>1 DEF QueueInv, DrainHasNoLiveStep
    <3>3. ~LiveStep(g)' /\ runq'[i] = g
      BY <2>6, <2>8, <2>10, <3>1, <3>2
    <3> QED
      BY <3>3
  <2> QED
    BY <2>1, <2>9, <2>11, <2>12
    DEF QueueInv, NotYetScheduled, QueuesWhileConnected
<1> QED
  BY <1>1, <1>2

\* run(), the futures, the users of the queues and the outside world leave the
\* handles alone.
LEMMA QueueQuiet ==
  ASSUME TypeOK, QueueInv,
         \/ \E c \in Sends : Future(c)
         \/ Run \/ GetItem \/ SendMessage \/ Validator \/ LinkBreaks
         \/ \E m \in Messages \cup Requests : ReceiveMessage(m) \/ Lose(m)
  PROVE  QueueInv'
<1> USE DEF flags, channel, futures, batch, monitoring, calls, consumer, wire
<1>1. UNCHANGED <<runq, putTask, todo>>
  BY DEF Future, FuturesPut, Result, ResultTimesOut, Run, Connect, ConnectFails,
     RunForever, LoopStops, GetItem, SendMessage, Validator, Deliver, Ask,
     LinkBreaks, ReceiveMessage, Lose
<1>2. get' = get \/ (get = "waiting" /\ get' = "item")
  BY DEF Future, FuturesPut, Result, ResultTimesOut, Run, Connect, ConnectFails,
     RunForever, LoopStops, GetItem, SendMessage, Validator, Deliver, Ask,
     LinkBreaks, ReceiveMessage, Lose
<1>3. \A g \in Handle : Respects(g)
  BY <1>1, <1>2 DEF Respects, HandleState, LiveStep
<1>4. CASE Run
  <2>1. /\ pc' = pc
        /\ \/ queues' /\ phase' \in {"starting", "running"}
           \/ phase' \in {"connecting", "dead"}
    BY <1>4 DEF Run, Connect, ConnectFails, RunForever, LoopStops, QueueInv,
       QueuesWhileConnected
  <2>2. QueuesWhileConnected' /\ (queues' \/ phase' \in {"connecting", "dead"})
    BY <2>1 DEF QueuesWhileConnected
  <2>3. OneHandle' /\ HandlesAgree' /\ DrainHasNoLiveStep'
    <3>1. CASE queues'
      BY <1>1, <1>3, <3>1, QuietStep
    <3>2. CASE ~queues'
      <4>1. ~queues' /\ phase' \in {"connecting", "dead"}
        BY <2>2, <3>2
      <4> QED
        BY <1>1, <1>3, <4>1, QuietStep
    <3> QED
      BY <3>1, <3>2
  <2> QED
    BY <1>1, <2>1, <2>2, <2>3 DEF QueueInv, NotYetScheduled
<1>5. CASE ~Run
  <2>1. UNCHANGED <<phase, queues>>
    BY <1>5 DEF Future, FuturesPut, Result, ResultTimesOut, GetItem, SendMessage,
       Validator, Deliver, Ask, LinkBreaks, ReceiveMessage, Lose
  <2>2. OneHandle' /\ HandlesAgree' /\ DrainHasNoLiveStep'
    BY <1>1, <1>3, <2>1, QuietStep
  <2>3. \A m \in Messages :
          pc'[m] \in {"idle", "refused", "checked", "registered", "passed",
                      "granted"}
            => pc[m] \in {"idle", "refused", "checked", "registered", "passed",
                          "granted"}
    BY <1>5 DEF Future, FuturesPut, Result, ResultTimesOut, GetItem, SendMessage,
       Validator, Deliver, Ask, LinkBreaks, ReceiveMessage, Lose, TypeOK, Messages
  <2> QED
    BY <1>1, <2>1, <2>2, <2>3 DEF QueueInv, NotYetScheduled, QueuesWhileConnected
<1> QED
  BY <1>4, <1>5

\* The monitor: the queues are dropped once no live step is left.
LEMMA QueueMonitor ==
  ASSUME TypeOK, QueueInv, Monitor
  PROVE  QueueInv'
<1> USE DEF flags, channel, futures, batch, monitoring, calls, consumer, wire
<1>1. CASE StopLoop
  <2>1. /\ UNCHANGED <<todo, pc>> /\ phase' = "draining"
        /\ putTask' = [m \in Messages |->
             IF putTask[m] = "created" THEN "cancelled" ELSE putTask[m]]
        /\ get' = IF get \in {"created", "waiting"} THEN "cancelling" ELSE get
    BY <1>1 DEF StopLoop, CancelPutTasks
  <2>2. \A g \in Handle : HandleState(g) => HandleState(g)'
    BY <2>1 DEF HandleState, PutOps
  <2>3. \A g \in Handle : HandleState(g) => ~LiveStep(g)'
    <3>1. ASSUME NEW g \in Handle, HandleState(g), LiveStep(g)'
          PROVE  FALSE
      <4>1. CASE g[1] = "putStep"
        <5>1. g[2] \in Messages
          BY <3>1, <4>1 DEF HandleState, PutOps
        <5>2. putTask'[g[2]] # "created"
          BY <2>1, <5>1
        <5> QED
          BY <3>1, <4>1, <5>2 DEF LiveStep
      <4>2. CASE g[1] # "putStep"
        BY <2>1, <3>1, <4>2 DEF LiveStep
      <4> QED
        BY <4>1, <4>2
    <3> QED
      BY <3>1
  <2>4. NotYetScheduled' /\ QueuesWhileConnected'
    BY <2>1 DEF QueueInv, NotYetScheduled, QueuesWhileConnected
  <2>5. CASE get = "waiting"
    <3> DEFINE h == <<"getCancel", NoMessage>>
    <3>1. runq' = Append(runq, h) /\ h \in Handle
      BY <1>1, <2>5, HandleType DEF StopLoop
    <3>2. HandleState(h)'
      BY <2>1, <2>5 DEF HandleState, PutOps
    <3>3. \A g \in Handle : HandleState(g) => ~SameTask(g, h)
      BY <2>5 DEF HandleState, SameTask, PutOps, GetOps
    <3>4. \A i \in 1 .. Len(runq) : ~SameTask(runq[i], h)
      <4>1. runq \in Seq(Handle)
        BY DEF TypeOK
      <4> QED
        BY <3>3, <4>1 DEF QueueInv, HandlesAgree
    <3> HIDE DEF h
    <3>5. \A g \in Handle : Respects(g)
      BY <2>2, <2>3 DEF Respects
    <3>6. OneHandle' /\ HandlesAgree' /\ DrainHasNoLiveStep'
      BY <2>1, <2>3, <3>1, <3>2, <3>4, <3>5, AppendStep
    <3> QED
      BY <2>4, <3>6 DEF QueueInv
  <2>6. CASE get # "waiting"
    <3>1. runq' = runq
      BY <1>1, <2>6 DEF StopLoop
    <3>2. \A g \in Handle : Respects(g)
      BY <2>2, <2>3 DEF Respects
    <3>3. OneHandle' /\ HandlesAgree' /\ DrainHasNoLiveStep'
      BY <2>1, <2>3, <3>1, <3>2, QuietStep
    <3> QED
      BY <2>4, <3>3 DEF QueueInv
  <2> QED
    BY <2>5, <2>6
<1>2. ASSUME \/ MonitorClears \/ SweepBegins \/ SweepFails
             \/ \E c \in Sends : SweepNext(c)
      PROVE  QueueInv'
  <2>1. /\ UNCHANGED <<runq, putTask, get, pc, queues>>
        /\ phase \in {"running", "cleared", "sweeping"}
        /\ phase' \in {"running", "cleared", "sweeping"}
    BY <1>2 DEF MonitorClears, SweepBegins, SweepFails, SweepNext
  <2>2. queues /\ queues'
    BY <2>1 DEF QueueInv, QueuesWhileConnected
  <2>3. \A g \in Handle : Respects(g)
    BY <2>1 DEF Respects, HandleState, LiveStep
  <2>4. OneHandle' /\ HandlesAgree' /\ DrainHasNoLiveStep'
    BY <2>1, <2>2, <2>3, QuietStep
  <2> QED
    BY <2>1, <2>2, <2>4 DEF QueueInv, NotYetScheduled, QueuesWhileConnected
<1> QED
  BY <1>1, <1>2 DEF Monitor

\* Running a handle.
LEMMA QueueCallback ==
  ASSUME TypeOK, QueueInv, Callback
  PROVE  QueueInv'
<1> USE DEF flags, channel, futures, batch, monitoring, calls, consumer, wire
<1>a. \A op \in {"putStep", "getStep", "getCancel", "stop"} :
        \A m \in Messages \cup {NoMessage} : <<op, m>> \in Handle
  BY HandleType
\* The handle at the head has the state of its task, and no other handle does.
<1>b. ASSUME NEW op, NEW m, Runs(op, m)
      PROVE  /\ HandleState(<<op, m>>)
             /\ Tail(runq) \in Seq(Handle)
             /\ \A i \in 1 .. Len(Tail(runq)) :
                  ~SameTask(Tail(runq)[i], <<op, m>>)
  <2>1. runq \in Seq(Handle) /\ runq # <<>> /\ Head(runq) = <<op, m>>
    BY <1>b DEF TypeOK, Runs
  <2>2. Len(runq) \in Nat \ {0} /\ Head(runq) = runq[1]
    BY <2>1, TailIndex
  <2>3. 1 \in 1 .. Len(runq)
    BY <2>2
  <2> QED
    BY <2>1, <2>2, <2>3, TailIndex, TailDistinct
    DEF QueueInv, OneHandle, HandlesAgree
<1>1. ASSUME NEW m \in Messages, PutCallback(m)
      PROVE  QueueInv'
  <2> DEFINE h == <<"putStep", m>>
  <2>1. /\ Runs("put", m) /\ todo' = BatchLeft
        /\ UNCHANGED <<get, pc, phase, queues>>
        /\ runq' = Append(Tail(runq), h) /\ h \in Handle
        /\ putTask' = [putTask EXCEPT ![m] = "created"]
    BY <1>1, <1>a DEF PutCallback
  <2>2. putTask[m] = "scheduled"
    BY <1>b, <2>1 DEF HandleState
  <2>3. HandleState(h)'
    BY <2>1 DEF HandleState, TypeOK
  <2>4. \A i \in 1 .. Len(Tail(runq)) : ~SameTask(Tail(runq)[i], h)
    BY <1>b, <2>1 DEF SameTask, PutOps, GetOps
  <2>5. \A g \in Handle : ~SameTask(g, <<"put", m>>) => Respects(g)
    BY <2>1 DEF SameTask, Respects, HandleState, LiveStep, PutOps, TypeOK
  <2>6. NotYetScheduled'
    BY <2>1, <2>2 DEF QueueInv, NotYetScheduled, TypeOK
  <2> HIDE DEF h
  <2>7. OneHandle' /\ HandlesAgree' /\ DrainHasNoLiveStep'
    BY <2>1, <2>3, <2>4, <2>5, RunStep
  <2> QED
    BY <2>1, <2>6, <2>7 DEF QueueInv, QueuesWhileConnected
<1>2. ASSUME NEW m \in Messages, PutStep(m)
      PROVE  QueueInv'
  <2>1. /\ Runs("putStep", m) /\ todo' = BatchLeft
        /\ UNCHANGED <<get, pc, phase, queues>>
        /\ runq' = Tail(runq)
        /\ putTask[m] \in {"created", "cancelled"}
        /\ putTask' = [putTask EXCEPT ![m] = putTask'[m]]
        /\ \A n \in Messages \ {m} : putTask'[n] = putTask[n]
    BY <1>2 DEF PutStep, TypeOK
  <2>2. \A g \in Handle : ~SameTask(g, <<"putStep", m>>) => Respects(g)
    BY <2>1 DEF SameTask, Respects, HandleState, LiveStep, PutOps, TypeOK
  <2>3. OneHandle' /\ HandlesAgree' /\ DrainHasNoLiveStep'
    BY <1>a, <2>1, <2>2, RunStep
  <2>4. NotYetScheduled'
    BY <2>1 DEF QueueInv, NotYetScheduled, TypeOK
  <2> QED
    BY <2>1, <2>3, <2>4 DEF QueueInv, QueuesWhileConnected
<1>3. CASE GetCallback
  <2> DEFINE h == <<"getStep", NoMessage>>
  <2>1. /\ Runs("get", NoMessage) /\ todo' = BatchLeft
        /\ UNCHANGED <<putTask, pc, phase, queues>>
        /\ runq' = Append(Tail(runq), h) /\ h \in Handle
        /\ get' = "created"
    BY <1>3, <1>a DEF GetCallback
  <2>2. HandleState(h)'
    BY <2>1 DEF HandleState, PutOps
  <2>3. \A i \in 1 .. Len(Tail(runq)) : ~SameTask(Tail(runq)[i], h)
    BY <1>b, <2>1 DEF SameTask, PutOps, GetOps
  <2>4. \A g \in Handle : ~SameTask(g, <<"get", NoMessage>>) => Respects(g)
    BY <2>1 DEF SameTask, Respects, HandleState, LiveStep, PutOps, GetOps
  <2> HIDE DEF h
  <2>5. OneHandle' /\ HandlesAgree' /\ DrainHasNoLiveStep'
    BY <2>1, <2>2, <2>3, <2>4, RunStep
  <2> QED
    BY <2>1, <2>5 DEF QueueInv, NotYetScheduled, QueuesWhileConnected
<1>4. CASE GetStep
  <2> DEFINE h == <<"getCancel", NoMessage>>
  <2>1. /\ Runs("getStep", NoMessage) /\ todo' = BatchLeft
        /\ UNCHANGED <<putTask, pc, phase, queues>> /\ h \in Handle
        /\ \/ runq' = Tail(runq)
           \/ runq' = Append(Tail(runq), h) /\ get' = "cancelling"
    BY <1>4, <1>a DEF GetStep
  <2>2. get' = "cancelling" => HandleState(h)'
    BY <2>1 DEF HandleState, PutOps
  <2>3. \A i \in 1 .. Len(Tail(runq)) : ~SameTask(Tail(runq)[i], h)
    BY <1>b, <2>1 DEF SameTask, PutOps, GetOps
  <2>4. \A g \in Handle : ~SameTask(g, <<"getStep", NoMessage>>) => Respects(g)
    BY <2>1 DEF SameTask, Respects, HandleState, LiveStep, PutOps, GetOps
  <2> HIDE DEF h
  <2>5. OneHandle' /\ HandlesAgree' /\ DrainHasNoLiveStep'
    BY <2>1, <2>2, <2>3, <2>4, RunStep
  <2> QED
    BY <2>1, <2>5 DEF QueueInv, NotYetScheduled, QueuesWhileConnected
<1>5. CASE GetCancelled
  <2>1. /\ Runs("getCancel", NoMessage) /\ todo' = BatchLeft
        /\ UNCHANGED <<putTask, pc, phase, queues>>
        /\ runq' = Tail(runq)
    BY <1>5 DEF GetCancelled
  <2>2. \A g \in Handle : ~SameTask(g, <<"getCancel", NoMessage>>) => Respects(g)
    BY <2>1 DEF SameTask, Respects, HandleState, LiveStep, PutOps, GetOps
  <2>3. OneHandle' /\ HandlesAgree' /\ DrainHasNoLiveStep'
    BY <1>a, <2>1, <2>2, RunStep
  <2> QED
    BY <2>1, <2>3 DEF QueueInv, NotYetScheduled, QueuesWhileConnected
<1>6. CASE CancelTasks
  <2> DEFINE h == <<"getCancel", NoMessage>>
  <2>1. /\ Runs("cancel", NoMessage) /\ todo' = BatchLeft
        /\ UNCHANGED <<pc, phase, queues>> /\ h \in Handle
        /\ putTask' = [m \in Messages |->
             IF putTask[m] = "created" THEN "cancelled" ELSE putTask[m]]
        /\ \/ runq' = Tail(runq)
              /\ (get' = get \/ (get = "created" /\ get' = "cancelling"))
           \/ runq' = Append(Tail(runq), h)
              /\ get = "waiting" /\ get' = "cancelling"
    BY <1>6, <1>a DEF CancelTasks, CancelPutTasks
  <2>2. get' = "cancelling" => HandleState(h)'
    BY <2>1 DEF HandleState, PutOps
  <2>3. get = "waiting" =>
          \A i \in 1 .. Len(Tail(runq)) : ~SameTask(Tail(runq)[i], h)
    <3>1. \A g \in Handle : get = "waiting" /\ HandleState(g) => ~SameTask(g, h)
      BY DEF HandleState, SameTask, PutOps, GetOps
    <3>2. runq \in Seq(Handle) /\ runq # <<>>
      BY <2>1 DEF TypeOK, Runs
    <3>3. \A i \in 1 .. Len(Tail(runq)) :
            /\ Tail(runq)[i] = runq[i + 1] /\ i + 1 \in 1 .. Len(runq)
            /\ Tail(runq)[i] \in Handle
      BY <3>2, TailIndex
    <3> QED
      BY <3>1, <3>3 DEF QueueInv, HandlesAgree
  <2>4. \A g \in Handle : ~SameTask(g, <<"cancel", NoMessage>>) => Respects(g)
    BY <2>1 DEF Respects, HandleState, LiveStep, PutOps
  <2>5. NotYetScheduled'
    BY <2>1 DEF QueueInv, NotYetScheduled
  <2> HIDE DEF h
  <2>6. OneHandle' /\ HandlesAgree' /\ DrainHasNoLiveStep'
    BY <2>1, <2>2, <2>3, <2>4, RunStep
  <2> QED
    BY <2>1, <2>5, <2>6 DEF QueueInv, QueuesWhileConnected
<1>7. CASE DoneCallback
  <2> DEFINE h == <<"stop", NoMessage>>
  <2>1. /\ Runs("done", NoMessage) /\ todo' = BatchLeft
        /\ UNCHANGED <<putTask, get, pc, phase, queues>>
        /\ runq' = Append(Tail(runq), h) /\ h \in Handle
    BY <1>7, <1>a DEF DoneCallback
  <2>2. HandleState(h)'
    BY DEF HandleState, PutOps
  <2>3. \A i \in 1 .. Len(Tail(runq)) : ~SameTask(Tail(runq)[i], h)
    BY DEF SameTask, PutOps, GetOps
  <2>4. \A g \in Handle : Respects(g)
    BY <2>1 DEF Respects, HandleState, LiveStep
  <2> HIDE DEF h
  <2>5. OneHandle' /\ HandlesAgree' /\ DrainHasNoLiveStep'
    BY <2>1, <2>2, <2>3, <2>4, RunStep
  <2> QED
    BY <2>1, <2>5 DEF QueueInv, NotYetScheduled, QueuesWhileConnected
<1>8. CASE StopHandle
  <2>1. /\ Runs("stop", NoMessage) /\ todo' = BatchLeft
        /\ UNCHANGED <<putTask, get, pc, queues>>
        /\ runq' = Tail(runq) /\ phase' = "draining"
    BY <1>8 DEF StopHandle
  <2>2. \A g \in Handle : Respects(g)
    BY <2>1 DEF Respects, HandleState, LiveStep
  <2>3. OneHandle' /\ HandlesAgree' /\ DrainHasNoLiveStep'
    BY <1>a, <2>1, <2>2, RunStep
  <2> QED
    BY <2>1, <2>3 DEF QueueInv, NotYetScheduled, QueuesWhileConnected
<1> QED
  BY <1>1, <1>2, <1>3, <1>4, <1>5, <1>6, <1>7, <1>8 DEF Callback

LEMMA QueueStep ==
  ASSUME TypeOK, QueueInv, [Next]_vars
  PROVE  QueueInv'
<1>1. CASE UNCHANGED vars
  BY <1>1 DEF vars, channel, batch, calls, consumer, QueueInv, OneHandle,
     HandlesAgree, HandleState, NotYetScheduled, QueuesWhileConnected, DrainHasNoLiveStep,
     LiveStep
<1> QED
  BY <1>1, QueueCall, QueueQuiet, QueueApp, QueueCallback, QueueMonitor DEF Next

\* The handles and the states of their tasks agree, and what is left of a batch
\* after a disconnect has no step that would use the queues that were dropped.
THEOREM HandlesCorrect == Spec => []QueueInv
<1>1. Init => QueueInv
  BY QueueInit
<1>2. TypeOK /\ QueueInv /\ [Next]_vars => QueueInv'
  BY QueueStep
<1> QED
  BY <1>1, <1>2, TypeCorrect, PTL DEF Spec

\* The event loop never meets a queue that is None: neither does _put_message
\* raise, nor does _get_message block the loop's own thread.
THEOREM LoopNeverBlocks == Spec => []QueuesLive
<1>1. TypeOK /\ QueueInv => QueuesLive
  <2> SUFFICES ASSUME TypeOK, QueueInv, NEW op, NEW m, Runs(op, m),
                      LiveStep(<<op, m>>)
               PROVE  queues
    BY DEF QueuesLive, LiveStep
  <2>1. CASE phase = "running"
    BY <2>1 DEF QueueInv, QueuesWhileConnected
  <2>2. CASE phase = "draining" /\ todo > 0
    <3>1. 1 \in 1 .. todo /\ runq[1] = <<op, m>>
      BY <2>2, TailIndex DEF TypeOK, Runs
    <3> QED
      BY <2>2, <3>1 DEF QueueInv, DrainHasNoLiveStep
  <2> QED
    BY <2>1, <2>2 DEF Runs
<1> QED
  BY <1>1, TypeCorrect, HandlesCorrect, PTL

-----------------------------------------------------------------------------
(***************************************************************************)
(* The journey of a message                                                *)
(***************************************************************************)
In(q, m) == \E i \in 1 .. Len(q) : q[i] = m
OnceEach(q) == \A i, j \in 1 .. Len(q) : q[i] = q[j] => i = j

\* Where a call is before its future is in the table.
Unsent == {"idle", "refused", "checked"}

\* A message is in at most one place, where its task has put it; a call that has
\* begun has its future in the table until its answer came, and no longer.
Journey(m) ==
  /\ In(sendQ, m) \/ m \in out \cup in => putTask[m] = "queued"
  /\ m \notin out \/ m \notin in
  /\ In(sendQ, m) => m \notin out \cup in
  /\ m \in Sends =>
       /\ pc[m] \in Unsent => m \notin table /\ res[m] = "none"
       /\ pc[m] \notin Unsent /\ m \notin table =>
            /\ res[m] = "response" /\ putTask[m] = "queued"
            /\ m \notin out \cup in /\ ~In(sendQ, m)
       /\ m \in table => res[m] # "response"

JourneyInv == OnceEach(sendQ) /\ \A m \in Messages : Journey(m)

\* The members of a queue after Append and after Tail.
LEMMA InAppend ==
  ASSUME NEW S, NEW q \in Seq(S), NEW h \in S
  PROVE  /\ \A m : In(Append(q, h), m) <=> In(q, m) \/ m = h
         /\ OnceEach(q) /\ ~In(q, h) => OnceEach(Append(q, h))
<1> DEFINE a == Append(q, h)
<1>1. /\ Len(a) = Len(q) + 1 /\ Len(q) \in Nat /\ a[Len(q) + 1] = h
      /\ \A i \in 1 .. Len(q) : a[i] = q[i]
  BY AppendIndex
<1>2. \A i \in 1 .. Len(a) : i \in 1 .. Len(q) \/ i = Len(q) + 1
  BY <1>1
<1>3. \A i \in 1 .. Len(q) : i \in 1 .. Len(a)
  BY <1>1
<1>4. Len(q) + 1 \in 1 .. Len(a)
  BY <1>1
<1> HIDE DEF a
<1>5. \A m : In(a, m) <=> In(q, m) \/ m = h
  BY <1>1, <1>2, <1>3, <1>4 DEF In
<1>6. ASSUME OnceEach(q), ~In(q, h) PROVE OnceEach(a)
  <2> SUFFICES ASSUME NEW i \in 1 .. Len(a), NEW j \in 1 .. Len(a), a[i] = a[j]
               PROVE  i = j
    BY DEF OnceEach
  <2>1. CASE i \in 1 .. Len(q) /\ j \in 1 .. Len(q)
    BY <1>1, <1>6, <2>1 DEF OnceEach
  <2>2. CASE i \in 1 .. Len(q) /\ j = Len(q) + 1
    BY <1>1, <1>6, <2>2 DEF In
  <2>3. CASE i = Len(q) + 1 /\ j \in 1 .. Len(q)
    BY <1>1, <1>6, <2>3 DEF In
  <2> QED
    BY <1>2, <2>1, <2>2, <2>3
<1> QED
  BY <1>5, <1>6 DEF a

LEMMA InTail ==
  ASSUME NEW S, NEW q \in Seq(S), q # <<>>, OnceEach(q)
  PROVE  /\ Head(q) \in S /\ In(q, Head(q))
         /\ \A m : In(Tail(q), m) <=> In(q, m) /\ m # Head(q)
         /\ OnceEach(Tail(q))
<1> DEFINE t == Tail(q)
<1>1. /\ Len(t) = Len(q) - 1 /\ Len(q) \in Nat \ {0} /\ Head(q) = q[1]
      /\ \A i \in 1 .. Len(t) : t[i] = q[i + 1] /\ i + 1 \in 2 .. Len(q)
  BY TailIndex
<1>2. 1 \in 1 .. Len(q) /\ Head(q) \in S
  BY <1>1
<1>3. \A i \in 1 .. Len(q) : i # 1 => i - 1 \in 1 .. Len(t) /\ t[i - 1] = q[i]
  <2> SUFFICES ASSUME NEW i \in 1 .. Len(q), i # 1
               PROVE  i - 1 \in 1 .. Len(t) /\ t[i - 1] = q[i]
    OBVIOUS
  <2> HIDE DEF t
  <2>1. i - 1 \in 1 .. Len(t) /\ (i - 1) + 1 = i
    BY <1>1
  <2> QED
    BY <1>1, <2>1
<1> HIDE DEF t
<1>4. \A i \in 1 .. Len(t) : i + 1 \in 1 .. Len(q) /\ i + 1 # 1 /\ t[i] = q[i + 1]
  BY <1>1
<1>5. \A m : In(t, m) <=> In(q, m) /\ m # Head(q)
  <2>1. ASSUME NEW m, In(t, m) PROVE In(q, m) /\ m # Head(q)
    BY <1>1, <1>2, <1>4, <2>1 DEF In, OnceEach
  <2>2. ASSUME NEW m, In(q, m), m # Head(q) PROVE In(t, m)
    BY <1>1, <1>3, <2>2 DEF In
  <2> QED
    BY <2>1, <2>2
<1>6. OnceEach(t)
  <2> SUFFICES ASSUME NEW i \in 1 .. Len(t), NEW j \in 1 .. Len(t), t[i] = t[j]
               PROVE  i = j
    BY DEF OnceEach
  <2>1. i + 1 = j + 1
    BY <1>4 DEF OnceEach
  <2> QED
    BY <2>1
<1>7. In(q, Head(q))
  BY <1>1, <1>2 DEF In
<1> QED
  BY <1>2, <1>5, <1>6, <1>7 DEF t

LEMMA InEmpty == OnceEach(<<>>) /\ \A m : ~In(<<>>, m)
BY DEF OnceEach, In

LEMMA JourneyInit == Init => JourneyInv
BY InEmpty DEF Init, JourneyInv, Journey, Unsent, Messages

\* A step that leaves the messages and the calls alone.
LEMMA JourneyStill ==
  ASSUME JourneyInv, UNCHANGED <<sendQ, out, table, res, pc, putTask>>,
         \A m \in Messages : m \in in' <=> m \in in
  PROVE  JourneyInv'
BY DEF JourneyInv, Journey

\* The steps of a call.
LEMMA JourneyCall ==
  ASSUME TypeOK, QueueInv, JourneyInv, NEW m \in Messages, Call(m)
  PROVE  JourneyInv'
<1> USE DEF flags, channel, futures, batch, monitoring, calls, consumer, wire
<1>1. UNCHANGED <<sendQ, out, in, table, res>>
  BY DEF Call, CallBegins, PutMessageChecks, PutMessageWaits, PutMessageSchedules
<1>2. \A n \in Messages \ {m} : pc'[n] = pc[n] /\ putTask'[n] = putTask[n]
  BY DEF Call, CallBegins, PutMessageChecks, PutMessageWaits, PutMessageSchedules, TypeOK
<1>3. putTask[m] = "none"
  BY DEF Call, CallBegins, PutMessageChecks, PutMessageWaits, PutMessageSchedules,
     QueueInv, NotYetScheduled
<1>4. m \in Sends => (pc[m] \in Unsent <=> pc'[m] \in Unsent)
  BY DEF Call, CallBegins, PutMessageChecks, PutMessageWaits, PutMessageSchedules,
     TypeOK, Unsent
<1>5. \A n \in Messages \ {m} : Journey(n) => Journey(n)'
  BY <1>1, <1>2 DEF Journey
<1>6. Journey(m)'
  <2>1. Journey(m)
    BY DEF JourneyInv
  <2>2. ~In(sendQ, m) /\ m \notin out \cup in
    BY <1>3, <2>1 DEF Journey
  <2>3. m \in Sends /\ pc[m] \notin Unsent => m \in table
    BY <1>3, <2>1 DEF Journey
  <2> QED
    BY <1>1, <1>4, <2>1, <2>2, <2>3 DEF Journey
<1> QED
  BY <1>1, <1>5, <1>6 DEF JourneyInv

\* What happens to the future of a call: it is registered, and looked at.
LEMMA JourneyFuture ==
  ASSUME TypeOK, QueueInv, JourneyInv, NEW c \in Sends, Future(c)
  PROVE  JourneyInv'
<1> USE DEF flags, channel, futures, batch, monitoring, calls, consumer, wire
<1>1. UNCHANGED <<sendQ, out, in, res, putTask>>
  BY DEF Future, FuturesPut, Result, ResultTimesOut
<1>2. c \in Messages /\ \A n \in Messages \ {c} : pc'[n] = pc[n] /\ (n \in table' <=> n \in table)
  BY DEF Future, FuturesPut, Result, ResultTimesOut, TypeOK, Messages
<1>3. \A n \in Messages \ {c} : Journey(n) => Journey(n)'
  BY <1>1, <1>2 DEF Journey
<1>4. Journey(c)'
  <2>1. Journey(c)
    BY <1>2 DEF JourneyInv
  <2>2. CASE FuturesPut(c)
    <3>1. pc'[c] = "registered" /\ c \in table' /\ pc[c] = "checked"
      BY <1>2, <2>2 DEF FuturesPut, TypeOK
    <3> QED
      BY <1>1, <2>1, <3>1 DEF Journey, Unsent
  <2>3. CASE Result(c) \/ ResultTimesOut(c)
    <3>1. /\ table' = table /\ pc[c] = "returned"
          /\ pc'[c] \in {"answered", "failed", "timedout"}
      BY <1>2, <2>3 DEF Result, ResultTimesOut, TypeOK
    <3> QED
      BY <1>1, <2>1, <3>1 DEF Journey, Unsent
  <2> QED
    BY <2>2, <2>3 DEF Future
<1> QED
  BY <1>1, <1>2, <1>3, <1>4 DEF JourneyInv

\* The tasks of the event loop.
LEMMA JourneyCallback ==
  ASSUME TypeOK, QueueInv, JourneyInv, Callback
  PROVE  JourneyInv'
<1> USE DEF flags, channel, futures, batch, monitoring, calls, consumer, wire
<1>1. ASSUME NEW op, NEW m, Runs(op, m) PROVE HandleState(<<op, m>>)
  <2>1. runq \in Seq(Handle) /\ runq # <<>> /\ Head(runq) = <<op, m>>
    BY <1>1 DEF TypeOK, Runs
  <2>2. Len(runq) \in Nat \ {0} /\ Head(runq) = runq[1]
    BY <2>1, TailIndex
  <2>3. 1 \in 1 .. Len(runq)
    BY <2>2
  <2> QED
    BY <2>1, <2>2, <2>3 DEF QueueInv, HandlesAgree
<1>2. ASSUME NEW m \in Messages, PutCallback(m) PROVE JourneyInv'
  <2>1. putTask[m] = "scheduled"
    BY <1>1, <1>2 DEF PutCallback, HandleState
  <2>2. /\ UNCHANGED <<sendQ, out, in, table, res, pc>>
        /\ putTask'[m] = "created"
        /\ \A n \in Messages \ {m} : putTask'[n] = putTask[n]
    BY <1>2 DEF PutCallback, TypeOK
  <2>3. \A n \in Messages \ {m} : Journey(n) => Journey(n)'
    BY <2>2 DEF Journey
  <2>4. Journey(m) => Journey(m)'
    BY <2>1, <2>2 DEF Journey
  <2> QED
    BY <2>2, <2>3, <2>4 DEF JourneyInv
<1>3. ASSUME NEW m \in Messages, PutStep(m) PROVE JourneyInv'
  <2>1. CASE UNCHANGED <<sendQ, putTask>>
    BY <1>3, <2>1, JourneyStill DEF PutStep
  <2>2. CASE /\ putTask[m] = "created"
             /\ sendQ' = Append(sendQ, m)
             /\ putTask' = [putTask EXCEPT ![m] = "queued"]
    <3>1. UNCHANGED <<out, in, table, res, pc>>
      BY <1>3 DEF PutStep
    <3>2. putTask'[m] = "queued" /\ \A n \in Messages \ {m} : putTask'[n] = putTask[n]
      BY <2>2 DEF TypeOK
    <3>3. Journey(m) /\ ~In(sendQ, m) /\ m \notin out \cup in
      BY <2>2 DEF JourneyInv, Journey
    <3>4. sendQ \in Seq(Messages)
      BY DEF TypeOK
    <3>5. OnceEach(sendQ') /\ \A n : In(sendQ', n) <=> In(sendQ, n) \/ n = m
      BY <2>2, <3>3, <3>4, InAppend DEF JourneyInv
    <3>6. \A n \in Messages \ {m} : Journey(n) => Journey(n)'
      BY <3>1, <3>2, <3>5 DEF Journey
    <3>7. Journey(m)'
      <4>1. m \in Sends /\ pc[m] \notin Unsent => m \in table
        BY <2>2, <3>3 DEF Journey
      <4> QED
        BY <3>1, <3>2, <3>3, <4>1 DEF Journey
    <3> QED
      BY <3>5, <3>6, <3>7 DEF JourneyInv
  <2> QED
    BY <1>3, <2>1, <2>2 DEF PutStep
<1>4. CASE CancelTasks
  <2>1. /\ UNCHANGED <<sendQ, out, in, table, res, pc>>
        /\ \A n \in Messages : (putTask'[n] = "queued" <=> putTask[n] = "queued")
    BY <1>4 DEF CancelTasks, CancelPutTasks
  <2> QED
    BY <2>1 DEF JourneyInv, Journey
<1>5. CASE GetCallback \/ GetStep \/ GetCancelled \/ DoneCallback \/ StopHandle
  BY <1>5, JourneyStill DEF GetCallback, GetStep, GetCancelled, DoneCallback, StopHandle
<1> QED
  BY <1>2, <1>3, <1>4, <1>5 DEF Callback

LEMMA JourneyMonitor ==
  ASSUME TypeOK, JourneyInv, Monitor
  PROVE  JourneyInv'
<1> USE DEF flags, channel, futures, batch, monitoring, calls, consumer, wire
<1>1. CASE MonitorClears \/ SweepBegins \/ SweepFails
  BY <1>1, JourneyStill DEF MonitorClears, SweepBegins, SweepFails
<1>2. ASSUME NEW c \in Sends, SweepNext(c) PROVE JourneyInv'
  <2>1. /\ UNCHANGED <<sendQ, out, in, table, pc, putTask>>
        /\ c \in table /\ res' = [res EXCEPT ![c] = "error"]
    BY <1>2 DEF SweepNext, TypeOK
  <2>2. res'[c] = "error" /\ \A n \in Sends \ {c} : res'[n] = res[n]
    BY <2>1 DEF TypeOK
  <2>3. \A n \in Messages : Journey(n) => Journey(n)'
    BY <2>1, <2>2 DEF Journey
  <2> QED
    BY <2>1, <2>3 DEF JourneyInv
<1>3. CASE StopLoop
  <2>1. /\ UNCHANGED <<out, in, table, res, pc>> /\ sendQ' = <<>>
        /\ \A n \in Messages : (putTask'[n] = "queued" <=> putTask[n] = "queued")
    BY <1>3 DEF StopLoop, CancelPutTasks
  <2>2. \A n \in Messages : Journey(n) => Journey(n)'
    BY <2>1, InEmpty DEF Journey
  <2> QED
    BY <2>1, <2>2, InEmpty DEF JourneyInv
<1> QED
  BY <1>1, <1>2, <1>3 DEF Monitor

\* The queue to the socket and the connection.
LEMMA JourneyTransport ==
  ASSUME TypeOK, QueueInv, JourneyInv,
         \/ GetItem \/ SendMessage \/ Validator \/ LinkBreaks
         \/ \E m \in Messages \cup Requests : ReceiveMessage(m) \/ Lose(m)
  PROVE  JourneyInv'
<1> USE DEF flags, channel, futures, batch, monitoring, calls, consumer, wire
<1>1. CASE GetItem \/ LinkBreaks
  BY <1>1, JourneyStill DEF GetItem, LinkBreaks
<1>2. CASE SendMessage
  <2>1. /\ UNCHANGED <<in, table, res, pc, putTask>> /\ sendQ # <<>>
        /\ out' = out \cup {Head(sendQ)} /\ sendQ' = Tail(sendQ)
    BY <1>2 DEF SendMessage
  <2>2. sendQ \in Seq(Messages) /\ OnceEach(sendQ)
    BY DEF TypeOK, JourneyInv
  <2>3. /\ In(sendQ, Head(sendQ)) /\ OnceEach(sendQ')
        /\ \A n : In(sendQ', n) <=> In(sendQ, n) /\ n # Head(sendQ)
    BY <2>1, <2>2, InTail
  <2>4. \A n \in Messages : Journey(n) => Journey(n)'
    BY <2>1, <2>3 DEF Journey
  <2> QED
    BY <2>3, <2>4 DEF JourneyInv
<1>3. ASSUME NEW m \in Messages \cup Requests, ReceiveMessage(m) PROVE JourneyInv'
  <2>1. /\ UNCHANGED <<sendQ, out, pc, putTask>> /\ m \in in /\ in' = in \ {m}
        /\ \/ m \in table /\ res' = [res EXCEPT ![m] = "response"] /\ table' = table \ {m}
           \/ m \notin table /\ UNCHANGED <<res, table>>
    BY <1>3 DEF ReceiveMessage
  <2>2. \A n \in Sends \ {m} : res'[n] = res[n] /\ (n \in table' <=> n \in table)
    BY <2>1 DEF TypeOK
  <2>3. \A n \in Messages \ {m} : Journey(n) => Journey(n)'
    BY <2>1, <2>2 DEF Journey
  <2>4. ASSUME m \in Messages, Journey(m) PROVE Journey(m)'
    <3>1. putTask[m] = "queued" /\ m \notin out /\ ~In(sendQ, m)
      BY <2>1, <2>4 DEF Journey
    <3>2. m \in Sends => m \in table /\ pc[m] \notin Unsent
      BY <2>1, <2>4, <3>1 DEF Journey, QueueInv, NotYetScheduled, Unsent
    <3>3. m \in Sends => m \notin table' /\ res'[m] = "response"
      BY <2>1, <3>2 DEF TypeOK
    <3> QED
      BY <2>1, <3>1, <3>2, <3>3 DEF Journey
  <2> QED
    BY <2>1, <2>3, <2>4 DEF JourneyInv
<1>4. ASSUME NEW m \in Messages \cup Requests, Lose(m) PROVE JourneyInv'
  <2>1. /\ UNCHANGED <<sendQ, table, res, pc, putTask>>
        /\ out' = out \ {m} /\ in' = in \ {m}
    BY <1>4 DEF Lose
  <2> QED
    BY <2>1 DEF JourneyInv, Journey
<1>5. ASSUME NEW m \in Messages, Deliver(m) PROVE JourneyInv'
  <2>1. /\ UNCHANGED <<sendQ, table, res, pc, putTask>>
        /\ m \in out /\ out' = out \ {m} /\ in' \in {in, in \cup {m}}
    BY <1>5 DEF Deliver
  <2>2. \A n \in Messages : Journey(n) => Journey(n)'
    BY <2>1 DEF Journey
  <2> QED
    BY <2>1, <2>2 DEF JourneyInv
<1>6. ASSUME NEW r \in Requests, Ask(r) PROVE JourneyInv'
  <2>1. /\ UNCHANGED <<sendQ, out, table, res, pc, putTask>>
        /\ \A m \in Messages : m \in in' <=> m \in in
    BY <1>6, StreamAssumption DEF Ask, Messages
  <2> QED
    BY <2>1, JourneyStill
<1> QED
  BY <1>1, <1>2, <1>3, <1>4, <1>5, <1>6 DEF Validator

LEMMA JourneyStep ==
  ASSUME TypeOK, QueueInv, JourneyInv, [Next]_vars
  PROVE  JourneyInv'
<1> USE DEF flags, channel, futures, batch, monitoring, calls, consumer, wire
<1>1. CASE UNCHANGED vars
  BY <1>1, JourneyStill DEF vars
<1>2. CASE Receive \/ Close
  BY <1>2, JourneyStill DEF Receive, Close
<1>3. CASE ConnectFails \/ RunForever \/ LoopStops
  BY <1>3, JourneyStill DEF ConnectFails, RunForever, LoopStops
<1>4. CASE Connect
  <2>1. UNCHANGED <<out, in, table, res, pc, putTask>> /\ sendQ' = <<>>
    BY <1>4 DEF Connect
  <2>2. \A n \in Messages : Journey(n) => Journey(n)'
    BY <2>1, InEmpty DEF Journey
  <2> QED
    BY <2>1, <2>2, InEmpty DEF JourneyInv
<1> QED
  BY <1>1, <1>2, <1>3, <1>4, JourneyCall, JourneyFuture, JourneyCallback, JourneyMonitor,
     JourneyTransport DEF Next, Run

-----------------------------------------------------------------------------
(***************************************************************************)
(* The phases of the background thread                                     *)
(***************************************************************************)

\* The handles that are not of shutdown().
Harmless == (PutOps \cup GetOps) \X (Messages \cup {NoMessage})

OnlyShutdownStops == ~shutdown => runq \in Seq(Harmless)

\* What holds of the ready event, the tasks and the queue of received messages
\* wherever run() and the event loop are.
PhaseInv ==
  /\ phase \in {"running", "cleared", "sweeping", "draining"} => opened
  /\ phase = "running" /\ tasks = "alive" => ready
  /\ phase \in {"cleared", "sweeping"} => ~ready /\ tasks = "alive"
  /\ phase = "draining" /\ ~shutdown =>
       ~ready /\ tasks = "ended" /\ recvQ = <<>> /\ ~queues
  /\ phase = "connecting" =>
       recvQ = <<>> /\ tasks # "failed" /\ (ready <=> ~opened)
  /\ phase = "starting" =>
       /\ tasks = "alive" /\ (ready <=> ~opened)
       /\ recvQ = IF opened THEN <<ReconnectEvent>> ELSE <<>>
  /\ OnlyShutdownStops

\* Before shutdown() only the handles of the tasks run.
LEMMA HarmlessRuns ==
  ASSUME TypeOK, OnlyShutdownStops, NEW op, NEW m, Runs(op, m)
  PROVE  /\ ~shutdown => op \in PutOps \cup GetOps
         /\ ~shutdown => Tail(runq) \in Seq(Harmless)
<1>1. runq # <<>> /\ Head(runq) = <<op, m>>
  BY DEF Runs
<1>2. ASSUME ~shutdown PROVE <<op, m>> \in Harmless /\ Tail(runq) \in Seq(Harmless)
  BY <1>1, <1>2 DEF OnlyShutdownStops
<1> QED
  BY <1>2 DEF Harmless

LEMMA HarmlessStep ==
  ASSUME TypeOK, OnlyShutdownStops, [Next]_vars
  PROVE  OnlyShutdownStops'
<1> USE DEF flags, channel, futures, batch, monitoring, calls, consumer, wire
<1> SUFFICES ASSUME ~shutdown' PROVE runq' \in Seq(Harmless)
  BY DEF OnlyShutdownStops
<1>1. /\ \A op \in PutOps \cup GetOps : \A m \in Messages \cup {NoMessage} :
           <<op, m>> \in Harmless
      /\ {"put", "putStep"} \subseteq PutOps
      /\ {"get", "getStep", "getCancel"} \subseteq GetOps
  BY DEF Harmless, PutOps, GetOps
<1>2. CASE runq' = runq /\ shutdown' = shutdown
  BY <1>2 DEF OnlyShutdownStops
<1>3. ASSUME NEW m \in Messages, PutMessageSchedules(m)
      PROVE  runq' \in Seq(Harmless)
  <2>1. runq \in Seq(Harmless) /\ runq' = Append(runq, <<"put", m>>)
    BY <1>3 DEF PutMessageSchedules, OnlyShutdownStops
  <2>2. <<"put", m>> \in Harmless
    BY <1>1
  <2> QED
    BY <2>1, <2>2
<1>4. CASE Receive
  <2>1. runq \in Seq(Harmless) /\ runq' = Append(runq, <<"get", NoMessage>>)
    BY <1>4 DEF Receive, OnlyShutdownStops
  <2>2. <<"get", NoMessage>> \in Harmless
    BY <1>1
  <2> QED
    BY <2>1, <2>2
<1>5. CASE Close
  BY <1>5 DEF Close
<1>6. CASE StopLoop
  <2>1. runq \in Seq(Harmless)
        /\ runq' \in {runq, Append(runq, <<"getCancel", NoMessage>>)}
    BY <1>6 DEF StopLoop, OnlyShutdownStops
  <2>2. <<"getCancel", NoMessage>> \in Harmless
    BY <1>1
  <2> QED
    BY <2>1, <2>2
<1>7. CASE Callback
  <2>1. ~shutdown
    BY <1>7 DEF Callback, PutCallback, PutStep, GetCallback, GetStep, GetCancelled,
       CancelTasks, DoneCallback, StopHandle
  <2>2. ASSUME NEW m \in Messages, PutCallback(m) \/ PutStep(m)
        PROVE  runq' \in Seq(Harmless)
    <3>1. /\ Runs("put", m) \/ Runs("putStep", m)
          /\ runq' \in {Tail(runq), Append(Tail(runq), <<"putStep", m>>)}
      BY <2>2 DEF PutCallback, PutStep
    <3>2. Tail(runq) \in Seq(Harmless) /\ <<"putStep", m>> \in Harmless
      BY <1>1, <2>1, <3>1, HarmlessRuns
    <3>3. Append(Tail(runq), <<"putStep", m>>) \in Seq(Harmless)
      BY <3>2, AppendIndex
    <3> QED
      BY <3>1, <3>2, <3>3
  <2>3. CASE GetCallback \/ GetStep \/ GetCancelled
    <3>1. /\ \E op \in GetOps : Runs(op, NoMessage)
          /\ runq' \in {Tail(runq), Append(Tail(runq), <<"getStep", NoMessage>>),
                        Append(Tail(runq), <<"getCancel", NoMessage>>)}
      BY <2>3 DEF GetCallback, GetStep, GetCancelled, GetOps
    <3>2. /\ Tail(runq) \in Seq(Harmless)
          /\ <<"getStep", NoMessage>> \in Harmless
          /\ <<"getCancel", NoMessage>> \in Harmless
      BY <1>1, <2>1, <3>1, HarmlessRuns
    <3> QED
      BY <3>1, <3>2
  <2>4. CASE CancelTasks \/ DoneCallback \/ StopHandle
    <3>1. \E op \in {"cancel", "done", "stop"} : Runs(op, NoMessage)
      BY <2>4 DEF CancelTasks, DoneCallback, StopHandle
    <3> QED
      BY <2>1, <3>1, HarmlessRuns DEF PutOps, GetOps
  <2> QED
    BY <1>7, <2>2, <2>3, <2>4 DEF Callback
<1>8. CASE UNCHANGED vars \/ Run \/ GetItem \/ SendMessage \/ Validator \/ LinkBreaks
  BY <1>2, <1>8 DEF vars, Run, Connect, ConnectFails, RunForever, LoopStops, GetItem,
     SendMessage, Validator, Deliver, Ask, LinkBreaks
<1>9. ASSUME NEW m \in Messages \cup Requests, ReceiveMessage(m) \/ Lose(m)
      PROVE  runq' \in Seq(Harmless)
  BY <1>2, <1>9 DEF ReceiveMessage, Lose
<1>10. CASE MonitorClears \/ SweepBegins \/ SweepFails \/ \E c \in Sends : SweepNext(c)
  BY <1>2, <1>10 DEF MonitorClears, SweepBegins, SweepFails, SweepNext
<1>11. ASSUME NEW m \in Messages, Call(m) PROVE runq' \in Seq(Harmless)
  BY <1>2, <1>3, <1>11 DEF Call, CallBegins, PutMessageChecks, PutMessageWaits
<1>12. ASSUME NEW c \in Sends, Future(c) PROVE runq' \in Seq(Harmless)
  BY <1>2, <1>12 DEF Future, FuturesPut, Result, ResultTimesOut
<1> QED
  BY <1>4, <1>5, <1>6, <1>7, <1>8, <1>9, <1>10, <1>11, <1>12 DEF Next, Monitor

LEMMA PhaseInit == Init => PhaseInv
BY DEF Init, PhaseInv, OnlyShutdownStops

LEMMA PhaseStep ==
  ASSUME TypeOK, PhaseInv, [Next]_vars
  PROVE  PhaseInv'
<1> USE DEF flags, channel, futures, batch, monitoring, calls, consumer, wire
<1>1. OnlyShutdownStops'
  BY HarmlessStep DEF PhaseInv
<1>2. CASE UNCHANGED <<phase, tasks, ready, opened, recvQ, queues, shutdown>>
  BY <1>1, <1>2 DEF PhaseInv
<1>3. ASSUME NEW m \in Messages, Call(m) PROVE PhaseInv'
  BY <1>2, <1>3 DEF Call, CallBegins, PutMessageChecks, PutMessageWaits,
     PutMessageSchedules
<1>4. ASSUME NEW c \in Sends, Future(c) PROVE PhaseInv'
  BY <1>2, <1>4 DEF Future, FuturesPut, Result, ResultTimesOut
<1>5. CASE UNCHANGED vars \/ Receive \/ SendMessage \/ Validator \/ LinkBreaks
  BY <1>2, <1>5 DEF vars, Receive, SendMessage, Validator, Deliver, Ask, LinkBreaks
<1>6. CASE Close
  <2>1. shutdown' /\ UNCHANGED <<phase, tasks, ready, opened, recvQ, queues>>
    BY <1>6 DEF Close
  <2> QED
    BY <1>1, <2>1 DEF PhaseInv
<1>7. CASE Run
  <2>1. CASE Connect
    BY <1>1, <2>1 DEF Connect, PhaseInv
  <2>2. CASE ConnectFails
    BY <1>1, <2>2 DEF ConnectFails, PhaseInv
  <2>3. CASE RunForever
    BY <1>1, <2>3 DEF RunForever, PhaseInv
  <2>4. CASE LoopStops
    BY <1>1, <2>4 DEF LoopStops, PhaseInv
  <2> QED
    BY <1>7, <2>1, <2>2, <2>3, <2>4 DEF Run
<1>8. CASE Callback
  <2>1. ASSUME NEW m \in Messages, PutCallback(m) \/ PutStep(m) PROVE PhaseInv'
    BY <1>2, <2>1 DEF PutCallback, PutStep
  <2>2. CASE GetCallback \/ GetStep \/ GetCancelled \/ DoneCallback
    BY <1>2, <2>2 DEF GetCallback, GetStep, GetCancelled, DoneCallback
  <2>3. CASE CancelTasks \/ StopHandle
    <3>1. /\ \E op \in {"cancel", "stop"} : Runs(op, NoMessage)
          /\ phase \in {"running", "draining"} /\ phase' \in {phase, "draining"}
          /\ tasks' # "alive" \/ phase' = "draining"
          /\ UNCHANGED <<ready, opened, recvQ, queues, shutdown>>
      BY <2>3 DEF CancelTasks, StopHandle, Runs
    <3>2. shutdown
      BY <3>1, HarmlessRuns DEF PhaseInv, PutOps, GetOps
    <3> QED
      BY <1>1, <3>1, <3>2 DEF PhaseInv
  <2> QED
    BY <1>8, <2>1, <2>2, <2>3 DEF Callback
<1>9. CASE Monitor
  <2>1. CASE MonitorClears
    BY <1>1, <2>1 DEF MonitorClears, PhaseInv
  <2>2. CASE SweepBegins \/ \E c \in Sends : SweepNext(c)
    BY <1>1, <2>2 DEF SweepBegins, SweepNext, PhaseInv
  <2>3. CASE SweepFails
    BY <1>1, <2>3 DEF SweepFails, PhaseInv
  <2>4. CASE StopLoop
    BY <1>1, <2>4 DEF StopLoop, PhaseInv
  <2> QED
    BY <1>9, <2>1, <2>2, <2>3, <2>4 DEF Monitor
<1>10. CASE GetItem
  BY <1>1, <1>10 DEF GetItem, PhaseInv
<1>11. ASSUME NEW m \in Messages \cup Requests, ReceiveMessage(m) \/ Lose(m)
       PROVE  PhaseInv'
  <2>1. CASE ReceiveMessage(m)
    BY <1>1, <2>1 DEF ReceiveMessage, PhaseInv
  <2>2. CASE Lose(m)
    BY <1>2, <2>2 DEF Lose
  <2> QED
    BY <1>11, <2>1, <2>2
<1> QED
  BY <1>3, <1>4, <1>5, <1>6, <1>7, <1>8, <1>9, <1>10, <1>11 DEF Next

-----------------------------------------------------------------------------
(***************************************************************************)
(* The stranded calls                                                      *)
(***************************************************************************)

\* A call whose message has not reached the queue.
Early(c) ==
  \/ pc[c] \in {"registered", "passed", "granted"}
  \/ putTask[c] \in {"scheduled", "created", "dropped"}

\* Between the sweep and the next connection no unresolved call is further.
LoneCallsEarly ==
  phase \in {"connecting", "starting"} \/ (phase = "draining" /\ ~shutdown) =>
    \A c \in table : res[c] = "none" => Early(c)

\* While the connection is up the message of any other call is under way.
LoneCallsUnderWay ==
  link = "up" /\ tasks = "alive" /\ phase = "running" =>
    \A c \in table :
      res[c] = "none" => Early(c) \/ In(sendQ, c) \/ c \in out \cup in

\* The sweep resolves what it has been over.
SweptResolved ==
  phase = "sweeping" => \A c \in view \ unswept : res[c] # "none"

StrandInv == LoneCallsEarly /\ LoneCallsUnderWay /\ SweptResolved

LEMMA StrandInit == Init => StrandInv
BY DEF Init, StrandInv, LoneCallsEarly, LoneCallsUnderWay, SweptResolved

\* A step that leaves the messages and the calls where they are.
LEMMA StrandStill ==
  ASSUME StrandInv,
         UNCHANGED <<phase, shutdown, tasks, view, unswept, table, res, pc, putTask>>,
         link' = "up" => link = "up" /\ UNCHANGED <<sendQ, out>> /\ in \subseteq in'
  PROVE  StrandInv'
BY DEF StrandInv, LoneCallsEarly, LoneCallsUnderWay, SweptResolved, Early

\* A step of the calls: each registered call keeps its place or takes one.
LEMMA StrandCalls ==
  ASSUME StrandInv,
         UNCHANGED <<phase, shutdown, tasks, view, unswept, res, link, sendQ, out, in>>,
         \A c \in table' : (c \in table /\ (Early(c) => Early(c)')) \/ Early(c)'
  PROVE  StrandInv'
BY DEF StrandInv, LoneCallsEarly, LoneCallsUnderWay, SweptResolved

LEMMA StrandCall ==
  ASSUME TypeOK, QueueInv, JourneyInv, StrandInv, NEW m \in Messages, Call(m)
  PROVE  StrandInv'
<1> USE DEF flags, channel, futures, batch, monitoring, calls, consumer, wire
<1>1. UNCHANGED <<phase, shutdown, tasks, view, unswept, table, res, link, sendQ, out, in>>
  BY DEF Call, CallBegins, PutMessageChecks, PutMessageWaits, PutMessageSchedules
<1>2. \A n \in Messages \ {m} : pc'[n] = pc[n] /\ putTask'[n] = putTask[n]
  BY DEF Call, CallBegins, PutMessageChecks, PutMessageWaits, PutMessageSchedules, TypeOK
<1>3. \A c \in Sends : c \in Messages /\ Journey(c)
  BY DEF Messages, JourneyInv
<1>4. \A c \in table : c # m => (Early(c) => Early(c)')
  BY <1>2, <1>3 DEF Early, TypeOK
<1>5. m \in table => (Early(m) => Early(m)')
  <2> SUFFICES ASSUME m \in table PROVE Early(m) => Early(m)'
    OBVIOUS
  <2>1. m \in Sends /\ pc[m] \notin Unsent
    BY <1>3 DEF TypeOK, Journey
  <2>2. CASE CallBegins(m)
    BY <2>1, <2>2 DEF CallBegins, Unsent
  <2>3. CASE PutMessageChecks(m)
    <3>1. pc'[m] = "passed" \/ putTask'[m] = "dropped"
      BY <2>3 DEF PutMessageChecks, TypeOK
    <3> QED
      BY <3>1 DEF Early
  <2>4. CASE PutMessageWaits(m)
    BY <2>4 DEF PutMessageWaits, TypeOK, Early
  <2>5. CASE PutMessageSchedules(m)
    BY <2>5 DEF PutMessageSchedules, TypeOK, Early
  <2> QED
    BY <2>2, <2>3, <2>4, <2>5 DEF Call
<1> QED
  BY <1>1, <1>4, <1>5, StrandCalls

LEMMA StrandFuture ==
  ASSUME TypeOK, QueueInv, StrandInv, NEW c \in Sends, Future(c)
  PROVE  StrandInv'
<1> USE DEF flags, channel, futures, batch, monitoring, calls, consumer, wire
<1>1. UNCHANGED <<phase, shutdown, tasks, view, unswept, res, link, sendQ, out, in, putTask>>
  BY DEF Future, FuturesPut, Result, ResultTimesOut
<1>2. \A n \in Messages \ {c} : pc'[n] = pc[n]
  BY DEF Future, FuturesPut, Result, ResultTimesOut, TypeOK
<1>3. table \subseteq Messages /\ c \in Messages
  BY DEF TypeOK, Messages
<1>4. \A n \in table : n # c => (Early(n) => Early(n)')
  BY <1>1, <1>2, <1>3 DEF Early
<1>5. CASE FuturesPut(c)
  <2>1. table' = table \cup {c} /\ Early(c)'
    BY <1>3, <1>5 DEF FuturesPut, Early, TypeOK
  <2> QED
    BY <1>1, <1>4, <2>1, StrandCalls
<1>6. CASE Result(c) \/ ResultTimesOut(c)
  <2>1. table' = table /\ pc[c] = "returned"
    BY <1>6 DEF Result, ResultTimesOut
  <2>2. Early(c) => Early(c)'
    BY <1>1, <2>1 DEF Early
  <2> QED
    BY <1>1, <1>4, <2>1, <2>2, StrandCalls
<1> QED
  BY <1>5, <1>6 DEF Future

LEMMA StrandCallback ==
  ASSUME TypeOK, QueueInv, PhaseInv, StrandInv, Callback
  PROVE  StrandInv'
<1> USE DEF flags, channel, futures, batch, monitoring, calls, consumer, wire
<1>1. ASSUME NEW m \in Messages, PutCallback(m) PROVE StrandInv'
  <2>1. /\ UNCHANGED <<phase, shutdown, tasks, view, unswept, table, res, link, sendQ, out,
                       in, pc>>
        /\ putTask' = [putTask EXCEPT ![m] = "created"]
    BY <1>1 DEF PutCallback
  <2>2. \A c \in table : Early(c) => Early(c)'
    BY <2>1 DEF Early, TypeOK, Messages
  <2> QED
    BY <2>1, <2>2, StrandCalls
<1>2. ASSUME NEW m \in Messages, PutStep(m) PROVE StrandInv'
  <2>1. UNCHANGED <<phase, shutdown, tasks, view, unswept, table, res, link, out, in, pc>>
    BY <1>2 DEF PutStep
  <2>2. CASE UNCHANGED <<sendQ, putTask>>
    BY <2>1, <2>2, StrandStill
  <2>3. CASE /\ putTask[m] = "created" /\ queues
             /\ sendQ' = Append(sendQ, m)
             /\ putTask' = [putTask EXCEPT ![m] = "queued"]
    <3>1. phase \in {"running", "draining"} /\ (phase = "draining" => shutdown)
      BY <1>2, <2>3 DEF PutStep, Runs, PhaseInv
    <3>2. \A n : In(sendQ', n) <=> In(sendQ, n) \/ n = m
      BY <2>3, InAppend DEF TypeOK
    <3>3. \A c \in Messages \ {m} : Early(c) => Early(c)'
      BY <2>1, <2>3 DEF Early, TypeOK
    <3>4. table \subseteq Messages
      BY DEF TypeOK, Messages
    <3> QED
      BY <2>1, <3>1, <3>2, <3>3, <3>4
      DEF StrandInv, LoneCallsEarly, LoneCallsUnderWay, SweptResolved
  <2> QED
    BY <1>2, <2>2, <2>3 DEF PutStep
<1>3. CASE GetCallback \/ GetStep \/ GetCancelled \/ DoneCallback
  BY <1>3, StrandStill DEF GetCallback, GetStep, GetCancelled, DoneCallback
<1>4. CASE CancelTasks \/ StopHandle
  <2>1. /\ \E op \in {"cancel", "stop"} : Runs(op, NoMessage)
        /\ phase' \in {"running", "draining"} /\ UNCHANGED shutdown
        /\ tasks' # "alive" \/ phase' = "draining"
    BY <1>4 DEF CancelTasks, StopHandle, Runs
  <2>2. shutdown
    BY <2>1, HarmlessRuns DEF PhaseInv, PutOps, GetOps
  <2> QED
    BY <2>1, <2>2 DEF StrandInv, LoneCallsEarly, LoneCallsUnderWay, SweptResolved
<1> QED
  BY <1>1, <1>2, <1>3, <1>4 DEF Callback

LEMMA StrandMonitor ==
  ASSUME TypeOK, StrandInv, Monitor
  PROVE  StrandInv'
<1> USE DEF flags, channel, futures, batch, monitoring, calls, consumer, wire
<1> USE DEF StrandInv, LoneCallsEarly, LoneCallsUnderWay, SweptResolved
<1>1. CASE MonitorClears
  BY <1>1 DEF MonitorClears
<1>2. CASE SweepBegins
  BY <1>2 DEF SweepBegins
<1>3. CASE SweepFails
  BY <1>3 DEF SweepFails
<1>4. ASSUME NEW c \in Sends, SweepNext(c) PROVE StrandInv'
  <2>1. /\ phase = "sweeping" /\ UNCHANGED <<phase, view>>
        /\ unswept' = unswept \ {c} /\ res' = [res EXCEPT ![c] = "error"]
    BY <1>4 DEF SweepNext
  <2>2. \A n \in Sends : res'[n] = IF n = c THEN "error" ELSE res[n]
    BY <2>1 DEF TypeOK
  <2> QED
    BY <2>1, <2>2 DEF TypeOK
<1>5. CASE StopLoop
  <2>1. /\ phase = "sweeping" /\ table = view /\ unswept = {}
        /\ phase' = "draining" /\ UNCHANGED <<table, res>>
    BY <1>5 DEF StopLoop
  <2> QED
    BY <2>1
<1> QED
  BY <1>1, <1>2, <1>3, <1>4, <1>5 DEF Monitor

LEMMA StrandTransport ==
  ASSUME TypeOK, JourneyInv, StrandInv,
         \/ GetItem \/ SendMessage \/ Validator \/ LinkBreaks
         \/ \E m \in Messages \cup Requests : ReceiveMessage(m) \/ Lose(m)
  PROVE  StrandInv'
<1> USE DEF flags, channel, futures, batch, monitoring, calls, consumer, wire
<1>1. CASE GetItem \/ LinkBreaks
  BY <1>1, StrandStill DEF GetItem, LinkBreaks
<1>2. CASE SendMessage
  <2>1. /\ UNCHANGED <<phase, shutdown, tasks, view, unswept, table, res, link, in, pc,
                       putTask>>
        /\ phase = "running" /\ sendQ # <<>>
        /\ out' = out \cup {Head(sendQ)} /\ sendQ' = Tail(sendQ)
    BY <1>2 DEF SendMessage
  <2>2. \A n : In(sendQ', n) <=> In(sendQ, n) /\ n # Head(sendQ)
    BY <2>1, InTail DEF TypeOK, JourneyInv
  <2> QED
    BY <2>1, <2>2
    DEF StrandInv, LoneCallsEarly, LoneCallsUnderWay, SweptResolved, Early
<1>3. ASSUME NEW m \in Messages \cup Requests, ReceiveMessage(m) PROVE StrandInv'
  <2>1. /\ UNCHANGED <<phase, shutdown, tasks, view, unswept, link, sendQ, out, pc, putTask>>
        /\ phase = "running" /\ in' = in \ {m}
        /\ \/ m \in table /\ res' = [res EXCEPT ![m] = "response"] /\ table' = table \ {m}
           \/ m \notin table /\ UNCHANGED <<res, table>>
    BY <1>3 DEF ReceiveMessage
  <2>2. \A c \in table' : c \in table /\ c # m /\ res'[c] = res[c]
    BY <2>1 DEF TypeOK
  <2> QED
    BY <2>1, <2>2
    DEF StrandInv, LoneCallsEarly, LoneCallsUnderWay, SweptResolved, Early
<1>4. ASSUME NEW m \in Messages \cup Requests, Lose(m) PROVE StrandInv'
  BY <1>4, StrandStill DEF Lose
<1>5. ASSUME NEW m \in Messages, Deliver(m) PROVE StrandInv'
  <2>1. /\ UNCHANGED <<phase, shutdown, tasks, view, unswept, table, res, link, sendQ, pc,
                       putTask>>
        /\ out' = out \ {m} /\ in' = IF m \in Sends THEN in \cup {m} ELSE in
    BY <1>5 DEF Deliver
  <2>2. table \subseteq Sends
    BY DEF TypeOK
  <2> QED
    BY <2>1, <2>2
    DEF StrandInv, LoneCallsEarly, LoneCallsUnderWay, SweptResolved, Early
<1>6. ASSUME NEW r \in Requests, Ask(r) PROVE StrandInv'
  BY <1>6, StrandStill DEF Ask
<1> QED
  BY <1>1, <1>2, <1>3, <1>4, <1>5, <1>6 DEF Validator

LEMMA StrandStep ==
  ASSUME TypeOK, QueueInv, JourneyInv, PhaseInv, StrandInv, [Next]_vars
  PROVE  StrandInv'
<1> USE DEF flags, channel, futures, batch, monitoring, calls, consumer, wire
<1>1. CASE UNCHANGED vars \/ Receive
  BY <1>1, StrandStill DEF vars, Receive
<1>2. CASE Close
  BY <1>2
  DEF Close, StrandInv, LoneCallsEarly, LoneCallsUnderWay, SweptResolved, Early
<1>3. CASE Run
  BY <1>3
  DEF Run, Connect, ConnectFails, RunForever, LoopStops, StrandInv, LoneCallsEarly,
      LoneCallsUnderWay, SweptResolved, Early
<1> QED
  BY <1>1, <1>2, <1>3, StrandCall, StrandFuture, StrandCallback, StrandMonitor,
     StrandTransport DEF Next

-----------------------------------------------------------------------------
(***************************************************************************)
(* The consumer of receive()                                               *)
(***************************************************************************)

\* What the validator's requests and the reconnection put into the queue.
Events == Requests \cup {ReconnectEvent}

OnlyEvents == recvQ \in Seq(Events) /\ got \in Events \cup {NoMessage}

LEMMA EventsStep ==
  ASSUME TypeOK, QueueInv, JourneyInv, OnlyEvents, [Next]_vars
  PROVE  OnlyEvents'
<1> USE DEF flags, channel, futures, batch, monitoring, calls, consumer, wire
<1>1. CASE UNCHANGED <<recvQ, got>>
  BY <1>1 DEF OnlyEvents
<1>2. CASE Receive
  BY <1>2 DEF Receive, OnlyEvents
<1>3. CASE Connect
  <2>1. <<ReconnectEvent>> \in Seq(Events)
    BY DEF Events
  <2> QED
    BY <1>3, <2>1 DEF Connect, OnlyEvents
<1>4. CASE StopLoop
  BY <1>4 DEF StopLoop, OnlyEvents
<1>5. CASE GetItem
  <2>1. Head(recvQ) \in Events /\ Tail(recvQ) \in Seq(Events)
    BY <1>5 DEF GetItem, OnlyEvents
  <2> QED
    BY <1>5, <2>1 DEF GetItem, OnlyEvents
<1>6. ASSUME NEW m \in Messages \cup Requests, ReceiveMessage(m) PROVE OnlyEvents'
  <2>1. got' = got /\ m \in in /\ (recvQ' = recvQ \/ (m \notin table /\ recvQ' = Append(recvQ, m)))
    BY <1>6 DEF ReceiveMessage
  <2>2. ASSUME m \in Messages, m \notin table PROVE FALSE
    <3>1. m \in Sends /\ putTask[m] = "queued"
      BY <2>1, <2>2, StreamAssumption DEF TypeOK, Messages, JourneyInv, Journey
    <3>2. pc[m] \notin Unsent
      BY <3>1, <2>2 DEF QueueInv, NotYetScheduled, Unsent
    <3> QED
      BY <2>1, <2>2, <3>1, <3>2 DEF JourneyInv, Journey
  <2>3. m \notin table => Append(recvQ, m) \in Seq(Events)
    <3>1. m \notin table => m \in Events
      BY <2>2 DEF Events
    <3> QED
      BY <3>1, AppendIndex DEF OnlyEvents
  <2> QED
    BY <2>1, <2>3 DEF OnlyEvents
<1>7. ASSUME NEW m \in Messages, Call(m) PROVE OnlyEvents'
  BY <1>1, <1>7 DEF Call, CallBegins, PutMessageChecks, PutMessageWaits,
     PutMessageSchedules
<1>8. ASSUME NEW c \in Sends, Future(c) PROVE OnlyEvents'
  BY <1>1, <1>8 DEF Future, FuturesPut, Result, ResultTimesOut
<1>9. CASE UNCHANGED vars \/ Close \/ ConnectFails \/ RunForever \/ LoopStops \/ SendMessage
           \/ Validator \/ LinkBreaks
  BY <1>1, <1>9 DEF vars, Close, ConnectFails, RunForever, LoopStops, SendMessage,
     Validator, Deliver, Ask, LinkBreaks
<1>10. CASE Callback
  BY <1>1, <1>10 DEF Callback, PutCallback, PutStep, GetCallback, GetStep, GetCancelled,
     CancelTasks, DoneCallback, StopHandle
<1>11. CASE MonitorClears \/ SweepBegins \/ SweepFails \/ \E c \in Sends : SweepNext(c)
  BY <1>1, <1>11 DEF MonitorClears, SweepBegins, SweepFails, SweepNext
<1>12. ASSUME NEW m \in Messages \cup Requests, Lose(m) PROVE OnlyEvents'
  BY <1>1, <1>12 DEF Lose
<1> QED
  BY <1>2, <1>3, <1>4, <1>5, <1>6, <1>7, <1>8, <1>9, <1>10, <1>11, <1>12
  DEF Next, Run, Monitor

\* Until the consumer has taken it, the reconnect event is at the head.
LEMMA ReconnectStep ==
  ASSUME TypeOK, ReconnectFirst, [Next]_vars
  PROVE  ReconnectFirst'
<1> USE DEF flags, channel, futures, batch, monitoring, calls, consumer, wire
<1>1. CASE UNCHANGED <<recvQ, queues, announced>>
  BY <1>1 DEF ReconnectFirst
<1>2. CASE Connect
  <2>1. <<ReconnectEvent>> # <<>> /\ Head(<<ReconnectEvent>>) = ReconnectEvent
    OBVIOUS
  <2> QED
    BY <1>2, <2>1 DEF Connect, ReconnectFirst
<1>3. CASE StopLoop
  BY <1>3 DEF StopLoop, ReconnectFirst
<1>4. CASE GetItem
  BY <1>4 DEF GetItem, ReconnectFirst
<1>5. ASSUME NEW m \in Messages \cup Requests, ReceiveMessage(m) PROVE ReconnectFirst'
  <2>1. /\ UNCHANGED <<queues, announced>>
        /\ recvQ' = recvQ \/ recvQ' = Append(recvQ, m)
    BY <1>5 DEF ReceiveMessage
  <2>2. recvQ \in Seq(Items) /\ m \in Items
    BY DEF TypeOK, Items
  <2>3. recvQ # <<>> => Append(recvQ, m) # <<>> /\ Head(Append(recvQ, m)) = Head(recvQ)
    BY <2>2
  <2> QED
    BY <2>1, <2>3 DEF ReconnectFirst
<1>6. ASSUME NEW m \in Messages, Call(m) PROVE ReconnectFirst'
  BY <1>1, <1>6 DEF Call, CallBegins, PutMessageChecks, PutMessageWaits,
     PutMessageSchedules
<1>7. ASSUME NEW c \in Sends, Future(c) PROVE ReconnectFirst'
  BY <1>1, <1>7 DEF Future, FuturesPut, Result, ResultTimesOut
<1>8. CASE UNCHANGED vars \/ Receive \/ Close \/ ConnectFails \/ RunForever \/ LoopStops
           \/ SendMessage \/ Validator \/ LinkBreaks
  BY <1>1, <1>8 DEF vars, Receive, Close, ConnectFails, RunForever, LoopStops,
     SendMessage, Validator, Deliver, Ask, LinkBreaks
<1>9. CASE Callback
  BY <1>1, <1>9 DEF Callback, PutCallback, PutStep, GetCallback, GetStep, GetCancelled,
     CancelTasks, DoneCallback, StopHandle
<1>10. CASE MonitorClears \/ SweepBegins \/ SweepFails \/ \E c \in Sends : SweepNext(c)
  BY <1>1, <1>10 DEF MonitorClears, SweepBegins, SweepFails, SweepNext
<1>11. ASSUME NEW m \in Messages \cup Requests, Lose(m) PROVE ReconnectFirst'
  BY <1>1, <1>11 DEF Lose
<1> QED
  BY <1>2, <1>3, <1>4, <1>5, <1>6, <1>7, <1>8, <1>9, <1>10, <1>11 DEF Next, Run, Monitor

-----------------------------------------------------------------------------
(***************************************************************************)
(* The theorems about calls and the consumer                               *)
(***************************************************************************)
StreamInv ==
  /\ TypeOK /\ QueueInv /\ JourneyInv /\ PhaseInv /\ StrandInv
  /\ OnlyEvents /\ ReconnectFirst

LEMMA StreamInvInit == Init => StreamInv
<1>1. Init => OnlyEvents /\ ReconnectFirst
  BY DEF Init, OnlyEvents, ReconnectFirst
<1> QED
  BY <1>1, InitType, QueueInit, JourneyInit, PhaseInit, StrandInit DEF StreamInv

LEMMA StreamInvStep == StreamInv /\ [Next]_vars => StreamInv'
BY StepType, QueueStep, JourneyStep, PhaseStep, StrandStep, EventsStep, ReconnectStep
DEF StreamInv

\* What every interleaving of the calls, the event loop, disconnects and close()
\* preserves: handles and tasks agree, a message is in one place at most, an
\* unresolved call is early or under way, and the queue of received messages is
\* of one connection.
THEOREM StreamCorrect == Spec => []StreamInv
BY StreamInvInit, StreamInvStep, PTL DEF Spec

\* Late answers to calls that a disconnect has failed, or whose caller gave up,
\* never reach the consumer of receive() as requests of the validator.
THEOREM AnswersKeptApart == Spec => []AnswersAreNotRequests
<1>1. StreamInv => AnswersAreNotRequests
  <2> SUFFICES ASSUME StreamInv PROVE AnswersAreNotRequests
    OBVIOUS
  <2>1. recvQ \in Seq(Events) /\ got \in Events \cup {NoMessage}
    BY DEF StreamInv, OnlyEvents
  <2>2. \A e \in Events \cup {NoMessage} : e \notin Messages
    BY StreamAssumption DEF Events, Messages
  <2> QED
    BY <2>1, <2>2 DEF AnswersAreNotRequests
<1> QED
  BY <1>1, StreamCorrect, PTL

\* On every connection but the first the consumer takes the reconnect event
\* before any request that came with it.
THEOREM ReconnectIsFirst == Spec => []ReconnectFirst
<1>1. StreamInv => ReconnectFirst
  BY DEF StreamInv
<1> QED
  BY <1>1, StreamCorrect, PTL

\* A disconnect strands no call, wherever it falls between the steps of send()
\* and _put_message, but those put_message dropped.
THEOREM OnlyDroppedStranded == Spec => []StrandedOnlyWhenDropped
<1>1. StreamInv => StrandedOnlyWhenDropped
  BY DEF StreamInv, StrandInv, LoneCallsUnderWay, StrandedOnlyWhenDropped, UnderWay,
     Early, In
<1> QED
  BY <1>1, StreamCorrect, PTL

\* The loop is stopped only when every registered future is resolved, those
\* registered during the sweep included.
THEOREM SweepCompletes == Spec => SweepIsComplete
<1>1. StreamInv /\ [Next]_vars =>
        (phase = "sweeping" /\ phase' = "draining" => \A c \in table : res[c] # "none")
  <2> SUFFICES ASSUME StreamInv, [Next]_vars, phase = "sweeping", phase' = "draining",
                      NEW c \in table
               PROVE  res[c] # "none"
    OBVIOUS
  <2>1. StopLoop
    <3> USE DEF flags, channel, futures, batch, monitoring, calls, consumer, wire
    <3>1. ~UNCHANGED vars /\ Next
      BY DEF vars
    <3>2. ~(Receive \/ Close \/ Run \/ GetItem \/ SendMessage \/ Validator \/ LinkBreaks)
      BY DEF Receive, Close, Run, Connect, ConnectFails, RunForever, LoopStops, GetItem,
         SendMessage, Validator, Deliver, Ask, LinkBreaks
    <3>3. /\ \A m \in Messages : ~Call(m)
          /\ \A n \in Sends : ~Future(n)
          /\ \A m \in Messages \cup Requests : ~(ReceiveMessage(m) \/ Lose(m))
      BY DEF Call, CallBegins, PutMessageChecks, PutMessageWaits, PutMessageSchedules,
         Future, FuturesPut, Result, ResultTimesOut, ReceiveMessage, Lose
    <3>4. ~Callback
      BY DEF Callback, PutCallback, PutStep, GetCallback, GetStep, GetCancelled,
         CancelTasks, DoneCallback, StopHandle, Runs
    <3>5. ~(MonitorClears \/ SweepBegins \/ SweepFails \/ \E n \in Sends : SweepNext(n))
      BY DEF MonitorClears, SweepBegins, SweepFails, SweepNext
    <3> QED
      BY <3>1, <3>2, <3>3, <3>4, <3>5 DEF Next, Monitor
  <2>2. table = view /\ unswept = {}
    BY <2>1 DEF StopLoop
  <2> QED
    BY <2>2 DEF StreamInv, StrandInv, SweptResolved
<1> QED
  BY <1>1, StreamCorrect, PTL DEF Spec, SweepIsComplete

\* No later disconnect replaces an answer by its error, because an answered call
\* has left the table the sweep goes over.
THEOREM AnswersStay == Spec => AnswerKept
<1>1. StreamInv /\ [Next]_vars =>
        \A c \in Sends : res[c] = "response" => res'[c] = "response"
  <2> USE DEF flags, channel, futures, batch, monitoring, calls, consumer, wire
  <2> SUFFICES ASSUME StreamInv, [Next]_vars
               PROVE  \A c \in Sends : res[c] = "response" => res'[c] = "response"
    OBVIOUS
  <2>1. CASE UNCHANGED res
    BY <2>1
  <2>2. ASSUME NEW m \in Messages \cup Requests, ReceiveMessage(m) \/ Lose(m)
        PROVE  \A c \in Sends : res[c] = "response" => res'[c] = "response"
    <3>1. \/ UNCHANGED res
          \/ m \in table /\ res' = [res EXCEPT ![m] = "response"]
      BY <2>2 DEF ReceiveMessage, Lose
    <3> QED
      BY <3>1 DEF StreamInv, TypeOK
  <2>3. ASSUME NEW n \in Sends, SweepNext(n)
        PROVE  \A c \in Sends : res[c] = "response" => res'[c] = "response"
    <3>1. n \in table /\ res' = [res EXCEPT ![n] = "error"]
      BY <2>3 DEF SweepNext, StreamInv, TypeOK
    <3>2. res[n] # "response"
      BY <3>1 DEF StreamInv, JourneyInv, Journey, Messages
    <3> QED
      BY <3>1, <3>2 DEF StreamInv, TypeOK
  <2>4. ASSUME NEW m \in Messages, Call(m) PROVE UNCHANGED res
    BY <2>4 DEF Call, CallBegins, PutMessageChecks, PutMessageWaits, PutMessageSchedules
  <2>5. ASSUME NEW c \in Sends, Future(c) PROVE UNCHANGED res
    BY <2>5 DEF Future, FuturesPut, Result, ResultTimesOut
  <2>6. CASE UNCHANGED vars \/ Receive \/ Close \/ Run \/ GetItem \/ SendMessage
             \/ Validator \/ LinkBreaks
    BY <2>1, <2>6 DEF vars, Receive, Close, Run, Connect, ConnectFails, RunForever,
       LoopStops, GetItem, SendMessage, Validator, Deliver, Ask, LinkBreaks
  <2>7. CASE Callback
    BY <2>1, <2>7 DEF Callback, PutCallback, PutStep, GetCallback, GetStep, GetCancelled,
       CancelTasks, DoneCallback, StopHandle
  <2>8. CASE MonitorClears \/ SweepBegins \/ SweepFails \/ StopLoop
    BY <2>1, <2>8 DEF MonitorClears, SweepBegins, SweepFails, StopLoop
  <2> QED
    BY <2>1, <2>2, <2>3, <2>4, <2>5, <2>6, <2>7, <2>8 DEF Next, Monitor
<1> QED
  BY <1>1, StreamCorrect, PTL DEF Spec, AnswerKept

-----------------------------------------------------------------------------
(***************************************************************************)
(* The refinement of StreamSpec                                            *)
(***************************************************************************)

\* A step of the promise, or one its users cannot tell from none.
PromiseStep ==
  \/ Promise!SpecNext
  \/ UNCHANGED <<connBar, callBar, droppedBar, inboxBar, getBar, got, shutdown>>

\* The slot of one call, and whether its message was dropped.
Slot(c) ==
  IF pc[c] \in {"idle", "refused", "answered", "failed", "timedout"} THEN "idle"
  ELSE IF res[c] # "none" THEN res[c]
  ELSE IF pc[c] = "checked" THEN "begun" ELSE "pending"

Dropped(c) == pc[c] = "returned" /\ putTask[c] = "dropped"

\* What a step does to one slot it does to the bars.
LEMMA SlotChanges ==
  ASSUME NEW c \in Sends,
         \A n \in Sends \ {c} : Slot(n)' = Slot(n) /\ (Dropped(n)' <=> Dropped(n))
  PROVE  /\ callBar[c] = Slot(c)
         /\ callBar' = [callBar EXCEPT ![c] = Slot(c)']
         /\ Dropped(c)' => droppedBar' = droppedBar \cup {c}
         /\ ~Dropped(c)' => droppedBar' = droppedBar \ {c}
         /\ c \in droppedBar <=> Dropped(c)
BY DEF callBar, droppedBar, Slot, Dropped

LEMMA SlotsStay ==
  ASSUME \A n \in Sends : Slot(n)' = Slot(n) /\ (Dropped(n)' <=> Dropped(n))
  PROVE  callBar' = callBar /\ droppedBar' = droppedBar
BY DEF callBar, droppedBar, Slot, Dropped

\* Nothing the users of Stream see changes.
LEMMA BarsStay ==
  ASSUME UNCHANGED <<ready, tasks, phase, pc, res, putTask, recvQ, get, got, shutdown>>
  PROVE  PromiseStep
<1>1. \A n \in Sends : Slot(n)' = Slot(n) /\ (Dropped(n)' <=> Dropped(n))
  BY DEF Slot, Dropped
<1>2. UNCHANGED <<connBar, inboxBar, getBar>>
  BY DEF connBar, inboxBar, getBar
<1> QED
  BY <1>1, <1>2, SlotsStay DEF PromiseStep

\* Only a request of the validator is passed to the consumer.
LEMMA NoLateAnswer ==
  ASSUME StreamInv, NEW m \in in, m \notin table
  PROVE  m \in Requests
<1> USE DEF StreamInv
<1> SUFFICES ASSUME m \in Sends PROVE FALSE
  BY DEF TypeOK
<1>1. putTask[m] = "queued" /\ m \in Messages
  BY DEF Messages, JourneyInv, Journey
<1>2. pc[m] \notin Unsent
  BY <1>1 DEF QueueInv, NotYetScheduled, Unsent
<1> QED
  BY <1>1, <1>2 DEF JourneyInv, Journey

LEMMA InitPromise == Init => Promise!SpecInit
<1> SUFFICES ASSUME Init PROVE Promise!SpecInit
  OBVIOUS
<1>1. connBar = "up" /\ inboxBar = <<>> /\ getBar = "idle" /\ got = NoMessage /\ ~shutdown
  BY DEF Init, connBar, inboxBar, getBar
<1>2. callBar = [c \in Sends |-> "idle"] /\ droppedBar = {}
  BY DEF Init, callBar, droppedBar, Messages
<1> QED
  BY <1>1, <1>2 DEF Promise!SpecInit, Init

\* The steps of a call.
LEMMA CallPromise ==
  ASSUME StreamInv, NEW m \in Messages, Call(m)
  PROVE  PromiseStep
<1> USE DEF flags, channel, futures, batch, monitoring, calls, consumer, wire
<1>1. /\ UNCHANGED <<ready, tasks, phase, res, recvQ, get, got, shutdown>>
      /\ \A n \in Messages \ {m} : pc'[n] = pc[n] /\ putTask'[n] = putTask[n]
  BY DEF Call, CallBegins, PutMessageChecks, PutMessageWaits, PutMessageSchedules,
     StreamInv, TypeOK
<1>2. UNCHANGED <<connBar, inboxBar, getBar, got, shutdown>>
  BY <1>1 DEF connBar, inboxBar, getBar
<1>3. \A n \in Sends \ {m} : Slot(n)' = Slot(n) /\ (Dropped(n)' <=> Dropped(n))
  BY <1>1 DEF Slot, Dropped, Messages
<1>4. CASE m \notin Sends
  BY <1>2, <1>3, <1>4, SlotsStay DEF PromiseStep
<1>5. CASE m \in Sends
  <2>1. /\ callBar[m] = Slot(m)
        /\ callBar' = [callBar EXCEPT ![m] = Slot(m)']
        /\ Dropped(m)' => droppedBar' = droppedBar \cup {m}
        /\ ~Dropped(m)' => droppedBar' = droppedBar \ {m}
        /\ m \in droppedBar <=> Dropped(m)
    BY <1>3, <1>5, SlotChanges
  <2>2. Journey(m) /\ putTask[m] = "none"
    BY DEF StreamInv, JourneyInv, QueueInv, NotYetScheduled, Call, CallBegins,
       PutMessageChecks, PutMessageWaits, PutMessageSchedules
  <2>3. CASE Slot(m)' = Slot(m) /\ ~Dropped(m) /\ ~Dropped(m)'
    BY <1>2, <1>3, <2>3, SlotsStay DEF PromiseStep
  <2>4. ~Dropped(m)
    BY <2>2 DEF Dropped
  <2>5. CASE CallBegins(m)
    <3>1. pc[m] = "idle" /\ pc' = [pc EXCEPT ![m] = IF ready THEN "checked" ELSE "refused"]
      BY <2>5 DEF CallBegins
    <3>2. res[m] = "none" /\ Slot(m) = "idle" /\ ~Dropped(m)'
      BY <1>5, <2>2, <3>1 DEF Journey, Unsent, Slot, Dropped, StreamInv, TypeOK
    <3>3. CASE ~ready
      <4>1. Slot(m)' = "idle"
        BY <3>1, <3>3 DEF Slot, StreamInv, TypeOK
      <4> QED
        BY <2>3, <2>4, <3>2, <4>1
    <3>4. CASE ready
      <4>1. Slot(m)' = "begun" /\ connBar = "up"
        BY <1>1, <3>1, <3>2, <3>4 DEF Slot, connBar, StreamInv, TypeOK
      <4>2. droppedBar' = droppedBar
        BY <2>1, <2>4, <3>2
      <4>3. Promise!Begin(m)
        BY <1>2, <2>1, <3>2, <4>1, <4>2 DEF Promise!Begin
      <4> QED
        BY <1>5, <4>3 DEF PromiseStep, Promise!SpecNext
    <3> QED
      BY <3>3, <3>4
  <2>6. CASE PutMessageChecks(m)
    <3>1. pc[m] = "registered"
      BY <1>5, <2>6 DEF PutMessageChecks
    <3>2. CASE ready
      <4>1. pc'[m] = "passed" /\ putTask' = putTask
        BY <2>6, <3>2 DEF PutMessageChecks, StreamInv, TypeOK
      <4>2. Slot(m)' = Slot(m) /\ ~Dropped(m)'
        BY <1>1, <3>1, <4>1 DEF Slot, Dropped
      <4> QED
        BY <2>3, <2>4, <4>2
    <3>3. CASE ~ready
      <4>1. pc'[m] = "returned" /\ putTask'[m] = "dropped"
        BY <2>6, <3>3 DEF PutMessageChecks, StreamInv, TypeOK
      <4>2. Slot(m)' = Slot(m) /\ Dropped(m)'
        BY <1>1, <3>1, <4>1 DEF Slot, Dropped
      <4>3. res[m] \in {"none", "error"}
        BY <1>5, <2>2, <3>1 DEF Journey, Unsent, StreamInv, TypeOK
      <4>4. Slot(m) \in {"pending", "error"} /\ connBar # "up"
        BY <3>1, <3>3, <4>3 DEF Slot, connBar
      <4>5. callBar' = callBar /\ droppedBar' = droppedBar \cup {m}
        BY <2>1, <4>2 DEF callBar
      <4>6. Promise!Drop(m)
        BY <1>2, <2>1, <4>4, <4>5 DEF Promise!Drop
      <4> QED
        BY <1>5, <4>6 DEF PromiseStep, Promise!SpecNext
    <3> QED
      BY <3>2, <3>3
  <2>7. CASE PutMessageWaits(m) \/ PutMessageSchedules(m)
    <3>1. /\ pc[m] \in {"passed", "granted"} /\ pc'[m] \in {"granted", "returned"}
          /\ putTask'[m] # "dropped"
      BY <2>2, <2>7 DEF PutMessageWaits, PutMessageSchedules, StreamInv, TypeOK
    <3>2. Slot(m)' = Slot(m) /\ ~Dropped(m)'
      BY <1>1, <3>1 DEF Slot, Dropped
    <3> QED
      BY <2>3, <2>4, <3>2
  <2> QED
    BY <2>5, <2>6, <2>7 DEF Call
<1> QED
  BY <1>4, <1>5

LEMMA FuturePromise ==
  ASSUME StreamInv, NEW c \in Sends, Future(c)
  PROVE  PromiseStep
<1> USE DEF flags, channel, futures, batch, monitoring, calls, consumer, wire
<1>1. /\ UNCHANGED <<ready, tasks, phase, res, recvQ, get, got, shutdown, putTask>>
      /\ \A n \in Messages \ {c} : pc'[n] = pc[n]
  BY DEF Future, FuturesPut, Result, ResultTimesOut, StreamInv, TypeOK
<1>2. UNCHANGED <<connBar, inboxBar, getBar, got, shutdown>>
  BY <1>1 DEF connBar, inboxBar, getBar
<1>3. \A n \in Sends \ {c} : Slot(n)' = Slot(n) /\ (Dropped(n)' <=> Dropped(n))
  BY <1>1 DEF Slot, Dropped, Messages
<1>4. /\ callBar[c] = Slot(c)
      /\ callBar' = [callBar EXCEPT ![c] = Slot(c)']
      /\ ~Dropped(c)' => droppedBar' = droppedBar \ {c}
      /\ c \in droppedBar <=> Dropped(c)
  BY <1>3, SlotChanges
<1>5. c \in Messages /\ Journey(c)
  BY DEF Messages, StreamInv, JourneyInv
<1>6. CASE FuturesPut(c)
  <2>1. pc[c] = "checked" /\ pc'[c] = "registered"
    BY <1>5, <1>6 DEF FuturesPut, StreamInv, TypeOK
  <2>2. Slot(c) = "begun" /\ Slot(c)' = "pending" /\ ~Dropped(c) /\ ~Dropped(c)'
    BY <1>1, <1>5, <2>1 DEF Slot, Dropped, Journey, Unsent
  <2>3. droppedBar' = droppedBar
    BY <1>4, <2>2
  <2>4. Promise!Registered(c)
    BY <1>2, <1>4, <2>2, <2>3 DEF Promise!Registered
  <2> QED
    BY <2>4 DEF PromiseStep, Promise!SpecNext
<1>7. CASE Result(c)
  <2>1. pc[c] = "returned" /\ res[c] # "none" /\ pc'[c] \in {"failed", "answered"}
    BY <1>5, <1>7 DEF Result, StreamInv, TypeOK
  <2>2. Slot(c) \in {"error", "response"} /\ Slot(c)' = "idle" /\ ~Dropped(c)'
    BY <2>1 DEF Slot, Dropped, StreamInv, TypeOK
  <2>3. Promise!Return(c)
    BY <1>2, <1>4, <2>2 DEF Promise!Return
  <2> QED
    BY <2>3 DEF PromiseStep, Promise!SpecNext
<1>8. CASE ResultTimesOut(c)
  <2>1. pc[c] = "returned" /\ res[c] = "none" /\ pc'[c] = "timedout"
    BY <1>5, <1>8 DEF ResultTimesOut, StreamInv, TypeOK
  <2>2. Slot(c) = "pending" /\ Slot(c)' = "idle" /\ ~Dropped(c)'
    BY <2>1 DEF Slot, Dropped
  <2>3. Promise!TimeOut(c)
    BY <1>2, <1>4, <2>2 DEF Promise!TimeOut
  <2> QED
    BY <2>3 DEF PromiseStep, Promise!SpecNext
<1> QED
  BY <1>6, <1>7, <1>8 DEF Future

\* receive(), close() and run().
LEMMA RunPromise ==
  ASSUME StreamInv, Receive \/ Close \/ Run
  PROVE  PromiseStep
<1> USE DEF flags, channel, futures, batch, monitoring, calls, consumer, wire
<1>1. UNCHANGED <<pc, res, putTask>>
  BY DEF Receive, Close, Run, Connect, ConnectFails, RunForever, LoopStops
<1>2. callBar' = callBar /\ droppedBar' = droppedBar
  <2>1. \A n \in Sends : Slot(n)' = Slot(n) /\ (Dropped(n)' <=> Dropped(n))
    BY <1>1 DEF Slot, Dropped
  <2> QED
    BY <2>1, SlotsStay
<1>3. CASE Receive
  <2>1. /\ UNCHANGED <<connBar, inboxBar, shutdown>> /\ got' = NoMessage
        /\ getBar' = "waiting" /\ getBar \in {"idle", "item", "cancelled"}
    BY <1>3 DEF Receive, connBar, inboxBar, getBar
  <2>2. Promise!Receive
    BY <1>2, <2>1 DEF Promise!Receive
  <2> QED
    BY <2>2 DEF PromiseStep, Promise!SpecNext
<1>4. CASE Close
  <2>1. UNCHANGED <<connBar, inboxBar, getBar, got>> /\ ~shutdown /\ shutdown' = TRUE
    BY <1>4 DEF Close, connBar, inboxBar, getBar
  <2>2. Promise!Close
    BY <1>2, <2>1 DEF Promise!Close
  <2> QED
    BY <2>2 DEF PromiseStep, Promise!SpecNext
<1>5. ASSUME connBar \in {"failing", "down"}, connBar' = "lost",
             UNCHANGED <<inboxBar, getBar, got, shutdown>>
      PROVE  PromiseStep
  <2>1. Promise!GiveUp
    BY <1>2, <1>5 DEF Promise!GiveUp
  <2> QED
    BY <2>1 DEF PromiseStep, Promise!SpecNext
<1>6. CASE Connect
  <2>1. /\ phase = "connecting" /\ phase' = "starting" /\ tasks' = "alive"
        /\ UNCHANGED <<ready, get, got, shutdown>>
    BY <1>6 DEF Connect
  <2>2. tasks # "failed" /\ recvQ = <<>>
    BY <2>1 DEF StreamInv, PhaseInv
  <2>3. UNCHANGED <<connBar, inboxBar, getBar, got, shutdown>>
    BY <2>1, <2>2 DEF connBar, inboxBar, getBar
  <2> QED
    BY <1>2, <2>3 DEF PromiseStep
<1>7. CASE ConnectFails
  <2>1. /\ phase = "connecting" /\ phase' = "dead"
        /\ UNCHANGED <<ready, tasks, recvQ, get, got, shutdown>>
    BY <1>7 DEF ConnectFails
  <2>2. tasks # "failed" /\ UNCHANGED <<inboxBar, getBar, got, shutdown>>
    BY <2>1 DEF StreamInv, PhaseInv, inboxBar, getBar
  <2>3. CASE ready
    <3>1. connBar' = connBar
      BY <2>1, <2>3 DEF connBar
    <3> QED
      BY <1>2, <2>2, <3>1 DEF PromiseStep
  <2>4. CASE ~ready
    <3>1. connBar = "down" /\ connBar' = "lost"
      BY <2>1, <2>2, <2>4 DEF connBar
    <3> QED
      BY <1>5, <2>2, <3>1
  <2> QED
    BY <2>3, <2>4
<1>8. CASE RunForever
  <2>1. /\ phase = "starting" /\ phase' = "running" /\ ready' = TRUE
        /\ UNCHANGED <<tasks, recvQ, get, got, shutdown>>
    BY <1>8 DEF RunForever
  <2>2. /\ tasks = "alive" /\ (ready <=> ~opened)
        /\ recvQ = IF opened THEN <<ReconnectEvent>> ELSE <<>>
    BY <2>1 DEF StreamInv, PhaseInv
  <2>3. inboxBar = <<>> /\ inboxBar' = recvQ /\ getBar' = getBar /\ connBar' = "up"
    BY <2>1 DEF inboxBar, getBar, connBar
  <2>4. CASE ready
    <3>1. connBar = "up" /\ recvQ = <<>>
      BY <2>2, <2>4 DEF connBar
    <3> QED
      BY <1>2, <2>1, <2>3, <3>1 DEF PromiseStep
  <2>5. CASE ~ready
    <3>1. connBar = "down" /\ recvQ = <<ReconnectEvent>>
      BY <2>1, <2>2, <2>5 DEF connBar
    <3>2. Promise!Reconnect
      BY <1>2, <2>1, <2>3, <3>1 DEF Promise!Reconnect
    <3> QED
      BY <3>2 DEF PromiseStep, Promise!SpecNext
  <2> QED
    BY <2>4, <2>5
<1>9. CASE LoopStops
  <2>1. /\ phase = "draining" /\ phase' \in {"dead", "connecting"}
        /\ UNCHANGED <<ready, tasks, recvQ, get, got, shutdown>>
    BY <1>9 DEF LoopStops
  <2>2. UNCHANGED <<inboxBar, getBar, got, shutdown>>
    BY <2>1 DEF inboxBar, getBar
  <2>3. CASE connBar' = connBar
    BY <1>2, <2>2, <2>3 DEF PromiseStep
  <2>4. CASE ~ready /\ tasks # "failed" /\ phase' = "dead"
    <3>1. connBar = "down" /\ connBar' = "lost"
      BY <2>1, <2>4 DEF connBar
    <3> QED
      BY <1>5, <2>2, <3>1
  <2>5. connBar' = connBar \/ (~ready /\ tasks # "failed" /\ phase' = "dead")
    BY <2>1 DEF connBar
  <2> QED
    BY <2>3, <2>4, <2>5
<1> QED
  BY <1>3, <1>4, <1>6, <1>7, <1>8, <1>9 DEF Run

\* The handles of the event loop.
LEMMA CallbackPromise ==
  ASSUME StreamInv, Callback
  PROVE  PromiseStep
<1> USE DEF flags, channel, futures, batch, monitoring, calls, consumer, wire
<1>1. ASSUME NEW op, NEW m, Runs(op, m) PROVE HandleState(<<op, m>>)
  <2>1. runq \in Seq(Handle) /\ runq # <<>> /\ Head(runq) = <<op, m>>
    BY <1>1 DEF StreamInv, TypeOK, Runs
  <2>2. Len(runq) \in Nat \ {0} /\ Head(runq) = runq[1]
    BY <2>1, TailIndex
  <2>3. 1 \in 1 .. Len(runq)
    BY <2>2
  <2> QED
    BY <2>1, <2>2, <2>3 DEF StreamInv, QueueInv, HandlesAgree
<1>2. ASSUME UNCHANGED <<pc, res>>,
             \A n \in Messages : putTask'[n] = "dropped" <=> putTask[n] = "dropped"
      PROVE  callBar' = callBar /\ droppedBar' = droppedBar
  <2>1. \A n \in Sends : Slot(n)' = Slot(n) /\ (Dropped(n)' <=> Dropped(n))
    BY <1>2 DEF Slot, Dropped, Messages
  <2> QED
    BY <2>1, SlotsStay
<1>3. ASSUME NEW m \in Messages, PutCallback(m) \/ PutStep(m)
      PROVE  PromiseStep
  <2>1. /\ UNCHANGED <<ready, tasks, phase, pc, res, recvQ, get, got, shutdown>>
        /\ \/ putTask' = [putTask EXCEPT ![m] = "created"]
           \/ putTask' = [putTask EXCEPT ![m] = "queued"]
           \/ UNCHANGED putTask
    BY <1>3 DEF PutCallback, PutStep
  <2>2. putTask[m] \in {"scheduled", "created", "cancelled"}
    BY <1>1, <1>3 DEF PutCallback, PutStep, HandleState
  <2>3. \A n \in Messages : putTask'[n] = "dropped" <=> putTask[n] = "dropped"
    BY <2>1, <2>2 DEF StreamInv, TypeOK
  <2>4. UNCHANGED <<connBar, inboxBar, getBar>>
    BY <2>1 DEF connBar, inboxBar, getBar
  <2> QED
    BY <1>2, <2>1, <2>3, <2>4 DEF PromiseStep
<1>4. CASE GetCallback \/ GetStep
  <2>1. UNCHANGED <<ready, tasks, phase, pc, res, putTask, recvQ, got, shutdown>>
    BY <1>4 DEF GetCallback, GetStep
  <2>2. \/ get \in {"scheduled", "created"} /\ get' \in {"created", "waiting"}
        \/ get' = get
    BY <1>1, <1>4 DEF GetCallback, GetStep, HandleState
  <2>3. UNCHANGED <<connBar, inboxBar, getBar>>
    BY <2>1, <2>2 DEF connBar, inboxBar, getBar
  <2>4. callBar' = callBar /\ droppedBar' = droppedBar
    BY <1>2, <2>1
  <2> QED
    BY <2>1, <2>3, <2>4 DEF PromiseStep
<1>5. CASE GetCancelled
  <2>1. /\ UNCHANGED <<ready, tasks, phase, pc, res, putTask, recvQ, got, shutdown>>
        /\ get' = "cancelled"
    BY <1>5 DEF GetCancelled
  <2>2. get = "cancelling"
    BY <1>1, <1>5 DEF GetCancelled, HandleState
  <2>3. UNCHANGED <<connBar, inboxBar>> /\ getBar = "doomed" /\ getBar' = "cancelled"
    BY <2>1, <2>2 DEF connBar, inboxBar, getBar
  <2>4. callBar' = callBar /\ droppedBar' = droppedBar
    BY <1>2, <2>1
  <2>5. Promise!Cancelled
    BY <2>1, <2>3, <2>4 DEF Promise!Cancelled
  <2> QED
    BY <2>5 DEF PromiseStep, Promise!SpecNext
<1>6. CASE CancelTasks
  <2>1. /\ UNCHANGED <<ready, phase, pc, res, recvQ, got, shutdown>>
        /\ phase \in {"running", "draining"}
        /\ (tasks' = "failed") <=> (tasks = "failed")
        /\ get' = get \/ (get \in {"waiting", "created"} /\ get' = "cancelling")
    BY <1>6 DEF CancelTasks, Runs
  <2>2. \A n \in Messages : putTask'[n] = "dropped" <=> putTask[n] = "dropped"
    BY <1>6 DEF CancelTasks, CancelPutTasks
  <2>3. Runs("cancel", NoMessage)
    BY <1>6 DEF CancelTasks
  <2>4. shutdown = TRUE
    BY <2>3, HarmlessRuns DEF StreamInv, PhaseInv, PutOps, GetOps, TypeOK
  <2>5. UNCHANGED <<connBar, inboxBar>>
    BY <2>1 DEF connBar, inboxBar
  <2>6. callBar' = callBar /\ droppedBar' = droppedBar
    BY <1>2, <2>1, <2>2
  <2>7. CASE get' = get
    <3>1. getBar' = getBar
      BY <2>7 DEF getBar
    <3> QED
      BY <2>1, <2>5, <2>6, <3>1 DEF PromiseStep
  <2>8. CASE get \in {"waiting", "created"} /\ get' = "cancelling"
    <3>1. getBar = "waiting" /\ getBar' = "doomed"
      BY <2>8 DEF getBar
    <3>2. Promise!Doom
      BY <2>1, <2>4, <2>5, <2>6, <3>1 DEF Promise!Doom
    <3> QED
      BY <3>2 DEF PromiseStep, Promise!SpecNext
  <2> QED
    BY <2>1, <2>7, <2>8
<1>7. CASE DoneCallback \/ StopHandle
  <2>1. /\ UNCHANGED <<ready, tasks, pc, res, putTask, recvQ, get, got, shutdown>>
        /\ phase \in {"running", "draining"} /\ phase' \in {"running", "draining"}
    BY <1>7 DEF DoneCallback, StopHandle, Runs
  <2>2. UNCHANGED <<connBar, inboxBar, getBar>>
    BY <2>1 DEF connBar, inboxBar, getBar
  <2>3. callBar' = callBar /\ droppedBar' = droppedBar
    BY <1>2, <2>1
  <2> QED
    BY <2>1, <2>2, <2>3 DEF PromiseStep
<1> QED
  BY <1>3, <1>4, <1>5, <1>6, <1>7 DEF Callback

\* A disconnect, its sweep, and the stop of the loop.
LEMMA MonitorPromise ==
  ASSUME StreamInv, Monitor
  PROVE  PromiseStep
<1> USE DEF flags, channel, futures, batch, monitoring, calls, consumer, wire
<1>1. ASSUME UNCHANGED <<pc, res, putTask>>
      PROVE  callBar' = callBar /\ droppedBar' = droppedBar
  <2>1. \A n \in Sends : Slot(n)' = Slot(n) /\ (Dropped(n)' <=> Dropped(n))
    BY <1>1 DEF Slot, Dropped
  <2> QED
    BY <2>1, SlotsStay
<1>2. CASE MonitorClears
  <2>1. /\ phase = "running" /\ tasks = "alive" /\ phase' = "cleared" /\ ~ready'
        /\ UNCHANGED <<tasks, pc, res, putTask, recvQ, get, got, shutdown>>
    BY <1>2 DEF MonitorClears
  <2>2. ready
    BY <2>1 DEF StreamInv, PhaseInv
  <2>3. UNCHANGED <<inboxBar, getBar>> /\ connBar = "up" /\ connBar' = "failing"
    BY <2>1, <2>2 DEF connBar, inboxBar, getBar
  <2>4. Promise!Break
    BY <1>1, <2>1, <2>3 DEF Promise!Break
  <2> QED
    BY <2>4 DEF PromiseStep, Promise!SpecNext
<1>3. CASE SweepBegins
  <2>1. /\ phase = "cleared" /\ phase' = "sweeping"
        /\ UNCHANGED <<ready, tasks, pc, res, putTask, recvQ, get, got, shutdown>>
    BY <1>3 DEF SweepBegins
  <2>2. UNCHANGED <<connBar, inboxBar, getBar>>
    BY <2>1 DEF connBar, inboxBar, getBar
  <2> QED
    BY <1>1, <2>1, <2>2 DEF PromiseStep
<1>4. CASE SweepFails
  <2>1. /\ phase = "sweeping" /\ phase' = "running" /\ tasks' = "failed"
        /\ UNCHANGED <<ready, pc, res, putTask, recvQ, get, got, shutdown>>
    BY <1>4 DEF SweepFails
  <2>2. ~ready /\ tasks = "alive"
    BY <2>1 DEF StreamInv, PhaseInv
  <2>3. UNCHANGED <<inboxBar, getBar>> /\ connBar = "failing" /\ connBar' = "lost"
    BY <2>1, <2>2 DEF connBar, inboxBar, getBar
  <2>4. Promise!GiveUp
    BY <1>1, <2>1, <2>3 DEF Promise!GiveUp
  <2> QED
    BY <2>4 DEF PromiseStep, Promise!SpecNext
<1>5. ASSUME NEW c \in Sends, SweepNext(c) PROVE PromiseStep
  <2>1. /\ phase = "sweeping" /\ c \in table
        /\ UNCHANGED <<ready, phase, tasks, pc, putTask, recvQ, get, got, shutdown>>
        /\ res' = [res EXCEPT ![c] = "error"]
    BY <1>5 DEF SweepNext, StreamInv, TypeOK
  <2>2. res'[c] = "error" /\ \A n \in Sends \ {c} : res'[n] = res[n]
    BY <2>1 DEF StreamInv, TypeOK
  <2>3. /\ \A n \in Sends \ {c} : Slot(n)' = Slot(n) /\ (Dropped(n)' <=> Dropped(n))
        /\ Dropped(c)' <=> Dropped(c)
    BY <2>1, <2>2 DEF Slot, Dropped
  <2>4. UNCHANGED <<connBar, inboxBar, getBar>> /\ connBar = "failing"
    <3>1. ~ready /\ tasks = "alive"
      BY <2>1 DEF StreamInv, PhaseInv
    <3> QED
      BY <2>1, <3>1 DEF connBar, inboxBar, getBar
  <2>5. pc[c] \notin Unsent /\ res[c] \in {"none", "error"}
    BY <2>1 DEF StreamInv, JourneyInv, Journey, Messages, TypeOK
  <2>6. CASE Slot(c)' = Slot(c)
    BY <2>1, <2>3, <2>4, <2>6, SlotsStay DEF PromiseStep
  <2>7. CASE Slot(c)' # Slot(c)
    <3>1. Slot(c) = "pending" /\ Slot(c)' = "error"
      BY <2>1, <2>2, <2>5, <2>7 DEF Slot, Unsent
    <3>2. /\ callBar[c] = Slot(c)
          /\ callBar' = [callBar EXCEPT ![c] = Slot(c)']
          /\ Dropped(c)' => droppedBar' = droppedBar \cup {c}
          /\ ~Dropped(c)' => droppedBar' = droppedBar \ {c}
          /\ c \in droppedBar <=> Dropped(c)
      BY <2>3, SlotChanges
    <3>3. droppedBar' = droppedBar
      BY <2>3, <3>2
    <3>4. Promise!Fail(c)
      BY <2>1, <2>4, <3>1, <3>2, <3>3 DEF Promise!Fail
    <3> QED
      BY <3>4 DEF PromiseStep, Promise!SpecNext
  <2> QED
    BY <2>6, <2>7
<1>6. CASE StopLoop
  <2>1. /\ phase = "sweeping" /\ table = view /\ unswept = {}
        /\ phase' = "draining" /\ tasks' = "ended" /\ recvQ' = <<>>
        /\ UNCHANGED <<ready, pc, res, got, shutdown>>
        /\ get' = IF get \in {"created", "waiting"} THEN "cancelling" ELSE get
    BY <1>6 DEF StopLoop
  <2>2. ~ready /\ tasks = "alive"
    BY <2>1 DEF StreamInv, PhaseInv
  <2>3. connBar = "failing" /\ connBar' = "down" /\ inboxBar' = <<>>
    BY <2>1, <2>2 DEF connBar, inboxBar
  <2>4. getBar' \in IF getBar = "waiting" THEN {"waiting", "doomed"} ELSE {getBar}
    BY <2>1 DEF getBar, StreamInv, TypeOK, GetStates
  <2>5. callBar' = callBar /\ droppedBar' = droppedBar
    <3>1. \A n \in Messages : putTask'[n] = "dropped" <=> putTask[n] = "dropped"
      BY <1>6 DEF StopLoop, CancelPutTasks
    <3>2. \A n \in Sends : Slot(n)' = Slot(n) /\ (Dropped(n)' <=> Dropped(n))
      BY <2>1, <3>1 DEF Slot, Dropped, Messages
    <3> QED
      BY <3>2, SlotsStay
  <2>6. ASSUME NEW c \in Sends, callBar[c] = "pending" PROVE FALSE
    <3>1. Slot(c) = "pending"
      BY <2>6 DEF callBar, Slot
    <3>2. res[c] = "none" /\ pc[c] \notin Unsent
      BY <3>1 DEF Slot, Unsent, StreamInv, TypeOK
    <3>3. c \in table
      BY <3>2 DEF StreamInv, JourneyInv, Journey, Messages
    <3> QED
      BY <2>1, <3>2, <3>3 DEF StreamInv, StrandInv, SweptResolved
  <2>7. Promise!Stop
    BY <2>1, <2>3, <2>4, <2>5, <2>6 DEF Promise!Stop
  <2> QED
    BY <2>7 DEF PromiseStep, Promise!SpecNext
<1> QED
  BY <1>2, <1>3, <1>4, <1>5, <1>6 DEF Monitor

LEMMA TransportPromise ==
  ASSUME StreamInv,
         \/ GetItem \/ SendMessage \/ Validator \/ LinkBreaks
         \/ \E m \in Messages \cup Requests : ReceiveMessage(m) \/ Lose(m)
  PROVE  PromiseStep
<1> USE DEF flags, channel, futures, batch, monitoring, calls, consumer, wire
<1>1. CASE SendMessage \/ Validator \/ LinkBreaks
  BY <1>1, BarsStay DEF SendMessage, Validator, Deliver, Ask, LinkBreaks
<1>2. ASSUME NEW m \in Messages \cup Requests, Lose(m) PROVE PromiseStep
  BY <1>2, BarsStay DEF Lose
<1>3. CASE GetItem
  <2>1. /\ phase = "running" /\ get = "waiting" /\ recvQ # <<>>
        /\ got' = Head(recvQ) /\ get' = "item" /\ recvQ' = Tail(recvQ)
        /\ UNCHANGED <<ready, tasks, phase, pc, res, putTask, shutdown>>
    BY <1>3 DEF GetItem
  <2>2. \A n \in Sends : Slot(n)' = Slot(n) /\ (Dropped(n)' <=> Dropped(n))
    BY <2>1 DEF Slot, Dropped
  <2>3. callBar' = callBar /\ droppedBar' = droppedBar
    BY <2>2, SlotsStay
  <2>4. /\ connBar' = connBar /\ inboxBar = recvQ /\ inboxBar' = recvQ'
        /\ getBar = "waiting" /\ getBar' = "item"
    BY <2>1 DEF connBar, inboxBar, getBar
  <2>5. Promise!Take
    BY <2>1, <2>3, <2>4 DEF Promise!Take
  <2> QED
    BY <2>5 DEF PromiseStep, Promise!SpecNext
<1>4. ASSUME NEW m \in Messages \cup Requests, ReceiveMessage(m) PROVE PromiseStep
  <2>1. /\ phase = "running" /\ tasks = "alive" /\ m \in in
        /\ UNCHANGED <<ready, tasks, phase, pc, putTask, get, got, shutdown>>
    BY <1>4 DEF ReceiveMessage
  <2>2. connBar = "up" /\ UNCHANGED <<connBar, getBar>>
    BY <2>1 DEF StreamInv, PhaseInv, connBar, getBar
  <2>3. CASE m \in table /\ res' = [res EXCEPT ![m] = "response"] /\ UNCHANGED recvQ
    <3>1. m \in Sends /\ m \in Messages /\ inboxBar' = inboxBar
      BY <2>1, <2>3 DEF StreamInv, TypeOK, Messages, inboxBar
    <3>2. res'[m] = "response" /\ \A n \in Sends \ {m} : res'[n] = res[n]
      BY <2>3, <3>1 DEF StreamInv, TypeOK
    <3>3. /\ \A n \in Sends \ {m} : Slot(n)' = Slot(n) /\ (Dropped(n)' <=> Dropped(n))
          /\ Dropped(m)' <=> Dropped(m)
      BY <2>1, <3>2 DEF Slot, Dropped
    <3>4. /\ pc[m] \notin Unsent /\ res[m] \in {"none", "error"}
          /\ putTask[m] = "queued"
      BY <2>1, <2>3, <3>1 DEF StreamInv, JourneyInv, Journey, TypeOK
    <3>5. ~Dropped(m)
      BY <3>4 DEF Dropped
    <3>6. CASE Slot(m)' = Slot(m)
      BY <2>1, <2>2, <3>1, <3>3, <3>6, SlotsStay DEF PromiseStep
    <3>7. CASE Slot(m)' # Slot(m)
      <4>1. Slot(m) \in {"pending", "error"} /\ Slot(m)' = "response"
        BY <2>1, <3>2, <3>4, <3>7 DEF Slot, Unsent
      <4>2. /\ callBar[m] = Slot(m)
            /\ callBar' = [callBar EXCEPT ![m] = Slot(m)']
            /\ Dropped(m)' => droppedBar' = droppedBar \cup {m}
            /\ ~Dropped(m)' => droppedBar' = droppedBar \ {m}
            /\ m \in droppedBar <=> Dropped(m)
        BY <3>1, <3>3, SlotChanges
      <4>3. m \notin droppedBar /\ droppedBar' = droppedBar
        BY <3>3, <3>5, <4>2
      <4>4. Promise!Answer(m)
        BY <2>1, <2>2, <3>1, <4>1, <4>2, <4>3 DEF Promise!Answer
      <4> QED
        BY <3>1, <4>4 DEF PromiseStep, Promise!SpecNext
    <3> QED
      BY <3>6, <3>7
  <2>4. CASE m \notin table /\ recvQ' = Append(recvQ, m) /\ UNCHANGED res
    <3>1. \A n \in Sends : Slot(n)' = Slot(n) /\ (Dropped(n)' <=> Dropped(n))
      BY <2>1, <2>4 DEF Slot, Dropped
    <3>2. callBar' = callBar /\ droppedBar' = droppedBar
      BY <3>1, SlotsStay
    <3>3. m \in Requests /\ inboxBar' = Append(inboxBar, m)
      BY <2>1, <2>4, NoLateAnswer DEF inboxBar
    <3>4. Promise!Arrive(m)
      BY <2>1, <2>2, <3>2, <3>3 DEF Promise!Arrive
    <3> QED
      BY <3>3, <3>4 DEF PromiseStep, Promise!SpecNext
  <2> QED
    BY <1>4, <2>3, <2>4 DEF ReceiveMessage
<1> QED
  BY <1>1, <1>2, <1>3, <1>4

LEMMA StepPromise == StreamInv /\ [Next]_vars => [Promise!SpecNext]_(Promise!specVars)
<1> SUFFICES ASSUME StreamInv, [Next]_vars PROVE PromiseStep
  BY DEF PromiseStep, Promise!specVars
<1>1. CASE UNCHANGED vars
  BY <1>1, BarsStay DEF vars, flags, channel, futures, batch, monitoring, calls, consumer,
     wire
<1> QED
  BY <1>1, CallPromise, FuturePromise, RunPromise, CallbackPromise, MonitorPromise,
     TransportPromise DEF Next

\* Stream, with its threads, its event loop and its queues, does nothing that
\* StreamSpec does not allow: only a disconnect fails a call, it fails every call
\* that is registered before the connection comes back, a dropped message has no
\* answer, and each connection begins with the reconnect event.
THEOREM Implements == Spec => KeepsPromise
BY InitPromise, StreamCorrect, StepPromise, PTL
DEF Spec, KeepsPromise, Promise!SpecSpec
=============================================================================
