------------------------ MODULE ConsensusDriverProofs ------------------------
(***************************************************************************)
(* Theorems about ConsensusDriver, for any number of notifications,        *)
(* activations, deactivations, pings and disconnects: the updates of the   *)
(* engine are in order and follow its activation.                          *)
(*                                                                         *)
(* On its way to the engine a message is in the inbox of the stream, then  *)
(* it is what receive() got, then what the driver thread has at hand, then *)
(* on the queue of updates.  The invariant is that whatever is further on  *)
(* came earlier, and so did the activation that was acknowledged.          *)
(***************************************************************************)
EXTENDS ConsensusDriver, FiniteSetTheorems, TLAPS

USE DEF stream, threads, history, Stream!specVars

-----------------------------------------------------------------------------
(***************************************************************************)
(* The stages of a message's way                                           *)
(***************************************************************************)
Coming(r) == \E i \in 1 .. Len(inbox) : inbox[i] = r

\* What receive() got and nobody has looked at yet.
Fetched(r) ==
  /\ get = "item" /\ got = r
  /\ main = "activation" \/ driver \notin {"none", "begin"}

InHand(r) == driver \in {"process", "close", "ack", "put"} /\ message = r

Put(r) == \E i \in 1 .. Len(updates) : updates[i] = r

Started(r) == r \in acked \cap Activations

Before(r, q) == cameAt[r] < cameAt[q]

InboxInOrder ==
  \A i, j \in 1 .. Len(inbox) :
    i < j /\ inbox[i] \in Requests /\ inbox[j] \in Requests => Before(inbox[i], inbox[j])

Order ==
  \A r, q \in Requests :
    /\ Fetched(r) /\ Coming(q) => Before(r, q)
    /\ InHand(r) /\ (Fetched(q) \/ Coming(q)) => Before(r, q)
    /\ (Put(r) \/ Started(r)) /\ (InHand(q) \/ Fetched(q) \/ Coming(q)) => Before(r, q)
    /\ Started(r) /\ Put(q) => Before(r, q)

\* Messages are numbered as they come, and only those that came are on their way.
Numbered ==
  /\ \A r \in Requests :
       cameAt[r] <= Cardinality({q \in Requests : cameAt[q] > 0})
  /\ \A r \in Requests :
       Coming(r) \/ Fetched(r) \/ InHand(r) \/ Put(r) \/ Started(r) => cameAt[r] > 0

\* Nothing is put before the driver thread starts, and no activation ever is.
Restrained ==
  /\ driver = "none" => updates = <<>>
  /\ driver \in {"close", "ack", "put"} => message \in Requests \ Activations

IInv ==
  /\ TypeOK /\ InboxInOrder /\ Order /\ Numbered /\ Restrained
  /\ UpdatesInOrder /\ UpdatesFollowActivation

-----------------------------------------------------------------------------
(***************************************************************************)
(* Facts about queues                                                      *)
(***************************************************************************)
LEMMA TakeFrom ==
  ASSUME NEW S, NEW q \in Seq(S), q # <<>>
  PROVE  /\ Head(q) = q[1] /\ Head(q) \in S /\ Tail(q) \in Seq(S)
         /\ 1 \in 1 .. Len(q) /\ Len(q) \in Nat /\ Len(Tail(q)) = Len(q) - 1
         /\ \A i \in 1 .. Len(Tail(q)) :
              i + 1 \in 1 .. Len(q) /\ Tail(q)[i] = q[i + 1]
OBVIOUS

LEMMA AddTo ==
  ASSUME NEW S, NEW q \in Seq(S), NEW e \in S
  PROVE  /\ Append(q, e) \in Seq(S)
         /\ Len(q) \in Nat /\ Len(Append(q, e)) = Len(q) + 1
         /\ Append(q, e)[Len(q) + 1] = e
         /\ \A i \in 1 .. Len(q) : Append(q, e)[i] = q[i]
OBVIOUS

-----------------------------------------------------------------------------
(***************************************************************************)
(* Type correctness                                                        *)
(***************************************************************************)
\* The steps of the stream keep the types of its variables.
LEMMA StreamType ==
  ASSUME Stream!SpecTypeOK,
         \/ \E c \in Sends :
              \/ Stream!Begin(c) \/ Stream!Registered(c) \/ Stream!Drop(c)
              \/ Stream!Answer(c) \/ Stream!Fail(c) \/ Stream!Return(c)
              \/ Stream!TimeOut(c)
         \/ Stream!Receive \/ Stream!Take \/ Stream!Cancelled \/ Stream!Break
         \/ Stream!Stop \/ Stream!Reconnect \/ Stream!GiveUp \/ Stream!Close \/ Stream!Doom
         \/ (\E r \in Requests : Stream!Arrive(r)) \/ UNCHANGED stream
  PROVE  Stream!SpecTypeOK'
<1> USE DEF Stream!SpecTypeOK, Stream!CallStates, Stream!FutureStates
<1>1. ASSUME NEW c \in Sends,
             \/ Stream!Begin(c) \/ Stream!Registered(c) \/ Stream!Drop(c)
             \/ Stream!Answer(c) \/ Stream!Fail(c) \/ Stream!Return(c)
             \/ Stream!TimeOut(c)
      PROVE  Stream!SpecTypeOK'
      BY <1>1 DEF Stream!Begin, Stream!Registered, Stream!Drop, Stream!Answer,
         Stream!Fail, Stream!Return, Stream!TimeOut
<1>2. CASE Stream!Receive \/ Stream!Cancelled \/ Stream!Break \/ Stream!GiveUp
             \/ Stream!Close \/ Stream!Doom
      BY <1>2 DEF Stream!Receive, Stream!Cancelled, Stream!Break, Stream!GiveUp,
         Stream!Close, Stream!Doom
<1>3. CASE Stream!Take
  <2>1. Head(inbox) \in Requests \cup {ReconnectEvent}
          /\ Tail(inbox) \in Seq(Requests \cup {ReconnectEvent})
        BY <1>3, TakeFrom DEF Stream!Take
  <2> QED
      BY <1>3, <2>1 DEF Stream!Take
<1>4. CASE Stream!Stop
      BY <1>4 DEF Stream!Stop
<1>5. CASE Stream!Reconnect
  <2>1. <<ReconnectEvent>> \in Seq(Requests \cup {ReconnectEvent})
        OBVIOUS
  <2> QED
      BY <1>5, <2>1 DEF Stream!Reconnect
<1>6. ASSUME NEW r \in Requests, Stream!Arrive(r) PROVE Stream!SpecTypeOK'
  <2>1. Append(inbox, r) \in Seq(Requests \cup {ReconnectEvent})
        BY AddTo
  <2> QED
      BY <1>6, <2>1 DEF Stream!Arrive
<1>7. CASE UNCHANGED stream
      BY <1>7
<1> QED
    BY <1>1, <1>2, <1>3, <1>4, <1>5, <1>6, <1>7

LEMMA InitTypeOK == Init => TypeOK
<1> SUFFICES ASSUME Init PROVE TypeOK
    OBVIOUS
<1>1. inbox \in Seq(Requests \cup {ReconnectEvent})
        /\ updates \in Seq(Notifications \cup Deactivations)
      BY DEF Init, Stream!SpecInit
<1>2. Stream!SpecTypeOK
      BY <1>1 DEF Init, Stream!SpecInit, Stream!SpecTypeOK, Stream!CallStates,
         Stream!FutureStates
<1>3. (driver = "none") = (main \in Starting \cup {"crashed"})
      BY DEF Init, Starting
<1>4. drops \in 0 .. MaxDisconnects /\ cameAt \in [Requests -> Nat]
      BY DriverAssumption DEF Init
<1> QED
    BY <1>1, <1>2, <1>3, <1>4 DEF Init, TypeOK, Starting

\* Every step keeps the types.
LEMMA StepTypeOK == TypeOK /\ Restrained /\ [Next]_vars => TypeOK'
<1> SUFFICES ASSUME TypeOK, Restrained, [Next]_vars PROVE TypeOK'
    OBVIOUS
<1> USE DriverAssumption DEF TypeOK, Starting, Running
<1> Register \in Sends /\ Service \in Sends
    BY DEF Sends
<1>1. CASE UNCHANGED vars
  <2>1. Stream!SpecTypeOK'
        BY <1>1, StreamType DEF vars
  <2> QED
      BY <1>1, <2>1 DEF vars
<1>2. CASE RegisterWaits \/ RegisterSends \/ RegisterReplies \/ RegisterTimesOut
  <2>1. Stream!SpecTypeOK'
        BY <1>2, StreamType DEF RegisterWaits, RegisterSends, RegisterReplies, RegisterTimesOut
  <2> QED
      BY <1>2, <2>1 DEF RegisterWaits, RegisterSends, RegisterReplies, RegisterTimesOut
<1>3. CASE ActivationReceives \/ Activation \/ ActivationIgnores \/ ActivationFails
  <2>1. Stream!SpecTypeOK'
        BY <1>3, StreamType DEF ActivationReceives, Activation, ActivationIgnores, ActivationFails
  <2>2. acked' \subseteq Requests
        BY <1>3 DEF ActivationReceives, Activation, ActivationIgnores, ActivationFails, Requests
  <2>3. CASE Activation
        BY <2>1, <2>2, <2>3 DEF Activation
  <2>4. CASE ActivationReceives
        BY <2>1, <2>4 DEF ActivationReceives
  <2>5. CASE ActivationIgnores
        BY <2>1, <2>5 DEF ActivationIgnores
  <2>6. CASE ActivationFails
        BY <2>1, <2>6 DEF ActivationFails
  <2> QED
      BY <1>3, <2>3, <2>4, <2>5, <2>6
<1>4. CASE ServiceCalls \/ ServiceReturns \/ EngineReturns \/ Stops \/ Closes \/ Joins
  <2>1. Stream!SpecTypeOK'
        BY <1>4, StreamType DEF ServiceCalls, ServiceReturns, EngineReturns, Stops, Closes, Joins
  <2>2. /\ main \in Running /\ main' \in Running \cup {"done"}
        /\ UNCHANGED <<driver, message, updates, history>>
        /\ exit' \in BOOLEAN /\ told' \in BOOLEAN
        BY <1>4 DEF ServiceCalls, ServiceReturns, EngineReturns, Stops, Closes, Joins
  <2> QED
      BY <2>1, <2>2
<1>5. CASE DriverBegins \/ DriverLoops \/ DriverTimesOut \/ DriverFails \/ DriverCloses
  <2>1. Stream!SpecTypeOK'
        BY <1>5, StreamType DEF DriverBegins, DriverLoops, DriverTimesOut, DriverFails, DriverCloses
  <2> QED
      BY <1>5, <2>1 DEF DriverBegins, DriverLoops, DriverTimesOut, DriverFails, DriverCloses
<1>6. CASE DriverTakes
  <2>1. Stream!SpecTypeOK' /\ got \in Requests \cup {ReconnectEvent, NoMessage}
        BY <1>6, StreamType DEF DriverTakes, Stream!SpecTypeOK
  <2> QED
      BY <1>6, <2>1 DEF DriverTakes
<1>7. CASE DriverProcesses
  <2>1. Stream!SpecTypeOK'
        BY <1>7, StreamType DEF DriverProcesses
  <2> QED
      BY <1>7, <2>1 DEF DriverProcesses
<1>8. CASE DriverAcks
  <2>1. Stream!SpecTypeOK'
        BY <1>8, StreamType DEF DriverAcks
  <2>2. message \in Requests \ Activations
        BY <1>8 DEF DriverAcks, Restrained
  <2> QED
      BY <1>8, <2>1, <2>2 DEF DriverAcks, Requests
<1>9. CASE DriverPuts
  <2>1. Stream!SpecTypeOK'
        BY <1>9, StreamType DEF DriverPuts
  <2>2. message \in Notifications \cup Deactivations
        BY <1>9 DEF DriverPuts
  <2>3. updates' \in Seq(Notifications \cup Deactivations)
        BY <1>9, <2>2, AddTo DEF DriverPuts
  <2> QED
      BY <1>9, <2>1, <2>3 DEF DriverPuts
<1>10. CASE Background
  <2>1. Stream!SpecTypeOK'
        BY <1>10, StreamType DEF Background
  <2> QED
      BY <1>10, <2>1 DEF Background
<1>11. CASE Break
  <2>1. Stream!SpecTypeOK'
        BY <1>11, StreamType DEF Break
  <2> QED
      BY <1>11, <2>1 DEF Break
<1>12. ASSUME NEW r \in Requests, Arrive(r) PROVE TypeOK'
  <2>1. Stream!SpecTypeOK'
        BY <1>12, StreamType DEF Arrive
  <2>2. Cardinality({q \in Requests : cameAt[q] > 0}) \in Nat
        BY FS_CardinalityType, FS_Subset
  <2> QED
      BY <1>12, <2>1, <2>2 DEF Arrive
<1> QED
    BY <1>1, <1>2, <1>3, <1>4, <1>5, <1>6, <1>7, <1>8, <1>9, <1>10, <1>11, <1>12
    DEF Next, MainSteps, DriverSteps

-----------------------------------------------------------------------------
(***************************************************************************)
(* The order of what is on its way                                         *)
(***************************************************************************)
Rest ==
  /\ InboxInOrder /\ Order /\ Numbered
  /\ UpdatesInOrder /\ UpdatesFollowActivation

\* A step that numbers nothing, puts nothing and starts nothing, and after which no
\* message is where it was not before, keeps the order.
LEMMA NothingMovesOn ==
  ASSUME Rest, InboxInOrder', UNCHANGED <<updates, cameAt>>,
         acked' \cap Activations = acked \cap Activations,
         \A r \in Requests : (Coming(r)' => Coming(r)) /\ (Fetched(r)' => Fetched(r))
                               /\ (InHand(r)' => InHand(r))
  PROVE  Rest'
<1>1. \A r \in Requests : (Put(r)' <=> Put(r)) /\ (Started(r)' <=> Started(r))
      BY DEF Put, Started
<1>2. \A r, q \in Requests : Before(r, q)' <=> Before(r, q)
      BY DEF Before
<1>3. Order'
      BY <1>1, <1>2 DEF Rest, Order
<1>4. Numbered'
      BY <1>1 DEF Rest, Numbered
<1>5. UpdatesInOrder' /\ UpdatesFollowActivation'
      BY DEF Rest, UpdatesInOrder, UpdatesFollowActivation
<1> QED
    BY <1>3, <1>4, <1>5 DEF Rest

\* The inbox may be cleared, and the reconnect event put into it.
LEMMA InboxCleared ==
  ASSUME DriverAssumption, InboxInOrder, UNCHANGED cameAt,
         inbox' = inbox \/ inbox' = <<>> \/ inbox' = <<ReconnectEvent>>
  PROVE  InboxInOrder' /\ \A r \in Requests : Coming(r)' => Coming(r)
<1> USE DEF InboxInOrder, Coming, Before
<1>1. CASE inbox' = inbox
      BY <1>1
<1>2. CASE inbox' = <<>>
      BY <1>2
<1>3. CASE inbox' = <<ReconnectEvent>>
  <2>1. Len(inbox') = 1 /\ inbox'[1] = ReconnectEvent /\ ReconnectEvent \notin Requests
        BY <1>3 DEF DriverAssumption
  <2> QED
      BY <2>1
<1> QED
    BY <1>1, <1>2, <1>3

\* What receive() takes is the first of the inbox.
LEMMA TakeKeeps ==
  ASSUME TypeOK, Rest, Stream!Take, UNCHANGED <<main, driver, message, updates, cameAt, acked>>
  PROVE  Rest'
<1>1. /\ inbox \in Seq(Requests \cup {ReconnectEvent}) /\ inbox # <<>>
      /\ got' = Head(inbox) /\ inbox' = Tail(inbox) /\ get = "waiting"
      BY DEF TypeOK, Stream!SpecTypeOK, Stream!Take
<1>2. /\ got' = inbox[1] /\ Len(inbox) \in Nat /\ Len(inbox') = Len(inbox) - 1
      /\ 1 \in 1 .. Len(inbox)
      /\ \A i \in 1 .. Len(inbox') : i + 1 \in 1 .. Len(inbox) /\ inbox'[i] = inbox[i + 1]
      BY <1>1, TakeFrom
<1>3. InboxInOrder'
  <2> SUFFICES ASSUME NEW i \in 1 .. Len(inbox'), NEW j \in 1 .. Len(inbox'), i < j,
                      inbox'[i] \in Requests, inbox'[j] \in Requests
               PROVE  Before(inbox[i + 1], inbox[j + 1])
      BY <1>2 DEF InboxInOrder, Before
  <2> i + 1 < j + 1
      BY <1>2
  <2> QED
      BY <1>2 DEF Rest, InboxInOrder
<1>4. \A r \in Requests : Coming(r)' => Coming(r)
      BY <1>2 DEF Coming
<1>5. \A r \in Requests : ~Fetched(r) /\ (Fetched(r)' => Coming(r)) /\ (InHand(r)' <=> InHand(r))
      BY <1>1, <1>2 DEF Fetched, Coming, InHand
<1>6. \A r, q \in Requests : Fetched(r)' /\ Coming(q)' => Before(r, q)
  <2> SUFFICES ASSUME NEW r \in Requests, NEW q \in Requests, got' = r,
                      NEW i \in 1 .. Len(inbox'), inbox'[i] = q
               PROVE  Before(r, q)
      BY DEF Fetched, Coming
  <2>1. 1 < i + 1 /\ i + 1 \in 1 .. Len(inbox) /\ inbox[i + 1] = q /\ inbox[1] = r
        BY <1>2
  <2> QED
      BY <1>2, <2>1 DEF Rest, InboxInOrder
<1>7. \A r \in Requests : (Put(r)' <=> Put(r)) /\ (Started(r)' <=> Started(r))
      BY DEF Put, Started
<1>8. \A r, q \in Requests : Before(r, q)' <=> Before(r, q)
      BY DEF Before
<1>9. Order'
      BY <1>4, <1>5, <1>6, <1>7, <1>8 DEF Rest, Order
<1>10. Numbered'
       BY <1>4, <1>5, <1>7 DEF Rest, Numbered
<1>11. UpdatesInOrder' /\ UpdatesFollowActivation'
       BY DEF Rest, UpdatesInOrder, UpdatesFollowActivation
<1> QED
    BY <1>3, <1>9, <1>10, <1>11 DEF Rest

\* What arrives is numbered after everything that came before.
LEMMA ArriveKeeps ==
  ASSUME DriverAssumption, TypeOK, Rest, NEW a \in Requests, Arrive(a)
  PROVE  Rest'
<1> DEFINE Came == {q \in Requests : cameAt[q] > 0}
           N    == Cardinality(Came)
<1>1. /\ inbox \in Seq(Requests \cup {ReconnectEvent}) /\ inbox' = Append(inbox, a)
      /\ cameAt \in [Requests -> Nat] /\ cameAt[a] = 0
      /\ cameAt' = [cameAt EXCEPT ![a] = N + 1]
      /\ UNCHANGED <<get, got, main, driver, message, updates, acked>>
      BY DEF Arrive, TypeOK, Stream!SpecTypeOK, Stream!Arrive
<1>2. IsFiniteSet(Came) /\ N \in Nat
      BY FS_Subset, FS_CardinalityType DEF DriverAssumption
<1>3. \A r \in Requests : cameAt[r] <= N
      BY DEF Rest, Numbered
<1>4. /\ Len(inbox) \in Nat /\ Len(inbox') = Len(inbox) + 1 /\ inbox'[Len(inbox) + 1] = a
      /\ \A i \in 1 .. Len(inbox) : inbox'[i] = inbox[i]
      BY <1>1, AddTo
<1>5. \A r \in Requests : Coming(r)' => r = a \/ Coming(r)
      BY <1>4 DEF Coming
<1>6. \A r \in Requests : /\ (Fetched(r)' <=> Fetched(r)) /\ (InHand(r)' <=> InHand(r))
                          /\ (Put(r)' <=> Put(r)) /\ (Started(r)' <=> Started(r))
      BY <1>1 DEF Fetched, InHand, Put, Started
<1>7. ~Coming(a) /\ ~Fetched(a) /\ ~InHand(a) /\ ~Put(a) /\ ~Started(a)
      BY <1>1 DEF Rest, Numbered
<1>8. \A r, q \in Requests \ {a} : Before(r, q)' <=> Before(r, q)
      BY <1>1 DEF Before
<1>9. \A r \in Requests \ {a} : Before(r, a)'
      BY <1>1, <1>2, <1>3 DEF Before
<1>10. InboxInOrder'
  <2> SUFFICES ASSUME NEW i \in 1 .. Len(inbox'), NEW j \in 1 .. Len(inbox'), i < j,
                      inbox'[i] \in Requests, inbox'[j] \in Requests
               PROVE  cameAt'[inbox'[i]] < cameAt'[inbox'[j]]
      BY DEF InboxInOrder, Before
  <2>1. i \in 1 .. Len(inbox) /\ inbox'[i] = inbox[i] /\ inbox[i] # a
        BY <1>4, <1>7 DEF Coming
  <2>2. CASE j \in 1 .. Len(inbox)
    <3>1. inbox'[j] = inbox[j] /\ inbox[j] # a /\ cameAt[inbox[i]] < cameAt[inbox[j]]
          BY <1>4, <1>7, <2>1, <2>2 DEF Coming, Rest, InboxInOrder, Before
    <3> QED
        BY <1>1, <2>1, <3>1 DEF Before
  <2>3. CASE j = Len(inbox) + 1
    <3> HIDE DEF N
    <3>1. inbox'[j] = a /\ cameAt'[a] = N + 1
          BY <1>1, <1>4, <2>3
    <3>2. cameAt'[inbox'[i]] = cameAt[inbox[i]] /\ cameAt[inbox[i]] <= N
          BY <1>1, <1>3, <2>1
    <3>3. cameAt[inbox[i]] \in Nat
          BY <1>1, <2>1
    <3> QED
        BY <1>2, <3>1, <3>2, <3>3
  <2> QED
      BY <1>4, <2>2, <2>3
<1>11. Order'
       BY <1>5, <1>6, <1>7, <1>8, <1>9 DEF Rest, Order
<1>12. Numbered'
  <2> HIDE DEF N
  <2>0. \A q \in Requests : cameAt'[q] = IF q = a THEN N + 1 ELSE cameAt[q]
        BY <1>1
  <2>1. {q \in Requests : cameAt'[q] > 0} = Came \cup {a} /\ a \notin Came
        BY <1>1, <1>2, <2>0
  <2>2. Cardinality({q \in Requests : cameAt'[q] > 0}) = N + 1
        BY <1>2, <2>1, FS_AddElement DEF N
  <2>3. \A r \in Requests : cameAt'[r] <= N + 1
        BY <1>1, <1>2, <1>3
  <2>4. ASSUME NEW r \in Requests,
               Coming(r)' \/ Fetched(r)' \/ InHand(r)' \/ Put(r)' \/ Started(r)'
        PROVE  cameAt'[r] > 0
        BY <1>1, <1>2, <1>5, <1>6, <2>4 DEF Rest, Numbered
  <2> QED
      BY <2>2, <2>3, <2>4 DEF Numbered
<1>13. UpdatesInOrder' /\ UpdatesFollowActivation'
  <2>1. \A i \in 1 .. Len(updates) : updates[i] # a /\ updates[i] \in Requests
        BY <1>7 DEF Put, TypeOK, Requests
  <2>2. a \notin acked \cap Activations /\ acked \subseteq Requests
        BY <1>7 DEF Started, TypeOK
  <2> QED
      BY <1>1, <2>1, <2>2 DEF Rest, UpdatesInOrder, UpdatesFollowActivation
<1> QED
    BY <1>10, <1>11, <1>12, <1>13 DEF Rest

\* The activation that is acknowledged was the first of what came.
LEMMA ActivationKeeps ==
  ASSUME TypeOK, Restrained, Rest, Activation
  PROVE  Rest'
<1>1. /\ main = "activation" /\ get = "item" /\ driver = "none" /\ updates = <<>>
      /\ UNCHANGED <<inbox, get, got, message, updates, cameAt>>
      /\ got \in Activations
      BY DEF Activation, TypeOK, Restrained, Starting
<1>2. CASE ~Ready
  <2>1. acked' = acked /\ driver' = driver /\ main' = "crashed"
        BY <1>2 DEF Activation
  <2>2. \A r \in Requests : /\ (Coming(r)' => Coming(r)) /\ (InHand(r)' => InHand(r))
                            /\ (Fetched(r)' => Fetched(r))
        BY <1>1, <2>1 DEF Coming, Fetched, InHand
  <2>3. InboxInOrder'
        BY <1>1 DEF Rest, InboxInOrder, Before
  <2> QED
      BY <1>1, <2>1, <2>2, <2>3, NothingMovesOn
<1>3. CASE Ready
  <2>1. acked' = acked \cup {got} /\ driver' = "begin" /\ main' = "engine"
        BY <1>3 DEF Activation
  <2>2. \A r \in Requests : /\ Coming(r)' <=> Coming(r)
                            /\ ~InHand(r)' /\ ~Fetched(r)' /\ ~Put(r)'
                            /\ Started(r)' => Started(r) \/ Fetched(r)
        BY <1>1, <2>1 DEF Coming, Fetched, InHand, Put, Started
  <2>3. \A r, q \in Requests : Before(r, q)' <=> Before(r, q)
        BY <1>1 DEF Before
  <2>4. InboxInOrder'
        BY <1>1 DEF Rest, InboxInOrder, Before
  <2>5. Order'
        BY <2>2, <2>3 DEF Rest, Order
  <2>6. Numbered'
        BY <1>1, <2>2 DEF Rest, Numbered
  <2>7. UpdatesInOrder' /\ UpdatesFollowActivation'
        BY <1>1 DEF UpdatesInOrder, UpdatesFollowActivation
  <2> QED
      BY <2>4, <2>5, <2>6, <2>7 DEF Rest
<1> QED
    BY <1>2, <1>3

LEMMA DriverTakesKeeps ==
  ASSUME TypeOK, Rest, DriverTakes
  PROVE  Rest'
<1>1. /\ driver = "wait" /\ get = "item" /\ get' = "waiting" /\ driver' = "process"
      /\ message' = got
      /\ UNCHANGED <<inbox, main, updates, cameAt, acked>>
      BY DEF DriverTakes, Stream!Receive
<1>2. \A r \in Requests : /\ Coming(r)' <=> Coming(r)
                          /\ ~Fetched(r)' /\ (InHand(r)' => Fetched(r))
                          /\ (Put(r)' <=> Put(r)) /\ (Started(r)' <=> Started(r))
      BY <1>1 DEF Coming, Fetched, InHand, Put, Started
<1>3. \A r, q \in Requests : Before(r, q)' <=> Before(r, q)
      BY <1>1 DEF Before
<1>4. InboxInOrder'
      BY <1>1 DEF Rest, InboxInOrder, Before
<1>5. Order'
      BY <1>2, <1>3 DEF Rest, Order
<1>6. Numbered'
      BY <1>1, <1>2 DEF Rest, Numbered
<1>7. UpdatesInOrder' /\ UpdatesFollowActivation'
      BY <1>1 DEF Rest, UpdatesInOrder, UpdatesFollowActivation
<1> QED
    BY <1>4, <1>5, <1>6, <1>7 DEF Rest

LEMMA DriverPutsKeeps ==
  ASSUME TypeOK, Rest, DriverPuts
  PROVE  Rest'
<1>1. /\ driver = "put" /\ driver' = "loop" /\ updates' = Append(updates, message)
      /\ message \in Notifications \cup Deactivations /\ message \in Requests
      /\ updates \in Seq(Notifications \cup Deactivations)
      /\ UNCHANGED <<inbox, get, got, main, message, cameAt, acked>>
      BY DEF DriverPuts, TypeOK, Requests
<1>2. /\ Len(updates) \in Nat /\ Len(updates') = Len(updates) + 1
      /\ updates'[Len(updates) + 1] = message
      /\ \A i \in 1 .. Len(updates) : updates'[i] = updates[i]
      BY <1>1, AddTo
<1>3. \A r \in Requests : /\ (Coming(r)' <=> Coming(r)) /\ (Started(r)' <=> Started(r))
                          /\ ~InHand(r)' /\ (Fetched(r)' <=> Fetched(r))
                          /\ (Put(r)' => Put(r) \/ InHand(r))
      BY <1>1, <1>2 DEF Coming, Fetched, InHand, Put, Started
<1>4. \A r, q \in Requests : Before(r, q)' <=> Before(r, q)
      BY <1>1 DEF Before
<1>5. InboxInOrder'
      BY <1>1 DEF Rest, InboxInOrder, Before
<1>6. Order'
      BY <1>3, <1>4 DEF Rest, Order
<1>7. Numbered'
      BY <1>1, <1>3 DEF Rest, Numbered
<1>8. InHand(message) /\ \A i \in 1 .. Len(updates) : updates[i] \in Requests /\ Put(updates[i])
      BY <1>1 DEF InHand, Put, Requests
<1>9. UpdatesInOrder'
  <2> SUFFICES ASSUME NEW i \in 1 .. Len(updates'), NEW j \in 1 .. Len(updates'), i < j
               PROVE  cameAt[updates'[i]] < cameAt[updates'[j]]
      BY <1>1 DEF UpdatesInOrder
  <2>1. i \in 1 .. Len(updates) /\ updates'[i] = updates[i]
        BY <1>2
  <2>2. CASE j \in 1 .. Len(updates)
        BY <1>2, <2>1, <2>2 DEF Rest, UpdatesInOrder
  <2>3. CASE j = Len(updates) + 1
        BY <1>1, <1>2, <1>8, <2>1, <2>3 DEF Rest, Order, Before
  <2> QED
      BY <1>2, <2>2, <2>3
<1>10. UpdatesFollowActivation'
  <2> SUFFICES ASSUME NEW i \in 1 .. Len(updates'), NEW a \in acked \cap Activations
               PROVE  cameAt[a] < cameAt[updates'[i]]
      BY <1>1 DEF UpdatesFollowActivation
  <2>1. a \in Requests /\ Started(a)
        BY DEF TypeOK, Started
  <2>2. CASE i \in 1 .. Len(updates)
        BY <1>2, <2>2 DEF Rest, UpdatesFollowActivation
  <2>3. CASE i = Len(updates) + 1
        BY <1>1, <1>2, <1>8, <2>1, <2>3 DEF Rest, Order, Before
  <2> QED
      BY <1>2, <2>2, <2>3
<1> QED
    BY <1>5, <1>6, <1>7, <1>9, <1>10 DEF Rest

\* Every other step lets a message rest where it is, or drops it.
LEMMA StepRest == TypeOK /\ Restrained /\ Rest /\ [Next]_vars => Rest'
<1> SUFFICES ASSUME TypeOK, Restrained, Rest, [Next]_vars PROVE Rest'
    OBVIOUS
<1> DEFINE Quiet == /\ UNCHANGED <<updates, cameAt>>
                    /\ acked' \cap Activations = acked \cap Activations
                    /\ inbox' = inbox \/ inbox' = <<>> \/ inbox' = <<ReconnectEvent>>
                    /\ \A r \in Requests : (Fetched(r)' => Fetched(r)) /\ (InHand(r)' => InHand(r))
<1>q. ASSUME Quiet PROVE Rest'
  <2>1. InboxInOrder' /\ \A r \in Requests : Coming(r)' => Coming(r)
        BY <1>q, InboxCleared, DriverAssumption DEF Rest
  <2>2. UNCHANGED <<updates, cameAt>> /\ acked' \cap Activations = acked \cap Activations
        BY <1>q
  <2>3. \A r \in Requests : (Coming(r)' => Coming(r)) /\ (Fetched(r)' => Fetched(r))
                            /\ (InHand(r)' => InHand(r))
        BY <1>q, <2>1
  <2> HIDE DEF Quiet
  <2> QED
      BY <2>1, <2>2, <2>3, NothingMovesOn
<1> HIDE DEF Quiet
<1>1. CASE UNCHANGED vars
  <2>1. Quiet
        BY <1>1 DEF vars, Quiet, Fetched, InHand
  <2> QED
      BY <1>q, <2>1
<1>2. CASE RegisterWaits \/ RegisterSends \/ RegisterReplies \/ RegisterTimesOut
  <2>1. UNCHANGED <<inbox, get, got, message, updates, cameAt, acked>> /\ driver = "none"
          /\ driver' \in {"none", "begin"} /\ main' # "activation"
        BY <1>2 DEF RegisterWaits, RegisterSends, RegisterReplies, RegisterTimesOut, TypeOK,
           Starting, Stream!Begin, Stream!Return, Stream!TimeOut
  <2>2. Quiet
        BY <2>1 DEF Quiet, Fetched, InHand
  <2> QED
      BY <1>q, <2>2
<1>3. CASE ActivationReceives \/ ActivationIgnores \/ ActivationFails
  <2>1. UNCHANGED <<inbox, driver, message, updates, cameAt, acked>>
        BY <1>3 DEF ActivationReceives, ActivationIgnores, ActivationFails, Stream!Receive
  <2>2. (main' # "activation" /\ UNCHANGED <<get, got>>) \/ get' = "waiting"
        BY <1>3 DEF ActivationReceives, ActivationIgnores, ActivationFails, Stream!Receive
  <2>3. Quiet
        BY <2>1, <2>2 DEF Quiet, Fetched, InHand
  <2> QED
      BY <1>q, <2>3
<1>4. CASE Activation
      BY <1>4, ActivationKeeps
<1>5. CASE ServiceCalls \/ ServiceReturns \/ EngineReturns \/ Stops \/ Closes \/ Joins
  <2>1. UNCHANGED <<inbox, get, got, driver, message, updates, cameAt, acked>>
          /\ main' # "activation"
        BY <1>5 DEF ServiceCalls, ServiceReturns, EngineReturns, Stops, Closes, Joins,
           Stream!Begin, Stream!Return, Stream!TimeOut, Stream!Close
  <2>2. Quiet
        BY <2>1 DEF Quiet, Fetched, InHand
  <2> QED
      BY <1>q, <2>2
<1>6. CASE DriverBegins \/ DriverLoops \/ DriverTimesOut \/ DriverFails
  <2>1. UNCHANGED <<inbox, main, message, updates, cameAt, acked>>
          /\ driver' \in {"loop", "wait", "ended"}
        BY <1>6 DEF DriverBegins, DriverLoops, DriverTimesOut, DriverFails, Stream!Receive
  <2>2. \/ driver \notin {"none", "begin"} /\ UNCHANGED <<get, got>>
        \/ get' = "waiting"
        BY <1>6 DEF DriverBegins, DriverLoops, DriverTimesOut, DriverFails, Stream!Receive
  <2>3. Quiet
        BY <2>1, <2>2 DEF Quiet, Fetched, InHand
  <2> QED
      BY <1>q, <2>3
<1>7. CASE DriverTakes
      BY <1>7, DriverTakesKeeps
<1>8. CASE DriverProcesses \/ DriverCloses
  <2>1. UNCHANGED <<inbox, get, got, main, message, updates, cameAt, acked>>
          /\ driver \in {"process", "close"} /\ driver' \in {"close", "loop", "ack"}
        BY <1>8 DEF DriverProcesses, DriverCloses, Stream!Close
  <2>2. Quiet
        BY <2>1 DEF Quiet, Fetched, InHand
  <2> QED
      BY <1>q, <2>2
<1>9. CASE DriverAcks
  <2>1. UNCHANGED <<inbox, get, got, main, message, updates, cameAt>>
          /\ driver = "ack" /\ driver' \in {"loop", "put", "ended"}
          /\ message \notin Activations /\ acked' \in {acked, acked \cup {message}}
        BY <1>9 DEF DriverAcks, Restrained
  <2>2. Quiet
        BY <2>1 DEF Quiet, Fetched, InHand
  <2> QED
      BY <1>q, <2>2
<1>10. CASE DriverPuts
       BY <1>10, DriverPutsKeeps
<1>11. CASE Background
  <2>1. UNCHANGED <<main, driver, message, updates, cameAt, acked>>
        BY <1>11 DEF Background
  <2>2. CASE Stream!Take
        BY <2>1, <2>2, TakeKeeps
  <2>3. CASE ~Stream!Take
    <3>1. /\ inbox' = inbox \/ inbox' = <<>> \/ inbox' = <<ReconnectEvent>>
          /\ got' = got /\ (get' = get \/ get' # "item")
          BY <1>11, <2>3 DEF Background, Stream!Registered, Stream!Drop, Stream!Answer,
             Stream!Fail, Stream!Cancelled, Stream!Stop, Stream!Reconnect, Stream!GiveUp,
             Stream!Doom
    <3>2. Quiet
          BY <2>1, <3>1 DEF Quiet, Fetched, InHand
    <3> QED
        BY <1>q, <3>2
  <2> QED
      BY <2>2, <2>3
<1>12. CASE Break
  <2>1. Quiet
        BY <1>12 DEF Break, Stream!Break, Quiet, Fetched, InHand
  <2> QED
      BY <1>q, <2>1
<1>13. ASSUME NEW r \in Requests, Arrive(r) PROVE Rest'
       BY <1>13, ArriveKeeps, DriverAssumption
<1> QED
    BY <1>1, <1>2, <1>3, <1>4, <1>5, <1>6, <1>7, <1>8, <1>9, <1>10, <1>11, <1>12, <1>13
    DEF Next, MainSteps, DriverSteps

LEMMA StepRestrained == TypeOK /\ Restrained /\ [Next]_vars => Restrained'
<1> SUFFICES ASSUME TypeOK, Restrained, [Next]_vars PROVE Restrained'
    OBVIOUS
<1> USE DEF Restrained
<1>1. CASE UNCHANGED vars
      BY <1>1 DEF vars
<1>2. CASE MainSteps \/ RegisterTimesOut \/ ServiceCalls \/ EngineReturns
  <2>1. UNCHANGED <<updates, message>> /\ (driver' = driver \/ driver' = "begin")
        BY <1>2 DEF MainSteps, RegisterWaits, RegisterSends, RegisterReplies, RegisterTimesOut,
           ActivationReceives, Activation, ActivationIgnores, ActivationFails, ServiceCalls,
           ServiceReturns, EngineReturns, Stops, Closes, Joins
  <2> QED
      BY <2>1
<1>3. CASE DriverBegins \/ DriverLoops \/ DriverTimesOut \/ DriverTakes \/ DriverFails
      BY <1>3 DEF DriverBegins, DriverLoops, DriverTimesOut, DriverTakes, DriverFails
<1>4. CASE DriverProcesses
      BY <1>4, DriverAssumption DEF DriverProcesses
<1>5. CASE DriverCloses \/ DriverAcks \/ DriverPuts
      BY <1>5 DEF DriverCloses, DriverAcks, DriverPuts
<1>6. CASE Background \/ Break \/ \E r \in Requests : Arrive(r)
      BY <1>6 DEF Background, Break, Arrive
<1> QED
    BY <1>1, <1>2, <1>3, <1>4, <1>5, <1>6 DEF Next, DriverSteps

-----------------------------------------------------------------------------
LEMMA InitIInv == Init => IInv
<1> SUFFICES ASSUME Init PROVE IInv
    OBVIOUS
<1>1. /\ inbox = <<>> /\ get = "idle" /\ driver = "none" /\ updates = <<>> /\ acked = {}
      /\ cameAt = [r \in Requests |-> 0]
      BY DEF Init, Stream!SpecInit
<1>2. \A r \in Requests : ~Coming(r) /\ ~Fetched(r) /\ ~InHand(r) /\ ~Put(r) /\ ~Started(r)
      BY <1>1 DEF Coming, Fetched, InHand, Put, Started
<1>3. Cardinality({q \in Requests : cameAt[q] > 0}) = 0
  <2>1. {q \in Requests : cameAt[q] > 0} = {}
        BY <1>1
  <2> QED
      BY <2>1, FS_EmptySet
<1>4. Numbered
  <2>1. \A r \in Requests : cameAt[r] = 0
        BY <1>1
  <2> QED
      BY <1>2, <1>3, <2>1 DEF Numbered
<1>5. Order
      BY <1>2 DEF Order
<1>6. InboxInOrder /\ UpdatesInOrder /\ UpdatesFollowActivation /\ Restrained
      BY <1>1 DEF InboxInOrder, UpdatesInOrder, UpdatesFollowActivation, Restrained
<1> QED
    BY <1>4, <1>5, <1>6, InitTypeOK DEF IInv

LEMMA Invariance == Spec => []IInv
<1>1. IInv /\ [Next]_vars => IInv'
      BY StepTypeOK, StepRest, StepRestrained DEF IInv, Rest
<1> QED
    BY InitIInv, <1>1, PTL DEF Spec

\* Every variable keeps its type, and only notifications and deactivations are put,
\* whoever stops the driver and whatever the connection does.
THEOREM TypeCorrect == Spec => []TypeOK
<1>1. IInv => TypeOK
      BY DEF IInv
<1> QED
    BY Invariance, <1>1, PTL

\* The engine gets its updates in the order in which the validator sent them.
THEOREM UpdatesOrdered == Spec => []UpdatesInOrder
<1>1. IInv => UpdatesInOrder
      BY DEF IInv
<1> QED
    BY Invariance, <1>1, PTL

\* No update came before the activation that start() acknowledged.
THEOREM UpdatesActivated == Spec => []UpdatesFollowActivation
<1>1. IInv => UpdatesFollowActivation
      BY DEF IInv
<1> QED
    BY Invariance, <1>1, PTL
=============================================================================
