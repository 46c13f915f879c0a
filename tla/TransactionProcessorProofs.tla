--------------------- MODULE TransactionProcessorProofs ---------------------
(***************************************************************************)
(* Theorems about TransactionProcessor, for any families, messages and     *)
(* number of disconnects.                                                  *)
(***************************************************************************)
EXTENDS TransactionProcessor, TLAPS

USE DEF stream, thread, history, Stream!specVars

Item == Requests \cup {ReconnectEvent}

-----------------------------------------------------------------------------
(***************************************************************************)
(* Facts about the inbox                                                   *)
(***************************************************************************)

\* What Take leaves in a queue, and what it takes.
LEMMA TakeFrom ==
  ASSUME NEW S, NEW q \in Seq(S), q # <<>>
  PROVE  /\ Head(q) = q[1] /\ Head(q) \in S /\ Tail(q) \in Seq(S)
         /\ 1 \in 1 .. Len(q) /\ Len(q) \in Nat /\ Len(Tail(q)) = Len(q) - 1
         /\ \A i \in 1 .. Len(Tail(q)) :
              i + 1 \in 1 .. Len(q) /\ Tail(q)[i] = q[i + 1]
  OBVIOUS

\* What Arrive makes of it.
LEMMA AddTo ==
  ASSUME NEW S, NEW q \in Seq(S), NEW e \in S
  PROVE  /\ Append(q, e) \in Seq(S) /\ Append(q, e) # <<>>
         /\ Len(q) \in Nat /\ Len(Append(q, e)) = Len(q) + 1
         /\ Append(q, e)[Len(q) + 1] = e
         /\ \A i \in 1 .. Len(q) : Append(q, e)[i] = q[i]
         /\ q # <<>> => Head(Append(q, e)) = Head(q)
<1> DEFINE p == Append(q, e)
<1>1. /\ p \in Seq(S) /\ Len(q) \in Nat /\ Len(p) = Len(q) + 1
      /\ p[Len(q) + 1] = e /\ \A i \in 1 .. Len(q) : p[i] = q[i]
  OBVIOUS
<1>2. p # <<>>
  BY <1>1
<1>3. ASSUME q # <<>>
      PROVE  Head(p) = Head(q)
  <2>1. Len(q) # 0 /\ Head(q) = q[1]
    BY <1>3
  <2>2. p[1] = q[1]
    BY <1>1, <2>1
  <2> QED
    BY <1>1, <1>2, <2>1, <2>2
<1> QED
  BY <1>1, <1>2, <1>3

-----------------------------------------------------------------------------
(***************************************************************************)
(* Type correctness                                                        *)
(***************************************************************************)
AllStates == Registering \cup Serving \cup Leaving \cup Ended

\* The parts of the type that belong to the stream.
LEMMA StreamType ==
  ASSUME TypeOK,
         \/ \E c \in Sends :
              \/ Stream!Begin(c) \/ Stream!Registered(c) \/ Stream!Drop(c)
              \/ Stream!Answer(c) \/ Stream!Fail(c) \/ Stream!Return(c)
              \/ Stream!TimeOut(c)
         \/ Stream!Receive \/ Stream!Cancelled \/ Stream!Break \/ Stream!Stop
         \/ Stream!GiveUp \/ UNCHANGED stream
  PROVE  Stream!SpecTypeOK'
<1> USE DEF TypeOK, Stream!SpecTypeOK, Stream!CallStates, Stream!FutureStates
<1>1. ASSUME NEW c \in Sends,
             \/ Stream!Begin(c) \/ Stream!Registered(c) \/ Stream!Drop(c)
             \/ Stream!Answer(c) \/ Stream!Fail(c) \/ Stream!Return(c)
             \/ Stream!TimeOut(c)
      PROVE  Stream!SpecTypeOK'
  BY <1>1 DEF Stream!Begin, Stream!Registered, Stream!Drop, Stream!Answer,
       Stream!Fail, Stream!Return, Stream!TimeOut
<1>2. CASE Stream!Receive
  BY <1>2 DEF Stream!Receive
<1>3. CASE Stream!Cancelled \/ Stream!Break \/ Stream!GiveUp
  BY <1>3 DEF Stream!Cancelled, Stream!Break, Stream!GiveUp
<1>4. CASE Stream!Stop
  BY <1>4 DEF Stream!Stop
<1>5. CASE UNCHANGED stream
  BY <1>5
<1> QED
  BY <1>1, <1>2, <1>3, <1>4, <1>5

\* The steps of the main thread keep the types.
LEMMA ThreadType ==
  ASSUME ProcessorAssumption, TypeOK, OneThing,
         \/ Register \/ Process \/ Leave
         \/ \E f \in Families : RegisterRefused(f) \/ RegisterMismatch(f)
         \/ ApplyCalls \/ ApplyEnds \/ ApplyRaises \/ AccessTimesOut \/ Interrupt
  PROVE  TypeOK'
<1> USE DEF TypeOK, Registering, Serving, Applying, Leaving, Ended
<1> Families \subseteq Sends /\ Access \in Sends /\ Unregister \in Sends
  BY DEF Sends
<1>1. CASE RegisterWaits \/ RegisterSent \/ ProcessCancelled
  BY <1>1, StreamType DEF RegisterWaits, RegisterSent, ProcessCancelled
<1>2. ASSUME NEW f \in Families, RegisterSends(f)
      PROVE  TypeOK'
  <2>1. Stream!SpecTypeOK'
    BY <1>2, StreamType DEF RegisterSends
  <2> QED
    BY <1>2, <2>1 DEF RegisterSends
<1>3. ASSUME NEW f \in Families, RegisterReplies(f)
      PROVE  TypeOK'
  <2>1. Stream!SpecTypeOK'
    BY <1>3, StreamType DEF RegisterReplies
  <2> QED
    BY <1>3, <2>1 DEF RegisterReplies
<1>4. ASSUME NEW f \in Families, RegisterRefused(f)
      PROVE  TypeOK'
  BY <1>4 DEF RegisterRefused, Stream!SpecTypeOK
<1>5. ASSUME NEW f \in Families, RegisterMismatch(f)
      PROVE  TypeOK'
  BY <1>5 DEF RegisterMismatch, Abandon, BeginsToLeave, Stream!SpecTypeOK, Stream!CallStates
<1>6. CASE Interrupt
  BY <1>6 DEF Interrupt, Abandon, BeginsToLeave, Stream!SpecTypeOK, Stream!CallStates
<1>7. CASE Receives
  <2>1. Stream!SpecTypeOK'
    BY <1>7, StreamType DEF Receives
  <2> QED
    BY <1>7, <2>1 DEF Receives
<1>8. CASE ProcessReconnect \/ ProcessPing \/ ProcessTransaction
  <2>1. Stream!SpecTypeOK' /\ got' = got
    BY <1>8, StreamType DEF ProcessReconnect, ProcessPing, ProcessTransaction,
         Stream!Receive
  <2> QED
    BY <1>8, <2>1 DEF ProcessReconnect, ProcessPing, ProcessTransaction
<1>9. CASE AccessReturns
  <2>1. Stream!SpecTypeOK' /\ got' = got
    BY <1>9, StreamType DEF AccessReturns, Stream!Return
  <2> QED
    BY <1>9, <2>1 DEF AccessReturns
<1>10. CASE Responds
  <2>1. Stream!SpecTypeOK' /\ got' = got
    BY <1>10, StreamType DEF Responds
  <2>2. responses' \in [Transactions -> Nat]
    BY <1>10 DEF Responds, ProcessorAssumption
  <2> QED
    BY <1>10, <2>1, <2>2 DEF Responds
<1>11. CASE Leave
  <2>1. Stream!SpecTypeOK'
    BY <1>11, StreamType DEF Leave, UnregisterWaits, UnregisterSends,
         UnregisterReplies, UnregisterTimesOut, ProcessTimesOut
  <2> QED
    BY <1>11, <2>1 DEF Leave, UnregisterWaits, UnregisterSends,
         UnregisterReplies, UnregisterTimesOut, ProcessTimesOut
<1>12. CASE ApplyCalls \/ ApplyEnds \/ AccessTimesOut
  <2>1. Stream!SpecTypeOK' /\ got' = got
    BY <1>12, StreamType DEF ApplyCalls, ApplyEnds, AccessTimesOut,
         Stream!Begin, Stream!TimeOut
  <2> QED
    BY <1>12, <2>1 DEF ApplyCalls, ApplyEnds, AccessTimesOut
<1>13. CASE ApplyRaises
  <2>1. /\ closed' \in BOOLEAN /\ UNCHANGED <<conn, call, dropped, inbox, get, got>>
        /\ pc' \in {"crashed", "stopped"}
        /\ UNCHANGED <<unsent, unread, interrupted, history>>
    BY <1>13 DEF ApplyRaises, Stream!SpecTypeOK
  <2>2. Stream!SpecTypeOK'
    BY <2>1 DEF Stream!SpecTypeOK
  <2> QED
    BY <2>1, <2>2
<1> QED
  BY <1>1, <1>2, <1>3, <1>4, <1>5, <1>6, <1>7, <1>8, <1>9, <1>10, <1>11,
     <1>12, <1>13 DEF Register, Process

\* So do those of the background thread and the validator.
LEMMA TransportType ==
  ASSUME ProcessorAssumption, TypeOK, OneThing,
         \/ Transport \/ Break \/ GiveUp
         \/ \E c \in Sends : Registered(c) \/ Drop(c) \/ Answer(c) \/ Fail(c)
         \/ \E r \in Requests : Arrive(r)
  PROVE  TypeOK'
<1> USE DEF TypeOK
<1>1. CASE \/ Stop \/ Cancelled \/ GiveUp \/ Break
           \/ \E c \in Sends : Registered(c) \/ Drop(c) \/ Answer(c) \/ Fail(c)
  <2>1. /\ \/ \E c \in Sends :
                \/ Stream!Registered(c) \/ Stream!Drop(c)
                \/ Stream!Answer(c) \/ Stream!Fail(c)
           \/ Stream!Stop \/ Stream!Cancelled \/ Stream!GiveUp
           \/ Stream!Break
        /\ UNCHANGED <<thread, history>>
    BY <1>1 DEF Stop, Cancelled, GiveUp, Break, Registered, Drop, Answer,
         Fail
  <2>2. Stream!SpecTypeOK'
    BY <2>1, StreamType
  <2>3. got' = got
    BY <2>1 DEF Stream!Registered, Stream!Drop, Stream!Answer, Stream!Fail,
         Stream!Stop, Stream!Cancelled, Stream!GiveUp, Stream!Break
  <2> QED
    BY <2>1, <2>2, <2>3
<1>2. CASE Take
  <2>1. inbox \in Seq(Item)
    BY DEF Stream!SpecTypeOK, Item
  <2>2. Head(inbox) \in Item /\ Tail(inbox) \in Seq(Item)
    BY <1>2, <2>1, TakeFrom DEF Take, Stream!Take
  <2>3. Stream!SpecTypeOK'
    BY <1>2, <2>2 DEF Take, Stream!Take, Stream!SpecTypeOK, Item,
         Stream!FutureStates
  <2>4. pc \notin Applying
    BY <1>2 DEF Take, Stream!Take, OneThing, Applying, Leaving, Ended
  <2> QED
    BY <1>2, <2>3, <2>4 DEF Take
<1>3. CASE Reconnect
  <2>1. <<ReconnectEvent>> \in Seq(Item)
    BY DEF Item
  <2>2. Stream!SpecTypeOK' /\ got' = got
    BY <1>3, <2>1 DEF Reconnect, Stream!Reconnect, Stream!SpecTypeOK, Item
  <2> QED
    BY <1>3, <2>2 DEF Reconnect
<1>4. ASSUME NEW r \in Requests, Arrive(r)
      PROVE  TypeOK'
  <2>1. inbox \in Seq(Item) /\ r \in Item
    BY DEF Stream!SpecTypeOK, Item
  <2>2. inbox' \in Seq(Item)
    BY <1>4, <2>1, AddTo DEF Arrive, Stream!Arrive
  <2>3. Stream!SpecTypeOK' /\ got' = got
    BY <1>4, <2>2 DEF Arrive, Stream!Arrive, Stream!SpecTypeOK, Item
  <2> QED
    BY <1>4, <2>3 DEF Arrive
<1> QED
  BY <1>1, <1>2, <1>3, <1>4 DEF Transport

-----------------------------------------------------------------------------
(***************************************************************************)
(* The steps that matter to a conjunct of ServingInv, and what the others  *)
(* leave alone.                                                            *)
(***************************************************************************)

\* The stream's steps that touch neither the inbox nor the future of receive().
CallStep ==
  \E c \in Sends :
    \/ Stream!Begin(c) \/ Stream!Registered(c) \/ Stream!Drop(c)
    \/ Stream!Answer(c) \/ Stream!Fail(c) \/ Stream!Return(c)
    \/ Stream!TimeOut(c)

LEMMA CallStepLeaves ==
  ASSUME CallStep
  PROVE  UNCHANGED <<conn, inbox, get, got, closed>>
BY DEF CallStep, Stream!Begin, Stream!Registered, Stream!Drop, Stream!Answer,
   Stream!Fail, Stream!Return, Stream!TimeOut

\* A step of the main thread leaves the inbox, the connection and the requests
\* that came; only Receives touches the future, only RegisterSends the history
\* of registrations.
ThreadStep ==
  \/ Register \/ Process \/ Leave
  \/ \E f \in Families : RegisterRefused(f) \/ RegisterMismatch(f)
  \/ ApplyCalls \/ ApplyEnds \/ ApplyRaises \/ AccessTimesOut \/ Interrupt

TransportStep ==
  \/ Transport \/ Break \/ GiveUp
  \/ \E c \in Sends : Registered(c) \/ Drop(c) \/ Answer(c) \/ Fail(c)
  \/ \E r \in Requests : Arrive(r)

LEMMA ThreadLeaves ==
  ASSUME ThreadStep
  PROVE  /\ UNCHANGED <<conn, inbox, conns, arrivedOn>>
         /\ Receives \/ UNCHANGED <<get, got>>
         /\ UNCHANGED regOn \/ \E f \in Families : RegisterSends(f)
<1> Families \subseteq Sends /\ Access \in Sends /\ Unregister \in Sends
  BY DEF Sends
<1>1. CASE Register
  BY <1>1, CallStepLeaves DEF Register, RegisterWaits, RegisterSends,
     RegisterSent, RegisterReplies, CallStep
<1>2. CASE Process
  BY <1>2, CallStepLeaves DEF Process, Receives, ProcessCancelled,
     ProcessReconnect, ProcessPing, ProcessTransaction, AccessReturns, Responds,
     Stream!Receive, CallStep
<1>3. CASE Leave
  BY <1>3, CallStepLeaves DEF Leave, UnregisterWaits, UnregisterSends,
     UnregisterReplies, UnregisterTimesOut, ProcessTimesOut, CallStep
<1>4. CASE \/ Interrupt
           \/ \E f \in Families : RegisterRefused(f) \/ RegisterMismatch(f)
  BY <1>4 DEF Interrupt, RegisterRefused, RegisterMismatch, BeginsToLeave, Abandon
<1>5. CASE ApplyCalls \/ ApplyEnds \/ ApplyRaises \/ AccessTimesOut
  BY <1>5, CallStepLeaves DEF ApplyCalls, ApplyEnds, ApplyRaises, AccessTimesOut, CallStep
<1> QED
  BY <1>1, <1>2, <1>3, <1>4, <1>5 DEF ThreadStep

\* Where the main thread can be before and after one of its steps.
LEMMA ThreadMoves ==
  ASSUME TypeOK, ThreadStep
  PROVE  /\ pc \notin Ended
         /\ interrupted => interrupted'
         /\ interrupted' /\ ~interrupted => pc' = "unregister"
         /\ pc' = "await" => \/ Receives \/ UnregisterReplies
         /\ get \in {"waiting", "doomed"} /\ pc = "await" =>
              pc' \in Leaving \cup Ended
         /\ pc \in Leaving => pc' \in {"await"} \cup Leaving \cup Ended
<1> USE DEF Registering, Serving, Applying, Leaving, Ended
<1>1. CASE Register
  BY <1>1 DEF Register, RegisterWaits, RegisterSends, RegisterSent,
     RegisterReplies
<1>2. CASE Process
  BY <1>2 DEF Process, Receives, ProcessCancelled, ProcessReconnect,
     ProcessPing, ProcessTransaction, AccessReturns, Responds
<1>3. CASE Leave
  BY <1>3 DEF Leave, UnregisterWaits, UnregisterSends, UnregisterReplies,
     UnregisterTimesOut, ProcessTimesOut
<1>4. CASE \/ Interrupt
           \/ \E f \in Families : RegisterRefused(f) \/ RegisterMismatch(f)
  BY <1>4 DEF Interrupt, RegisterRefused, RegisterMismatch, BeginsToLeave
<1>5. CASE ApplyCalls \/ ApplyEnds \/ ApplyRaises \/ AccessTimesOut
  BY <1>5 DEF ApplyCalls, ApplyEnds, ApplyRaises, AccessTimesOut
<1> QED
  BY <1>1, <1>2, <1>3, <1>4, <1>5 DEF ThreadStep

\* A step of the transport leaves the thread and the registrations alone.
LEMMA TransportLeaves ==
  ASSUME TransportStep
  PROVE  /\ UNCHANGED <<thread, regOn, responses, held>>
         /\ \/ Take \/ Stop \/ Reconnect
            \/ \E r \in Requests : Arrive(r)
            \/ /\ UNCHANGED <<inbox, got, conns, arrivedOn>>
               /\ get' = get \/ get \in {"waiting", "doomed"}
               /\ conn' = conn \/ Break \/ GiveUp
<1>1. CASE Take \/ Stop \/ Reconnect \/ \E r \in Requests : Arrive(r)
  BY <1>1 DEF Take, Stop, Reconnect, Arrive
<1>2. CASE Cancelled \/ Break \/ GiveUp
  BY <1>2 DEF Cancelled, Break, GiveUp, Stream!Cancelled,
     Stream!Break, Stream!GiveUp
<1>3. CASE \E c \in Sends : Registered(c) \/ Drop(c) \/ Answer(c) \/ Fail(c)
  <2>1. CallStep /\ UNCHANGED <<thread, history>>
    BY <1>3 DEF CallStep, Registered, Drop, Answer, Fail
  <2> QED
    BY <2>1, CallStepLeaves
<1> QED
  BY <1>1, <1>2, <1>3 DEF TransportStep, Transport
-----------------------------------------------------------------------------
(***************************************************************************)
(* Each conjunct of ServingInv is preserved                                *)
(***************************************************************************)
LEMMA OneThingStep ==
  ASSUME TypeOK, OneThing, ThreadStep \/ TransportStep
  PROVE  OneThing'
<1> USE DEF OneThing
<1>1. CASE ThreadStep
  <2>1. CASE Receives
    BY <2>1 DEF Receives
  <2>2. CASE UNCHANGED <<get, got>>
    BY <1>1, <2>2, ThreadMoves
  <2> QED
    BY <1>1, <2>1, <2>2, ThreadLeaves
<1>2. CASE TransportStep
  <2>1. pc' = pc
    BY <1>2, TransportLeaves
  <2>2. get' \in {"waiting", "doomed"} => get \in {"waiting", "doomed"}
    BY <1>2, TransportLeaves DEF Take, Stop, Reconnect, Arrive, Stream!Take,
       Stream!Stop, Stream!Reconnect, Stream!Arrive
  <2> QED
    BY <2>1, <2>2
<1> QED
  BY <1>1, <1>2

LEMMA ThreadInvStep ==
  ASSUME SentBeforeRead, LeavesOnce, ThreadStep \/ TransportStep
  PROVE  SentBeforeRead' /\ LeavesOnce'
<1> USE DEF SentBeforeRead, LeavesOnce, Leaving
<1>1. CASE Register
  BY <1>1 DEF Register, RegisterWaits, RegisterSends, RegisterSent,
     RegisterReplies
<1>2. CASE Process
  BY <1>2 DEF Process, Receives, ProcessCancelled, ProcessReconnect,
     ProcessPing, ProcessTransaction, AccessReturns, Responds
<1>3. CASE Leave
  BY <1>3 DEF Leave, UnregisterWaits, UnregisterSends, UnregisterReplies,
     UnregisterTimesOut, ProcessTimesOut
<1>4. CASE \/ Interrupt
           \/ \E f \in Families : RegisterRefused(f) \/ RegisterMismatch(f)
  BY <1>4 DEF Interrupt, RegisterRefused, RegisterMismatch, BeginsToLeave
<1>5. CASE ApplyCalls \/ ApplyEnds \/ ApplyRaises \/ AccessTimesOut
  BY <1>5 DEF ApplyCalls, ApplyEnds, ApplyRaises, AccessTimesOut
<1>6. CASE TransportStep
  BY <1>6, TransportLeaves
<1> QED
  BY <1>1, <1>2, <1>3, <1>4, <1>5, <1>6 DEF ThreadStep

LEMMA ArrivalsStep ==
  ASSUME ProcessorAssumption, TypeOK, Arrivals, ThreadStep \/ TransportStep
  PROVE  Arrivals'
<1> USE DEF Arrivals
<1>1. ASSUME UNCHANGED <<inbox, conns, arrivedOn>>, got' = got \/ got' = NoMessage
      PROVE  Arrivals'
  BY <1>1 DEF Arrived, ProcessorAssumption
<1>2. CASE ThreadStep
  <2>1. UNCHANGED <<inbox, conns, arrivedOn>>
    BY <1>2, ThreadLeaves
  <2>2. got' = got \/ got' = NoMessage
    BY <1>2, ThreadLeaves DEF Receives, Stream!Receive
  <2> QED
    BY <1>1, <2>1, <2>2
<1>3. inbox \in Seq(Item)
  BY DEF TypeOK, Stream!SpecTypeOK, Item
<1>4. CASE Take
  <2>1. inbox # <<>> /\ inbox' = Tail(inbox) /\ got' = Head(inbox)
        /\ UNCHANGED <<conns, arrivedOn>>
    BY <1>4 DEF Take, Stream!Take
  <2> QED
    BY <1>3, <2>1, TakeFrom DEF Arrived
<1>5. CASE Stop
  <2>1. inbox' = <<>> /\ UNCHANGED <<got, conns, arrivedOn>>
    BY <1>5 DEF Stop, Stream!Stop
  <2> QED
    BY <2>1 DEF Arrived
<1>6. CASE Reconnect
  <2>1. inbox' = <<ReconnectEvent>> /\ conns' = conns + 1
        /\ UNCHANGED <<got, arrivedOn>>
    BY <1>6 DEF Reconnect, Stream!Reconnect
  <2>2. \A r : Arrived(r) => Arrived(r)'
    BY <2>1 DEF Arrived, TypeOK
  <2>3. Arrived(ReconnectEvent)'
    BY DEF Arrived, ProcessorAssumption
  <2> QED
    BY <2>1, <2>2, <2>3
<1>7. ASSUME NEW r \in Requests, Arrive(r)
      PROVE  Arrivals'
  <2>1. inbox' = Append(inbox, r) /\ UNCHANGED <<got, conns>>
        /\ arrivedOn' = [arrivedOn EXCEPT ![r] = conns]
    BY <1>7 DEF Arrive, Stream!Arrive
  <2>4. ASSUME NEW i \in 1 .. Len(inbox')
        PROVE  Arrived(inbox[i])'
    <3>1. /\ r \in Item /\ Len(inbox) \in Nat
          /\ Len(inbox') = Len(inbox) + 1 /\ inbox'[Len(inbox) + 1] = r
          /\ \A j \in 1 .. Len(inbox) : inbox'[j] = inbox[j]
      BY <1>3, <2>1, AddTo DEF Item
    <3>2. CASE i \in 1 .. Len(inbox)
      <4>1. Arrived(inbox[i]) /\ inbox'[i] = inbox[i]
        BY <3>1, <3>2
      <4> QED
        BY <2>1, <4>1 DEF Arrived, TypeOK
    <3>3. CASE i = Len(inbox) + 1
      BY <2>1, <3>1, <3>3 DEF Arrived, TypeOK
    <3> QED
      BY <3>1, <3>2, <3>3
  <2>5. Arrived(got)'
    BY <2>1 DEF Arrived, TypeOK
  <2> QED
    BY <2>4, <2>5
<1>8. CASE TransportStep
  BY <1>1, <1>4, <1>5, <1>6, <1>7, <1>8, TransportLeaves
<1> QED
  BY <1>2, <1>8

LEMMA AnnouncedStep ==
  ASSUME ProcessorAssumption, TypeOK, OneThing, LeavesOnce, SentBeforeRead,
         Announced,
         ThreadStep \/ TransportStep,
         ~interrupted', pc' \notin Ended
  PROVE  Announced'
<1>1. SUFFICES ASSUME (conn \in {"up", "failing"} \/ inbox # <<>>)'
               PROVE  Announced'
  BY DEF Announced
<1>2. inbox \in Seq(Item)
  BY DEF TypeOK, Stream!SpecTypeOK, Item
<1>3. CASE TransportStep
  <2>0. UNCHANGED <<pc, unsent, interrupted, regOn>>
    BY <1>3, TransportLeaves
  <2>1. CASE Take
    <3>1. /\ inbox # <<>> /\ inbox' = Tail(inbox) /\ get = "waiting"
          /\ got' = Head(inbox) /\ get' = "item"
          /\ UNCHANGED <<conn, conns>>
      BY <2>1 DEF Take, Stream!Take
    <3>2. pc = "await"
      BY <2>0, <3>1 DEF OneThing, LeavesOnce
    <3>3. KnownOn(conns) \/ Head(inbox) = ReconnectEvent
      BY <3>1, <3>2 DEF Announced, Registering
    <3> QED
      BY <2>0, <3>1, <3>2, <3>3 DEF Announced, KnownOn
  <2>2. CASE Stop
    BY <1>1, <2>2 DEF Stop, Stream!Stop
  <2>3. CASE Reconnect
    <3>1. inbox' = <<ReconnectEvent>>
      BY <2>3 DEF Reconnect, Stream!Reconnect
    <3> QED
      BY <3>1 DEF Announced
  <2>4. ASSUME NEW r \in Requests, Arrive(r)
        PROVE  Announced'
    <3>1. conn = "up" /\ inbox' = Append(inbox, r)
          /\ UNCHANGED <<conn, conns, get, got>>
      BY <2>4 DEF Arrive, Stream!Arrive
    <3>2. inbox' # <<>> /\ (inbox # <<>> => Head(inbox') = Head(inbox))
      BY <1>2, <3>1, AddTo DEF Item
    <3> QED
      BY <2>0, <3>1, <3>2 DEF Announced, KnownOn
  <2>5. ASSUME UNCHANGED <<inbox, got, conns>>,
               get' = get \/ get \in {"waiting", "doomed"},
               conn' = conn \/ Break \/ GiveUp
        PROVE  Announced'
    <3>1. conn \in {"up", "failing"} \/ inbox # <<>>
      BY <1>1, <2>5 DEF Break, GiveUp, Stream!Break, Stream!GiveUp
    <3> QED
      BY <2>0, <2>5, <3>1 DEF Announced, KnownOn
  <2> QED
    BY <1>3, <2>1, <2>2, <2>3, <2>4, <2>5, TransportLeaves
<1>4. CASE ThreadStep
  <2>1. ~interrupted /\ pc \notin Ended
    BY <1>4, ThreadMoves
  <2>2. UNCHANGED <<conn, inbox, conns>>
    BY <1>4, ThreadLeaves
  <2>3. \/ KnownOn(conns)
        \/ inbox # <<>> /\ Head(inbox) = ReconnectEvent
        \/ pc = "await" /\ get = "item" /\ got = ReconnectEvent
        \/ pc \in Registering /\ \A f \in Families \ unsent : regOn[f] >= conns
    BY <1>1, <2>2 DEF Announced
  <2>4. CASE inbox # <<>> /\ Head(inbox) = ReconnectEvent
    BY <2>2, <2>4 DEF Announced
  <2>5. CASE KnownOn(conns)
    <3>1. KnownOn(conns)'
      BY <1>4, <2>2, <2>5, ThreadLeaves DEF KnownOn, RegisterSends, TypeOK
    <3> QED
      BY <3>1 DEF Announced
  <2>6. CASE pc = "await" /\ get = "item" /\ got = ReconnectEvent
    <3>1. ProcessReconnect
      <4>1. CASE Register
        BY <2>6, <4>1 DEF Register, RegisterWaits, RegisterSends, RegisterSent,
           RegisterReplies
      <4>2. CASE Process
        BY <2>6, <4>2 DEF Process, Receives, ProcessCancelled, ProcessPing,
           ProcessTransaction, AccessReturns, Responds, Requests,
           ProcessorAssumption
      <4>3. CASE Leave
        BY <2>6, <4>3 DEF Leave, UnregisterWaits, UnregisterSends,
           UnregisterReplies, UnregisterTimesOut, ProcessTimesOut
      <4>4. CASE \/ Interrupt
                 \/ \E f \in Families : RegisterRefused(f) \/ RegisterMismatch(f)
        BY <2>6, <4>4 DEF Interrupt, RegisterRefused, RegisterMismatch, BeginsToLeave
      <4>5. CASE ApplyCalls \/ ApplyEnds \/ ApplyRaises \/ AccessTimesOut
        BY <2>6, <4>5 DEF ApplyCalls, ApplyEnds, ApplyRaises, AccessTimesOut
      <4> QED
        BY <1>4, <4>1, <4>2, <4>3, <4>4, <4>5 DEF ThreadStep
    <3>2. pc' = "register" /\ unsent' = Families
      BY <2>1, <3>1 DEF ProcessReconnect
    <3> QED
      BY <3>2 DEF Announced, Registering
  <2>7. CASE pc \in Registering /\ \A f \in Families \ unsent : regOn[f] >= conns
    <3>1. Register
      <4>1. CASE Process
        BY <2>7, <4>1 DEF Process, Receives, ProcessCancelled, ProcessReconnect,
           ProcessPing, ProcessTransaction, AccessReturns, Responds, Registering
      <4>2. CASE Leave
        BY <2>7, <4>2 DEF Leave, UnregisterWaits, UnregisterSends,
           UnregisterReplies, UnregisterTimesOut, ProcessTimesOut, Registering
      <4>3. CASE \/ Interrupt
                 \/ \E f \in Families : RegisterRefused(f) \/ RegisterMismatch(f)
        BY <4>3 DEF Interrupt, RegisterRefused, RegisterMismatch, BeginsToLeave, Ended
      <4>4. CASE ApplyCalls \/ ApplyEnds \/ ApplyRaises \/ AccessTimesOut
        BY <2>7, <4>4 DEF ApplyCalls, ApplyEnds, ApplyRaises, AccessTimesOut, Registering
      <4> QED
        BY <1>4, <4>1, <4>2, <4>3, <4>4 DEF ThreadStep
    <3>2. CASE RegisterWaits
      BY <2>2, <2>7, <3>2 DEF RegisterWaits, Announced, Registering
    <3>3. ASSUME NEW f \in Families, RegisterSends(f)
          PROVE  Announced'
      <4>1. /\ regOn' = [regOn EXCEPT ![f] = conns]
            /\ unsent' = unsent \ {f} /\ pc' = "register"
        BY <3>3 DEF RegisterSends, Ended
      <4> QED
        BY <2>2, <2>7, <4>1 DEF Announced, Registering, TypeOK
    <3>4. CASE RegisterSent \/ \E f \in Families : RegisterReplies(f)
      <4>1. unsent = {} /\ regOn' = regOn
        BY <3>4 DEF RegisterSent, RegisterReplies, SentBeforeRead
      <4> QED
        BY <2>2, <2>7, <4>1 DEF Announced, KnownOn
    <3> QED
      BY <3>1, <3>2, <3>3, <3>4 DEF Register
  <2> QED
    BY <2>3, <2>4, <2>5, <2>6, <2>7
<1> QED
  BY <1>3, <1>4
LEMMA GotKnownStep ==
  ASSUME ProcessorAssumption, TypeOK, OneThing, LeavesOnce, Arrivals, Announced,
         GotKnown, ThreadStep \/ TransportStep,
         ~interrupted', pc' \notin Ended
  PROVE  GotKnown'
<1>1. CASE ThreadStep
  <2>1. /\ UNCHANGED <<conns, arrivedOn>>
        /\ got' = got \/ got' = NoMessage
    BY <1>1, ThreadLeaves DEF Receives, Stream!Receive
  <2>2. CASE UNCHANGED regOn
    BY <2>1, <2>2 DEF GotKnown, KnownOn, ProcessorAssumption
  <2>3. ASSUME NEW f \in Families, RegisterSends(f), regOn' # regOn
        PROVE  GotKnown'
    <3>1. regOn' = [regOn EXCEPT ![f] = conns]
      BY <2>3 DEF RegisterSends
    <3>2. got \in Requests => arrivedOn[got] \in 1 .. conns
      BY DEF Arrivals, Arrived
    <3> QED
      BY <2>1, <3>1, <3>2 DEF GotKnown, KnownOn, TypeOK, ProcessorAssumption
  <2> QED
    BY <1>1, <2>2, <2>3, ThreadLeaves
<1>2. CASE TransportStep
  <2>0. UNCHANGED <<pc, interrupted, regOn>>
    BY <1>2, TransportLeaves
  <2>1. CASE Take
    <3>1. /\ inbox # <<>> /\ get = "waiting" /\ got' = Head(inbox)
          /\ UNCHANGED <<conns, arrivedOn>>
      BY <2>1 DEF Take, Stream!Take
    <3>2. pc = "await"
      BY <2>0, <3>1 DEF OneThing, LeavesOnce
    <3>3. KnownOn(conns) \/ Head(inbox) = ReconnectEvent
      BY <3>1, <3>2 DEF Announced, Registering
    <3>4. CASE Head(inbox) = ReconnectEvent
      BY <3>1, <3>4 DEF GotKnown, ProcessorAssumption
    <3>5. CASE KnownOn(conns)
      <4>1. inbox \in Seq(Item)
        BY DEF TypeOK, Stream!SpecTypeOK, Item
      <4>2. 1 \in 1 .. Len(inbox) /\ Head(inbox) = inbox[1]
        BY <3>1, <4>1, TakeFrom
      <4>3. Arrived(Head(inbox))
        BY <4>2 DEF Arrivals
      <4> QED
        BY <2>0, <3>1, <3>5, <4>3 DEF GotKnown, KnownOn, Arrived, TypeOK
    <3> QED
      BY <3>3, <3>4, <3>5
  <2>2. CASE Stop \/ Reconnect
    <3>1. UNCHANGED <<got, arrivedOn>>
      BY <2>2 DEF Stop, Reconnect, Stream!Stop, Stream!Reconnect
    <3> QED
      BY <2>0, <3>1 DEF GotKnown, KnownOn
  <2>3. ASSUME NEW r \in Requests, Arrive(r)
        PROVE  GotKnown'
    <3>1. /\ got' = got /\ arrivedOn[r] = 0
          /\ arrivedOn' = [arrivedOn EXCEPT ![r] = conns]
      BY <2>3 DEF Arrive, Stream!Arrive
    <3>2. got \in Requests => got # r
      BY <3>1 DEF Arrivals, Arrived, TypeOK
    <3> QED
      BY <2>0, <3>1, <3>2 DEF GotKnown, KnownOn, TypeOK
  <2>4. CASE UNCHANGED <<got, arrivedOn>>
    BY <2>0, <2>4 DEF GotKnown, KnownOn
  <2> QED
    BY <1>2, <2>1, <2>2, <2>3, <2>4, TransportLeaves
<1> QED
  BY <1>1, <1>2

-----------------------------------------------------------------------------
(***************************************************************************)
(* The theorems                                                            *)
(***************************************************************************)
LEMMA InitServes ==
  ASSUME ProcessorAssumption, Init
  PROVE  TypeOK /\ ServingInv
<1>1. TypeOK
  <2>1. <<>> \in Seq(Requests \cup {ReconnectEvent})
    OBVIOUS
  <2>2. Stream!SpecTypeOK
    BY <2>1 DEF Init, Stream!SpecInit, Stream!SpecTypeOK, Stream!CallStates,
         Stream!FutureStates
  <2>3. /\ regOn \in [Families -> Nat] /\ arrivedOn \in [Requests -> Nat]
        /\ responses \in [Transactions -> Nat]
    BY DEF Init
  <2>4. pc = "register" /\ unsent = Families /\ unread = {} /\ conns = 1
        /\ interrupted = FALSE
    BY DEF Init
  <2>5. /\ pc \in Registering \cup Serving \cup Leaving \cup Ended
        /\ pc \notin Applying
    BY <2>4 DEF Registering, Applying
  <2>6. unsent \subseteq Families /\ unread \subseteq Families
    BY <2>4
  <2>7. conns \in Nat \ {0}
    BY <2>4
  <2>8. interrupted \in BOOLEAN /\ held \in Requests \cup {ReconnectEvent, NoMessage}
    BY <2>4 DEF Init
  <2> QED
    BY <2>2, <2>3, <2>5, <2>6, <2>7, <2>8 DEF TypeOK
<1>2. ServingInv
  BY DEF Init, ProcessorAssumption, ServingInv, OneThing, LeavesOnce,
     SentBeforeRead, Arrivals, Arrived, Announced, GotKnown, Registering, Leaving,
     Stream!SpecInit
<1> QED
  BY <1>1, <1>2

LEMMA NextServes ==
  ASSUME ProcessorAssumption, TypeOK, ServingInv, [Next]_vars
  PROVE  TypeOK' /\ ServingInv'
<1>1. CASE UNCHANGED vars
  <2>1. TypeOK'
    BY <1>1 DEF vars, TypeOK, Stream!SpecTypeOK
  <2>2. ServingInv'
    BY <1>1 DEF vars, ServingInv, OneThing, LeavesOnce, SentBeforeRead, Arrivals,
       Arrived, Announced, KnownOn, GotKnown
  <2> QED
    BY <2>1, <2>2
<1>2. CASE Next
  <2>1. ThreadStep \/ TransportStep
    BY <1>2 DEF Next, ThreadStep, TransportStep
  <2>2. TypeOK'
    BY <2>1, ThreadType, TransportType DEF ThreadStep, TransportStep, ServingInv
  <2>3. OneThing' /\ LeavesOnce' /\ SentBeforeRead' /\ Arrivals'
    BY <2>1, OneThingStep, ThreadInvStep, ArrivalsStep DEF ServingInv
  <2>4. ASSUME ~interrupted', pc' \notin Ended
        PROVE  Announced' /\ GotKnown'
    <3>1. ~interrupted /\ pc \notin Ended
      BY <2>1, <2>4, ThreadMoves, TransportLeaves
    <3> QED
      BY <2>1, <2>4, <3>1, AnnouncedStep, GotKnownStep DEF ServingInv
  <2> QED
    BY <2>2, <2>3, <2>4 DEF ServingInv
<1> QED
  BY <1>1, <1>2

\* The types are kept, and only a transaction with a handler is applied
\* (processor/core.py).
THEOREM TypeCorrect == Spec => []TypeOK
<1>1. Init => TypeOK /\ ServingInv
  BY ProcessorAssumption, InitServes
<1>2. TypeOK /\ ServingInv /\ [Next]_vars => (TypeOK /\ ServingInv)'
  BY ProcessorAssumption, NextServes
<1> QED
  BY <1>1, <1>2, PTL DEF Spec

\* Whenever a request can come next, the registrations for its connection were
\* made or something before it will have them made (_process_future, _register).
THEOREM ServingCorrect == Spec => []ServingInv
<1>1. Init => TypeOK /\ ServingInv
  BY ProcessorAssumption, InitServes
<1>2. TypeOK /\ ServingInv /\ [Next]_vars => (TypeOK /\ ServingInv)'
  BY ProcessorAssumption, NextServes
<1> QED
  BY <1>1, <1>2, PTL DEF Spec

\* A transaction is applied only when every family was registered on the
\* connection it came on, or a later one.
THEOREM RegistersFirst == Spec => []RegistersBeforeServing
<1>1. TypeOK /\ ServingInv => RegistersBeforeServing
  BY ProcessorAssumption
     DEF TypeOK, ServingInv, RegistersBeforeServing, GotKnown, KnownOn, Applying,
         Ended, ProcessorAssumption, Requests
<1> QED
  BY <1>1, TypeCorrect, ServingCorrect, PTL

-----------------------------------------------------------------------------
(***************************************************************************)
(* One response: a transaction is in one place at a time, in the inbox or  *)
(* at hand, and each time it is taken up earns it one response at most.    *)
(***************************************************************************)
AtHand == {"await"} \cup Applying \cup Leaving

\* The responses that t may have: one, or two if it is the one held, less the
\* one that taking it up is for.
Allowed(t) ==
  (IF interrupted /\ t = held THEN 2 ELSE 1) - (IF got = t /\ pc \in AtHand THEN 1 ELSE 0)

WithinAllowed == \A t \in Transactions : responses[t] <= Allowed(t)

\* A transaction waits once, without a response, and is not the one at hand.
WaitsOnce ==
  \A i \in 1 .. Len(inbox) : inbox[i] \in Transactions =>
    /\ responses[inbox[i]] = 0 /\ inbox[i] # got
    /\ \A j \in 1 .. Len(inbox) : inbox[j] = inbox[i] => j = i

UnansweredAtFirst ==
  \A t \in Transactions : arrivedOn[t] = 0 => responses[t] = 0

NeverRegistersLate == pc \in Registering => ~interrupted

OnceInv == WithinAllowed /\ WaitsOnce /\ UnansweredAtFirst /\ NeverRegistersLate

\* A step that changes neither the messages nor the responses, and takes no
\* transaction up.
LEMMA Unmoved ==
  ASSUME TypeOK, OnceInv, NeverRegistersLate',
         UNCHANGED <<inbox, got, arrivedOn, responses>>,
         \/ /\ UNCHANGED <<interrupted, held>>
            /\ pc' \in AtHand => pc \in AtHand
         \/ ~interrupted /\ interrupted' /\ (pc \in AtHand \/ held' = got)
  PROVE  OnceInv'
<1>1. WithinAllowed'
  <2> SUFFICES ASSUME NEW t \in Transactions
               PROVE  responses[t]' <= Allowed(t)'
    BY DEF WithinAllowed
  <2>1. responses[t] <= Allowed(t) /\ responses[t] \in Nat /\ interrupted \in BOOLEAN
    BY DEF OnceInv, WithinAllowed, TypeOK
  <2>2. Allowed(t) \in Int /\ Allowed(t)' \in Int
    BY DEF Allowed
  <2>3. Allowed(t) <= Allowed(t)'
    <3>1. CASE UNCHANGED <<interrupted, held>> /\ (pc' \in AtHand => pc \in AtHand)
      BY <3>1 DEF Allowed
    <3>2. CASE ~interrupted /\ interrupted' /\ (pc \in AtHand \/ held' = got)
      BY <3>2 DEF Allowed
    <3> QED
      BY <3>1, <3>2
  <2> QED
    BY <2>1, <2>2, <2>3
<1> QED
  BY <1>1 DEF OnceInv, WaitsOnce, UnansweredAtFirst

\* Where a step of the thread takes it, seen from the transaction at hand.
LEMMA TakesNothingUp ==
  ASSUME TypeOK, NeverRegistersLate, ThreadStep
  PROVE  /\ NeverRegistersLate'
         /\ \/ Receives \/ Responds
            \/ /\ responses' = responses
               /\ \/ /\ UNCHANGED <<interrupted, held>>
                     /\ pc' \in AtHand => pc \in AtHand
                  \/ /\ ~interrupted /\ interrupted'
                     /\ pc \in AtHand \/ held' = got
<1> USE DEF NeverRegistersLate, AtHand, Registering, Applying, Leaving
<1>1. CASE Register
  BY <1>1 DEF Register, RegisterWaits, RegisterSends, RegisterSent,
     RegisterReplies
<1>2. CASE Process
  BY <1>2 DEF Process, Receives, ProcessCancelled, ProcessReconnect,
     ProcessPing, ProcessTransaction, AccessReturns, Responds
<1>3. CASE Leave
  BY <1>3 DEF Leave, UnregisterWaits, UnregisterSends, UnregisterReplies,
     UnregisterTimesOut, ProcessTimesOut
<1>4. CASE \/ Interrupt
           \/ \E f \in Families : RegisterRefused(f) \/ RegisterMismatch(f)
  BY <1>4 DEF Interrupt, RegisterRefused, RegisterMismatch, BeginsToLeave
<1>5. CASE ApplyCalls \/ ApplyEnds \/ ApplyRaises \/ AccessTimesOut
  BY <1>5 DEF ApplyCalls, ApplyEnds, ApplyRaises, AccessTimesOut
<1> QED
  BY <1>1, <1>2, <1>3, <1>4, <1>5 DEF ThreadStep

LEMMA ThreadAnswersOnce ==
  ASSUME ProcessorAssumption, TypeOK, Arrivals, OnceInv, ThreadStep
  PROVE  OnceInv'
<1>1. NeverRegistersLate' /\ UNCHANGED <<inbox, arrivedOn>>
  BY TakesNothingUp, ThreadLeaves DEF OnceInv
<1>2. \A t \in Transactions : responses[t] \in Nat
  BY DEF TypeOK
<1>3. CASE Receives
  <2>1. got' = NoMessage /\ UNCHANGED <<responses, interrupted, held>>
    BY <1>3 DEF Receives, Stream!Receive
  <2>2. NoMessage \notin Transactions
    BY DEF ProcessorAssumption, Requests
  <2>3. WithinAllowed'
    BY <1>2, <2>1, <2>2 DEF OnceInv, WithinAllowed, Allowed
  <2>4. WaitsOnce'
    BY <1>1, <2>1, <2>2 DEF OnceInv, WaitsOnce
  <2> QED
    BY <1>1, <2>1, <2>3, <2>4 DEF OnceInv, UnansweredAtFirst
<1>4. CASE Responds
  <2>1. /\ pc = "respond" /\ pc' = "receive" /\ UNCHANGED <<got, interrupted, held>>
        /\ responses' \in {responses, [responses EXCEPT ![got] = @ + 1]}
    BY <1>4 DEF Responds
  <2>2. got \in Transactions /\ arrivedOn[got] # 0 /\ responses \in [Transactions -> Nat]
    BY <2>1 DEF TypeOK, Applying, ProcessorAssumption, Arrivals, Arrived, Requests
  <2>3. WithinAllowed'
    <3> SUFFICES ASSUME NEW t \in Transactions
                 PROVE  responses'[t] <= Allowed(t)'
      BY DEF WithinAllowed
    <3>1. responses[t] <= Allowed(t) /\ responses[t] \in Nat
      BY <1>2 DEF OnceInv, WithinAllowed
    <3>2. pc \in AtHand /\ pc' \notin AtHand
      BY <2>1 DEF AtHand, Applying, Leaving
    <3>3. responses'[t] <= responses[t] + (IF got = t THEN 1 ELSE 0)
      BY <2>1, <2>2
    <3>4. responses'[t] \in Nat
      BY <2>1, <2>2
    <3> QED
      BY <2>1, <3>1, <3>2, <3>3, <3>4 DEF Allowed
  <2>4. \A t \in Transactions : t # got => responses'[t] = responses[t]
    BY <2>1, <2>2
  <2>5. WaitsOnce'
    BY <1>1, <2>1, <2>4 DEF OnceInv, WaitsOnce
  <2>6. UnansweredAtFirst'
    BY <1>1, <2>2, <2>4 DEF OnceInv, UnansweredAtFirst
  <2> QED
    BY <1>1, <2>3, <2>5, <2>6 DEF OnceInv
<1>5. ASSUME ~Receives, ~Responds
      PROVE  OnceInv'
  <2>1. UNCHANGED <<get, got>>
    BY <1>5, ThreadLeaves
  <2> QED
    BY <1>1, <1>5, <2>1, Unmoved, TakesNothingUp DEF OnceInv
<1> QED
  BY <1>3, <1>4, <1>5

LEMMA TransportAnswersOnce ==
  ASSUME ProcessorAssumption, TypeOK, Arrivals, OnceInv, TransportStep
  PROVE  OnceInv'
<1>1. UNCHANGED <<pc, interrupted, responses, held>> /\ NeverRegistersLate'
  BY TransportLeaves DEF OnceInv, NeverRegistersLate
<1>2. inbox \in Seq(Item) /\ responses \in [Transactions -> Nat]
  BY DEF TypeOK, Stream!SpecTypeOK, Item
<1>3. CASE Take
  <2>1. /\ inbox # <<>> /\ inbox' = Tail(inbox) /\ got' = inbox[1]
        /\ arrivedOn' = arrivedOn
    BY <1>2, <1>3, TakeFrom DEF Take, Stream!Take
  <2>2. /\ 1 \in 1 .. Len(inbox) /\ Len(inbox) \in Nat
        /\ \A i \in 1 .. Len(inbox') :
             i \in Nat /\ i + 1 \in 1 .. Len(inbox) /\ i + 1 # 1 /\ inbox'[i] = inbox[i + 1]
    BY <1>2, <2>1, TakeFrom
  <2>3. WithinAllowed'
    <3> SUFFICES ASSUME NEW t \in Transactions
                 PROVE  responses'[t] <= Allowed(t)'
      BY DEF WithinAllowed
    <3>1. CASE inbox[1] = t
      <4>1. responses'[t] = 0
        BY <1>1, <2>2, <3>1 DEF OnceInv, WaitsOnce
      <4> QED
        BY <4>1 DEF Allowed
    <3>2. CASE inbox[1] # t
      <4>1. responses[t] <= Allowed(t) /\ responses[t] \in Nat
        BY <1>2 DEF OnceInv, WithinAllowed
      <4> QED
        BY <1>1, <2>1, <3>2, <4>1 DEF Allowed
    <3> QED
      BY <3>1, <3>2
  <2>4. WaitsOnce'
    <3> SUFFICES ASSUME NEW i \in 1 .. Len(inbox'), inbox'[i] \in Transactions
                 PROVE  /\ responses'[inbox'[i]] = 0 /\ inbox'[i] # got'
                        /\ \A j \in 1 .. Len(inbox') : inbox'[j] = inbox'[i] => j = i
      BY DEF WaitsOnce
    <3>1. /\ responses[inbox[i + 1]] = 0
          /\ \A j \in 1 .. Len(inbox) : inbox[j] = inbox[i + 1] => j = i + 1
      BY <2>2 DEF OnceInv, WaitsOnce
    <3>2. ASSUME NEW j \in 1 .. Len(inbox'), inbox'[j] = inbox'[i]
          PROVE  j = i
      <4>1. j + 1 = i + 1
        BY <2>2, <3>1, <3>2
      <4> QED
        BY <4>1
    <3> QED
      BY <1>1, <2>1, <2>2, <3>1, <3>2
  <2> QED
    BY <1>1, <2>1, <2>3, <2>4 DEF OnceInv, UnansweredAtFirst
<1>4. CASE Stop \/ Reconnect
  <2>1. inbox' \in {<<>>, <<ReconnectEvent>>} /\ UNCHANGED <<got, arrivedOn>>
    BY <1>4 DEF Stop, Reconnect, Stream!Stop, Stream!Reconnect
  <2>2. WaitsOnce'
    BY <2>1 DEF WaitsOnce, ProcessorAssumption, Requests
  <2> QED
    BY <1>1, <2>1, <2>2
       DEF OnceInv, WithinAllowed, Allowed, UnansweredAtFirst
<1>5. ASSUME NEW r \in Requests, Arrive(r)
      PROVE  OnceInv'
  <2>1. /\ inbox' = Append(inbox, r) /\ got' = got /\ arrivedOn[r] = 0
        /\ arrivedOn' = [arrivedOn EXCEPT ![r] = conns]
    BY <1>5 DEF Arrive, Stream!Arrive
  <2>2. /\ r \in Item /\ Len(inbox) \in Nat
        /\ Len(inbox') = Len(inbox) + 1 /\ inbox'[Len(inbox) + 1] = r
        /\ \A i \in 1 .. Len(inbox) : inbox'[i] = inbox[i]
    BY <1>2, <2>1, AddTo DEF Item
  <2>3. got # r /\ \A i \in 1 .. Len(inbox) : inbox[i] # r
    BY <2>1 DEF Arrivals, Arrived
  <2>4. r \in Transactions => responses[r] = 0
    BY <2>1 DEF OnceInv, UnansweredAtFirst
  <2>5. WaitsOnce'
    <3> SUFFICES ASSUME NEW i \in 1 .. Len(inbox'), inbox'[i] \in Transactions
                 PROVE  /\ responses'[inbox'[i]] = 0 /\ inbox'[i] # got'
                        /\ \A j \in 1 .. Len(inbox') : inbox'[j] = inbox'[i] => j = i
      BY DEF WaitsOnce
    <3>1. CASE i = Len(inbox) + 1
      BY <1>1, <2>1, <2>2, <2>3, <2>4, <3>1
    <3>2. CASE i \in 1 .. Len(inbox)
      <4>1. /\ responses[inbox[i]] = 0 /\ inbox[i] # got
            /\ \A j \in 1 .. Len(inbox) : inbox[j] = inbox[i] => j = i
        BY <2>2, <3>2 DEF OnceInv, WaitsOnce
      <4> QED
        BY <1>1, <2>1, <2>2, <2>3, <3>2, <4>1
    <3> QED
      BY <2>2, <3>1, <3>2
  <2>6. UnansweredAtFirst'
    BY <1>1, <2>1, <2>4 DEF OnceInv, UnansweredAtFirst, TypeOK
  <2> QED
    BY <1>1, <2>1, <2>5, <2>6 DEF OnceInv, WithinAllowed, Allowed
<1>6. ASSUME UNCHANGED <<inbox, got, arrivedOn>>
      PROVE  OnceInv'
  BY <1>1, <1>6, Unmoved
<1> QED
  BY <1>3, <1>4, <1>5, <1>6, TransportLeaves

\* No transaction is answered twice, but for the one that was being processed, or
\* had just been, when an interrupt came (_process_future, start).
THEOREM AnsweredOnce == Spec => []OneResponse
<1>1. Init => TypeOK /\ ServingInv /\ OnceInv
  <2>1. Init => OnceInv
    BY DEF Init, OnceInv, WithinAllowed, Allowed, WaitsOnce, UnansweredAtFirst,
       NeverRegistersLate, AtHand, Applying, Leaving, Stream!SpecInit
  <2> QED
    BY <2>1, ProcessorAssumption, InitServes
<1>2. TypeOK /\ ServingInv /\ OnceInv /\ [Next]_vars => (TypeOK /\ ServingInv /\ OnceInv)'
  <2> SUFFICES ASSUME TypeOK, ServingInv, OnceInv, [Next]_vars
               PROVE  (TypeOK /\ ServingInv /\ OnceInv)'
    OBVIOUS
  <2>1. TypeOK' /\ ServingInv' /\ ProcessorAssumption /\ Arrivals
    BY ProcessorAssumption, NextServes DEF ServingInv
  <2>2. CASE UNCHANGED vars
    BY <2>1, <2>2, Unmoved DEF vars, OnceInv, NeverRegistersLate
  <2>3. CASE Next
    <3>1. ThreadStep \/ TransportStep
      BY <2>3 DEF Next, ThreadStep, TransportStep
    <3> QED
      BY <2>1, <3>1, ThreadAnswersOnce, TransportAnswersOnce
  <2> QED
    BY <2>1, <2>2, <2>3
<1>3. TypeOK /\ OnceInv => OneResponse
  BY DEF TypeOK, OnceInv, WithinAllowed, Allowed, OneResponse
<1> QED
  BY <1>1, <1>2, <1>3, PTL DEF Spec
=============================================================================
