-------------------------- MODULE JavaProcessorProofs --------------------------
(***************************************************************************)
(* Theorems about JavaProcessor, for any families, messages and numbers of *)
(* disconnects: no message is answered twice, but for the one that the     *)
(* shutdown hook found being processed.                                    *)
(*                                                                         *)
(* A request is on its way, or in the queue, or the loop has it at hand,   *)
(* or the hook has; the invariant is that it is in one of these places at  *)
(* most, and not answered yet while it is.  Only the message that the hook *)
(* reads from the loop's field is in two.                                  *)
(***************************************************************************)
EXTENDS JavaProcessor, TLAPS

USE JavaProcessorAssumption
USE DEF stream, fields, loop, leaving, network, history, Zmq!specVars

-----------------------------------------------------------------------------
(***************************************************************************)
(* Type correctness                                                        *)
(***************************************************************************)

\* A disconnect that is being told of is not dealt with yet.
Typed == TypeOK /\ (telling => events > 0)

StreamTyped == Zmq!SpecTypeOK /\ (telling => events > 0)

\* What a step may do with the stream.
StreamStep ==
  \/ UNCHANGED stream
  \/ \E k \in Calls : Zmq!Send(k) \/ Zmq!Return(k) \/ Zmq!GiveUp(k)
                        \/ Zmq!Answer(k) \/ Zmq!Lose(k)
  \/ \E r \in Requests : Zmq!Arrive(r)
  \/ Zmq!Take \/ Zmq!Break \/ Zmq!Clear \/ Zmq!Tell

LEMMA StreamTypes ==
  ASSUME StreamTyped, StreamStep
  PROVE  StreamTyped'
<1>1. CASE UNCHANGED stream
      BY <1>1 DEF StreamTyped, Zmq!SpecTypeOK
<1>2. ASSUME NEW k \in Calls, Zmq!Send(k) \/ Zmq!Return(k) \/ Zmq!GiveUp(k)
                                \/ Zmq!Answer(k) \/ Zmq!Lose(k)
      PROVE  StreamTyped'
      BY <1>2 DEF StreamTyped, Zmq!SpecTypeOK, Zmq!Send, Zmq!Return, Zmq!GiveUp, Zmq!Answer, Zmq!Lose
<1>3. ASSUME NEW r \in Requests, Zmq!Arrive(r) PROVE StreamTyped'
      BY <1>3 DEF StreamTyped, Zmq!SpecTypeOK, Zmq!Arrive
<1>4. CASE Zmq!Take
      BY <1>4 DEF StreamTyped, Zmq!SpecTypeOK, Zmq!Take
<1>5. CASE Zmq!Break
      BY <1>5 DEF StreamTyped, Zmq!SpecTypeOK, Zmq!Break
<1>6. CASE Zmq!Clear
      BY <1>6 DEF StreamTyped, Zmq!SpecTypeOK, Zmq!Clear
<1>7. CASE Zmq!Tell
  <2>1. events' \in Nat /\ ~telling'
        BY <1>7 DEF StreamTyped, Zmq!SpecTypeOK, Zmq!Tell
  <2>2. call' \in [Calls -> {"idle", "pending", "lost", "response"}]
          /\ inbox' \in Seq(Requests \cup {Disconnect})
        BY <1>7 DEF StreamTyped, Zmq!SpecTypeOK, Zmq!Tell
  <2>3. telling' \in BOOLEAN
        BY <1>7 DEF Zmq!Tell
  <2> QED
      BY <2>1, <2>2, <2>3 DEF StreamTyped, Zmq!SpecTypeOK
<1> QED
    BY <1>1, <1>2, <1>3, <1>4, <1>5, <1>6, <1>7 DEF StreamStep

\* The types of all but the stream's variables, which each step has to keep.
Own ==
  /\ registered \in BOOLEAN /\ currentMessage \in Requests \cup {NoMessage}
  /\ handlers \subseteq Families
  /\ pc \in {"add", "addReply", "receive", "dispatch", "apply", "access", "respond",
             "clear", "lost", "again", "againReply", "ended", "halted"}
  /\ pc \in {"apply", "access", "respond"} => currentMessage \in Handled
  /\ todo \subseteq Families
  /\ hook \in {"none", "started", "log", "unregister", "reply", "current", "receive", "find", "apply",
               "access", "respond"} \cup Over
  /\ message \in Requests \cup {NoMessage}
  /\ hook \in {"find", "apply", "access", "respond"} => message # NoMessage
  /\ handler \in Families \cup {NoHandler}
  /\ link \in {"up", "down"} /\ conns \in Nat
  /\ known \subseteq Families
  /\ out \subseteq Families /\ in \subseteq Families \cup Requests
  /\ arrivedOn \in [Requests -> Nat]
  /\ responses \in [Requests -> Nat]
  /\ shared \in Requests \cup {NoMessage}

\* The head of the queue.
LEMMA HeadType ==
  ASSUME Typed, inbox # <<>>
  PROVE  /\ Head(inbox) \in Requests \cup {Disconnect}
         /\ \E i \in 1 .. Len(inbox) : inbox[i] = Head(inbox)
BY DEF Typed, TypeOK, Zmq!SpecTypeOK

LEMMA HandlerType ==
  ASSUME Own
  PROVE  /\ HandlerOfCurrent \in Families \cup {NoHandler}
         /\ HandlerOfCurrent # NoHandler => currentMessage \in Handled
BY DEF Own, HandlerOfCurrent, Handled, Requests

LEMMA LoopTypes ==
  ASSUME Typed, Own,
         Loop \/ ApplyCalls \/ ApplyEnds \/ ApplyRaises \/ \E f \in Families : SpuriousReply(f)
  PROVE  Own' /\ StreamStep
<1>1. ASSUME NEW f \in Families,
             AddHandler(f) \/ AddReply(f) \/ RegisterAgain(f) \/ AgainReply(f) \/ SpuriousReply(f)
      PROVE  Own' /\ StreamStep
  <2>1. CASE AddHandler(f) \/ RegisterAgain(f)
        BY <2>1 DEF Own, StreamStep, AddHandler, RegisterAgain, SendRegistration, Calls
  <2>2. CASE AddReply(f) \/ AgainReply(f)
        BY <2>2 DEF Own, StreamStep, AddReply, AgainReply, Added, AddedAgain, Calls
  <2>3. CASE SpuriousReply(f)
        BY <2>3 DEF Own, StreamStep, SpuriousReply, Added, AddedAgain, Calls
  <2> QED
      BY <1>1, <2>1, <2>2, <2>3
<1>2. CASE Disconnected \/ Clears
      BY <1>2 DEF Own, StreamStep, Disconnected, Clears
<1>3. CASE Receives
  <2>1. inbox # <<>>
        BY <1>3 DEF Receives, Zmq!Take
  <2>2. Head(inbox) \in Requests \cup {Disconnect}
        BY <2>1, HeadType
  <2> QED
      BY <1>3, <2>2 DEF Own, StreamStep, Receives
<1>4. CASE Dispatch
      BY <1>4, HandlerType DEF Own, StreamStep, Dispatch
<1>5. CASE ApplyCalls \/ AccessReturns \/ AccessTimesOut \/ ApplyEnds \/ ApplyRaises
      BY <1>5 DEF Own, StreamStep, ApplyCalls, AccessReturns, AccessTimesOut, ApplyEnds, ApplyRaises, Calls
<1>6. CASE Responds
  <2>1. currentMessage \in Requests
        BY <1>6 DEF Own, Responds, Handled, Requests
  <2> QED
      BY <1>6, <2>1 DEF Own, StreamStep, Responds, Respond
<1> QED
    BY <1>1, <1>2, <1>3, <1>4, <1>5, <1>6 DEF Loop

LEMMA HookTypes ==
  ASSUME Typed, Own, Hook \/ HookStarts \/ HookApplyCalls \/ HookApplyEnds \/ HookApplyRaises
  PROVE  Own' /\ StreamStep
<1>1. CASE HookStarts \/ HookChecks \/ HookLogs
      BY <1>1 DEF Own, StreamStep, HookStarts, HookChecks, HookLogs, Over
<1>2. CASE HookUnregisters \/ HookReply \/ HookReplyTimesOut
      BY <1>2 DEF Own, StreamStep, HookUnregisters, HookReply, HookReplyTimesOut, Over, Calls
<1>3. CASE HookReadsCurrent \/ HookReceiveTimesOut
      BY <1>3 DEF Own, StreamStep, HookReadsCurrent, HookReceiveTimesOut, Over
<1>4. CASE HookReceives
  <2>1. inbox # <<>>
        BY <1>4 DEF HookReceives, Zmq!Take
  <2>2. Head(inbox) \in Requests \cup {Disconnect}
        BY <2>1, HeadType
  <2> QED
      BY <1>4, <2>2 DEF Own, StreamStep, HookReceives, Over
<1>5. CASE HookFinds
      BY <1>5, HandlerType DEF Own, StreamStep, HookFinds, Over
<1>6. CASE \/ HookApplyCalls \/ HookAccessReturns \/ HookAccessTimesOut
           \/ HookApplyEnds \/ HookApplyRaises
      BY <1>6 DEF Own, StreamStep, HookApplyCalls, HookAccessReturns, HookAccessTimesOut,
                  HookApplyEnds, HookApplyRaises, Over, Calls
<1>7. CASE HookResponds
      BY <1>7 DEF Own, StreamStep, HookResponds, Respond, Over
<1>8. CASE Halt
      BY <1>8 DEF Own, StreamStep, Halt, Over
<1> QED
    BY <1>1, <1>2, <1>3, <1>4, <1>5, <1>6, <1>7, <1>8 DEF Hook

\* What the rest of the world does.
Outside ==
  \/ Transport \/ Breaks
  \/ \E k \in {Access, HookAccess, Unregister} : AnsweredCall(k)
  \/ \E k \in Calls : Lost(k)
  \/ \E r \in Requests : ValidatorAsks(r)

LEMMA OutsideTypes ==
  ASSUME Typed, Own, Outside
  PROVE  Own' /\ StreamStep
<1>1. CASE Connects \/ Cleared \/ Told \/ Breaks
      BY <1>1 DEF Own, StreamStep, Connects, Cleared, Told, Breaks
<1>2. ASSUME NEW f \in Families, ValidatorRegisters(f) \/ Answered(f)
      PROVE  Own' /\ StreamStep
      BY <1>2 DEF Own, StreamStep, ValidatorRegisters, Answered, Calls
<1>3. ASSUME NEW r \in Requests, Arrives(r) PROVE Own' /\ StreamStep
      BY <1>3 DEF Own, StreamStep, Arrives
<1>4. ASSUME NEW r \in Requests, ValidatorAsks(r) PROVE Own' /\ StreamStep
      BY <1>4 DEF Own, StreamStep, ValidatorAsks
<1>5. ASSUME NEW k \in Calls, AnsweredCall(k) \/ Lost(k) PROVE Own' /\ StreamStep
      BY <1>5 DEF Own, StreamStep, AnsweredCall, Lost
<1> QED
    BY <1>1, <1>2, <1>3, <1>4, <1>5 DEF Outside, Transport, Calls

LEMMA StepTypes == Typed /\ [Next]_vars => Typed'
<1>1. Typed <=> StreamTyped /\ Own
      BY DEF Typed, TypeOK, StreamTyped, Own
<1>2. Typed' <=> StreamTyped' /\ Own'
      BY DEF Typed, TypeOK, StreamTyped, Own
<1>3. ASSUME Typed, [Next]_vars PROVE Own' /\ StreamStep
  <2>1. CASE UNCHANGED vars
        BY <1>1, <1>3, <2>1 DEF vars, Own, StreamStep
  <2>2. CASE Next
        BY <1>1, <1>3, <2>2, LoopTypes, HookTypes, OutsideTypes DEF Next, Outside
  <2> QED
      BY <1>3, <2>1, <2>2
<1> QED
    BY <1>1, <1>2, <1>3, StreamTypes

LEMMA InitTypes == Init => Typed
<1>1. ASSUME Init PROVE StreamTyped
  <2>1. telling \in BOOLEAN /\ ~telling
        BY <1>1 DEF Init, Zmq!SpecInit
  <2> QED
      BY <1>1, <2>1 DEF Init, StreamTyped, Zmq!SpecInit, Zmq!SpecTypeOK
<1>2. ASSUME Init PROVE Own
  <2>1. registered \in BOOLEAN
        BY <1>2 DEF Init
  <2> QED
      BY <1>2, <2>1 DEF Init, Own
<1> QED
    BY <1>1, <1>2 DEF Typed, TypeOK, StreamTyped, Own

\* The types hold in every state.
THEOREM TypeCorrect == Spec => []TypeOK
<1>1. Typed => TypeOK
      BY DEF Typed
<1> QED
    BY <1>1, InitTypes, StepTypes, PTL DEF Spec

-----------------------------------------------------------------------------
(***************************************************************************)
(* One response                                                            *)
(***************************************************************************)
InQueue(r) == \E i \in 1 .. Len(inbox) : inbox[i] = r

\* The loop is going to answer it, or the hook is.
AtLoop(r) == currentMessage = r /\ pc \in {"dispatch", "apply", "access", "respond"}
AtHook(r) == message = r /\ hook \in {"find", "apply", "access", "respond"}

Untouched(r) ==
  /\ currentMessage # r /\ shared # r /\ ~AtHook(r)
  /\ responses[r] = 0

\* Where a request may be, and how many responses it has then.
Once(r) ==
  /\ arrivedOn[r] = 0 => r \notin in /\ ~InQueue(r) /\ Untouched(r)
  /\ r \in in => ~InQueue(r) /\ Untouched(r)
  /\ InQueue(r) => Untouched(r)
  /\ shared # r =>
       /\ responses[r] <= 1
       /\ AtLoop(r) \/ AtHook(r) => responses[r] = 0
       /\ ~(currentMessage = r /\ AtHook(r))
  /\ shared = r =>
       /\ responses[r] <= 2
       /\ AtLoop(r) \/ AtHook(r) => responses[r] <= 1
       /\ AtLoop(r) /\ AtHook(r) => responses[r] = 0

NoneTwice ==
  \A i, j \in 1 .. Len(inbox) : inbox[i] = inbox[j] /\ inbox[i] \in Requests => i = j

\* The hook reads the loop's field once.
Early == {"none", "started", "log", "unregister", "reply", "current"}

OnceInv ==
  /\ \A r \in Requests : Once(r)
  /\ NoneTwice
  /\ hook \in Early => shared = NoMessage
  /\ link = "up" => conns > 0

\* No request gets further on its way.
Still ==
  /\ UNCHANGED <<currentMessage, message, shared, responses, arrivedOn>>
  /\ inbox' \in {inbox, <<>>, Append(inbox, Disconnect)}
  /\ \A r \in Requests : r \in in' => r \in in
  /\ pc' \in {"dispatch", "apply", "access", "respond"}
       => pc \in {"dispatch", "apply", "access", "respond"}
  /\ hook' \in {"find", "apply", "access", "respond"}
       => hook \in {"find", "apply", "access", "respond"}
  /\ hook' \in Early => hook \in Early
  /\ link' = "up" => conns' > 0

\* What the queue holds after a step.
LEMMA QueueGrows ==
  ASSUME Typed, NoneTwice, NEW m, inbox' = Append(inbox, m),
         m \in Requests => ~InQueue(m)
  PROVE  /\ NoneTwice'
         /\ \A r \in Requests : r # m => (InQueue(r)' <=> InQueue(r))
<1>1. inbox \in Seq(Requests \cup {Disconnect})
      BY DEF Typed, TypeOK, Zmq!SpecTypeOK
<1>2. /\ Len(inbox') = Len(inbox) + 1 /\ Len(inbox) \in Nat
      /\ inbox'[Len(inbox) + 1] = m
      /\ \A i \in 1 .. Len(inbox) : inbox'[i] = inbox[i]
      BY <1>1
<1>3. NoneTwice'
      BY <1>2 DEF NoneTwice, InQueue
<1>4. \A r \in Requests : r # m => (InQueue(r)' <=> InQueue(r))
      BY <1>2 DEF InQueue
<1> QED
    BY <1>3, <1>4

LEMMA QueueShrinks ==
  ASSUME Typed, NoneTwice, Zmq!Take
  PROVE  /\ NoneTwice'
         /\ \A r \in Requests : InQueue(r)' => InQueue(r) /\ r # Head(inbox)
<1>1. inbox \in Seq(Requests \cup {Disconnect}) /\ inbox # <<>> /\ inbox' = Tail(inbox)
      BY DEF Typed, TypeOK, Zmq!SpecTypeOK, Zmq!Take
<1>2. /\ Len(inbox') = Len(inbox) - 1 /\ Len(inbox) \in Nat /\ Len(inbox) >= 1
      /\ \A i \in 1 .. Len(inbox') : inbox'[i] = inbox[i + 1]
      /\ Head(inbox) = inbox[1]
      BY <1>1
<1>3. NoneTwice'
      BY <1>2 DEF NoneTwice
<1>4. ASSUME NEW r \in Requests, NEW i \in 1 .. Len(inbox'), inbox'[i] = r
      PROVE  InQueue(r) /\ r # Head(inbox)
  <2>1. i + 1 \in 1 .. Len(inbox) /\ 1 \in 1 .. Len(inbox) /\ inbox[i + 1] = r
        BY <1>2, <1>4
  <2> QED
      BY <1>2, <1>4, <2>1 DEF InQueue, NoneTwice
<1> QED
    BY <1>3, <1>4 DEF InQueue

LEMMA StillKeeps ==
  ASSUME Typed, OnceInv, Still
  PROVE  OnceInv'
<1>1. NoneTwice' /\ \A r \in Requests : InQueue(r)' => InQueue(r)
  <2>1. CASE inbox' = inbox
        BY <2>1 DEF OnceInv, NoneTwice, InQueue
  <2>2. CASE inbox' = <<>>
        BY <2>2 DEF NoneTwice, InQueue
  <2>3. CASE inbox' = Append(inbox, Disconnect)
        BY <2>3, QueueGrows DEF OnceInv
  <2> QED
      BY <2>1, <2>2, <2>3 DEF Still
<1>2. ASSUME NEW r \in Requests PROVE Once(r)'
  <2>1. Once(r) /\ (InQueue(r)' => InQueue(r)) /\ (r \in in' => r \in in)
        BY <1>1 DEF OnceInv, Still
  <2>2. (AtLoop(r)' => AtLoop(r)) /\ (AtHook(r)' => AtHook(r))
        BY DEF Still, AtLoop, AtHook
  <2>3. UNCHANGED <<currentMessage, shared, responses, arrivedOn>>
        BY DEF Still
  <2> QED
      BY <2>1, <2>2, <2>3 DEF Once, Untouched
<1> QED
    BY <1>1, <1>2 DEF OnceInv, Still

LEMMA LoopKeeps ==
  ASSUME Typed, OnceInv,
         Loop \/ ApplyCalls \/ ApplyEnds \/ ApplyRaises \/ \E f \in Families : SpuriousReply(f)
  PROVE  OnceInv'
<1>1. ASSUME NEW f \in Families,
             AddHandler(f) \/ AddReply(f) \/ RegisterAgain(f) \/ AgainReply(f) \/ SpuriousReply(f)
      PROVE  Still
      BY <1>1 DEF AddHandler, RegisterAgain, SendRegistration, AddReply, AgainReply, SpuriousReply,
                  Added, AddedAgain, Still, OnceInv, Zmq!Send, Zmq!Return, Zmq!GiveUp
<1>2. ASSUME Disconnected \/ Dispatch
      PROVE  Still
      BY <1>2 DEF Disconnected, Dispatch, Still, OnceInv
<1>3. ASSUME ApplyCalls \/ AccessReturns \/ AccessTimesOut \/ ApplyEnds \/ ApplyRaises
      PROVE  Still
      BY <1>3 DEF ApplyCalls, AccessReturns, AccessTimesOut, ApplyEnds, ApplyRaises, Still, OnceInv,
                  Zmq!Send, Zmq!Return, Zmq!GiveUp
<1>4. CASE Receives
  <2>1. NoneTwice' /\ \A r \in Requests : InQueue(r)' => InQueue(r) /\ r # Head(inbox)
        BY <1>4, QueueShrinks DEF Receives, OnceInv
  <2>2. \E i \in 1 .. Len(inbox) : inbox[i] = Head(inbox)
        BY <1>4, HeadType DEF Receives, Zmq!Take
  <2>3. ASSUME NEW r \in Requests PROVE Once(r)'
    <3>1. Once(r) /\ (InQueue(r)' => InQueue(r) /\ r # Head(inbox))
          BY <2>1 DEF OnceInv
    <3>2. /\ UNCHANGED <<message, hook, shared, responses, arrivedOn, in>>
          /\ AtHook(r)' = AtHook(r)
          /\ currentMessage' \in {NoMessage, Head(inbox)}
          BY <1>4 DEF Receives, AtHook
    <3>3. currentMessage' = r => InQueue(r)
          BY <2>2, <3>2 DEF InQueue
    <3>4. currentMessage' = r => r = Head(inbox)
          BY <3>2
    <3>5. AtLoop(r)' => currentMessage' = r
          BY DEF AtLoop
    <3> QED
        BY <3>1, <3>2, <3>3, <3>4, <3>5 DEF Once, Untouched
  <2> QED
      BY <1>4, <2>1, <2>3 DEF Receives, OnceInv
<1>5. CASE Responds
  <2>1. currentMessage \in Requests /\ AtLoop(currentMessage)
        BY <1>5 DEF Responds, AtLoop, Typed, TypeOK, Handled, Requests
  <2>2. /\ responses \in [Requests -> Nat]
        /\ responses' = [responses EXCEPT ![currentMessage] = @ + 1]
        BY <1>5 DEF Responds, Respond, Typed, TypeOK
  <2>3. ASSUME NEW r \in Requests PROVE Once(r)'
    <3>1. Once(r) /\ ~AtLoop(r)' /\ AtHook(r)' = AtHook(r) /\ InQueue(r)' = InQueue(r)
          BY <1>5 DEF OnceInv, Responds, AtLoop, AtHook, InQueue
    <3>2. UNCHANGED <<currentMessage, shared, arrivedOn, in>>
          BY <1>5 DEF Responds
    <3>3. CASE r = currentMessage
      <4>1. responses'[r] = responses[r] + 1 /\ responses[r] \in Nat /\ AtLoop(r)
            BY <2>1, <2>2, <3>3
      <4> QED
          BY <3>1, <3>2, <3>3, <4>1 DEF Once, Untouched
    <3>4. CASE r # currentMessage
      <4>1. responses'[r] = responses[r] /\ ~AtLoop(r)
            BY <2>2, <3>4 DEF AtLoop
      <4> QED
          BY <3>1, <3>2, <4>1 DEF Once, Untouched
    <3> QED
        BY <3>3, <3>4
  <2> QED
      BY <1>5, <2>3 DEF Responds, OnceInv, NoneTwice
<1>6. CASE Clears
  <2>1. ASSUME NEW r \in Requests PROVE Once(r)'
    <3>1. Once(r) /\ AtHook(r)' = AtHook(r) /\ InQueue(r)' = InQueue(r)
          BY <1>6 DEF OnceInv, Clears, AtHook, InQueue
    <3>2. UNCHANGED <<shared, responses, arrivedOn, in>> /\ currentMessage' # r /\ ~AtLoop(r)'
          BY <1>6 DEF Clears, AtLoop
    <3> QED
        BY <3>1, <3>2 DEF Once, Untouched
  <2> QED
      BY <1>6, <2>1 DEF Clears, OnceInv, NoneTwice
<1> QED
    BY <1>1, <1>2, <1>3, <1>4, <1>5, <1>6, StillKeeps DEF Loop

LEMMA HookKeeps ==
  ASSUME Typed, OnceInv, Hook \/ HookStarts \/ HookApplyCalls \/ HookApplyEnds \/ HookApplyRaises
  PROVE  OnceInv'
<1>1. ASSUME HookStarts \/ HookChecks \/ HookLogs \/ HookFinds \/ HookReceiveTimesOut
      PROVE  Still
      BY <1>1 DEF HookStarts, HookChecks, HookLogs, HookFinds, HookReceiveTimesOut, Still, OnceInv, Early
<1>2. ASSUME HookUnregisters \/ HookReply \/ HookReplyTimesOut
      PROVE  Still
      BY <1>2 DEF HookUnregisters, HookReply, HookReplyTimesOut, Still, OnceInv, Early,
                  Zmq!Send, Zmq!Return, Zmq!GiveUp
<1>3. ASSUME \/ HookApplyCalls \/ HookAccessReturns \/ HookAccessTimesOut
             \/ HookApplyEnds \/ HookApplyRaises
      PROVE  Still
      BY <1>3 DEF HookApplyCalls, HookAccessReturns, HookAccessTimesOut, HookApplyEnds,
                  HookApplyRaises, Still, OnceInv, Early, Zmq!Send, Zmq!Return, Zmq!GiveUp
<1>4. ASSUME Halt
      PROVE  Still
      BY <1>4 DEF Halt, Still, OnceInv
<1>5. CASE HookReadsCurrent
  <2>1. shared = NoMessage /\ hook = "current"
        BY <1>5 DEF OnceInv, Early, HookReadsCurrent
  <2>2. ASSUME NEW r \in Requests PROVE Once(r)'
    <3>1. Once(r) /\ shared # r /\ ~AtHook(r)
          BY <2>1 DEF OnceInv, AtHook
    <3>2. /\ AtLoop(r)' = AtLoop(r) /\ InQueue(r)' = InQueue(r)
          /\ UNCHANGED <<responses, arrivedOn, in, currentMessage>>
          /\ shared' = currentMessage
          /\ AtHook(r)' => currentMessage = r
          BY <1>5 DEF HookReadsCurrent, AtLoop, InQueue, AtHook
    <3>3. responses[r] \in Nat
          BY DEF Typed, TypeOK
    <3> QED
        BY <3>1, <3>2, <3>3 DEF Once, Untouched
  <2>3. hook' \notin Early
        BY <1>5 DEF HookReadsCurrent, Early
  <2> QED
      BY <1>5, <2>2, <2>3 DEF HookReadsCurrent, OnceInv, NoneTwice
<1>6. CASE HookReceives
  <2>1. NoneTwice' /\ \A r \in Requests : InQueue(r)' => InQueue(r) /\ r # Head(inbox)
        BY <1>6, QueueShrinks DEF HookReceives, OnceInv
  <2>2. \E i \in 1 .. Len(inbox) : inbox[i] = Head(inbox)
        BY <1>6, HeadType DEF HookReceives, Zmq!Take
  <2>3. ASSUME NEW r \in Requests PROVE Once(r)'
    <3>1. Once(r) /\ (InQueue(r)' => InQueue(r) /\ r # Head(inbox))
          BY <2>1 DEF OnceInv
    <3>2. /\ UNCHANGED <<currentMessage, shared, responses, arrivedOn, in>>
          /\ AtLoop(r)' = AtLoop(r)
          /\ AtHook(r)' => r = Head(inbox)
          BY <1>6 DEF HookReceives, AtLoop, AtHook
    <3>3. AtHook(r)' => InQueue(r)
          BY <2>2, <3>2 DEF InQueue
    <3>4. AtLoop(r) => currentMessage = r
          BY DEF AtLoop
    <3> QED
        BY <3>1, <3>2, <3>3, <3>4 DEF Once, Untouched
  <2>4. hook' \notin Early
        BY <1>6 DEF HookReceives, Early
  <2> QED
      BY <1>6, <2>1, <2>3, <2>4 DEF HookReceives, OnceInv
<1>7. CASE HookResponds
  <2>1. message \in Requests /\ AtHook(message)
        BY <1>7 DEF HookResponds, AtHook, Typed, TypeOK
  <2>2. /\ responses \in [Requests -> Nat]
        /\ responses' = [responses EXCEPT ![message] = @ + 1]
        BY <1>7 DEF HookResponds, Respond, Typed, TypeOK
  <2>3. ASSUME NEW r \in Requests PROVE Once(r)'
    <3>1. Once(r) /\ ~AtHook(r)' /\ AtLoop(r)' = AtLoop(r) /\ InQueue(r)' = InQueue(r)
          BY <1>7 DEF OnceInv, HookResponds, AtLoop, AtHook, InQueue
    <3>2. UNCHANGED <<currentMessage, shared, arrivedOn, in>>
          BY <1>7 DEF HookResponds
    <3>3. CASE r = message
      <4>1. responses'[r] = responses[r] + 1 /\ responses[r] \in Nat /\ AtHook(r)
            BY <2>1, <2>2, <3>3
      <4>2. AtLoop(r) => currentMessage = r
            BY DEF AtLoop
      <4> QED
          BY <3>1, <3>2, <4>1, <4>2 DEF Once, Untouched
    <3>4. CASE r # message
      <4>1. responses'[r] = responses[r] /\ ~AtHook(r)
            BY <2>2, <3>4 DEF AtHook
      <4> QED
          BY <3>1, <3>2, <4>1 DEF Once, Untouched
    <3> QED
        BY <3>3, <3>4
  <2>4. hook' \notin Early
        BY <1>7 DEF HookResponds, Early
  <2> QED
      BY <1>7, <2>3, <2>4 DEF HookResponds, OnceInv, NoneTwice
<1> QED
    BY <1>1, <1>2, <1>3, <1>4, <1>5, <1>6, <1>7, StillKeeps DEF Hook

LEMMA OutsideKeeps ==
  ASSUME Typed, OnceInv, Outside
  PROVE  OnceInv'
<1>1. CASE Connects \/ Cleared \/ Told \/ Breaks
  <2>1. conns \in Nat
        BY DEF Typed, TypeOK
  <2> QED
      BY <1>1, <2>1, StillKeeps DEF Connects, Cleared, Told, Breaks, Still, OnceInv, Zmq!Break, Zmq!Clear, Zmq!Tell
<1>2. ASSUME NEW f \in Families, ValidatorRegisters(f) \/ Answered(f)
      PROVE  OnceInv'
  <2>1. f \notin Requests
        OBVIOUS
  <2> QED
      BY <1>2, <2>1, StillKeeps DEF ValidatorRegisters, Answered, Still, OnceInv, Zmq!Answer
<1>3. ASSUME NEW k \in Calls, AnsweredCall(k) \/ Lost(k) PROVE OnceInv'
      BY <1>3, StillKeeps DEF AnsweredCall, Lost, Still, OnceInv, Zmq!Answer, Zmq!Lose
<1>4. ASSUME NEW m \in Requests, Arrives(m) PROVE OnceInv'
  <2>1. Once(m) /\ m \in in
        BY <1>4 DEF OnceInv, Arrives
  <2>2. inbox' = Append(inbox, m) /\ ~InQueue(m)
        BY <1>4, <2>1 DEF Arrives, Zmq!Arrive, Once
  <2>3. NoneTwice' /\ \A r \in Requests : r # m => (InQueue(r)' <=> InQueue(r))
        BY <2>2, QueueGrows DEF OnceInv
  <2>4. ASSUME NEW r \in Requests PROVE Once(r)'
    <3>1. Once(r) /\ AtLoop(r)' = AtLoop(r) /\ AtHook(r)' = AtHook(r)
          BY <1>4 DEF OnceInv, Arrives, AtLoop, AtHook
    <3>2. UNCHANGED <<currentMessage, shared, arrivedOn, responses>> /\ in' = in \ {m}
          BY <1>4 DEF Arrives
    <3>3. r # m => (InQueue(r)' <=> InQueue(r))
          BY <2>3
    <3>4. r = m => arrivedOn[r] # 0
          BY <2>1 DEF Once
    <3> QED
        BY <2>1, <3>1, <3>2, <3>3, <3>4 DEF Once, Untouched
  <2> QED
      BY <1>4, <2>3, <2>4 DEF Arrives, OnceInv
<1>5. ASSUME NEW m \in Requests, ValidatorAsks(m) PROVE OnceInv'
  <2>1. /\ Once(m) /\ arrivedOn[m] = 0 /\ conns > 0
        /\ arrivedOn' = [arrivedOn EXCEPT ![m] = conns] /\ arrivedOn \in [Requests -> Nat]
        BY <1>5 DEF OnceInv, ValidatorAsks, Typed, TypeOK
  <2>2. ASSUME NEW r \in Requests PROVE Once(r)'
    <3>1. /\ Once(r) /\ AtLoop(r)' = AtLoop(r) /\ AtHook(r)' = AtHook(r)
          /\ InQueue(r)' = InQueue(r)
          BY <1>5 DEF OnceInv, ValidatorAsks, AtLoop, AtHook, InQueue
    <3>2. UNCHANGED <<currentMessage, shared, responses>> /\ in' = in \cup {m}
          BY <1>5 DEF ValidatorAsks
    <3>3. IF r = m THEN arrivedOn'[r] = conns ELSE arrivedOn'[r] = arrivedOn[r]
          BY <2>1
    <3>4. conns # 0
      <4>1. conns \in Nat
            BY DEF Typed, TypeOK
      <4> QED
          BY <2>1, <4>1
    <3> QED
        BY <2>1, <3>1, <3>2, <3>3, <3>4 DEF Once, Untouched
  <2> QED
      BY <1>5, <2>2 DEF ValidatorAsks, OnceInv, NoneTwice
<1> QED
    BY <1>1, <1>2, <1>3, <1>4, <1>5 DEF Outside, Transport, Calls

\* No message is answered twice, but for the one the hook found being processed.
THEOREM AnsweredOnce == Spec => []OneResponse
<1>1. Init => Typed /\ OnceInv
  <2>2. ASSUME Init, NEW r \in Requests PROVE Once(r)
        BY <2>2 DEF Init, Zmq!SpecInit, Once, Untouched, InQueue, AtHook, AtLoop
  <2>3. Init => NoneTwice /\ shared = NoMessage /\ link = "down"
        BY DEF Init, Zmq!SpecInit, NoneTwice
  <2> QED
      BY <2>2, <2>3, InitTypes DEF OnceInv
<1>2. ASSUME Typed, OnceInv, [Next]_vars PROVE OnceInv'
  <2>1. CASE UNCHANGED vars
        BY <1>2, <2>1, StillKeeps DEF vars, Still, OnceInv
  <2>2. CASE Next
        BY <1>2, <2>2, LoopKeeps, HookKeeps, OutsideKeeps DEF Next, Outside
  <2> QED
      BY <1>2, <2>1, <2>2
<1>3. OnceInv => OneResponse
      BY DEF OnceInv, Once, OneResponse
<1> QED
    BY <1>1, <1>2, <1>3, StepTypes, PTL DEF Spec
=============================================================================
