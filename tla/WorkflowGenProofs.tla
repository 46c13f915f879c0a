-------------------------- MODULE WorkflowGenProofs --------------------------
(***************************************************************************)
(* Theorems about WorkflowGen, for any number of workflows of any size     *)
(* with branches of any length.                                            *)
(***************************************************************************)
EXTENDS WorkflowGen, WellFoundedInduction, TLAPS

\* A nonempty set of natural numbers has a least one.
LEMMA Least ==
  ASSUME NEW T \in SUBSET Nat, T # {}
  PROVE  \E m \in T : \A n \in T : m <= n
<1> DEFINE Less == OpToRel(<, Nat)
<1>1. \E m \in T : \A n \in T : ~ (<<n, m>> \in Less)
  <2> HIDE DEF Less
  <2>1. IsWellFoundedOn(Less, Nat)
    BY NatLessThanWellFounded DEF Less
  <2> QED
    BY <2>1, WFMin
<1>2. \A m, n \in Nat : n < m => <<n, m>> \in Less
  BY DEF OpToRel
<1> HIDE DEF Less
<1>3. PICK m \in T : \A n \in T : ~ (<<n, m>> \in Less)
  BY <1>1
<1>4. \A n \in T : ~ (n < m)
  BY <1>2, <1>3
<1>5. \A n \in T : m <= n
  BY <1>4
<1> QED
  BY <1>5

\* And one that is bounded a greatest.
LEMMA Greatest ==
  ASSUME NEW b \in Nat, NEW T \in SUBSET (0 .. b), T # {}
  PROVE  \E m \in T : \A n \in T : n <= m
<1> DEFINE U == {b - n : n \in T}
<1>1. /\ U \in SUBSET Nat /\ U # {}
      /\ \A v \in U : \E n \in T : v = b - n
  <2>1. \A n \in T : n \in Nat /\ b - n \in Nat
    OBVIOUS
  <2>2. U \in SUBSET Nat
    BY <2>1
  <2>3. U # {}
    BY Zenon
  <2>4. \A v \in U : \E n \in T : v = b - n
    BY Zenon
  <2> QED
    BY <2>2, <2>3, <2>4
<1>2. PICK u \in U : \A v \in U : u <= v
  <2> HIDE DEF U
  <2> QED
    BY <1>1, Least
<1>3. PICK m \in T : u = b - m
  BY <1>1
<1>4. \A n \in T : b - m <= b - n
  <2>1. \A n \in T : b - n \in U
    BY Zenon
  <2> HIDE DEF U
  <2> QED
    BY <1>2, <1>3, <2>1
<1> HIDE DEF U
<1>5. \A n \in T : n <= m
  BY <1>4
<1> QED
  BY <1>5

-----------------------------------------------------------------------------
(***************************************************************************)
(* Types                                                                   *)
(***************************************************************************)

\* Between two workflows there is nothing left to do.
IdleBetween == Len(origin) = Len(startPoint) => branches = 0 /\ left = -1

LEMMA InitTypes == Init => TypeOK /\ IdleBetween
BY DEF Init, TypeOK, Tasks, IdleBetween

\* What generate begins with.
LEMMA Begins ==
  ASSUME TypeOK, IdleBetween, generate
  PROVE  /\ \E wSize \in Nat : wSize >= 3 /\ linear' = wSize /\ c' = wSize
                               /\ parents' = [t \in 1 .. wSize |-> {t - 1}]
         /\ branches' \in Nat /\ randIdx' = randIdx /\ left = -1 /\ left' = -1
         /\ Len(origin) = Len(startPoint) /\ startPoint' = startPoint
         /\ \/ startPoint = <<>> /\ origin' = <<<<0, 0>>>>
            \/ \E w \in 1 .. Len(startPoint) : \E t \in 1 .. startPoint[w] :
                 origin' = Append(origin, <<w, t>>)
<1>1. PICK wSize \in Sizes : Starts(wSize)
  BY DEF generate
<1>2. wSize \in Nat /\ wSize >= 3
  BY WorkflowAssumption
<1>3. branchCount(wSize) \in Nat
  BY <1>2 DEF branchCount
<1>4. left = -1
  BY DEF generate, IdleBetween
<1> QED
  BY <1>1, <1>2, <1>3, <1>4 DEF generate, Starts, Linear

LEMMA StepTypes ==
  ASSUME TypeOK, IdleBetween, [Next]_vars
  PROVE  TypeOK' /\ IdleBetween'
<1> USE DEF Tasks
<1>1. CASE generate
  <2>1. PICK wSize \in Nat : /\ wSize >= 3 /\ linear' = wSize /\ c' = wSize
                             /\ parents' = [t \in 1 .. wSize |-> {t - 1}]
    BY <1>1, Begins
  <2>2. parents' \in [1 .. wSize -> SUBSET Nat]
    BY <2>1
  <2>3. /\ branches' \in Nat /\ randIdx' = randIdx /\ left = -1 /\ left' = -1
        /\ Len(origin) = Len(startPoint) /\ startPoint' = startPoint
    BY <1>1, Begins
  <2>4. origin' \in Seq(Nat \X Nat) /\ Len(origin') = Len(startPoint) + 1
    <3>1. CASE startPoint = <<>> /\ origin' = <<<<0, 0>>>>
      <4>1. <<0, 0>> \in Nat \X Nat
        OBVIOUS
      <4>2. <<<<0, 0>>>> \in Seq(Nat \X Nat) /\ Len(<<<<0, 0>>>>) = 1
        BY <4>1
      <4> QED
        BY <3>1, <4>2
    <3>2. ASSUME NEW w \in 1 .. Len(startPoint), NEW t \in 1 .. startPoint[w],
                 origin' = Append(origin, <<w, t>>)
          PROVE  origin' \in Seq(Nat \X Nat) /\ Len(origin') = Len(startPoint) + 1
      <4>1. startPoint[w] \in Nat /\ w \in Nat
        BY DEF TypeOK
      <4>2. <<w, t>> \in Nat \X Nat
        BY <4>1
      <4> QED
        BY <2>3, <3>2, <4>2 DEF TypeOK
    <3> QED
      BY <1>1, <3>1, <3>2, Begins
  <2> QED
    BY <2>1, <2>2, <2>3, <2>4 DEF TypeOK, IdleBetween
<1>2. CASE Branch
  <2>1. /\ left = -1 /\ branches > 0 /\ branches' = branches - 1
        /\ randIdx' \in 1 .. linear - 2 /\ c' = c + 1
        /\ parents' = [t \in 1 .. c + 1 |-> IF t <= c THEN parents[t] ELSE {randIdx'}]
        /\ left' \in Nat /\ UNCHANGED <<startPoint, linear, origin>>
    BY <1>2, WorkflowAssumption DEF Branch
  <2>2. parents' \in [1 .. c + 1 -> SUBSET Nat]
    BY <2>1 DEF TypeOK
  <2> QED
    BY <2>1, <2>2 DEF TypeOK, IdleBetween
<1>3. CASE Extend
  <2>1. /\ left > 0 /\ left' = left - 1 /\ c' = c + 1
        /\ parents' = [t \in 1 .. c + 1 |-> IF t <= c THEN parents[t] ELSE {c}]
        /\ UNCHANGED <<startPoint, linear, branches, randIdx, origin>>
    BY <1>3 DEF Extend
  <2>2. parents' \in [1 .. c + 1 -> SUBSET Nat]
    BY <2>1 DEF TypeOK
  <2> QED
    BY <2>1, <2>2 DEF TypeOK, IdleBetween
<1>4. CASE Merge
  <2>1. PICK k \in 0 .. linear - 2 - randIdx :
          parents' = [parents EXCEPT ![k + randIdx + 2] = @ \cup {c}]
    BY <1>4 DEF Merge
  <2>2. /\ left = 0 /\ left' = -1
        /\ UNCHANGED <<startPoint, linear, c, branches, randIdx, origin>>
    BY <1>4 DEF Merge
  <2>3. parents' \in [1 .. c -> SUBSET Nat]
    BY <2>1 DEF TypeOK
  <2> QED
    BY <2>2, <2>3 DEF TypeOK, IdleBetween
<1>5. CASE Finish
  <2>1. startPoint' \in Seq(Nat) /\ Len(startPoint') = Len(startPoint) + 1
    BY <1>5 DEF Finish, TypeOK
  <2> QED
    BY <1>5, <2>1 DEF Finish, TypeOK, IdleBetween
<1>6. CASE UNCHANGED vars
  BY <1>6 DEF vars, TypeOK, IdleBetween
<1> QED
  BY <1>1, <1>2, <1>3, <1>4, <1>5, <1>6 DEF Next

\* The graph keeps its types, and the start of a branch lies within the chain.
THEOREM TypeCorrect == Spec => []TypeOK
BY InitTypes, StepTypes, PTL DEF Spec

-----------------------------------------------------------------------------
(***************************************************************************)
(* No cycle                                                                *)
(***************************************************************************)

\* A task comes before another when its branch starts earlier in the chain, a task
\* of the chain being a branch of its own, or in the same branch when it is older.
Lower(home, p, t) == home[p] < home[t] \/ (home[p] = home[t] /\ p < t)

\* home gives the place in the chain that each task belongs to, and every parent is
\* lower than its child.
Ordered(home) ==
  /\ home \in [Tasks -> Nat]
  /\ \A t \in Chain : home[t] = t
  /\ \A t \in Tasks : \A p \in parents[t] : p = 0 \/ (p \in Tasks /\ Lower(home, p, t))
  /\ left >= 0 => linear < c /\ home[c] = randIdx

OrderInv == \E home : Ordered(home)

\* A task that is added takes the place of its branch.
LEMMA AddOrdered ==
  ASSUME TypeOK, NEW home, Ordered(home), NEW start \in Chain, NEW p \in Tasks,
         linear' = linear, c' = c + 1, randIdx' = start,
         parents' = [t \in 1 .. c + 1 |-> IF t <= c THEN parents[t] ELSE {p}],
         home[p] = start
  PROVE  OrderInv'
<1>0. PICK more : more = [t \in 1 .. c + 1 |-> IF t <= c THEN home[t] ELSE start]
  OBVIOUS
<1>1. /\ c \in Nat /\ linear \in Nat /\ linear <= c /\ start \in Nat
      /\ home \in [1 .. c -> Nat]
  BY DEF TypeOK, Ordered, Tasks, Chain
<1>2. /\ more \in [1 .. c + 1 -> Nat] /\ more[c + 1] = start
      /\ \A t \in 1 .. c : more[t] = home[t]
  BY <1>0, <1>1
<1>3. /\ parents'[c + 1] = {p}
      /\ \A t \in 1 .. c : parents'[t] = parents[t]
  BY <1>1
<1>4. \A t \in Chain : more[t] = t
  BY <1>1, <1>2 DEF Ordered, Chain
<1>5. ASSUME NEW t \in 1 .. c, NEW q \in parents'[t]
      PROVE  q = 0 \/ (q \in 1 .. c + 1 /\ Lower(more, q, t))
  <2>1. q = 0 \/ (q \in 1 .. c /\ Lower(home, q, t))
    BY <1>3, <1>5 DEF Ordered, Tasks
  <2> QED
    BY <1>1, <1>2, <2>1 DEF Lower
<1>6. p \in 1 .. c + 1 /\ Lower(more, p, c + 1)
  BY <1>1, <1>2 DEF Lower, Tasks
<1>7. \A t \in 1 .. c + 1 : t \in 1 .. c \/ t = c + 1
  BY <1>1
<1>8. \A t \in 1 .. c + 1 : \A q \in parents'[t] :
        q = 0 \/ (q \in 1 .. c + 1 /\ Lower(more, q, t))
  BY <1>3, <1>5, <1>6, <1>7
<1>9. linear' < c' /\ more[c'] = randIdx'
  BY <1>1, <1>2
<1>10. Ordered(more)'
  BY <1>2, <1>4, <1>8, <1>9 DEF Ordered, Tasks, Chain, Lower
<1> QED
  BY <1>10 DEF OrderInv

LEMMA StepOrder ==
  ASSUME TypeOK, IdleBetween, OrderInv, [Next]_vars
  PROVE  OrderInv'
<1>1. PICK home : Ordered(home)
  BY DEF OrderInv
<1>2. CASE generate
  <2>1. PICK wSize \in Nat : /\ wSize >= 3 /\ linear' = wSize /\ c' = wSize
                             /\ parents' = [t \in 1 .. wSize |-> {t - 1}]
    BY <1>2, Begins
  <2>2. left' = -1
    BY <1>2, Begins
  <2> DEFINE same == [t \in 1 .. wSize |-> t]
  <2>3. same \in [1 .. wSize -> Nat] /\ \A t \in 1 .. wSize : same[t] = t
    OBVIOUS
  <2> HIDE DEF same
  <2>4. \A t \in 1 .. wSize : \A p \in parents'[t] :
          p = 0 \/ (p \in 1 .. wSize /\ Lower(same, p, t))
    <3> SUFFICES ASSUME NEW t \in 1 .. wSize, t # 1
                 PROVE  t - 1 \in 1 .. wSize /\ Lower(same, t - 1, t)
      BY <2>1
    <3>1. t - 1 \in 1 .. wSize
      OBVIOUS
    <3> QED
      BY <2>3, <3>1 DEF Lower
  <2>5. Ordered(same)'
    BY <2>1, <2>2, <2>3, <2>4 DEF Ordered, Tasks, Chain, Lower
  <2> QED
    BY <2>5 DEF OrderInv
<1>3. CASE Branch
  <2>1. PICK start \in 1 .. linear - 2 :
          /\ randIdx' = start /\ c' = c + 1 /\ linear' = linear
          /\ parents' = [t \in 1 .. c + 1 |-> IF t <= c THEN parents[t] ELSE {start}]
    BY <1>3 DEF Branch
  <2>2. start \in Chain /\ start \in Tasks
    BY DEF TypeOK, Chain, Tasks
  <2>3. home[start] = start
    BY <1>1, <2>2 DEF Ordered
  <2> QED
    BY <1>1, <2>1, <2>2, <2>3, AddOrdered
<1>4. CASE Extend
  <2>1. /\ left > 0 /\ c' = c + 1 /\ linear' = linear /\ randIdx' = randIdx
        /\ parents' = [t \in 1 .. c + 1 |-> IF t <= c THEN parents[t] ELSE {c}]
    BY <1>4 DEF Extend
  <2>2. left >= 0
    BY <2>1 DEF TypeOK
  <2>3. /\ randIdx \in Chain /\ c \in Tasks /\ home[c] = randIdx
    BY <1>1, <2>2 DEF TypeOK, Ordered, Chain, Tasks
  <2>4. PICK start, p : start = randIdx /\ p = c
    OBVIOUS
  <2> QED
    BY <1>1, <2>1, <2>3, <2>4, AddOrdered
<1>5. CASE Merge
  <2>1. PICK k \in 0 .. linear - 2 - randIdx :
          parents' = [parents EXCEPT ![k + randIdx + 2] = @ \cup {c}]
    BY <1>5 DEF Merge
  <2>2. left = 0 /\ left' = -1 /\ UNCHANGED <<linear, c, randIdx>>
    BY <1>5 DEF Merge
  <2>3. /\ randIdx \in Nat /\ linear \in Nat /\ c \in Nat /\ linear < c
        /\ home \in [1 .. c -> Nat] /\ home[c] = randIdx
    BY <1>1, <2>2 DEF TypeOK, Ordered, Tasks
  <2> DEFINE j == k + randIdx + 2
  <2>4. j \in Chain /\ j \in Tasks /\ randIdx < j
    BY <2>3 DEF Chain, Tasks
  <2>5. parents' = [parents EXCEPT ![j] = @ \cup {c}]
    BY <2>1
  <2> HIDE DEF j
  <2>6. \A t \in Tasks : parents'[t] = IF t = j THEN parents[t] \cup {c} ELSE parents[t]
    BY <2>5 DEF TypeOK
  <2>7. c \in Tasks /\ Lower(home, c, j)
    BY <1>1, <2>3, <2>4 DEF Tasks, Lower, Ordered
  <2>8. \A t \in Tasks : \A p \in parents'[t] : p = 0 \/ (p \in Tasks /\ Lower(home, p, t))
    BY <1>1, <2>6, <2>7 DEF Ordered
  <2>9. Ordered(home)'
    BY <1>1, <2>2, <2>8 DEF Ordered, Tasks, Chain, Lower
  <2> QED
    BY <2>9 DEF OrderInv
<1>6. CASE Finish \/ UNCHANGED vars
  <2>1. UNCHANGED <<linear, c, parents, randIdx, left>>
    BY <1>6 DEF Finish, vars
  <2>2. Ordered(home)'
    BY <1>1, <2>1 DEF Ordered, Tasks, Chain, Lower
  <2> QED
    BY <2>2 DEF OrderInv
<1> QED
  BY <1>2, <1>3, <1>4, <1>5, <1>6 DEF Next

LEMMA InitOrder == Init => OrderInv
<1> SUFFICES ASSUME Init PROVE Ordered([t \in {} |-> 0])
  BY DEF OrderInv
<1> QED
  BY DEF Init, Ordered, Tasks, Chain

\* The lowest of a set of tasks waits for none of the others.
LEMMA OrderedIsAcyclic == TypeOK /\ OrderInv => Acyclic
<1> SUFFICES ASSUME TypeOK, OrderInv, NEW S \in SUBSET Tasks, S # {}
             PROVE  \E t \in S : parents[t] \cap S = {}
  BY DEF Acyclic
<1>1. PICK home : Ordered(home)
  BY DEF OrderInv
<1>2. \A t \in Tasks : t \in Nat /\ home[t] \in Nat
  BY <1>1 DEF Ordered, Tasks
<1> DEFINE Homes == {home[t] : t \in S}
<1>3. Homes \in SUBSET Nat /\ Homes # {}
  BY <1>2
<1>4. \A t \in S : home[t] \in Homes
  BY Zenon
<1>5. \A h \in Homes : \E t \in S : home[t] = h
  BY Zenon
<1> HIDE DEF Homes
<1>6. PICK h \in Homes : \A g \in Homes : h <= g
  BY <1>3, Least
<1> DEFINE First == {t \in S : home[t] = h}
<1>7. First \in SUBSET Nat /\ First # {}
  BY <1>2, <1>5, <1>6
<1>8. PICK m \in First : \A n \in First : m <= n
  <2> HIDE DEF First
  <2> QED
    BY <1>7, Least
<1>9. m \in S /\ home[m] = h /\ m \in Tasks
  BY <1>8
<1>10. ASSUME NEW p \in parents[m], p \in S PROVE FALSE
  <2>1. p \in Tasks /\ p # 0
    BY <1>10 DEF Tasks
  <2>2. home[p] < home[m] \/ (home[p] = home[m] /\ p < m)
    BY <1>1, <1>9, <2>1 DEF Ordered, Lower
  <2>3. h <= home[p]
    BY <1>4, <1>6, <1>10
  <2>4. home[p] = h => m <= p
    BY <1>8, <1>10
  <2> QED
    BY <1>2, <1>9, <2>1, <2>2, <2>3, <2>4
<1> QED
  BY <1>9, <1>10

\* A workflow never has a cycle, wherever its branches start, however long they are
\* and wherever they come back to the chain.
THEOREM WorkflowsAcyclic == Spec => []Acyclic
<1>1. TypeOK /\ IdleBetween /\ OrderInv /\ [Next]_vars => (TypeOK /\ IdleBetween /\ OrderInv)'
  BY StepTypes, StepOrder
<1>2. Init => TypeOK /\ IdleBetween /\ OrderInv
  BY InitTypes, InitOrder
<1> QED
  BY <1>1, <1>2, OrderedIsAcyclic, PTL DEF Spec

-----------------------------------------------------------------------------
(***************************************************************************)
(* One beginning and one end                                               *)
(***************************************************************************)

\* A task that is the parent of the task after it or of one of the chain.
Leads(u) ==
  \/ u < c /\ u \in parents[u + 1]
  \/ \E k \in Chain : u \in parents[k]

\* Each task of the chain comes from the one before it, and no branch is left open
\* but the one at hand.
ConnectedInv ==
  /\ \A t \in Tasks : parents[t] # {}
  /\ \A t \in Chain : t - 1 \in parents[t]
  /\ \A u \in linear + 1 .. c : Leads(u) \/ (u = c /\ left >= 0)
  /\ c > 0 => linear > 0

\* A task that is added comes from the last one or from the chain; the one before it
\* is led on, or was before.
LEMMA AddConnected ==
  ASSUME TypeOK, ConnectedInv, NEW p \in Tasks,
         linear' = linear, c' = c + 1, left' >= 0,
         parents' = [t \in 1 .. c + 1 |-> IF t <= c THEN parents[t] ELSE {p}],
         left = -1 \/ p = c
  PROVE  ConnectedInv'
<1>1. /\ c \in Nat /\ linear \in Nat /\ linear <= c
      /\ p \in Nat /\ p > 0 /\ c > 0
  BY DEF TypeOK, Tasks
<1>2. /\ parents'[c + 1] = {p}
      /\ \A t \in 1 .. c : parents'[t] = parents[t]
  BY <1>1
<1>3. \A t \in 1 .. c + 1 : t \in 1 .. c \/ t = c + 1
  BY <1>1
<1>4. \A t \in 1 .. c + 1 : parents'[t] # {}
  BY <1>2, <1>3 DEF ConnectedInv, Tasks
<1>5. \A t \in Chain : parents'[t] = parents[t]
  BY <1>1, <1>2 DEF Chain
<1>6. ASSUME NEW u \in linear + 1 .. c PROVE Leads(u)'
  <2>1. CASE u < c /\ u \in parents[u + 1]
    <3>1. u + 1 \in 1 .. c
      BY <1>1, <2>1
    <3> QED
      BY <1>1, <1>2, <2>1, <3>1 DEF Leads
  <2>2. CASE \E k \in Chain : u \in parents[k]
    BY <1>5, <2>2 DEF Leads, Chain
  <2>3. CASE u = c /\ left >= 0
    <3>1. p = c
      BY <2>3
    <3> QED
      BY <1>1, <1>2, <2>3, <3>1 DEF Leads
  <2> QED
    BY <2>1, <2>2, <2>3 DEF ConnectedInv, Leads
<1>7. \A u \in linear' + 1 .. c' : Leads(u)' \/ (u = c' /\ left' >= 0)
  <2>1. \A u \in linear + 1 .. c + 1 : u \in linear + 1 .. c \/ u = c + 1
    BY <1>1
  <2> QED
    BY <1>6, <2>1
<1>8. linear > 0
  BY <1>1 DEF ConnectedInv
<1> QED
  BY <1>4, <1>5, <1>7, <1>8 DEF ConnectedInv, Tasks, Chain

LEMMA StepConnected ==
  ASSUME TypeOK, IdleBetween, OrderInv, ConnectedInv, [Next]_vars
  PROVE  ConnectedInv'
<1>1. CASE generate
  <2>1. PICK wSize \in Nat : /\ wSize >= 3 /\ linear' = wSize /\ c' = wSize
                             /\ parents' = [t \in 1 .. wSize |-> {t - 1}]
    BY <1>1, Begins
  <2>2. \A t \in 1 .. wSize : parents'[t] = {t - 1}
    BY <2>1
  <2>3. \A u \in linear' + 1 .. c' : FALSE
    BY <2>1
  <2> QED
    BY <2>1, <2>2, <2>3 DEF ConnectedInv, Tasks, Chain
<1>2. CASE Branch
  <2>1. PICK start \in 1 .. linear - 2 :
          /\ c' = c + 1 /\ linear' = linear
          /\ parents' = [t \in 1 .. c + 1 |-> IF t <= c THEN parents[t] ELSE {start}]
    BY <1>2 DEF Branch
  <2>2. left = -1 /\ left' >= 0
    BY <1>2, WorkflowAssumption DEF Branch
  <2>3. start \in Tasks
    BY DEF TypeOK, Tasks
  <2> QED
    BY <2>1, <2>2, <2>3, AddConnected
<1>3. CASE Extend
  <2>1. /\ left > 0 /\ left' = left - 1 /\ c' = c + 1 /\ linear' = linear
        /\ parents' = [t \in 1 .. c + 1 |-> IF t <= c THEN parents[t] ELSE {c}]
    BY <1>3 DEF Extend
  <2>2. left' >= 0 /\ left >= 0
    BY <2>1 DEF TypeOK
  <2>3. c \in Tasks
    BY <2>2 DEF OrderInv, Ordered, TypeOK, Tasks
  <2>4. PICK p \in Tasks : p = c
    BY <2>3
  <2> QED
    BY <2>1, <2>2, <2>4, AddConnected
<1>4. CASE Merge
  <2>1. PICK k \in 0 .. linear - 2 - randIdx :
          parents' = [parents EXCEPT ![k + randIdx + 2] = @ \cup {c}]
    BY <1>4 DEF Merge
  <2>2. left = 0 /\ left' = -1 /\ UNCHANGED <<linear, c>>
    BY <1>4 DEF Merge
  <2>3. PICK j : j = k + randIdx + 2
    OBVIOUS
  <2>4. j \in Chain /\ j \in Tasks
    BY <2>2, <2>3 DEF Chain, Tasks, TypeOK
  <2>5. \A t \in Tasks : parents'[t] = IF t = j THEN parents[t] \cup {c} ELSE parents[t]
    BY <2>1, <2>3 DEF TypeOK
  <2>6. c \in Nat /\ linear \in Nat /\ Chain \subseteq Tasks
    BY DEF TypeOK, Chain, Tasks
  <2>7. /\ \A t \in Tasks : parents[t] \subseteq parents'[t]
        /\ c \in parents'[j]
    BY <2>4, <2>5
  <2>8. ASSUME NEW u \in linear + 1 .. c PROVE Leads(u)'
    <3>1. CASE u < c /\ u \in parents[u + 1]
      <4>1. u + 1 \in Tasks
        BY <2>6, <3>1 DEF Tasks
      <4> QED
        BY <2>2, <2>7, <3>1, <4>1 DEF Leads
    <3>2. CASE \E q \in Chain : u \in parents[q]
      BY <2>2, <2>6, <2>7, <3>2 DEF Leads, Chain
    <3>3. CASE u = c
      BY <2>2, <2>4, <2>7, <3>3 DEF Leads, Chain
    <3> QED
      BY <3>1, <3>2, <3>3 DEF ConnectedInv, Leads
  <2>9. /\ \A t \in Tasks : parents'[t] # {}
        /\ \A t \in Chain : t - 1 \in parents'[t]
    BY <2>6, <2>7 DEF ConnectedInv
  <2> QED
    BY <2>2, <2>8, <2>9 DEF ConnectedInv, Tasks, Chain
<1>5. CASE Finish \/ UNCHANGED vars
  BY <1>5 DEF Finish, vars, ConnectedInv, Leads, Tasks, Chain
<1> QED
  BY <1>1, <1>2, <1>3, <1>4, <1>5 DEF Next

LEMMA InitConnected == Init => ConnectedInv
BY DEF Init, ConnectedInv, Tasks, Chain

\* A finished workflow is connected, from its last task back and to task 0.
LEMMA ConnectedIsOne ==
  ASSUME TypeOK, IdleBetween, Acyclic, ConnectedInv
  PROVE  OneBeginningOneEnd
<1> SUFFICES ASSUME Len(origin) = Len(startPoint), c > 0,
                    NEW S \in SUBSET (0 .. c), S # {}, Closed(S)
             PROVE  0 \in S /\ (linear \in S => Tasks \subseteq S)
  BY DEF OneBeginningOneEnd
<1>1. /\ c \in Nat /\ linear \in Nat /\ linear <= c /\ linear > 0
      /\ left = -1 /\ S \subseteq 0 .. c /\ S # {}
  BY DEF TypeOK, IdleBetween, ConnectedInv
<1>2. \A t \in Tasks : t \in S => parents[t] \subseteq S
  BY DEF Closed
<1>3. 0 \in S
  <2> SUFFICES ASSUME 0 \notin S PROVE FALSE
    OBVIOUS
  <2>1. S \in SUBSET Tasks /\ S # {}
    BY <1>1 DEF Tasks
  <2>2. PICK t \in S : parents[t] \cap S = {}
    BY <2>1 DEF Acyclic
  <2>3. t \in Tasks /\ parents[t] # {}
    BY <2>1 DEF ConnectedInv
  <2> QED
    BY <1>2, <2>2, <2>3
<1>4. ASSUME linear \in S PROVE Chain \subseteq S
  <2> DEFINE T == Chain \ S
  <2> SUFFICES ASSUME T # {} PROVE FALSE
    OBVIOUS
  <2>1. T \in SUBSET (0 .. linear)
    BY DEF Chain
  <2>2. PICK t \in T : \A u \in T : u <= t
    <3> HIDE DEF T
    <3> QED
      BY <1>1, <2>1, Greatest
  <2>3. t \in 1 .. linear - 1
    BY <1>1, <1>4 DEF Chain
  <2>4. t + 1 \in Chain /\ t + 1 \in Tasks /\ (t + 1) - 1 = t
    BY <1>1, <2>3 DEF Chain, Tasks
  <2>5. t + 1 \in S
    <3>1. t + 1 \notin T
      <4> HIDE DEF T
      <4> QED
        BY <2>2, <2>3
    <3> QED
      BY <2>4, <3>1
  <2>6. t \in parents[t + 1]
    BY <2>4 DEF ConnectedInv
  <2> QED
    BY <1>2, <2>4, <2>5, <2>6
<1>5. ASSUME linear \in S PROVE Tasks \subseteq S
  <2> DEFINE T == Tasks \ S
  <2> SUFFICES ASSUME T # {} PROVE FALSE
    OBVIOUS
  <2>1. T \in SUBSET (0 .. c)
    BY DEF Tasks
  <2>2. PICK t \in T : \A u \in T : u <= t
    <3> HIDE DEF T
    <3> QED
      BY <1>1, <2>1, Greatest
  <2>3. t \in linear + 1 .. c /\ t \notin S
    BY <1>1, <1>4, <1>5 DEF Chain, Tasks
  <2>4. CASE t < c /\ t \in parents[t + 1]
    <3>1. t + 1 \in Tasks
      BY <1>1, <2>3, <2>4 DEF Tasks
    <3>2. t + 1 \notin T
      <4> HIDE DEF T
      <4> QED
        BY <2>2, <2>3
    <3> QED
      BY <1>2, <2>3, <2>4, <3>1, <3>2
  <2>5. CASE \E k \in Chain : t \in parents[k]
    <3>1. PICK k \in Chain : t \in parents[k]
      BY <2>5
    <3>2. k \in S /\ k \in Tasks
      BY <1>1, <1>4, <1>5 DEF Chain, Tasks
    <3> QED
      BY <1>2, <2>3, <3>1, <3>2
  <2> QED
    BY <1>1, <2>3, <2>4, <2>5 DEF ConnectedInv, Leads
<1> QED
  BY <1>3, <1>5

\* In every finished workflow all the tasks come from task 0 and lead to the last
\* task of the first chain.
THEOREM WorkflowsConnected == Spec => []OneBeginningOneEnd
<1>1. TypeOK /\ IdleBetween /\ OrderInv /\ ConnectedInv /\ [Next]_vars =>
        (TypeOK /\ IdleBetween /\ OrderInv /\ ConnectedInv)'
  BY StepTypes, StepOrder, StepConnected
<1>2. Init => TypeOK /\ IdleBetween /\ OrderInv /\ ConnectedInv
  BY InitTypes, InitOrder, InitConnected
<1>3. TypeOK /\ IdleBetween /\ OrderInv /\ ConnectedInv => OneBeginningOneEnd
  BY OrderedIsAcyclic, ConnectedIsOne
<1> QED
  BY <1>1, <1>2, <1>3, PTL DEF Spec
=============================================================================
