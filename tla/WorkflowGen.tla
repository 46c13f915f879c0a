----------------------------- MODULE WorkflowGen -----------------------------
(***************************************************************************)
(* The generator of random workflows (SciFlowTesting, randomizeGen.java).  *)
(*                                                                         *)
(* A workflow is a list of tasks, each with the indices of its parents.    *)
(* Task 0 stands for where the workflow comes from.  The tasks 1..linear   *)
(* are a chain; then branches are added: a branch starts at a task of the  *)
(* chain, is a chain itself, and its last task becomes a parent of a later *)
(* task of the first chain.  A workflow but the first is said to come from *)
(* a task of an earlier one.  Every random number is any that it can be.   *)
(***************************************************************************)
EXTENDS Integers, Sequences

CONSTANTS
  maxWorkflows,
  Sizes,        \* the values of wSize: 3..7 in the code
  branchLens    \* those of branchLen: 0..3

ASSUME WorkflowAssumption ==
  /\ maxWorkflows \in Nat
  /\ Sizes \subseteq {n \in Int : n >= 3}
  /\ branchLens \subseteq Nat

VARIABLES
  startPoint,  \* the number of tasks of each workflow that is finished
  linear,      \* of the workflow at hand: the length of the first chain,
  c,           \* the number of tasks,
  parents,     \* the parents of each,
  branches,    \* how many branches are still to come,
  randIdx,     \* of the branch at hand: where it starts,
  left,        \* and how many tasks it still gets; -1 if there is none
  origin       \* the workflow and the task that each workflow comes from

vars == <<startPoint, linear, c, parents, branches, randIdx, left, origin>>

Chain == 1 .. linear
Tasks == 1 .. c

TypeOK ==
  /\ startPoint \in Seq(Nat)
  /\ linear \in Nat /\ c \in Nat /\ linear <= c
  /\ parents \in [Tasks -> SUBSET Nat]
  /\ branches \in Nat /\ left \in Nat \cup {-1}
  /\ randIdx \in Nat
  /\ left >= 0 => randIdx \in 1 .. linear - 2
  /\ origin \in Seq(Nat \X Nat)
  /\ Len(origin) = Len(startPoint) \/ Len(origin) = Len(startPoint) + 1

\* The first chain, each task after the one before.
Linear(wSize) == [t \in 1 .. wSize |-> {t - 1}]

branchCount(wSize) == (wSize * 3) \div 10 + 1

Starts(wSize) ==
  /\ linear' = wSize /\ c' = wSize /\ parents' = Linear(wSize)
  /\ branches' = branchCount(wSize)
  /\ UNCHANGED <<randIdx, left>>

Init ==
  /\ startPoint = <<>> /\ origin = <<>>
  /\ linear = 0 /\ c = 0 /\ parents = [t \in {} |-> {}]
  /\ branches = 0 /\ randIdx = 0 /\ left = -1

-----------------------------------------------------------------------------
\* The next workflow: the first comes from nowhere, the others from any task of an
\* earlier one.
generate ==
  /\ Len(origin) = Len(startPoint) /\ Len(startPoint) < maxWorkflows
  /\ \E wSize \in Sizes : Starts(wSize)
  /\ \/ startPoint = <<>> /\ origin' = <<<<0, 0>>>>
     \/ \E w \in 1 .. Len(startPoint) : \E t \in 1 .. startPoint[w] :
          origin' = Append(origin, <<w, t>>)
  /\ UNCHANGED startPoint

\* nextInt(linear-2)+1, and the first task of the branch.
Branch ==
  /\ branches > 0 /\ left = -1
  /\ randIdx' \in 1 .. linear - 2
  /\ c' = c + 1
  /\ parents' = [t \in 1 .. c + 1 |-> IF t <= c THEN parents[t] ELSE {randIdx'}]
  /\ left' \in branchLens
  /\ branches' = branches - 1
  /\ UNCHANGED <<startPoint, linear, origin>>

Extend ==
  /\ left > 0
  /\ c' = c + 1
  /\ parents' = [t \in 1 .. c + 1 |-> IF t <= c THEN parents[t] ELSE {c}]
  /\ left' = left - 1
  /\ UNCHANGED <<startPoint, linear, branches, randIdx, origin>>

\* Fault: the index is drawn one too low.
Merge_Early ==
  /\ left = 0
  /\ \E k \in 0 .. linear - 1 - randIdx :
       parents' = [parents EXCEPT ![k + randIdx] = @ \cup {c}]
  /\ left' = -1
  /\ UNCHANGED <<startPoint, linear, c, branches, randIdx, origin>>

\* Fault: the branch is left open.
Merge_Open ==
  /\ left = 0
  /\ left' = -1
  /\ UNCHANGED <<startPoint, linear, c, parents, branches, randIdx, origin>>

\* nextInt(linear-1-randIdx)+randIdx+2: a task of the first chain, at least two after
\* the one where the branch starts.
Merge ==
  /\ left = 0
  /\ \E k \in 0 .. linear - 2 - randIdx :
       parents' = [parents EXCEPT ![k + randIdx + 2] = @ \cup {c}]
  /\ left' = -1
  /\ UNCHANGED <<startPoint, linear, c, branches, randIdx, origin>>

Finish ==
  /\ Len(origin) = Len(startPoint) + 1 /\ branches = 0 /\ left = -1
  /\ startPoint' = Append(startPoint, c)
  /\ UNCHANGED <<linear, c, parents, branches, randIdx, left, origin>>

Next == generate \/ Branch \/ Extend \/ Merge \/ Finish

Spec == Init /\ [][Next]_vars

-----------------------------------------------------------------------------
(***************************************************************************)
(* Properties                                                              *)
(***************************************************************************)

\* A set of tasks, perhaps with task 0, that has the parents of each of its tasks.
Closed(S) == \A t \in S \cap Tasks : parents[t] \subseteq S

\* A workflow can be run: whatever tasks are left, there is one that waits for none
\* of them, although branches lead from tasks with high numbers back to tasks with
\* low ones (randomizeGen.java).
Acyclic ==
  \A S \in SUBSET Tasks : S # {} => \E t \in S : parents[t] \cap S = {}

\* Every task of a finished workflow leads to the last one of its first chain, and
\* every one comes from task 0: no branch is left open, none starts from nowhere.
OneBeginningOneEnd ==
  Len(origin) = Len(startPoint) /\ c > 0 =>
    \A S \in SUBSET (0 .. c) :
      S # {} /\ Closed(S) => 0 \in S /\ (linear \in S => Tasks \subseteq S)
=============================================================================
