---------------------------- MODULE MCXoProcessor ----------------------------
(***************************************************************************)
(* A small instance of XoProcessor for TLC.                                *)
(***************************************************************************)
EXTENDS XoProcessor, TLC

CONSTANTS g1, g2, a1

\* Two games whose names have the same hash.
OneAddress == [n \in Names |-> a1]

\* One of them alone is played to its end; beside another game, both have at most
\* one mark, which is enough to see whether one disturbs the other.
Marked(n) == IF Exists(n) THEN {s \in Squares : Load(n)[n].board[s] # "-"} ELSE {}
Bounded ==
  \/ \E n \in Names : ~Exists(n)
  \/ \A n \in Names : Cardinality(Marked(n)) <= 1

Symmetry == Permutations(Signers) \cup Permutations(Names)
=============================================================================
