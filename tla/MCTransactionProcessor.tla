----------------------- MODULE MCTransactionProcessor -----------------------
(***************************************************************************)
(* Small instances of TransactionProcessor for TLC.                        *)
(***************************************************************************)
EXTENDS TransactionProcessor, TLC

Symmetry == Permutations(Families) \cup Permutations(Handled)
=============================================================================
