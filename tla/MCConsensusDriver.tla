------------------------- MODULE MCConsensusDriver -------------------------
(***************************************************************************)
(* Small instances of ConsensusDriver for TLC.                             *)
(***************************************************************************)
EXTENDS ConsensusDriver, TLC

Symmetry == Permutations(Notifications)
=============================================================================
