------------------------- MODULE MCStreamRefinement -------------------------
(***************************************************************************)
(* A small instance of StreamRefinement for TLC.                           *)
(***************************************************************************)
EXTENDS StreamRefinement, TLC
=============================================================================
