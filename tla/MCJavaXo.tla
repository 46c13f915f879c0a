------------------------------ MODULE MCJavaXo ------------------------------
(***************************************************************************)
(* Small instances of JavaXo for TLC.                                      *)
(***************************************************************************)
EXTENDS JavaXo, TLC

CONSTANTS g, gh, h

\* The three names have one address, and one of them is the beginning of another.
MCAddress == [n \in Names |-> "address"]
MCBegins  == [n \in Names |-> IF n = g THEN Names \cap {g, gh} ELSE {n}]
MCDimensions == {-1, 1, 2, 3, 13}

Symmetry == Permutations(Signers)
=============================================================================
