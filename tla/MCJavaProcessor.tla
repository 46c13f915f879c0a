--------------------------- MODULE MCJavaProcessor ---------------------------
(***************************************************************************)
(* Small instances of JavaProcessor for TLC.                               *)
(***************************************************************************)
EXTENDS JavaProcessor, TLC

CONSTANTS f1, t1, u1, p1

\* u1 is nobody's.
MCFamilyOf == [t \in Transactions |-> IF t = u1 THEN NoHandler ELSE f1]
=============================================================================
