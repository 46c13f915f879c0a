---------------------------- MODULE MCWorkflowGen ----------------------------
(***************************************************************************)
(* A small instance of WorkflowGen for TLC.                                *)
(***************************************************************************)
EXTENDS WorkflowGen
=============================================================================
