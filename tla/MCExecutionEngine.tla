-------------------------- MODULE MCExecutionEngine --------------------------
(***************************************************************************)
(* ExecutionEngine for TLC. Two tickets let one position be finalised      *)
(* while another is opened or managed; two faults let a second one hit the *)
(* recovery from the first.                                                *)
(***************************************************************************)
EXTENDS ExecutionEngine
=============================================================================
