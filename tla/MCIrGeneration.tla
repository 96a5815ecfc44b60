-------------------------- MODULE MCIrGeneration --------------------------
(* Small instances of IrGeneration for TLC. *)
EXTENDS IrGeneration

\* A cast or a call with one argument, an operator with two.
Arities == [f |-> 1, plus |-> 2]
=============================================================================
