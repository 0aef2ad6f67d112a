------------------------------ MODULE Opcodes -------------------------------
(***************************************************************************)
(* The opcodes of the bytecode (bytecode.h).                               *)
(***************************************************************************)
EXTENDS Integers

OP_MESSAGE == 1
OP_EOA == 2
=============================================================================
