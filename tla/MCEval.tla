------------------------------- MODULE MCEval -------------------------------
(* Eval for TLC. *)
EXTENDS Eval

\* Every way of every built-in.
AllBuiltins == Ways
=============================================================================
