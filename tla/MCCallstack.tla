---------------------------- MODULE MCCallstack ----------------------------
(***************************************************************************)
(* Callstack for TLC: two contexts, blocks of 2 and 4 cells.               *)
(***************************************************************************)
EXTENDS Callstack

\* One vector in use, and one for each loop and try of the deepest C stack.
MCAddrs == 0..MaxFrames
=============================================================================
