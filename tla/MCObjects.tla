----------------------------- MODULE MCObjects -----------------------------
(***************************************************************************)
(* The prototypes for TLC: the whole of sk_vm_new, and every program that  *)
(* keeps at most MaxHeld objects of those it makes.                        *)
(***************************************************************************)
EXTENDS Objects

\* Of the kinds of error, and of the constants, that are alike, one.
MCUsed == Prototypes \cup {"TypeError", "nil"}
=============================================================================
