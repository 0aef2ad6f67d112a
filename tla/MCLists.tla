------------------------------ MODULE MCLists ------------------------------
(***************************************************************************)
(* Lists for TLC: two threads, `List' and one clone of it, and three items *)
(* at most, so that the block grows from 0 to 2 and to 4 cells.            *)
(***************************************************************************)
EXTENDS Lists

\* A negative index, and one more than the largest that set_at admits.
MCIndices == {-1, 0} \cup 1..MaxItems + 1
=============================================================================
