---------------------------- MODULE MCSlotTable ----------------------------
(***************************************************************************)
(* SlotTable for TLC.  A name is a pair of its hash and a number.  When    *)
(* eight names have a slot, the next set_slot, of whatever name, makes the *)
(* table grow to 23 buckets.                                               *)
(***************************************************************************)
EXTENDS SlotTable

CONSTANTS v, w

MCValues == {v, w}

\* The first four primes of __ac_prime_list.
MCSizes == {0, 3, 11, 23}

\* 0, 77 and 11 collide in 11 buckets, 0 and 23 in 23, the two names with hash
\* 13 everywhere, 13 and 200 in 11; 77 takes the place of 8 in the step to 23.
MCKeys == {<<h, 1>> : h \in {0, 77, 11, 23, 13, 8, 200}} \cup {<<13, 2>>}
MCHash == [k \in MCKeys |-> k[1]]

\* Only one slot is given another value, so that the model stays small.
OneValue == val' = w => key' = <<23, 1>>

MCSpec == Init /\ [][Next /\ OneValue]_vars /\ WF_vars(Work)
=============================================================================
