---------------------------- MODULE AtomicCounter ----------------------------
(***************************************************************************)
(* What thread-test.ava is meant to show: threads that increment a shared  *)
(* slot, each increment in one step, and a program that prints the slot    *)
(* when all of them are done.                                              *)
(***************************************************************************)
EXTENDS Naturals

CONSTANTS Workers,   \* the thread objects
          Reps,      \* how often each of them increments the slot
          NULL       \* nothing was printed

VARIABLES shared,    \* the slot
          todo,      \* the increments each worker has still to make
          printed    \* what the program printed

vars == <<shared, todo, printed>>

Init == /\ shared = 0
        /\ todo = [w \in Workers |-> Reps[w]]
        /\ printed = NULL

Increment(w) == /\ todo[w] > 0
                /\ todo' = [todo EXCEPT ![w] = @ - 1]
                /\ shared' = shared + 1
                /\ UNCHANGED printed

PrintSlot == /\ \A w \in Workers : todo[w] = 0
         /\ printed' = shared
         /\ UNCHANGED <<shared, todo>>

Next == PrintSlot \/ \E w \in Workers : Increment(w)

Spec == Init /\ [][Next]_vars
=============================================================================
