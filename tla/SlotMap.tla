------------------------------ MODULE SlotMap ------------------------------
(***************************************************************************)
(* What the slots of an object are to the rest of the machine: a map from  *)
(* names to objects (object.h).  A call changes or reads the slot that it  *)
(* names in one step, and nothing else.                                    *)
(***************************************************************************)
CONSTANTS Keys,     \* names of slots
          Values,   \* objects
          NULL      \* nothing

VARIABLES slots,    \* the map
          call,     \* the name and the object of the call in progress; the
                    \* object of a get_slot is NULL
          got       \* the object that the latest get_slot returned

vars == <<slots, call, got>>

NoCall == <<NULL, NULL>>

Init == /\ slots = [k \in Keys |-> NULL]
        /\ call = NoCall
        /\ got = NULL

Begin == /\ call = NoCall
         /\ call' \in Keys \X (Values \cup {NULL})
         /\ got' = NULL
         /\ UNCHANGED slots

SetSlot == /\ call[2] # NULL
           /\ slots' = [slots EXCEPT ![call[1]] = call[2]]
           /\ call' = NoCall
           /\ UNCHANGED got

GetSlot == /\ call # NoCall
           /\ call[2] = NULL
           /\ got' = slots[call[1]]
           /\ call' = NoCall
           /\ UNCHANGED slots

Next == Begin \/ SetSlot \/ GetSlot

Spec == Init /\ [][Next]_vars
=============================================================================
