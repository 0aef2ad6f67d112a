-------------------------------- MODULE Lists --------------------------------
(***************************************************************************)
(* The methods of lists (list.c) on their vectors (kvec.h), called by      *)
(* threads that share the lists.  Nothing in list.c locks: as in           *)
(* thread-test.ava, a program puts each call between lock and unlock of a  *)
(* mutex.  A step is one access of kv_push to the shared vector; get_at    *)
(* and set_at, which read it once more after their check, are one step.    *)
(* The arguments are evaluated before the vector is looked at.             *)
(***************************************************************************)
EXTENDS KVec

CONSTANTS Threads, Items,
          ListObjs,    \* `List' and clones of it
          ListProto,   \* `List', which has no data
          Indices,     \* the ints that programs use as an index
          SizeMax,     \* the size_t's are 0..SizeMax
          MaxItems     \* bound of the model

ASSUME NullIsNothing == NULL \notin Threads \cup ListObjs \cup Items
ASSUME IndicesAreInts == Indices \subseteq Int
ASSUME ProtoIsList == ListProto \in ListObjs
ASSUME SizeMaxIsLarge == /\ SizeMax \in Nat /\ MaxItems \in Nat
                         /\ MaxItems < SizeMax
                         /\ \A i \in Indices : i < SizeMax /\ MaxItems - i < SizeMax

VARIABLES vec,      \* the data of each list
          holder,   \* the thread that has locked the mutex
          pc,       \* where each thread is in its call
          call, outcome, crashed,   \* as in ListValues
          reg       \* the n at which a thread's kv_push stores its item

vars == <<vec, holder, pc, call, outcome, crashed, reg>>

NoCall == [method |-> "none", list |-> NULL, index |-> 0, item |-> NULL]

Calls == [method : {"append"}, list : ListObjs, index : {0}, item : Items]
         \cup [method : {"get_at"}, list : ListObjs, index : Indices, item : {NULL}]
         \cup [method : {"set_at"}, list : ListObjs, index : Indices, item : Items]

Vec(t) == vec[call[t].list]
At(t, where) == ~crashed /\ pc[t] = where
GoTo(t, where) == pc' = [pc EXCEPT ![t] = where]
Change(t, v) == vec' = [vec EXCEPT ![call[t].list] = v]
Crash == crashed' = TRUE /\ UNCHANGED <<vec, holder, pc, call, outcome, reg>>

\* An int that is compared with a size_t.
AsSize(i) == IF i < 0 THEN SizeMax + 1 + i ELSE i

Init == /\ vec = [l \in ListObjs |-> KvInit]
        /\ holder = NULL
        /\ pc = [t \in Threads |-> "idle"]
        /\ call = [t \in Threads |-> NoCall]
        /\ outcome = [t \in Threads |-> NULL]
        /\ crashed = FALSE
        /\ reg = [t \in Threads |-> 0]

-----------------------------------------------------------------------------
Begin(t) == /\ At(t, "idle")
            /\ \E c \in Calls : call' = [call EXCEPT ![t] = c]
            /\ outcome' = [outcome EXCEPT ![t] = NULL]
            /\ GoTo(t, "lock")
            /\ UNCHANGED <<vec, holder, crashed, reg>>

\* Mutant: the program does not lock.
LockNothing(t) == /\ At(t, "lock")
                  /\ GoTo(t, "method")
                  /\ UNCHANGED <<vec, holder, call, outcome, crashed, reg>>

Lock(t) == /\ At(t, "lock")
           /\ holder = NULL
           /\ call[t].method = "append" => Vec(t).n < MaxItems
           /\ holder' = t
           /\ GoTo(t, "method")
           /\ UNCHANGED <<vec, call, outcome, crashed, reg>>

Unlock(t) == /\ At(t, "unlock")
             /\ holder' = NULL
             /\ call' = [call EXCEPT ![t] = NoCall]
             /\ GoTo(t, "idle")
             /\ UNCHANGED <<vec, outcome, crashed, reg>>

Ends(t, how) == /\ outcome' = [outcome EXCEPT ![t] = how]
                /\ GoTo(t, "unlock")
                /\ UNCHANGED <<holder, call, crashed>>

\* sk_list_get_data(List) is a null pointer.
CrashProto(t) == /\ At(t, "method")
                 /\ call[t].list = ListProto
                 /\ Crash

Called(t, method) == /\ At(t, "method")
                     /\ call[t].method = method
                     /\ call[t].list # ListProto

-----------------------------------------------------------------------------
(***************************************************************************)
(* append: kv_push.                                                        *)
(***************************************************************************)
PushTest(t) == /\ Called(t, "append")
               /\ GoTo(t, IF Vec(t).n = Vec(t).m THEN "grow" ELSE "store")
               /\ UNCHANGED <<vec, holder, call, outcome, crashed, reg>>

PushGrow(t) == /\ At(t, "grow")
               /\ Change(t, KvResize(Vec(t), IF Vec(t).m = 0 THEN 2 ELSE 2 * Vec(t).m))
               /\ GoTo(t, "store")
               /\ UNCHANGED <<holder, call, outcome, crashed, reg>>

PushStore(t) == /\ At(t, "store")
                /\ IF Vec(t).n >= Vec(t).m
                   THEN Crash
                   ELSE /\ Change(t, KvWrite(Vec(t), Vec(t).n, call[t].item))
                        /\ reg' = [reg EXCEPT ![t] = Vec(t).n]
                        /\ GoTo(t, "count")
                        /\ UNCHANGED <<holder, call, outcome, crashed>>

PushCount(t) == /\ At(t, "count")
                /\ Change(t, [Vec(t) EXCEPT !.n = reg[t] + 1])
                /\ reg' = [reg EXCEPT ![t] = 0]
                /\ Ends(t, call[t].list)

-----------------------------------------------------------------------------
\* Mutant: the index is compared as an int.
GetRefusesSigned(t) == call[t].index > Vec(t).n - 1

\* index > kv_size(*list) - 1
GetRefuses(t) == AsSize(call[t].index) > AsSize(Vec(t).n - 1)

\* index > kv_size(*list)
SetRefuses(t) == AsSize(call[t].index) > Vec(t).n

\* A cell outside the block.
Outside(t) == call[t].index \notin 0..Vec(t).m - 1

GetAt(t) == /\ Called(t, "get_at")
            /\ ~GetRefuses(t)
            /\ IF Outside(t)
               THEN Crash
               ELSE Ends(t, KvA(Vec(t), call[t].index)) /\ UNCHANGED <<vec, reg>>

SetAt(t) == /\ Called(t, "set_at")
            /\ ~SetRefuses(t)
            /\ IF Outside(t)
               THEN Crash
               ELSE /\ Change(t, KvWrite(Vec(t), call[t].index, call[t].item))
                    /\ Ends(t, call[t].list)
                    /\ UNCHANGED reg

\* The handler that catches the exception unlocks.
IndexError(t) == /\ \/ Called(t, "get_at") /\ GetRefuses(t)
                    \/ Called(t, "set_at") /\ SetRefuses(t)
                 /\ Ends(t, "IndexError")
                 /\ UNCHANGED <<vec, reg>>

Step(t) == \/ Begin(t) \/ Lock(t) \/ Unlock(t) \/ CrashProto(t)
           \/ PushTest(t) \/ PushGrow(t) \/ PushStore(t) \/ PushCount(t)
           \/ GetAt(t) \/ SetAt(t) \/ IndexError(t)

Next == \E t \in Threads : Step(t)

Spec == Init /\ [][Next]_vars

-----------------------------------------------------------------------------
(***************************************************************************)
(* Properties.                                                             *)
(***************************************************************************)

Values == INSTANCE ListValues WITH
            items <- [l \in ListObjs |-> Contents(vec[l])],
            call <- [t \in Threads |-> IF pc[t] = "unlock" THEN NoCall ELSE call[t]]

(* Under the mutex lists are sequences: an append of one thread loses no   *)
(* item of another, and an index outside the list raises or crashes just   *)
(* where ListValues allows it, however the sizes of block and list differ. *)
ListsAreSequences == Values!Spec
=============================================================================
