----------------------------- MODULE ListValues -----------------------------
(***************************************************************************)
(* What the lists of a program are: sequences.  append adds an item,       *)
(* get_at and set_at reach the items and raise an IndexError for any other *)
(* index, with three exceptions: every method of the prototype `List'      *)
(* itself crashes the process, get_at may crash it when the list is empty, *)
(* and set_at with the index one past the last item may crash it or do     *)
(* nothing.                                                                *)
(***************************************************************************)
EXTENDS Integers, Sequences

CONSTANTS Threads, ListObjs, ListProto, Items, Indices, NULL

VARIABLES items,    \* the items of each list
          call,     \* what each thread is calling: method, list, index, item
          outcome,  \* how its latest call ended
          crashed

vars == <<items, call, outcome, crashed>>

NoCall == [method |-> "none", list |-> NULL, index |-> 0, item |-> NULL]

Calls == [method : {"append"}, list : ListObjs, index : {0}, item : Items]
         \cup [method : {"get_at"}, list : ListObjs, index : Indices, item : {NULL}]
         \cup [method : {"set_at"}, list : ListObjs, index : Indices, item : Items]

Init == /\ items = [l \in ListObjs |-> <<>>]
        /\ call = [t \in Threads |-> NoCall]
        /\ outcome = [t \in Threads |-> NULL]
        /\ crashed = FALSE

Begin(t) == /\ call[t] = NoCall
            /\ \E c \in Calls : call' = [call EXCEPT ![t] = c]
            /\ outcome' = [outcome EXCEPT ![t] = NULL]
            /\ UNCHANGED <<items, crashed>>

Ends(t, how) == /\ call[t].list # ListProto
                /\ call' = [call EXCEPT ![t] = NoCall]
                /\ outcome' = [outcome EXCEPT ![t] = how]
                /\ UNCHANGED crashed

Crash(t) == /\ crashed' = TRUE
            /\ UNCHANGED <<items, call, outcome>>

AppendItem(t) == /\ call[t].method = "append"
              /\ items' = [items EXCEPT ![call[t].list] = Append(@, call[t].item)]
              /\ Ends(t, call[t].list)

Within(t) == call[t].index \in 0..Len(items[call[t].list]) - 1

GetAt(t) == /\ call[t].method = "get_at"
            /\ Within(t)
            /\ Ends(t, items[call[t].list][call[t].index + 1])
            /\ UNCHANGED items

SetAt(t) == /\ call[t].method = "set_at"
            /\ Within(t)
            /\ items' = [items EXCEPT ![call[t].list][call[t].index + 1] = call[t].item]
            /\ Ends(t, call[t].list)

IndexError(t) == /\ call[t].method \in {"get_at", "set_at"}
                 /\ ~Within(t)
                 /\ Ends(t, "IndexError")
                 /\ UNCHANGED items

PastTheLast(t) == call[t].method = "set_at" /\ call[t].index = Len(items[call[t].list])

SetNothing(t) == PastTheLast(t) /\ Ends(t, call[t].list) /\ UNCHANGED items

OutOfBounds(t) == /\ \/ call[t].list = ListProto
                     \/ PastTheLast(t)
                     \/ call[t].method = "get_at" /\ items[call[t].list] = <<>>
                  /\ Crash(t)

Next == /\ ~crashed
        /\ \E t \in Threads : \/ Begin(t) \/ AppendItem(t) \/ GetAt(t) \/ SetAt(t)
                              \/ IndexError(t) \/ SetNothing(t) \/ OutOfBounds(t)

Spec == Init /\ [][Next]_vars
=============================================================================
