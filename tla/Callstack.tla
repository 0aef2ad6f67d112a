----------------------------- MODULE Callstack -----------------------------
(***************************************************************************)
(* One thread's callstack as it is in memory: vectors on the heap (vm.c,   *)
(* exc.h, message.c).  callstack_key points to the vector in use; a jump   *)
(* context points to the copy that sk_vm_push_jmp_context made; when a try *)
(* ends its copy becomes the vector in use; and the loop of                *)
(* sk_message_dispatch_simple keeps a pointer of its own to the vector     *)
(* that was in use when it began, across every call it makes.              *)
(***************************************************************************)
EXTENDS KVec

CONSTANTS Objects, Lobby,
          Addrs, MaxDepth, MaxFrames    \* bounds of the model

ASSUME NullIsNoObject == NULL \notin Objects /\ Lobby \in Objects
ASSUME SomeAddr == Addrs # {}

VARIABLES heap,      \* the vectors, SkObjectList
          current,   \* what callstack_key of the thread points to
          frames     \* the C calls, as in ContextStack; `at' is the vector that a
                     \* "loop" or a "try" points to and i the C loop variable

vars == <<heap, current, frames>>

Frame(kind, at, i) == [kind |-> kind, at |-> at, i |-> i]

Active == frames[Len(frames)]
Is(kind) == frames # <<>> /\ Active.kind = kind
Caller == SubSeq(frames, 1, Len(frames) - 1)
Enters == Len(frames) < MaxFrames

\* The vectors that somebody can still reach; the collector has the others.
Used(cur, fs) == {cur} \cup {fs[k].at : k \in {k \in DOMAIN fs : fs[k].kind # "run"}}

Collect(h, cur, fs) == [p \in Addrs |-> IF p \in Used(cur, fs) THEN h[p] ELSE KvInit]

Free == Addrs \ Used(current, frames)
Fresh == CHOOSE p \in Free : TRUE

\* A step that leaves the vectors h, uses cur and runs fs.
Step(h, cur, fs) == /\ current' = cur
                    /\ frames' = fs
                    /\ heap' = Collect(h, cur, fs)

With(v) == [heap EXCEPT ![current] = v]

-----------------------------------------------------------------------------
\* sk_vm_setup_thread
Init == LET p == CHOOSE p \in Addrs : TRUE IN
        /\ current = p
        /\ frames = <<>>
        /\ heap = [q \in Addrs |-> IF q = p THEN KvPush(KvInit, Lobby) ELSE KvInit]

\* sk_vm_callstack_push on entry of an avalanche, a send or a method.
Enter == /\ ~Is("run") /\ Enters
         /\ heap[current].n < MaxDepth
         /\ \E x \in Objects :
              Step(With(KvPush(heap[current], x)), current, Append(frames, Frame("run", current, 0)))

\* sk_vm_callstack_pop(vm) = NULL
Leave == /\ Is("run")
         /\ Step(With(KvPop(heap[current], NULL)), current, Caller)

\* start_dispatch: the top is popped and the result, or for ";" the element
\* below, is pushed.
Replace == /\ Is("run")
           /\ LET v == KvPop(heap[current], NULL) IN
              \E x \in Objects \cup {KvTop(v)} : Step(With(KvPush(v, x)), current, frames)

\* The loop of sk_message_dispatch_simple.
Ask == /\ Is("run") /\ Enters
       /\ Step(heap, current, Append(frames, Frame("loop", current, heap[current].n - 1)))

NoAnswer == /\ Is("loop")
            /\ Active.i >= 0
            /\ Step(heap, current, Append(Caller, [Active EXCEPT !.i = @ - 1]))

Answer == Is("loop") /\ Step(heap, current, Caller)

-----------------------------------------------------------------------------
\* Mutant: the jump context shares the vector in use.
PushJmpContextShared == Step(heap, current, Append(frames, Frame("try", current, 0)))

\* sk_vm_push_jmp_context
PushJmpContext ==
  Step([heap EXCEPT ![Fresh] = KvCopy(heap[current])], current, Append(frames, Frame("try", Fresh, 0)))

Try == Is("loop") /\ Enters /\ Free # {} /\ PushJmpContext

EndTry == Is("try") /\ Step(heap, Active.at, Caller)

\* The innermost frame of fs that called setjmp.
IsHead(fs, k) == /\ fs[k].kind = "try"
                 /\ \A j \in k + 1..Len(fs) : fs[j].kind # "try"

Jump == \E k \in DOMAIN frames :
          IsHead(frames, k) /\ Step(heap, current, SubSeq(frames, 1, k))

Pass == /\ Is("try")
        /\ \E k \in DOMAIN Caller :
             IsHead(Caller, k) /\ Step(heap, Active.at, SubSeq(frames, 1, k))

Next == \/ Enter \/ Leave \/ Replace
        \/ Ask \/ NoAnswer \/ Answer
        \/ Try \/ EndTry \/ Jump \/ Pass

Spec == Init /\ [][Next]_vars

-----------------------------------------------------------------------------
(***************************************************************************)
(* Properties.                                                             *)
(***************************************************************************)

(* No vector that a loop still walks or that a thread or a try uses has    *)
(* lost an element to the NULL that a pop leaves behind, and none is empty *)
(* when its top is read, although jumps leave pushes without their pops    *)
(* and one vector takes the place of another in the middle of loops.       *)
NoPoppedElementRead ==
  /\ heap[current].n > 0
  /\ \A p \in {current} \cup {frames[k].at : k \in {k \in DOMAIN frames : frames[k].kind = "try"}} :
       \A i \in 1..heap[p].n : heap[p].a[i] # NULL
  /\ \A k \in DOMAIN frames :
       frames[k].kind = "loop" => \A i \in 0..frames[k].i : KvA(heap[frames[k].at], i) # NULL

\* What a call will see of the stack.
Seen(h, f) == CASE f.kind = "run" -> <<>>
                [] f.kind = "loop" -> SubSeq(h[f.at].a, 1, f.i + 1)
                [] f.kind = "try" -> Contents(h[f.at])

View(h, fs) == [k \in DOMAIN fs |-> [kind |-> fs[k].kind, seen |-> Seen(h, fs[k])]]

Values == INSTANCE ContextStack WITH
            stack <- Contents(heap[current]),
            frames <- View(heap, frames)

(* The vectors and the pointers to them behave as a stack that is a value: *)
(* no push or pop reaches a copy that a try will give back, and a loop     *)
(* goes on over the objects it began with, after a try has replaced the    *)
(* vector under it.                                                        *)
ImplementsContextStack == Values!Spec
=============================================================================
