------------------------------ MODULE Threads ------------------------------
(***************************************************************************)
(* The threads of the virtual machine (thread.c) and its mutexes           *)
(* (mutex.c).                                                              *)
(*                                                                         *)
(* A program sees a thread as an object: a clone of the object `Thread'    *)
(* whose data is a thread handle and whose slot `running' tells join       *)
(* whether there is something to wait for.  Slots are inherited, and       *)
(* nothing but the slot's own lock protects `running' and the handle: the  *)
(* thread that was started sets the slot, the thread that started it       *)
(* stores the handle, and any thread may join, start the object again or   *)
(* clone it.                                                               *)
(*                                                                         *)
(* What a thread executes is left open: between two of its steps here it   *)
(* evaluates messages of its own, on a callstack of its own (Eval).        *)
(***************************************************************************)
EXTENDS Naturals

CONSTANTS
  Main,        \* the thread that executes main
  Tids,        \* handles of the threads pthread_create can make
  Objs,        \* the object `Thread' and the clones there can be
  Proto,       \* the object `Thread'
  Mutexes,     \* clones of the object `Mutex'
  NULL,        \* no handle, no object
  MaxStarts    \* bound: how often one object is started

ASSUME MainIsNoTid == Main \notin Tids
ASSUME ProtoIsObject == Proto \in Objs
ASSUME NullIsNothing == NULL \notin Tids \cup Objs \cup {Main}
ASSUME MaxStartsIsNat == MaxStarts \in Nat

VARIABLES
  process,   \* "running", "exited" by main, "aborted" by an exception nobody
             \* caught, or "crashed" over a null pointer
  stage,     \* how far each thread is
  task,      \* the object each thread was started for
  objects,   \* the objects that exist
  proto,     \* their slot `proto' ("Thread"'s own chain has no slot `running')
  running,   \* their slot `running'
  handle,    \* data->thread
  call,      \* the call of join a thread is in
  holder,    \* who locked each mutex
  started    \* history: how often each object was started

vars == <<process, stage, task, objects, proto, running, handle, call, holder, started>>

All == Tids \cup {Main}

Stages == {"unborn", "created", "body", "ending", "exited", "joined"}

NoCall == [op |-> "none", obj |-> NULL, at |-> NULL]

Calls == [op : {"none", "look", "handle", "wait"}, obj : Objs \cup {NULL},
          at : Objs \cup Tids \cup {NULL}]

\* Thread t can execute the next message of its program.
Idle(t) == /\ process = "running"
           /\ stage[t] = "body"
           /\ call[t].op = "none"

InCall(t, op) == process = "running" /\ stage[t] = "body" /\ call[t].op = op

Enter(t, op, obj, at) == call' = [call EXCEPT ![t] = [op |-> op, obj |-> obj, at |-> at]]

Leave(t) == call' = [call EXCEPT ![t] = NoCall]

-----------------------------------------------------------------------------
(***************************************************************************)
(* Objects.  A clone gets data of its own, with a null handle, and         *)
(* inherits the slot `running'.                                            *)
(***************************************************************************)
Clone(t, p) ==
  /\ Idle(t)
  /\ p \in objects
  /\ \E o \in Objs \ objects :
       /\ objects' = objects \cup {o}
       /\ proto' = [proto EXCEPT ![o] = p]
  /\ UNCHANGED <<process, stage, task, running, handle, call, holder, started>>

-----------------------------------------------------------------------------
(***************************************************************************)
(* start, and the thread it makes.                                         *)
(***************************************************************************)
\* Mutants: pthread_create is given the object that called start; its first
\* argument is not &data->thread.
StartWithCaller(t, o) ==
  /\ Idle(t)
  /\ o \in objects
  /\ started[o] < MaxStarts
  /\ \E h \in Tids :
       /\ stage[h] \in {"unborn", "joined"}
       /\ stage' = [stage EXCEPT ![h] = "created"]
       /\ task' = [task EXCEPT ![h] = t]
       /\ handle' = [handle EXCEPT ![o] = h]
  /\ started' = [started EXCEPT ![o] = @ + 1]
  /\ UNCHANGED <<process, objects, proto, running, call, holder>>

StartForgetsHandle(t, o) ==
  /\ Idle(t)
  /\ o \in objects
  /\ started[o] < MaxStarts
  /\ \E h \in Tids :
       /\ stage[h] \in {"unborn", "joined"}
       /\ stage' = [stage EXCEPT ![h] = "created"]
       /\ task' = [task EXCEPT ![h] = o]
  /\ started' = [started EXCEPT ![o] = @ + 1]
  /\ UNCHANGED <<process, objects, proto, running, handle, call, holder>>

\* The handle of a thread that was joined may be given out again.
Start(t, o) ==
  /\ Idle(t)
  /\ o \in objects
  /\ started[o] < MaxStarts
  /\ \E h \in Tids :
       /\ stage[h] \in {"unborn", "joined"}
       /\ stage' = [stage EXCEPT ![h] = "created"]
       /\ task' = [task EXCEPT ![h] = o]
       /\ handle' = [handle EXCEPT ![o] = h]
  /\ started' = [started EXCEPT ![o] = @ + 1]
  /\ UNCHANGED <<process, objects, proto, running, call, holder>>

\* Mutants: `running' is not reset; the thread is created detached.
FinishStillRunning(t) ==
  /\ t # Main
  /\ Idle(t)
  /\ stage' = [stage EXCEPT ![t] = "ending"]
  /\ UNCHANGED <<process, task, objects, proto, running, handle, call, holder, started>>

ThreadExitDetached(t) ==
  /\ process = "running"
  /\ stage[t] = "ending"
  /\ stage' = [stage EXCEPT ![t] = "joined"]
  /\ UNCHANGED <<process, task, objects, proto, running, handle, call, holder, started>>

\* _sk_thread_task before and after it evaluates the object's message.
Begin(t) ==
  /\ process = "running"
  /\ stage[t] = "created"
  /\ running' = [running EXCEPT ![task[t]] = "TRUE"]
  /\ stage' = [stage EXCEPT ![t] = "body"]
  /\ UNCHANGED <<process, task, objects, proto, handle, call, holder, started>>

Finish(t) ==
  /\ t # Main
  /\ Idle(t)
  /\ running' = [running EXCEPT ![task[t]] = "FALSE"]
  /\ stage' = [stage EXCEPT ![t] = "ending"]
  /\ UNCHANGED <<process, task, objects, proto, handle, call, holder, started>>

ThreadExit(t) ==
  /\ process = "running"
  /\ stage[t] = "ending"
  /\ stage' = [stage EXCEPT ![t] = "exited"]
  /\ UNCHANGED <<process, task, objects, proto, running, handle, call, holder, started>>

-----------------------------------------------------------------------------
(***************************************************************************)
(* join: look for `running' along the proto chain, one locked read at a    *)
(* time, then read the handle, then wait.                                  *)
(***************************************************************************)
Join(t, o) ==
  /\ Idle(t)
  /\ o \in objects
  /\ Enter(t, "look", o, o)
  /\ UNCHANGED <<process, stage, task, objects, proto, running, handle, holder, started>>

\* Mutant: no slot `running' is taken for FALSE.
RunningIfSet(p) == IF p = NULL THEN "FALSE" ELSE running[p]

\* What join sees at object p of the chain; sk_vm_skelde_to_bool makes TRUE of
\* the NULL behind its end.
RunningAt(p) == IF p = NULL THEN "TRUE" ELSE running[p]

Look(t) ==
  /\ InCall(t, "look")
  /\ LET obj == call[t].obj
         at == call[t].at
     IN  \/ RunningAt(at) = "TRUE" /\ Enter(t, "handle", obj, NULL)
         \/ RunningAt(at) = "unset" /\ Enter(t, "look", obj, proto[at])
         \/ RunningAt(at) = "FALSE" /\ Leave(t)
  /\ UNCHANGED <<process, stage, task, objects, proto, running, handle, holder, started>>

WaitsFor(t, h) == call[t].op = "wait" /\ call[t].at = h

Waited(h) == \E t \in All : WaitsFor(t, h)

\* pthread_join gives up (its result is ignored) when t would wait for itself
\* or for a thread that waits for t, or when another thread waits already.
Refused(t, h) == h = t \/ WaitsFor(h, t) \/ Waited(h)

\* A handle whose thread is gone, or that was never set, may crash it.
Invalid(h) == IF h = NULL THEN TRUE ELSE stage[h] = "joined"

JoinHandle(t) ==
  /\ InCall(t, "handle")
  /\ LET h == handle[call[t].obj] IN
     \/ /\ Invalid(h)
        /\ process' = "crashed"
        /\ UNCHANGED call
     \/ /\ h # NULL /\ (Invalid(h) \/ Refused(t, h))
        /\ Leave(t)
        /\ UNCHANGED process
     \/ /\ ~Invalid(h) /\ ~Refused(t, h)
        /\ Enter(t, "wait", call[t].obj, h)
        /\ UNCHANGED process
  /\ UNCHANGED <<stage, task, objects, proto, running, handle, holder, started>>

JoinDone(t) ==
  /\ InCall(t, "wait")
  /\ stage[call[t].at] = "exited"
  /\ stage' = [stage EXCEPT ![call[t].at] = "joined"]
  /\ Leave(t)
  /\ UNCHANGED <<process, task, objects, proto, running, handle, holder, started>>

-----------------------------------------------------------------------------
(***************************************************************************)
(* Mutexes: a thread that locks a mutex it holds waits for ever, and       *)
(* unlock asks nobody who holds it.                                        *)
(***************************************************************************)
Lock(t, m) ==
  /\ Idle(t)
  /\ holder[m] = NULL
  /\ holder' = [holder EXCEPT ![m] = t]
  /\ UNCHANGED <<process, stage, task, objects, proto, running, handle, call, started>>

Unlock(t, m) ==
  /\ Idle(t)
  /\ holder' = [holder EXCEPT ![m] = NULL]
  /\ UNCHANGED <<process, stage, task, objects, proto, running, handle, call, started>>

-----------------------------------------------------------------------------
(***************************************************************************)
(* The end of the process.                                                 *)
(***************************************************************************)
\* main returns and waits for no thread.
Exit ==
  /\ Idle(Main)
  /\ process' = "exited"
  /\ UNCHANGED <<stage, task, objects, proto, running, handle, call, holder, started>>

\* An exception leaves the program of any thread.
Uncaught(t) ==
  /\ Idle(t)
  /\ process' = "aborted"
  /\ UNCHANGED <<stage, task, objects, proto, running, handle, call, holder, started>>

\* A thread was started for an object that has no slot `message', or the
\* object `Mutex' itself, which has no pthread mutex, is locked or unlocked.
NullPointer(t) ==
  /\ Idle(t)
  /\ process' = "crashed"
  /\ UNCHANGED <<stage, task, objects, proto, running, handle, call, holder, started>>

-----------------------------------------------------------------------------
Init == /\ process = "running"
        /\ stage = [t \in All |-> IF t = Main THEN "body" ELSE "unborn"]
        /\ task = [t \in All |-> NULL]
        /\ objects = {Proto}
        /\ proto = [o \in Objs |-> NULL]
        /\ running = [o \in Objs |-> "unset"]
        /\ handle = [o \in Objs |-> NULL]
        /\ call = [t \in All |-> NoCall]
        /\ holder = [m \in Mutexes |-> NULL]
        /\ started = [o \in Objs |-> 0]

Task(t) == Begin(t) \/ Finish(t) \/ ThreadExit(t)

Joining(t) == Look(t) \/ JoinHandle(t) \/ JoinDone(t)

Program(t) == \/ \E o \in Objs : Clone(t, o) \/ Start(t, o) \/ Join(t, o)
              \/ \E m \in Mutexes : Lock(t, m) \/ Unlock(t, m)
              \/ Uncaught(t)
              \/ NullPointer(t)

Next == Exit \/ \E t \in All : Task(t) \/ Joining(t) \/ Program(t)

Spec == Init /\ [][Next]_vars

-----------------------------------------------------------------------------
(***************************************************************************)
(* Properties.                                                             *)
(***************************************************************************)

(* Every variable has its C type.                                          *)
TypeOK == /\ process \in {"running", "exited", "aborted", "crashed"}
          /\ stage \in [All -> Stages]
          /\ task \in [All -> Objs \cup {NULL}]
          /\ objects \in SUBSET Objs
          /\ proto \in [Objs -> Objs \cup {NULL}]
          /\ running \in [Objs -> {"unset", "TRUE", "FALSE"}]
          /\ handle \in [Objs -> Tids \cup {NULL}]
          /\ call \in [All -> Calls]
          /\ holder \in [Mutexes -> All \cup {NULL}]
          /\ started \in [Objs -> Nat]

\* The thread that object o was last started as has not finished its message.
Pending(o) == /\ handle[o] # NULL
              /\ task[handle[o]] = o
              /\ stage[handle[o]] \in {"created", "body"}

(* The slot `running' follows the thread of an object that was started     *)
(* once: not set until it begins, TRUE as long as its message is           *)
(* evaluated, FALSE from then on.                                          *)
RunningSlot ==
  \A o \in Objs :
    /\ started[o] = 0 => running[o] = "unset" /\ handle[o] = NULL
    /\ started[o] = 1 =>
         /\ handle[o] # NULL
         /\ running[o] = "unset" <=> (Pending(o) /\ stage[handle[o]] = "created")
         /\ running[o] = "TRUE" <=> (Pending(o) /\ stage[handle[o]] = "body")

\* p is on the proto chain of o, above o: in every set of objects that has
\* the proto of o and the protos of its members.
Inherits(o, p) ==
  /\ proto[o] # NULL
  /\ \A S \in SUBSET Objs :
       proto[o] \in S /\ (\A q \in S : proto[q] # NULL => proto[q] \in S) => p \in S

Returns(t) == call[t].op # "none" /\ call'[t].op = "none"

(* When join returns, the message the object was started with has been     *)
(* evaluated, but for five cases: the object was started again (`running'  *)
(* still has the FALSE of the run before), it inherits the `running' of an *)
(* object that was started, a thread joins itself, it joins a thread that  *)
(* is joining it, or another thread is in pthread_join for it already.     *)
JoinWaits ==
  [][\A t \in All : Returns(t) /\ Pending(call[t].obj) =>
       LET o == call[t].obj
           h == handle[o]
       IN  \/ started[o] > 1
           \/ \E p \in Objs : Inherits(o, p) /\ started[p] > 0
           \/ h = t
           \/ WaitsFor(h, t)
           \/ Waited(h)]_vars

(* No two threads are in pthread_join for the same thread, and a thread    *)
(* that somebody waits for stays what it is until the join returns: its    *)
(* handle is not given out again.                                          *)
WaitsAreValid ==
  \A t \in All : call[t].op = "wait" =>
    /\ stage[t] = "body"
    /\ stage[call[t].at] \in {"created", "body", "ending", "exited"}
    /\ \A u \in All : WaitsFor(u, call[t].at) => u = t
=============================================================================
