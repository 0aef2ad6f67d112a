--------------------------- MODULE ThreadsProofs ---------------------------
(***************************************************************************)
(* Proofs about Threads for any number of threads, objects and mutexes,    *)
(* which use nothing of SharedCounter: the slot `running' and pthread_join *)
(* stay consistent, and join returns early in no case but those JoinWaits  *)
(* names.  Then thread-test.ava for any number of threads and of           *)
(* repetitions: no increment is lost, and the slot is printed after the    *)
(* last of them.                                                           *)
(***************************************************************************)
EXTENDS SharedCounter, WellFoundedInduction, TLAPS

(* Every thread but Main was started for an object, and the only thread of *)
(* an object that was started once is the one in its handle.               *)
Tasks == /\ stage[Main] = "body"
         /\ \A t \in Tids : stage[t] # "unborn" => task[t] \in Objs /\ started[task[t]] > 0
         /\ \A t \in Tids : stage[t] \in {"created", "body"} /\ started[task[t]] = 1
                              => handle[task[t]] = t
         /\ \A o \in Objs : handle[o] # NULL => stage[handle[o]] # "unborn"

(* The proto chains are among the objects that exist.                      *)
Protos == \A o \in Objs : proto[o] # NULL => o \in objects /\ proto[o] \in objects

(* A join looks at its object and at those it inherits from, and waits for *)
(* the thread in the handle unless the object was started again.           *)
Lookups == \A t \in All : call[t].op # "none" =>
             LET o == call[t].obj
                 x == call[t].at
             IN  /\ o \in objects
                 /\ call[t].op = "look" => \/ x = NULL \/ x = o
                                           \/ x \in Objs /\ Inherits(o, x)
                 /\ call[t].op = "wait" => /\ x \in Tids
                                           /\ handle[o] = x \/ started[o] > 1

TInv == TypeOK /\ Tasks /\ RunningSlot /\ Protos /\ Lookups /\ WaitsAreValid

-----------------------------------------------------------------------------
(* What does not change what a conjunct is about keeps it.                 *)

LEMMA TasksFrame == ASSUME Tasks, UNCHANGED <<stage, task, handle, started>> PROVE Tasks'
BY DEF Tasks

LEMMA RunningFrame ==
  ASSUME RunningSlot, UNCHANGED <<stage, task, running, handle, started>>
  PROVE  RunningSlot'
BY DEF RunningSlot, Pending

LEMMA ProtosFrame == ASSUME Protos, UNCHANGED <<proto, objects>> PROVE Protos'
BY DEF Protos

LEMMA InheritsFrame ==
  ASSUME UNCHANGED proto, NEW o, NEW p
  PROVE  Inherits(o, p) <=> Inherits(o, p)'
BY DEF Inherits

LEMMA LookupsFrame ==
  ASSUME Lookups, UNCHANGED <<objects, proto, handle, call, started>>
  PROVE  Lookups'
BY InheritsFrame DEF Lookups

LEMMA WaitsFrame == ASSUME WaitsAreValid, UNCHANGED <<stage, call>> PROVE WaitsAreValid'
BY DEF WaitsAreValid, WaitsFor

LEMMA SetFacts ==
  /\ Tids \subseteq All /\ Main \in All /\ Main \notin Tids
  /\ NULL \notin Tids /\ NULL \notin Objs /\ NULL # Main
BY MainIsNoTid, NullIsNothing DEF All

(* The end of the process changes nothing else.                            *)
LEMMA OverKeeps ==
  ASSUME TInv, process' \in {"running", "exited", "aborted", "crashed"},
         UNCHANGED <<stage, task, objects, proto, running, handle, call, started>>,
         holder' \in [Mutexes -> All \cup {NULL}]
  PROVE  TInv'
<1>1. TypeOK'
  BY DEF TInv, TypeOK
<1>2. QED
  BY <1>1, TasksFrame, RunningFrame, ProtosFrame, LookupsFrame, WaitsFrame DEF TInv

-----------------------------------------------------------------------------
(* A new clone is on nobody's chain.                                       *)
LEMMA InheritsCloned ==
  ASSUME TypeOK, Protos, NEW n \in Objs \ objects, NEW q \in objects,
         proto' = [proto EXCEPT ![n] = q],
         NEW o \in objects, NEW p, Inherits(o, p)
  PROVE  Inherits(o, p)'
<1>1. o # n /\ proto'[o] = proto[o] /\ proto[o] # NULL
  BY DEF TypeOK, Inherits
<1>2. proto[n] = NULL
  BY DEF TypeOK, Protos
<1>3. SUFFICES ASSUME NEW S \in SUBSET Objs, proto'[o] \in S,
                      \A r \in S : proto'[r] # NULL => proto'[r] \in S
               PROVE  p \in S
  BY <1>1 DEF Inherits
<1>4. \A r \in S : proto[r] # NULL => proto[r] \in S
  BY <1>2, <1>3 DEF TypeOK
<1>5. QED
  BY <1>1, <1>3, <1>4 DEF Inherits

LEMMA CloneKeeps ==
  ASSUME TInv, NEW t \in All, NEW p \in Objs, Clone(t, p)
  PROVE  TInv'
<1>1. PICK o \in Objs \ objects : objects' = objects \cup {o} /\ proto' = [proto EXCEPT ![o] = p]
  BY DEF Clone
<1>2. /\ p \in objects
      /\ UNCHANGED <<process, stage, task, running, handle, call, holder, started>>
  BY DEF Clone
<1>3. TypeOK'
  BY <1>1, <1>2 DEF TInv, TypeOK
<1>4. Tasks' /\ RunningSlot' /\ WaitsAreValid'
  BY <1>2, TasksFrame, RunningFrame, WaitsFrame DEF TInv
<1>5. Protos'
  BY <1>1, <1>2 DEF TInv, TypeOK, Protos
<1>6. \A q \in objects, x \in Objs : Inherits(q, x) => Inherits(q, x)'
  BY <1>1, <1>2, InheritsCloned DEF TInv
<1>7. Lookups'
  BY <1>1, <1>2, <1>6 DEF TInv, Lookups
<1>8. QED
  BY <1>3, <1>4, <1>5, <1>7 DEF TInv

LEMMA StartKeeps ==
  ASSUME TInv, NEW t \in All, NEW o \in Objs, Start(t, o)
  PROVE  TInv'
<1>1. PICK h \in Tids : /\ stage[h] \in {"unborn", "joined"}
                        /\ stage' = [stage EXCEPT ![h] = "created"]
                        /\ task' = [task EXCEPT ![h] = o]
                        /\ handle' = [handle EXCEPT ![o] = h]
  BY DEF Start
<1>2. /\ started' = [started EXCEPT ![o] = @ + 1]
      /\ UNCHANGED <<process, objects, proto, running, call, holder>>
  BY DEF Start
<1>3. /\ stage \in [All -> Stages] /\ task \in [All -> Objs \cup {NULL}]
      /\ handle \in [Objs -> Tids \cup {NULL}] /\ started \in [Objs -> Nat]
      /\ running \in [Objs -> {"unset", "TRUE", "FALSE"}]
      /\ call \in [All -> Calls]
      /\ h \in All /\ h # Main /\ h # NULL
  BY SetFacts DEF TInv, TypeOK
<1>4. TypeOK'
  BY <1>1, <1>2, <1>3 DEF TInv, TypeOK, Stages
<1>5. /\ started'[o] = started[o] + 1 /\ started[o] \in Nat
      /\ \A q \in Objs : q # o => started'[q] = started[q] /\ handle'[q] = handle[q]
      /\ handle'[o] = h
  BY <1>1, <1>2, <1>3
<1>6. /\ stage'[h] = "created" /\ task'[h] = o
      /\ \A u \in All : u # h => stage'[u] = stage[u] /\ task'[u] = task[u]
  BY <1>1, <1>3
<1>7. Tasks'
  <2>1. stage'[Main] = "body"
    BY <1>3, <1>6, SetFacts DEF TInv, Tasks
  <2>2. ASSUME NEW u \in Tids, stage'[u] # "unborn"
        PROVE  task'[u] \in Objs /\ started'[task'[u]] > 0
    BY <1>5, <1>6, <2>2, SetFacts DEF TInv, Tasks
  <2>3. ASSUME NEW u \in Tids, stage'[u] \in {"created", "body"}, started'[task'[u]] = 1
        PROVE  handle'[task'[u]] = u
    BY <1>5, <1>6, <2>3, SetFacts DEF TInv, Tasks
  <2>4. ASSUME NEW q \in Objs, handle'[q] # NULL
        PROVE  stage'[handle'[q]] # "unborn"
    BY <1>3, <1>5, <1>6, <2>4, SetFacts DEF TInv, Tasks
  <2>5. QED
    BY <2>1, <2>2, <2>3, <2>4 DEF Tasks
<1>8. RunningSlot'
  <2>1. SUFFICES ASSUME NEW q \in Objs
                 PROVE  /\ started'[q] = 0 => running'[q] = "unset" /\ handle'[q] = NULL
                        /\ started'[q] = 1 =>
                             /\ handle'[q] # NULL
                             /\ running'[q] = "unset"
                                  <=> (Pending(q)' /\ stage'[handle'[q]] = "created")
                             /\ running'[q] = "TRUE"
                                  <=> (Pending(q)' /\ stage'[handle'[q]] = "body")
    BY DEF RunningSlot
  <2>2. CASE q = o
    <3>1. started'[q] = 1 => running[q] = "unset"
      BY <1>5, <2>2 DEF TInv, RunningSlot
    <3>2. Pending(q)'
      BY <1>3, <1>5, <1>6, <2>2 DEF Pending
    <3>3. QED
      BY <1>2, <1>3, <1>5, <1>6, <2>2, <3>1, <3>2
  <2>3. CASE q # o
    <3>1. Pending(q)' <=> Pending(q)
      BY <1>1, <1>3, <1>5, <1>6, <2>3, SetFacts DEF Pending
    <3>2. Pending(q) => stage'[handle[q]] = stage[handle[q]]
      BY <1>1, <1>3, <1>6, SetFacts DEF Pending
    <3>3. QED
      BY <1>2, <1>5, <2>3, <3>1, <3>2 DEF TInv, RunningSlot
  <2>4. QED
    BY <2>2, <2>3
<1>9. Protos' /\ \A q, x : Inherits(q, x) <=> Inherits(q, x)'
  BY <1>2, ProtosFrame, InheritsFrame DEF TInv
<1>10. Lookups'
  <2>1. \A q \in Objs : started[q] > 1 => started'[q] > 1
    BY <1>3, <1>5
  <2>2. \A q \in Objs, x \in Tids :
           handle[q] = x /\ handle'[q] # x => started'[q] > 1
    <3>1. ASSUME NEW x \in Tids, handle[o] = x PROVE started'[o] > 1
      <4>1. started[o] # 0
        BY <3>1, SetFacts DEF TInv, RunningSlot
      <4>2. QED
        BY <1>5, <4>1
    <3>2. QED
      BY <1>5, <3>1
  <2>3. objects \subseteq Objs
    BY DEF TInv, TypeOK
  <2>4. QED
    BY <1>2, <1>9, <2>1, <2>2, <2>3 DEF TInv, Lookups
<1>11. WaitsAreValid'
  <2>1. \A u \in All : call[u].op = "wait" => call[u].at # h /\ call[u].at \in All
    BY <1>1, SetFacts DEF TInv, WaitsAreValid, Lookups
  <2>2. \A u \in All : stage[u] = "body" => stage'[u] = "body"
    BY <1>1, <1>6
  <2>3. QED
    BY <1>2, <1>6, <2>1, <2>2 DEF TInv, WaitsAreValid, WaitsFor
<1>12. QED
  BY <1>4, <1>7, <1>8, <1>9, <1>10, <1>11 DEF TInv

-----------------------------------------------------------------------------
(* A thread moves from one stage to the next and sets the slot.            *)
LEMMA BeginKeeps ==
  ASSUME TInv, NEW t \in All, Begin(t)
  PROVE  TInv'
<1>1. /\ stage[t] = "created"
      /\ running' = [running EXCEPT ![task[t]] = "TRUE"]
      /\ stage' = [stage EXCEPT ![t] = "body"]
      /\ UNCHANGED <<process, task, objects, proto, handle, call, holder, started>>
  BY DEF Begin
<1>2. t \in Tids /\ task[t] \in Objs
  BY <1>1 DEF TInv, Tasks, All
<1>3. TypeOK'
  BY <1>1, <1>2, SetFacts DEF TInv, TypeOK, Stages
<1>4. Protos' /\ Lookups'
  BY <1>1, ProtosFrame, LookupsFrame DEF TInv
<1>5. Tasks'
  BY <1>1, <1>2, SetFacts DEF TInv, TypeOK, Tasks
<1>6. \A o \in Objs : Pending(o)' <=> Pending(o)
  BY <1>1, SetFacts DEF Pending, TInv, TypeOK
<1>7. \A o \in Objs : started[o] = 1 /\ task[t] = o => handle[o] = t
  BY <1>1, <1>2 DEF TInv, Tasks
<1>8. RunningSlot'
  <2>1. ASSUME NEW o \in Objs, o # task[t], handle[o] # NULL, Pending(o)
        PROVE  stage'[handle[o]] = stage[handle[o]]
    BY <1>1, <2>1, SetFacts DEF Pending, TInv, TypeOK
  <2>2. ASSUME NEW o \in Objs, o # task[t], started[o] = 0
        PROVE  running'[o] = "unset" /\ handle'[o] = NULL
    BY <1>1, <1>2, <2>2 DEF TInv, TypeOK, RunningSlot
  <2>3. ASSUME NEW o \in Objs, o # task[t], started[o] = 1
        PROVE  /\ handle'[o] # NULL
               /\ running'[o] = "unset" <=> (Pending(o)' /\ stage'[handle'[o]] = "created")
               /\ running'[o] = "TRUE" <=> (Pending(o)' /\ stage'[handle'[o]] = "body")
    BY <1>1, <1>2, <1>6, <2>1, <2>3 DEF TInv, TypeOK, RunningSlot
  <2>4. ASSUME NEW o \in Objs, o = task[t], started[o] = 1
        PROVE  /\ handle'[o] = t /\ running'[o] = "TRUE" /\ stage'[t] = "body"
               /\ Pending(o)'
    <3>1. handle[o] = t /\ t # NULL
      BY <1>2, <1>7, <2>4, SetFacts
    <3>2. Pending(o)
      BY <1>1, <2>4, <3>1 DEF Pending
    <3>3. QED
      BY <1>1, <1>2, <1>6, <2>4, <3>1, <3>2 DEF TInv, TypeOK, All
  <2>5. started[task[t]] # 0
    BY <1>1, <1>2 DEF TInv, Tasks
  <2>6. QED
    BY <1>1, <1>2, <2>2, <2>3, <2>4, <2>5, SetFacts DEF RunningSlot
<1>9. WaitsAreValid'
  BY <1>1, SetFacts DEF TInv, TypeOK, WaitsAreValid, WaitsFor
<1>10. QED
  BY <1>3, <1>4, <1>5, <1>8, <1>9 DEF TInv

LEMMA FinishKeeps ==
  ASSUME TInv, NEW t \in All, Finish(t)
  PROVE  TInv'
<1>1. /\ t # Main /\ stage[t] = "body" /\ call[t].op = "none"
      /\ running' = [running EXCEPT ![task[t]] = "FALSE"]
      /\ stage' = [stage EXCEPT ![t] = "ending"]
      /\ UNCHANGED <<process, task, objects, proto, handle, call, holder, started>>
  BY DEF Finish, Idle
<1>2. t \in Tids /\ task[t] \in Objs
  BY <1>1 DEF TInv, Tasks, All
<1>3. TypeOK'
  BY <1>1, <1>2, SetFacts DEF TInv, TypeOK, Stages
<1>4. Protos' /\ Lookups'
  BY <1>1, ProtosFrame, LookupsFrame DEF TInv
<1>5. Tasks'
  BY <1>1, <1>2, SetFacts DEF TInv, TypeOK, Tasks
<1>6. \A o \in Objs : o # task[t] => (Pending(o)' <=> Pending(o))
  BY <1>1, SetFacts DEF Pending, TInv, TypeOK
<1>7. started[task[t]] = 1 => handle[task[t]] = t
  BY <1>1, <1>2 DEF TInv, Tasks
<1>8. RunningSlot'
  <2>1. ASSUME NEW o \in Objs, o # task[t], handle[o] # NULL, Pending(o)
        PROVE  stage'[handle[o]] = stage[handle[o]]
    BY <1>1, <2>1, SetFacts DEF Pending, TInv, TypeOK
  <2>2. ASSUME NEW o \in Objs, o # task[t], started[o] = 0
        PROVE  running'[o] = "unset" /\ handle'[o] = NULL
    BY <1>1, <1>2, <2>2 DEF TInv, TypeOK, RunningSlot
  <2>3. ASSUME NEW o \in Objs, o # task[t], started[o] = 1
        PROVE  /\ handle'[o] # NULL
               /\ running'[o] = "unset" <=> (Pending(o)' /\ stage'[handle'[o]] = "created")
               /\ running'[o] = "TRUE" <=> (Pending(o)' /\ stage'[handle'[o]] = "body")
    BY <1>1, <1>2, <1>6, <2>1, <2>3 DEF TInv, TypeOK, RunningSlot
  <2>4. ASSUME NEW o \in Objs, o = task[t], started[o] = 1
        PROVE  handle'[o] = t /\ running'[o] = "FALSE" /\ ~Pending(o)'
    <3>1. handle[o] = t
      BY <1>7, <2>4
    <3>2. stage'[t] = "ending" /\ handle'[o] = t /\ running'[o] = "FALSE"
      BY <1>1, <1>2, <2>4, <3>1 DEF TInv, TypeOK
    <3>3. QED
      BY <3>2 DEF Pending
  <2>5. started[task[t]] # 0
    BY <1>1, <1>2 DEF TInv, Tasks
  <2>6. QED
    BY <1>1, <1>2, <2>2, <2>3, <2>4, <2>5, SetFacts DEF RunningSlot
<1>9. WaitsAreValid'
  BY <1>1, SetFacts DEF TInv, TypeOK, WaitsAreValid, WaitsFor
<1>10. QED
  BY <1>3, <1>4, <1>5, <1>8, <1>9 DEF TInv

(* A thread that has evaluated its message leaves the system.              *)
LEMMA LeavingKeeps ==
  ASSUME TInv, NEW t \in Tids, stage[t] \in {"ending", "exited"},
         NEW s \in {"exited", "joined"}, stage' = [stage EXCEPT ![t] = s],
         UNCHANGED <<task, running, handle, started>>
  PROVE  Tasks' /\ RunningSlot'
<1>1. \A u \in All : u # t => stage'[u] = stage[u]
  BY DEF TInv, TypeOK
<1>2. stage'[t] = s
  BY SetFacts DEF TInv, TypeOK
<1>3. Tasks'
  BY <1>1, <1>2, SetFacts DEF TInv, TypeOK, Tasks
<1>4. \A o \in Objs : Pending(o)' <=> Pending(o)
  BY <1>1, <1>2, SetFacts DEF Pending, TInv, TypeOK
<1>5. \A o \in Objs : Pending(o) => stage'[handle[o]] = stage[handle[o]]
  BY <1>1, <1>2, SetFacts DEF Pending, TInv, TypeOK
<1>6. RunningSlot'
  BY <1>4, <1>5 DEF TInv, RunningSlot
<1>7. QED
  BY <1>3, <1>6

LEMMA ThreadExitKeeps ==
  ASSUME TInv, NEW t \in All, ThreadExit(t)
  PROVE  TInv'
<1>1. /\ stage[t] = "ending" /\ stage' = [stage EXCEPT ![t] = "exited"]
      /\ UNCHANGED <<process, task, objects, proto, running, handle, call, holder, started>>
  BY DEF ThreadExit
<1>2. t \in Tids
  BY <1>1 DEF TInv, Tasks, All
<1>3. TypeOK'
  BY <1>1 DEF TInv, TypeOK, Stages
<1>4. Protos' /\ Lookups'
  BY <1>1, ProtosFrame, LookupsFrame DEF TInv
<1>5. Tasks' /\ RunningSlot'
  BY <1>1, <1>2, LeavingKeeps
<1>6. WaitsAreValid'
  BY <1>1, SetFacts DEF TInv, TypeOK, WaitsAreValid, WaitsFor
<1>7. QED
  BY <1>3, <1>4, <1>5, <1>6 DEF TInv

-----------------------------------------------------------------------------
(* join.                                                                   *)

(* A step that changes only the call of t.                                 *)
LEMMA CallKeeps ==
  ASSUME TInv, NEW t \in All, NEW c \in Calls, call' = [call EXCEPT ![t] = c],
         UNCHANGED <<process, stage, task, objects, proto, running, handle, holder, started>>,
         stage[t] = "body",
         c.op # "none" => c.obj \in objects,
         c.op = "look" => \/ c.at = NULL \/ c.at = c.obj
                          \/ c.at \in Objs /\ Inherits(c.obj, c.at),
         c.op = "wait" => /\ c.at \in Tids /\ handle[c.obj] = c.at
                          /\ stage[c.at] # "joined" /\ ~Waited(c.at)
  PROVE  TInv'
<1>1. call'[t] = c /\ \A u \in All : u # t => call'[u] = call[u]
  BY DEF TInv, TypeOK
<1>2. TypeOK'
  BY DEF TInv, TypeOK
<1>3. Tasks' /\ RunningSlot' /\ Protos'
  BY TasksFrame, RunningFrame, ProtosFrame DEF TInv
<1>4. Lookups'
  <2>1. \A q, x : Inherits(q, x) <=> Inherits(q, x)'
    BY InheritsFrame
  <2>2. QED
    BY <1>1, <2>1 DEF TInv, Lookups
<1>5. WaitsAreValid'
  <2>1. \A u \in All : u # t => \A h : WaitsFor(u, h)' <=> WaitsFor(u, h)
    BY <1>1 DEF WaitsFor
  <2>2. ASSUME NEW u \in All, call'[u].op = "wait"
        PROVE  /\ stage[u] = "body"
               /\ stage[call'[u].at] \in {"created", "body", "ending", "exited"}
    <3>1. CASE u = t
      <4>1. c.op = "wait" /\ c.at \in Tids /\ stage[c.at] # "joined"
        BY <1>1, <2>2, <3>1
      <4>2. c.at # NULL /\ c.obj \in Objs
        BY <4>1, SetFacts DEF TInv, TypeOK
      <4>3. stage[c.at] # "unborn"
        BY <4>1, <4>2 DEF TInv, Tasks
      <4>4. stage[c.at] \in Stages
        BY <4>1, SetFacts DEF TInv, TypeOK
      <4>5. QED
        BY <1>1, <3>1, <4>1, <4>3, <4>4 DEF Stages
    <3>2. CASE u # t
      BY <1>1, <2>2, <3>2 DEF TInv, WaitsAreValid
    <3>3. QED
      BY <3>1, <3>2
  <2>3. ASSUME NEW u \in All, NEW w \in All, NEW h, WaitsFor(u, h)', WaitsFor(w, h)'
        PROVE  u = w
    <3>1. CASE u = t /\ w # t
      BY <1>1, <2>1, <2>3, <3>1 DEF Waited, WaitsFor
    <3>2. CASE w = t /\ u # t
      BY <1>1, <2>1, <2>3, <3>2 DEF Waited, WaitsFor
    <3>3. CASE u # t /\ w # t
      <4>1. WaitsFor(u, h) /\ WaitsFor(w, h)
        BY <2>1, <2>3, <3>3
      <4>2. QED
        BY <4>1 DEF TInv, WaitsAreValid, WaitsFor
    <3>4. QED
      BY <3>1, <3>2, <3>3
  <2>4. QED
    BY <2>2, <2>3 DEF WaitsAreValid, WaitsFor
<1>6. QED
  BY <1>2, <1>3, <1>4, <1>5 DEF TInv

LEMMA NoCallFacts == NoCall \in Calls /\ NoCall.op = "none"
BY DEF NoCall, Calls

LEMMA JoinKeeps ==
  ASSUME TInv, NEW t \in All, NEW o \in Objs, Join(t, o)
  PROVE  TInv'
<1> DEFINE c == [op |-> "look", obj |-> o, at |-> o]
<1>1. /\ o \in objects /\ stage[t] = "body" /\ call' = [call EXCEPT ![t] = c]
      /\ UNCHANGED <<process, stage, task, objects, proto, running, handle, holder, started>>
  BY DEF Join, Idle, Enter
<1>2. c \in Calls /\ c.op = "look" /\ c.obj = o /\ c.at = o
  BY DEF Calls
<1> HIDE DEF c
<1>3. QED
  BY <1>1, <1>2, CallKeeps

(* The chain goes on at the proto of an object that is on it.              *)
LEMMA InheritsNext ==
  ASSUME NEW o \in Objs, NEW x \in Objs, x = o \/ Inherits(o, x), proto[x] # NULL,
         TypeOK
  PROVE  Inherits(o, proto[x])
<1>1. proto[o] # NULL
  BY DEF Inherits
<1>2. QED
  BY <1>1 DEF Inherits

LEMMA LookKeeps ==
  ASSUME TInv, NEW t \in All, Look(t)
  PROVE  TInv'
<1> DEFINE o == call[t].obj
           x == call[t].at
<1>1. /\ stage[t] = "body" /\ call[t].op = "look"
      /\ UNCHANGED <<process, stage, task, objects, proto, running, handle, holder, started>>
      /\ \/ Enter(t, "handle", o, NULL)
         \/ RunningAt(x) = "unset" /\ Enter(t, "look", o, proto[x])
         \/ Leave(t)
  BY DEF Look, InCall
<1>2. o \in objects /\ o \in Objs /\ (x = NULL \/ x = o \/ (x \in Objs /\ Inherits(o, x)))
  <2>1. o \in objects /\ (x = NULL \/ x = o \/ (x \in Objs /\ Inherits(o, x)))
    BY <1>1 DEF TInv, Lookups
  <2>2. objects \subseteq Objs
    BY DEF TInv, TypeOK
  <2>3. QED
    BY <2>1, <2>2
<1>3. CASE Enter(t, "handle", o, NULL)
  <2> DEFINE c == [op |-> "handle", obj |-> o, at |-> NULL]
  <2>1. c \in Calls /\ c.op = "handle" /\ c.obj = o /\ call' = [call EXCEPT ![t] = c]
    BY <1>2, <1>3 DEF Calls, Enter
  <2> HIDE DEF c
  <2>2. QED
    BY <1>1, <1>2, <2>1, CallKeeps
<1>4. CASE RunningAt(x) = "unset" /\ Enter(t, "look", o, proto[x])
  <2> DEFINE c == [op |-> "look", obj |-> o, at |-> proto[x]]
  <2>1. x # NULL /\ x \in Objs
    BY <1>2, <1>4 DEF RunningAt
  <2>2. proto[x] \in Objs \cup {NULL}
    BY <2>1 DEF TInv, TypeOK
  <2>3. /\ c \in Calls /\ c.op = "look" /\ c.obj = o /\ c.at = proto[x]
        /\ call' = [call EXCEPT ![t] = c]
    BY <1>2, <1>4, <2>2 DEF Calls, Enter
  <2>4. proto[x] = NULL \/ Inherits(o, proto[x])
    BY <1>2, <2>1, InheritsNext DEF TInv
  <2> HIDE DEF c
  <2>5. QED
    BY <1>1, <1>2, <2>2, <2>3, <2>4, CallKeeps
<1>5. CASE Leave(t)
  BY <1>1, <1>5, NoCallFacts, CallKeeps DEF Leave
<1>6. QED
  BY <1>1, <1>3, <1>4, <1>5

LEMMA JoinHandleKeeps ==
  ASSUME TInv, NEW t \in All, JoinHandle(t)
  PROVE  TInv'
<1> DEFINE o == call[t].obj
           h == handle[o]
<1>1. /\ stage[t] = "body" /\ call[t].op = "handle"
      /\ UNCHANGED <<stage, task, objects, proto, running, handle, holder, started>>
      /\ \/ process' = "crashed" /\ UNCHANGED call
         \/ Leave(t) /\ UNCHANGED process
         \/ /\ ~Invalid(h) /\ ~Refused(t, h) /\ Enter(t, "wait", o, h)
            /\ UNCHANGED process
  BY DEF JoinHandle, InCall
<1>2. o \in objects /\ o \in Objs
  BY <1>1 DEF TInv, Lookups, TypeOK
<1>3. CASE process' = "crashed" /\ UNCHANGED call
  <2>1. holder' \in [Mutexes -> All \cup {NULL}]
    BY <1>1 DEF TInv, TypeOK
  <2>2. QED
    BY <1>1, <1>3, <2>1, OverKeeps
<1>4. CASE Leave(t) /\ UNCHANGED process
  BY <1>1, <1>4, NoCallFacts, CallKeeps DEF Leave
<1>5. CASE /\ ~Invalid(h) /\ ~Refused(t, h) /\ Enter(t, "wait", o, h)
           /\ UNCHANGED process
  <2> DEFINE c == [op |-> "wait", obj |-> o, at |-> h]
  <2>1. h \in Tids /\ stage[h] # "joined" /\ ~Waited(h)
    BY <1>2, <1>5 DEF Invalid, Refused, TInv, TypeOK
  <2>2. /\ c \in Calls /\ c.op = "wait" /\ c.obj = o /\ c.at = h
        /\ call' = [call EXCEPT ![t] = c]
    BY <1>2, <1>5, <2>1 DEF Calls, Enter
  <2> HIDE DEF c
  <2>3. QED
    BY <1>1, <1>2, <1>5, <2>1, <2>2, CallKeeps
<1>6. QED
  BY <1>1, <1>3, <1>4, <1>5

LEMMA JoinDoneKeeps ==
  ASSUME TInv, NEW t \in All, JoinDone(t)
  PROVE  TInv'
<1> DEFINE h == call[t].at
<1>1. /\ stage[t] = "body" /\ call[t].op = "wait" /\ stage[h] = "exited"
      /\ stage' = [stage EXCEPT ![h] = "joined"]
      /\ call' = [call EXCEPT ![t] = NoCall]
      /\ UNCHANGED <<process, task, objects, proto, running, handle, holder, started>>
  BY DEF JoinDone, InCall, Leave
<1>2. h \in Tids
  BY <1>1 DEF TInv, Lookups
<1>3. TypeOK'
  BY <1>1, NoCallFacts DEF TInv, TypeOK, Stages
<1>4. Tasks' /\ RunningSlot'
  BY <1>1, <1>2, LeavingKeeps
<1>5. Protos'
  BY <1>1, ProtosFrame DEF TInv
<1>6. call'[t].op = "none" /\ \A u \in All : u # t => call'[u] = call[u]
  BY <1>1, NoCallFacts DEF TInv, TypeOK
<1>7. Lookups'
  <2>1. \A q, x : Inherits(q, x) <=> Inherits(q, x)'
    BY <1>1, InheritsFrame
  <2>2. QED
    BY <1>1, <1>6, <2>1 DEF TInv, Lookups
<1>8. WaitsAreValid'
  <2>1. \A u \in All : u # t /\ call[u].op = "wait" => call[u].at # h
    BY <1>1 DEF TInv, WaitsAreValid, WaitsFor
  <2>2. \A u \in All : u # h => stage'[u] = stage[u]
    BY <1>1 DEF TInv, TypeOK
  <2>3. \A u \in All : call[u].op = "wait" => call[u].at \in All /\ u # h
    BY <1>1, SetFacts DEF TInv, Lookups, WaitsAreValid
  <2>4. QED
    BY <1>6, <2>1, <2>2, <2>3 DEF TInv, WaitsAreValid, WaitsFor
<1>9. QED
  BY <1>3, <1>4, <1>5, <1>7, <1>8 DEF TInv

-----------------------------------------------------------------------------
LEMMA MutexKeeps ==
  ASSUME TInv, NEW t \in All, NEW m \in Mutexes, Lock(t, m) \/ Unlock(t, m)
  PROVE  TInv'
<1>1. UNCHANGED <<process, stage, task, objects, proto, running, handle, call, started>>
  BY DEF Lock, Unlock
<1>2. process' \in {"running", "exited", "aborted", "crashed"}
      /\ holder' \in [Mutexes -> All \cup {NULL}]
  BY <1>1 DEF Lock, Unlock, TInv, TypeOK
<1>3. QED
  BY <1>1, <1>2, OverKeeps

LEMMA EndKeeps ==
  ASSUME TInv, Exit \/ \E t \in All : Uncaught(t) \/ NullPointer(t)
  PROVE  TInv'
<1>1. UNCHANGED <<stage, task, objects, proto, running, handle, call, holder, started>>
      /\ process' \in {"exited", "aborted", "crashed"}
  BY DEF Exit, Uncaught, NullPointer
<1>2. holder' \in [Mutexes -> All \cup {NULL}]
  BY <1>1 DEF TInv, TypeOK
<1>3. QED
  BY <1>1, <1>2, OverKeeps

LEMMA InitTInv == Init => TInv
<1> SUFFICES ASSUME Init PROVE TInv
  OBVIOUS
<1>1. \A t \in All : call[t] = NoCall /\ call[t].op = "none"
  BY NoCallFacts DEF Init
<1>2. TypeOK
  BY ProtoIsObject, NoCallFacts DEF Init, TypeOK, Stages
<1>3. Tasks
  BY SetFacts DEF Init, Tasks
<1>4. RunningSlot /\ Protos
  BY DEF Init, RunningSlot, Protos
<1>5. Lookups /\ WaitsAreValid
  BY <1>1 DEF Lookups, WaitsAreValid
<1>6. QED
  BY <1>2, <1>3, <1>4, <1>5 DEF TInv

LEMMA NextTInv == TInv /\ [Next]_vars => TInv'
<1> SUFFICES ASSUME TInv, [Next]_vars PROVE TInv'
  OBVIOUS
<1>1. CASE Exit
  BY <1>1, EndKeeps
<1>2. ASSUME NEW t \in All, Task(t) PROVE TInv'
  BY <1>2, BeginKeeps, FinishKeeps, ThreadExitKeeps DEF Task
<1>3. ASSUME NEW t \in All, Joining(t) PROVE TInv'
  BY <1>3, LookKeeps, JoinHandleKeeps, JoinDoneKeeps DEF Joining
<1>4. ASSUME NEW t \in All, Program(t) PROVE TInv'
  BY <1>4, CloneKeeps, StartKeeps, JoinKeeps, MutexKeeps, EndKeeps DEF Program
<1>5. CASE UNCHANGED vars
  <2>1. holder' \in [Mutexes -> All \cup {NULL}]
        /\ process' \in {"running", "exited", "aborted", "crashed"}
    BY <1>5 DEF vars, TInv, TypeOK
  <2>2. QED
    BY <1>5, <2>1, OverKeeps DEF vars
<1>6. QED
  BY <1>1, <1>2, <1>3, <1>4, <1>5 DEF Next

THEOREM AlwaysTInv == Spec => []TInv
BY InitTInv, NextTInv, PTL DEF Spec

(* Every variable keeps its C type: a handle is a thread or null, a        *)
(* thread's object is an object.                                           *)
THEOREM ThreadsTypeCorrect == Spec => []TypeOK
<1>1. TInv => TypeOK
  BY DEF TInv
<1>2. QED
  BY AlwaysTInv, <1>1, PTL

(* The slot `running' of an object that was started once says what its     *)
(* thread does.                                                            *)
THEOREM RunningSlotHolds == Spec => []RunningSlot
<1>1. TInv => RunningSlot
  BY DEF TInv
<1>2. QED
  BY AlwaysTInv, <1>1, PTL

(* No two threads are in pthread_join for one thread, and the handle they  *)
(* wait for stays valid.                                                   *)
THEOREM WaitsAreValidHolds == Spec => []WaitsAreValid
<1>1. TInv => WaitsAreValid
  BY DEF TInv
<1>2. QED
  BY AlwaysTInv, <1>1, PTL

-----------------------------------------------------------------------------
(* join returns early only in the cases JoinWaits names.                   *)
Early(t) == LET o == call[t].obj
                h == handle[o]
            IN  \/ started[o] > 1
                \/ \E p \in Objs : Inherits(o, p) /\ started[p] > 0
                \/ h = t
                \/ WaitsFor(h, t)
                \/ Waited(h)

JoinStep == \A t \in All : Returns(t) /\ Pending(call[t].obj) => Early(t)

\* Every step of the call of join that returns.
LEMMA ReturnSteps ==
  ASSUME TInv, [Next]_vars, NEW t \in All, Returns(t)
  PROVE  Joining(t)
<1>1. ASSUME NEW u \in All, u # t, Joining(u) PROVE FALSE
  <2>1. call'[t] = call[t]
    BY <1>1 DEF TInv, TypeOK, Joining, Look, JoinHandle, JoinDone, Enter, Leave
  <2>2. QED
    BY <2>1 DEF Returns
<1>2. ASSUME NEW u \in All, NEW o \in Objs, Join(u, o) PROVE FALSE
  <2>1. call[u].op = "none" /\ call' = [call EXCEPT ![u] = [op |-> "look", obj |-> o, at |-> o]]
    BY <1>2 DEF Join, Idle, Enter
  <2>2. t # u
    BY <2>1 DEF Returns
  <2>3. call'[t] = call[t]
    BY <2>1, <2>2 DEF TInv, TypeOK
  <2>4. QED
    BY <2>3 DEF Returns
<1>3. call' # call
  BY DEF Returns
<1>4. ASSUME NEW u \in All, Task(u) PROVE FALSE
  BY <1>3, <1>4 DEF Task, Begin, Finish, ThreadExit
<1>5. ASSUME NEW u \in All, Program(u) PROVE FALSE
  BY <1>2, <1>3, <1>5 DEF Program, Clone, Start, Lock, Unlock, Uncaught, NullPointer
<1>6. ~Exit /\ ~UNCHANGED vars
  BY <1>3 DEF Exit, vars
<1>7. QED
  BY <1>1, <1>4, <1>5, <1>6 DEF Next

LEMMA LookReturns ==
  ASSUME TInv, NEW t \in All, Look(t), Returns(t), Pending(call[t].obj)
  PROVE  Early(t)
<1> DEFINE o == call[t].obj
           x == call[t].at
<1>1. call[t].op = "look" /\ RunningAt(x) = "FALSE"
  <2>1. ASSUME NEW op \in {"look", "handle"}, NEW p, NEW y, Enter(t, op, p, y) PROVE FALSE
    BY <2>1 DEF Enter, Returns, TInv, TypeOK
  <2>2. QED
    BY <2>1 DEF Look, InCall
<1>2. x # NULL /\ running[x] = "FALSE"
  BY <1>1 DEF RunningAt
<1>3. /\ x = o \/ (x \in Objs /\ Inherits(o, x))
      /\ o \in objects
  BY <1>1, <1>2 DEF TInv, Lookups
<1>4. o \in Objs
  BY <1>3 DEF TInv, TypeOK
<1>5. CASE x = o
  <2>1. started[o] # 0 /\ started[o] \in Nat
    BY <1>2, <1>4, <1>5 DEF TInv, TypeOK, RunningSlot
  <2>2. started[o] # 1
    BY <1>2, <1>4, <1>5 DEF TInv, RunningSlot, Pending
  <2>3. started[o] > 1
    BY <2>1, <2>2
  <2>4. QED
    BY <2>3 DEF Early
<1>6. CASE x \in Objs /\ Inherits(o, x)
  <2>1. started[x] # 0 /\ started[x] \in Nat
    BY <1>2, <1>6 DEF TInv, TypeOK, RunningSlot
  <2>2. started[x] > 0
    BY <2>1
  <2>3. QED
    BY <1>6, <2>2 DEF Early
<1>7. QED
  BY <1>3, <1>5, <1>6

LEMMA JoinHandleReturns ==
  ASSUME TInv, NEW t \in All, JoinHandle(t), Returns(t), Pending(call[t].obj)
  PROVE  Early(t)
<1> DEFINE h == handle[call[t].obj]
<1>1. h # NULL /\ (Invalid(h) \/ Refused(t, h))
  <2>1. call' # call
    BY DEF Returns
  <2>2. ASSUME NEW p, NEW y, Enter(t, "wait", p, y) PROVE FALSE
    BY <2>2 DEF Enter, Returns, TInv, TypeOK
  <2>3. QED
    BY <2>1, <2>2 DEF JoinHandle
<1>2. ~Invalid(h)
  BY <1>1 DEF Invalid, Pending
<1>3. QED
  BY <1>1, <1>2 DEF Refused, Early

LEMMA JoinDoneReturns ==
  ASSUME TInv, NEW t \in All, JoinDone(t), Pending(call[t].obj)
  PROVE  Early(t)
<1>1. call[t].op = "wait" /\ stage[call[t].at] = "exited"
  BY DEF JoinDone, InCall
<1>2. handle[call[t].obj] = call[t].at \/ started[call[t].obj] > 1
  BY <1>1 DEF TInv, Lookups
<1>3. QED
  BY <1>1, <1>2 DEF Pending, Early

(* When join returns, the message the object was started with has been     *)
(* evaluated, in all but the five cases that JoinWaits names.              *)
THEOREM JoinWaitsHolds == Spec => JoinWaits
<1>1. TInv /\ [Next]_vars => [JoinStep]_vars
  <2> SUFFICES ASSUME TInv, [Next]_vars PROVE JoinStep
    OBVIOUS
  <2>1. QED
    BY ReturnSteps, LookReturns, JoinHandleReturns, JoinDoneReturns DEF JoinStep, Joining
<1>2. Spec => [][JoinStep]_vars
  BY AlwaysTInv, <1>1, PTL DEF Spec
<1>3. QED
  BY <1>2 DEF JoinWaits, JoinStep, Early

-----------------------------------------------------------------------------
(***************************************************************************)
(* thread-test.ava.                                                        *)
(***************************************************************************)
CTypeOK == /\ pc \in 1..2 * N + 2
           /\ at \in [Workers -> {"lock", "read", "write", "unlock"}]
           /\ todo \in [Workers -> Nat]
           /\ reg \in [Workers -> Nat]
           /\ shared \in Nat

(* Main has started the first pc - 1 workers, each as a thread of its own  *)
(* whose handle is still in its object, and has joined those before        *)
(* pc - N.                                                                 *)
Started ==
  /\ \A t \in Tids : stage[t] # "unborn" => \E k \in 1..N : k < pc /\ task[t] = Order[k]
  /\ \A t \in Tids : stage[t] = "joined" => \E k \in 1..N : N + k < pc /\ task[t] = Order[k]
  /\ \A k \in 1..N : k < pc => handle[Order[k]] \in Tids /\ task[handle[Order[k]]] = Order[k]

(* Only main joins, the worker that its program names, and nothing has     *)
(* been started that a worker inherits from.                               *)
MainCall ==
  /\ \A t \in Tids : call[t].op = "none"
  /\ call[Main].op # "none" =>
       /\ pc \in N + 1..2 * N
       /\ call[Main].obj = Order[pc - N]
       /\ call[Main].op = "look" => call[Main].at \in {Order[pc - N], Proto, NULL}
       /\ call[Main].op = "wait" => call[Main].at = handle[Order[pc - N]]
  /\ \A o \in Workers : proto[o] = Proto
  /\ proto[Proto] = NULL
  /\ running[Proto] = "unset"

(* A thread that has left its message, by whatever sign main sees it, has  *)
(* made all its increments.                                                *)
Finished ==
  /\ \A t \in Tids : stage[t] \in {"ending", "exited", "joined"} => todo[task[t]] = 0
  /\ \A o \in Workers : running[o] = "FALSE" => todo[o] = 0
  /\ \A k \in 1..N : N + k < pc => todo[Order[k]] = 0

(* The mutex is held, by the thread that is inside, as long as one is.     *)
Exclusion ==
  \A o \in Workers :
    /\ Inside(o) => /\ holder[mutex] \in Tids
                    /\ task[holder[mutex]] = o
                    /\ stage[holder[mutex]] = "body"
    /\ at[o] \in {"read", "write"} => todo[o] > 0
    /\ at[o] = "write" => reg[o] = shared

Own == CTypeOK /\ Started /\ MainCall /\ Finished /\ Exclusion

CInv == TInv /\ Own

-----------------------------------------------------------------------------
LEMMA OrderFacts ==
  /\ N \in Nat
  /\ DOMAIN Order = 1..N
  /\ \A k \in 1..N : Order[k] \in Workers
  /\ \A o \in Workers : o \in Objs /\ o # Proto /\ o # NULL
  /\ \A j, k \in 1..N : Order[j] = Order[k] => j = k
<1>1. Order \in Seq(Objs \ {Proto})
  BY OrderIsSeq
<1>2. N \in Nat /\ DOMAIN Order = 1..N
  BY <1>1 DEF N
<1>3. \A k \in 1..N : Order[k] \in Objs \ {Proto}
  BY <1>1, <1>2
<1>4. QED
  BY <1>2, <1>3, NullIsNothing, OrderIsInjective DEF Workers

(* A thread that exists has a worker for its task.                         *)
LEMMA TaskFacts ==
  ASSUME CInv, NEW t \in Tids, stage[t] # "unborn"
  PROVE  task[t] \in Workers
<1>1. PICK k \in 1..N : task[t] = Order[k]
  BY DEF CInv, Own, Started
<1>2. QED
  BY <1>1, OrderFacts

(* Every step of the program is a step of its threads.                     *)
LEMMA ThreadStep ==
  ASSUME CInv, [SNext]_svars
  PROVE  [Next]_vars
<1>1. CASE MainStart
  <2>1. pc \in 1..N /\ Start(Main, Order[pc])
    BY <1>1 DEF MainStart
  <2>2. Order[pc] \in Objs /\ Main \in All
    BY <2>1, OrderFacts, SetFacts
  <2>3. QED
    BY <2>1, <2>2 DEF Next, Program
<1>2. CASE MainJoin
  <2>1. pc - N \in 1..N /\ Join(Main, Order[pc - N])
    BY <1>2, OrderFacts DEF MainJoin, CInv, Own, CTypeOK
  <2>2. Order[pc - N] \in Objs /\ Main \in All
    BY <2>1, OrderFacts, SetFacts
  <2>3. QED
    BY <2>1, <2>2 DEF Next, Program
<1>3. CASE MainJoining
  BY <1>3, SetFacts DEF MainJoining, Next
<1>4. CASE MainPrint \/ Over \/ UNCHANGED svars
  BY <1>4 DEF MainPrint, Over, svars
<1>5. CASE MainEnd
  BY <1>5 DEF MainEnd, Next
<1>6. ASSUME NEW t \in Tids, WorkerStep(t) PROVE [Next]_vars
  <2>1. t \in All
    BY SetFacts
  <2>2. CASE WorkerLock(t)
    BY <2>1, <2>2, MutexIsMutex DEF WorkerLock, Next, Program
  <2>3. CASE WorkerRead(t) \/ WorkerWrite(t)
    BY <2>3 DEF WorkerRead, WorkerWrite
  <2>4. CASE WorkerUnlock(t)
    BY <2>1, <2>4, MutexIsMutex DEF WorkerUnlock, Next, Program
  <2>5. CASE WorkerFinish(t)
    BY <2>1, <2>5 DEF WorkerFinish, Next, Task
  <2>6. CASE WorkerThread(t)
    BY <2>1, <2>6 DEF WorkerThread, Next, Task
  <2>7. QED
    BY <1>6, <2>2, <2>3, <2>4, <2>5, <2>6 DEF WorkerStep
<1>7. QED
  BY <1>1, <1>2, <1>3, <1>4, <1>5, <1>6 DEF SNext, MainStep

LEMMA Types ==
  ASSUME TInv
  PROVE  /\ stage \in [All -> Stages] /\ task \in [All -> Objs \cup {NULL}]
         /\ handle \in [Objs -> Tids \cup {NULL}] /\ call \in [All -> Calls]
         /\ running \in [Objs -> {"unset", "TRUE", "FALSE"}]
         /\ holder \in [Mutexes -> All \cup {NULL}]
         /\ Tids \subseteq All /\ Main \in All /\ Main \notin Tids /\ NULL \notin Tids
         /\ mutex \in Mutexes
BY SetFacts, MutexIsMutex DEF TInv, TypeOK

-----------------------------------------------------------------------------
(***************************************************************************)
(* Main's program.                                                         *)
(***************************************************************************)
LEMMA MainStartKeeps ==
  ASSUME CInv, MainStart
  PROVE  Own'
<1>1. pc \in 1..N /\ pc' = pc + 1 /\ UNCHANGED <<at, todo, reg, shared, printed>>
  BY DEF MainStart, work
<1>2. PICK h \in Tids : /\ stage[h] \in {"unborn", "joined"}
                        /\ stage' = [stage EXCEPT ![h] = "created"]
                        /\ task' = [task EXCEPT ![h] = Order[pc]]
                        /\ handle' = [handle EXCEPT ![Order[pc]] = h]
  BY DEF MainStart, Start
<1>3. /\ UNCHANGED <<proto, running, call, holder>>
      /\ call[Main].op = "none"
  BY DEF MainStart, Start, Idle
<1>4. N \in Nat /\ Order[pc] \in Workers /\ Order[pc] \in Objs
  BY <1>1, OrderFacts
<1>5. stage[h] = "unborn"
  BY <1>1, <1>2, <1>4 DEF CInv, Own, Started
<1>6. CTypeOK'
  BY <1>1, <1>4 DEF CInv, Own, CTypeOK
<1>7. Started'
  <2>1. ASSUME NEW t \in Tids, stage'[t] # "unborn"
        PROVE  \E k \in 1..N : k < pc' /\ task'[t] = Order[k]
    <3>1. CASE t = h
      BY <3>1, <1>1, <1>2, <1>4, Types DEF CInv
    <3>2. CASE t # h
      <4>1. stage[t] # "unborn" /\ task'[t] = task[t]
        BY <2>1, <3>2, <1>2, Types DEF CInv
      <4>2. PICK k \in 1..N : k < pc /\ task[t] = Order[k]
        BY <4>1 DEF CInv, Own, Started
      <4>3. QED
        BY <4>1, <4>2, <1>1
    <3>3. QED
      BY <3>1, <3>2
  <2>2. ASSUME NEW t \in Tids, stage'[t] = "joined" PROVE FALSE
    BY <2>2, <1>1, <1>2, <1>4, Types DEF CInv, Own, Started
  <2>3. ASSUME NEW k \in 1..N, k < pc'
        PROVE  handle'[Order[k]] \in Tids /\ task'[handle'[Order[k]]] = Order[k]
    <3>1. CASE k = pc
      BY <3>1, <1>2, <1>4, Types DEF CInv
    <3>2. CASE k # pc
      <4>1. k < pc /\ Order[k] # Order[pc] /\ Order[k] \in Objs
        BY <2>3, <3>2, <1>1, <1>4, OrderFacts
      <4>2. handle'[Order[k]] = handle[Order[k]] /\ handle[Order[k]] \in Tids
            /\ task[handle[Order[k]]] = Order[k]
        BY <4>1, <1>2, Types DEF CInv, Own, Started
      <4>3. stage[handle[Order[k]]] # "unborn"
        BY <4>1, <4>2, SetFacts DEF CInv, TInv, Tasks
      <4>4. QED
        BY <4>2, <4>3, <1>2, <1>5, Types DEF CInv
    <3>3. QED
      BY <3>1, <3>2
  <2>4. QED
    BY <2>1, <2>2, <2>3 DEF Started
<1>8. MainCall'
  BY <1>3 DEF CInv, Own, MainCall
<1>9. Finished'
  BY <1>1, <1>2, <1>3, <1>4, Types DEF CInv, Own, Finished
<1>10. Exclusion'
  BY <1>1, <1>2, <1>3, <1>5, Types DEF CInv, Own, Exclusion, Inside
<1>11. QED
  BY <1>6, <1>7, <1>8, <1>9, <1>10 DEF Own

LEMMA MainJoinKeeps ==
  ASSUME CInv, MainJoin
  PROVE  Own'
<1>1. pc \in N + 1..2 * N /\ UNCHANGED <<pc, at, todo, reg, shared>>
  BY DEF MainJoin, work
<1>2. /\ call' = [call EXCEPT ![Main] = [op |-> "look", obj |-> Order[pc - N], at |-> Order[pc - N]]]
      /\ UNCHANGED <<stage, task, proto, running, handle, holder>>
  BY DEF MainJoin, Join, Enter
<1>3. CTypeOK' /\ Started' /\ Finished' /\ Exclusion'
  BY <1>1, <1>2 DEF CInv, Own, CTypeOK, Started, Finished, Exclusion, Inside
<1>4. MainCall'
  BY <1>1, <1>2, Types DEF CInv, Own, MainCall
<1>5. QED
  BY <1>3, <1>4 DEF Own

(* The worker that main is joining is not joined yet.                      *)
LEMMA JoinedFacts ==
  ASSUME CInv, call[Main].op # "none"
  PROVE  LET o == Order[pc - N] IN
         /\ pc - N \in 1..N /\ o \in Workers
         /\ call[Main].obj = o
         /\ handle[o] \in Tids /\ task[handle[o]] = o /\ stage[handle[o]] # "joined"
         /\ stage[handle[o]] = "exited" => todo[o] = 0
         /\ ~Refused(Main, handle[o]) \/ call[Main].op # "handle"
<1> DEFINE o == Order[pc - N]
<1>1. pc \in N + 1..2 * N /\ call[Main].obj = o
  BY DEF CInv, Own, MainCall
<1>2. N \in Nat /\ pc \in Nat /\ pc - N \in 1..N /\ pc - N < pc /\ o \in Workers
  BY <1>1, OrderFacts
<1>3. handle[o] \in Tids /\ task[handle[o]] = o
  BY <1>2 DEF CInv, Own, Started
<1>4. ASSUME stage[handle[o]] = "joined" PROVE FALSE
  <2>1. PICK k \in 1..N : N + k < pc /\ Order[k] = Order[pc - N]
    BY <1>3, <1>4 DEF CInv, Own, Started
  <2>2. k = pc - N
    BY <2>1, <1>2, OrderFacts
  <2>3. QED
    BY <2>1, <2>2, <1>2
<1>5. stage[handle[o]] = "exited" => todo[o] = 0
  BY <1>3 DEF CInv, Own, Finished
<1>6. ASSUME Refused(Main, handle[o]), call[Main].op = "handle" PROVE FALSE
  BY <1>3, <1>6, SetFacts DEF Refused, WaitsFor, Waited, All, CInv, Own, MainCall
<1>7. QED
  BY <1>1, <1>2, <1>3, <1>4, <1>5, <1>6

(* When the call of join returns, the worker has made all its increments.  *)
LEMMA JoinReturns ==
  ASSUME CInv, MainJoining, call'[Main] = NoCall
  PROVE  todo[Order[pc - N]] = 0
<1> DEFINE o == Order[pc - N]
<1>1. call[Main].op # "none"
  BY DEF MainJoining, Joining, Look, JoinHandle, JoinDone, InCall
<1>2. /\ o \in Workers /\ o \in Objs /\ call[Main].obj = o
      /\ handle[o] \in Tids /\ stage[handle[o]] # "joined"
      /\ stage[handle[o]] = "exited" => todo[o] = 0
      /\ ~Refused(Main, handle[o]) \/ call[Main].op # "handle"
  BY <1>1, JoinedFacts, OrderFacts
<1>3. handle[o] # NULL /\ ~Invalid(handle[o])
  BY <1>2, SetFacts DEF Invalid
<1>4. NoCall.op = "none"
  BY DEF NoCall
<1>5. CASE Look(Main)
  <2>1. call[Main].at \in {o, Proto, NULL}
    BY <1>5 DEF Look, InCall, CInv, Own, MainCall
  <2>2. RunningAt(call[Main].at) = "FALSE"
    BY <1>5, <1>4, Types DEF Look, Enter, CInv
  <2>3. call[Main].at = o
    BY <2>1, <2>2 DEF RunningAt, CInv, Own, MainCall
  <2>4. running[o] = "FALSE"
    BY <2>2, <2>3, <1>2, OrderFacts DEF RunningAt
  <2>5. QED
    BY <2>4, <1>2 DEF CInv, Own, Finished
<1>6. CASE JoinHandle(Main)
  <2>1. call[Main].op = "handle"
    BY <1>6 DEF JoinHandle, InCall
  <2>2. Enter(Main, "wait", call[Main].obj, handle[o])
    BY <2>1, <1>2, <1>3, <1>6 DEF JoinHandle
  <2>3. QED
    BY <2>2, <1>4, Types DEF Enter, CInv
<1>7. CASE JoinDone(Main)
  <2>1. call[Main].at = handle[o] /\ stage[call[Main].at] = "exited"
    BY <1>7 DEF JoinDone, InCall, CInv, Own, MainCall
  <2>2. QED
    BY <2>1, <1>2
<1>8. QED
  BY <1>5, <1>6, <1>7 DEF MainJoining, Joining

LEMMA MainJoiningKeeps ==
  ASSUME CInv, MainJoining
  PROVE  Own'
<1> DEFINE o == Order[pc - N]
<1>1. call[Main].op # "none"
  BY DEF MainJoining, Joining, Look, JoinHandle, JoinDone, InCall
<1>2. /\ pc - N \in 1..N /\ o \in Workers /\ o \in Objs /\ call[Main].obj = o
      /\ handle[o] \in Tids /\ task[handle[o]] = o
      /\ pc \in N + 1..2 * N /\ N \in Nat
  BY <1>1, JoinedFacts, OrderFacts DEF CInv, Own, MainCall
<1>3. /\ UNCHANGED <<at, todo, reg, shared, task, proto, running, handle, holder>>
      /\ pc' = IF call'[Main] = NoCall THEN pc + 1 ELSE pc
  BY DEF MainJoining, Joining, Look, JoinHandle, JoinDone, work
<1>4. /\ NoCall.op = "none"
      /\ \A t \in Tids : call'[t] = call[t]
  BY Types DEF MainJoining, Joining, Look, JoinHandle, JoinDone, Enter, Leave, NoCall, CInv
<1>5. \/ stage' = stage
      \/ /\ stage' = [stage EXCEPT ![handle[o]] = "joined"]
         /\ stage[handle[o]] = "exited"
         /\ call'[Main] = NoCall
  <2>1. CASE Look(Main) \/ JoinHandle(Main)
    BY <2>1 DEF Look, JoinHandle
  <2>2. CASE JoinDone(Main)
    <3>1. call[Main].at = handle[o]
      BY <2>2 DEF JoinDone, InCall, CInv, Own, MainCall
    <3>2. QED
      BY <2>2, <3>1, Types DEF JoinDone, Leave, CInv
  <2>3. QED
    BY <2>1, <2>2 DEF MainJoining, Joining
<1>6. CTypeOK'
  BY <1>2, <1>3 DEF CInv, Own, CTypeOK
<1>7. Started'
  <2>1. CASE stage' = stage
    BY <2>1, <1>2, <1>3 DEF CInv, Own, Started
  <2>2. CASE /\ stage' = [stage EXCEPT ![handle[o]] = "joined"]
             /\ stage[handle[o]] = "exited"
             /\ call'[Main] = NoCall
    <3>1. pc' = pc + 1 /\ N + (pc - N) < pc'
      BY <2>2, <1>2, <1>3
    <3>2. \A t \in Tids : t # handle[o] => stage'[t] = stage[t]
      BY <2>2, Types DEF CInv
    <3>3. ASSUME NEW t \in Tids, stage'[t] # "unborn"
          PROVE  \E k \in 1..N : k < pc' /\ task'[t] = Order[k]
      <4>1. stage[t] # "unborn"
        BY <3>2, <3>3, <2>2
      <4>2. PICK k \in 1..N : k < pc /\ task[t] = Order[k]
        BY <4>1 DEF CInv, Own, Started
      <4>3. QED
        BY <4>2, <3>1, <1>2, <1>3
    <3>4. ASSUME NEW t \in Tids, stage'[t] = "joined"
          PROVE  \E k \in 1..N : N + k < pc' /\ task'[t] = Order[k]
      <4>1. CASE t = handle[o]
        BY <4>1, <3>1, <1>2, <1>3
      <4>2. CASE t # handle[o]
        <5>1. PICK k \in 1..N : N + k < pc /\ task[t] = Order[k]
          BY <4>2, <3>2, <3>4 DEF CInv, Own, Started
        <5>2. QED
          BY <5>1, <3>1, <1>2, <1>3
      <4>3. QED
        BY <4>1, <4>2
    <3>5. \A k \in 1..N : handle'[Order[k]] \in Tids /\ task'[handle'[Order[k]]] = Order[k]
      BY <1>2, <1>3 DEF CInv, Own, Started
    <3>6. QED
      BY <3>3, <3>4, <3>5 DEF Started
  <2>3. QED
    BY <1>5, <2>1, <2>2
<1>8. MainCall'
  <2>1. CASE call'[Main] = NoCall
    BY <2>1, <1>3, <1>4 DEF CInv, Own, MainCall
  <2>2. CASE call'[Main] # NoCall
    <3>1. pc' = pc
      BY <2>2, <1>3
    <3>2. call'[Main].obj = o
      BY <1>1, <1>2, <2>2, Types
      DEF MainJoining, Joining, Look, JoinHandle, JoinDone, Enter, Leave, CInv
    <3>3. call'[Main].op = "look" => call'[Main].at \in {o, Proto, NULL}
      <4>1. CASE Look(Main)
        <5>1. call[Main].at \in {o, Proto, NULL}
          BY <4>1 DEF Look, InCall, CInv, Own, MainCall
        <5>2. \/ call'[Main] = [op |-> "handle", obj |-> o, at |-> NULL]
              \/ /\ RunningAt(call[Main].at) = "unset"
                 /\ call'[Main] = [op |-> "look", obj |-> o, at |-> proto[call[Main].at]]
          BY <4>1, <2>2, <1>2, Types DEF Look, Enter, Leave, CInv
        <5>3. RunningAt(call[Main].at) = "unset" => call[Main].at # NULL
          BY DEF RunningAt
        <5>4. proto[o] = Proto /\ proto[Proto] = NULL
          BY <1>2 DEF CInv, Own, MainCall
        <5>5. CASE call'[Main] = [op |-> "handle", obj |-> o, at |-> NULL]
          BY <5>5
        <5>6. CASE /\ RunningAt(call[Main].at) = "unset"
                   /\ call'[Main] = [op |-> "look", obj |-> o, at |-> proto[call[Main].at]]
          BY <5>6, <5>1, <5>3, <5>4
        <5>7. QED
          BY <5>2, <5>5, <5>6
      <4>2. CASE JoinHandle(Main)
        BY <4>2, Types DEF JoinHandle, InCall, Enter, Leave, NoCall, CInv
      <4>3. CASE JoinDone(Main)
        BY <4>3, <2>2, Types DEF JoinDone, Leave, CInv
      <4>4. QED
        BY <4>1, <4>2, <4>3 DEF MainJoining, Joining
    <3>4. call'[Main].op = "wait" => call'[Main].at = handle[o]
      <4>1. CASE Look(Main)
        BY <4>1, Types DEF Look, InCall, Enter, Leave, NoCall, CInv
      <4>2. CASE JoinHandle(Main)
        BY <4>2, <1>2, Types DEF JoinHandle, InCall, Enter, Leave, NoCall, CInv
      <4>3. CASE JoinDone(Main)
        BY <4>3, <2>2, Types DEF JoinDone, Leave, CInv
      <4>4. QED
        BY <4>1, <4>2, <4>3 DEF MainJoining, Joining
    <3>5. QED
      BY <3>1, <3>2, <3>3, <3>4, <1>2, <1>3, <1>4 DEF CInv, Own, MainCall
  <2>3. QED
    BY <2>1, <2>2
<1>9. Finished'
  <2>1. \A t \in Tids : stage'[t] \in {"ending", "exited", "joined"}
                          => stage[t] \in {"ending", "exited", "joined"}
    BY <1>5, <1>2, Types DEF CInv
  <2>2. ASSUME NEW k \in 1..N, N + k < pc' PROVE todo[Order[k]] = 0
    <3>1. CASE N + k < pc
      BY <3>1 DEF CInv, Own, Finished
    <3>2. CASE ~(N + k < pc)
      <4>1. call'[Main] = NoCall /\ k = pc - N
        BY <3>2, <2>2, <1>2, <1>3
      <4>2. QED
        BY <4>1, JoinReturns
    <3>3. QED
      BY <3>1, <3>2
  <2>3. QED
    BY <2>1, <2>2, <1>3 DEF CInv, Own, Finished
<1>10. Exclusion'
  BY <1>3, <1>5, <1>2, Types DEF CInv, Own, Exclusion, Inside
<1>11. QED
  BY <1>6, <1>7, <1>8, <1>9, <1>10 DEF Own

(* Main prints, or the process ends, or nothing happens.                   *)
LEMMA MainEndKeeps ==
  ASSUME CInv, MainPrint \/ MainEnd \/ UNCHANGED svars
  PROVE  Own'
<1>1. /\ UNCHANGED <<stage, task, proto, running, handle, call, holder, at, todo, reg, shared>>
      /\ \/ pc' = pc
         \/ pc = 2 * N + 1 /\ pc' = pc + 1 /\ call[Main].op = "none"
  BY DEF MainPrint, MainEnd, Exit, Idle, vars, work, svars
<1>2. N \in Nat
  BY OrderFacts
<1>3. CASE pc' = pc
  BY <1>1, <1>3 DEF CInv, Own, CTypeOK, Started, MainCall, Finished, Exclusion, Inside
<1>4. CASE pc = 2 * N + 1 /\ pc' = pc + 1 /\ call[Main].op = "none"
  <2>1. CTypeOK' /\ MainCall' /\ Exclusion'
    BY <1>1, <1>2, <1>4 DEF CInv, Own, CTypeOK, MainCall, Exclusion, Inside
  <2>2. \A k \in 1..N : k < pc /\ N + k < pc /\ k < pc' /\ N + k < pc'
    BY <1>2, <1>4
  <2>3. Started' /\ Finished'
    BY <1>1, <2>2 DEF CInv, Own, Started, Finished
  <2>4. QED
    BY <2>1, <2>3 DEF Own
<1>5. QED
  BY <1>1, <1>3, <1>4

-----------------------------------------------------------------------------
(***************************************************************************)
(* The workers.                                                            *)
(***************************************************************************)
(* The thread that is at a place of its loop runs for a worker, and no     *)
(* other worker is inside when it is.                                      *)
LEMMA AtFacts ==
  ASSUME CInv, NEW t \in Tids, NEW where, At(t, where)
  PROVE  /\ task[t] \in Workers /\ at[task[t]] = where
         /\ stage[t] = "body" /\ call[t].op = "none"
         /\ where \in {"read", "write", "unlock"} =>
              \A o \in Workers : Inside(o) => o = task[t]
<1>1. stage[t] = "body" /\ call[t].op = "none" /\ at[task[t]] = where
  BY DEF At, Idle
<1>2. task[t] \in Workers
  BY <1>1, TaskFacts
<1>3. ASSUME where \in {"read", "write", "unlock"}, NEW o \in Workers, Inside(o)
      PROVE  o = task[t]
  BY <1>1, <1>2, <1>3 DEF CInv, Own, Exclusion, Inside
<1>4. QED
  BY <1>1, <1>2, <1>3

LEMMA WorkerLockKeeps ==
  ASSUME CInv, NEW t \in Tids, WorkerLock(t)
  PROVE  Own'
<1>1. /\ task[t] \in Workers /\ stage[t] = "body" /\ todo[task[t]] > 0
      /\ holder[mutex] = NULL
      /\ holder' = [holder EXCEPT ![mutex] = t]
      /\ at' = [at EXCEPT ![task[t]] = "read"]
      /\ UNCHANGED <<pc, todo, reg, shared, stage, task, proto, running, handle, call>>
  BY AtFacts DEF WorkerLock, Lock, GoTo
<1>2. CTypeOK' /\ Started' /\ MainCall' /\ Finished'
  BY <1>1 DEF CInv, Own, CTypeOK, Started, MainCall, Finished
<1>3. \A o \in Workers : ~Inside(o)
  BY <1>1, Types DEF CInv, Own, Exclusion
<1>4. Exclusion'
  BY <1>1, <1>3, Types DEF CInv, Own, CTypeOK, Exclusion, Inside
<1>5. QED
  BY <1>2, <1>4 DEF Own

LEMMA WorkerReadKeeps ==
  ASSUME CInv, NEW t \in Tids, WorkerRead(t)
  PROVE  Own'
<1>1. /\ At(t, "read")
      /\ at' = [at EXCEPT ![task[t]] = "write"]
      /\ reg' = [reg EXCEPT ![task[t]] = shared]
      /\ UNCHANGED <<pc, todo, shared, stage, task, proto, running, handle, call, holder>>
  BY DEF WorkerRead, GoTo, vars
<1>2. task[t] \in Workers /\ \A o \in Workers : Inside(o) => o = task[t]
  BY <1>1, AtFacts
<1>3. at[task[t]] = "read"
  BY <1>1 DEF At
<1>4. CTypeOK' /\ Started' /\ MainCall' /\ Finished'
  BY <1>1, <1>2 DEF CInv, Own, CTypeOK, Started, MainCall, Finished
<1>5. Exclusion'
  BY <1>1, <1>2, <1>3 DEF CInv, Own, CTypeOK, Exclusion, Inside
<1>6. QED
  BY <1>4, <1>5 DEF Own

LEMMA WorkerWriteKeeps ==
  ASSUME CInv, NEW t \in Tids, WorkerWrite(t)
  PROVE  /\ Own'
         /\ task[t] \in Workers /\ todo[task[t]] > 0
         /\ todo' = [todo EXCEPT ![task[t]] = @ - 1]
         /\ shared' = shared + 1 /\ printed' = printed
<1>1. /\ At(t, "write")
      /\ at' = [at EXCEPT ![task[t]] = "unlock"]
      /\ reg' = [reg EXCEPT ![task[t]] = 0]
      /\ todo' = [todo EXCEPT ![task[t]] = @ - 1]
      /\ shared' = reg[task[t]] + 1
      /\ UNCHANGED <<pc, stage, task, proto, running, handle, call, holder, printed>>
  BY DEF WorkerWrite, GoTo, vars
<1>2. /\ task[t] \in Workers /\ at[task[t]] = "write"
      /\ \A o \in Workers : Inside(o) => o = task[t]
  BY <1>1, AtFacts
<1>3. reg[task[t]] = shared /\ todo[task[t]] > 0 /\ todo[task[t]] \in Nat /\ shared \in Nat
  BY <1>2 DEF CInv, Own, CTypeOK, Exclusion
<1>4. \A o \in Workers : todo[o] = 0 => todo'[o] = 0
  BY <1>1, <1>2, <1>3 DEF CInv, Own, CTypeOK
<1>5. CTypeOK' /\ Started' /\ MainCall'
  BY <1>1, <1>2, <1>3 DEF CInv, Own, CTypeOK, Started, MainCall
<1>6. Finished'
  <2>1. \A u \in Tids : stage[u] # "unborn" => task[u] \in Workers
    BY TaskFacts
  <2>2. QED
    BY <1>1, <1>4, <2>1, OrderFacts DEF CInv, Own, Finished
<1>7. Exclusion'
  BY <1>1, <1>2, <1>3 DEF CInv, Own, CTypeOK, Exclusion, Inside
<1>8. QED
  BY <1>1, <1>2, <1>3, <1>5, <1>6, <1>7 DEF Own

LEMMA WorkerUnlockKeeps ==
  ASSUME CInv, NEW t \in Tids, WorkerUnlock(t)
  PROVE  Own'
<1>1. /\ At(t, "unlock")
      /\ at' = [at EXCEPT ![task[t]] = "lock"]
      /\ UNCHANGED <<pc, todo, reg, shared, stage, task, proto, running, handle, call>>
  BY DEF WorkerUnlock, Unlock, GoTo
<1>2. task[t] \in Workers /\ \A o \in Workers : Inside(o) => o = task[t]
  BY <1>1, AtFacts
<1>3. CTypeOK' /\ Started' /\ MainCall' /\ Finished'
  BY <1>1, <1>2 DEF CInv, Own, CTypeOK, Started, MainCall, Finished
<1>4. Exclusion'
  BY <1>1, <1>2 DEF CInv, Own, CTypeOK, Exclusion, Inside
<1>5. QED
  BY <1>3, <1>4 DEF Own

(* A thread that has no more to do is outside.                             *)
LEMMA WorkerFinishKeeps ==
  ASSUME CInv, NEW t \in Tids, WorkerFinish(t)
  PROVE  Own'
<1>1. /\ At(t, "lock") /\ todo[task[t]] = 0
      /\ running' = [running EXCEPT ![task[t]] = "FALSE"]
      /\ stage' = [stage EXCEPT ![t] = "ending"]
      /\ UNCHANGED <<pc, at, todo, reg, shared, task, proto, handle, call, holder>>
  BY DEF WorkerFinish, Finish, work
<1>2. task[t] \in Workers /\ at[task[t]] = "lock" /\ stage[t] = "body"
  BY <1>1, AtFacts
<1>3. /\ \A u \in Tids : u # t => stage'[u] = stage[u]
      /\ stage'[t] = "ending"
      /\ running'[Proto] = running[Proto]
      /\ \A o \in Workers : o # task[t] => running'[o] = running[o]
  BY <1>1, <1>2, OrderFacts, ProtoIsObject, Types DEF CInv
<1>4. CTypeOK' /\ MainCall'
  BY <1>1, <1>3 DEF CInv, Own, CTypeOK, MainCall
<1>5. Started'
  BY <1>1, <1>2, <1>3 DEF CInv, Own, Started
<1>6. Finished'
  BY <1>1, <1>3 DEF CInv, Own, Finished
<1>7. Exclusion'
  BY <1>1, <1>2, <1>3 DEF CInv, Own, Exclusion, Inside
<1>8. QED
  BY <1>4, <1>5, <1>6, <1>7 DEF Own

LEMMA WorkerThreadKeeps ==
  ASSUME CInv, NEW t \in Tids, WorkerThread(t)
  PROVE  Own'
<1>1. UNCHANGED <<pc, at, todo, reg, shared, task, proto, handle, call, holder>>
  BY DEF WorkerThread, Begin, ThreadExit, work
<1>2. \/ /\ stage[t] = "created" /\ stage' = [stage EXCEPT ![t] = "body"]
         /\ running' = [running EXCEPT ![task[t]] = "TRUE"]
      \/ /\ stage[t] = "ending" /\ stage' = [stage EXCEPT ![t] = "exited"]
         /\ running' = running
  BY DEF WorkerThread, Begin, ThreadExit
<1>3. task[t] \in Workers
  BY <1>2, TaskFacts
<1>4. /\ \A u \in Tids : u # t => stage'[u] = stage[u]
      /\ running'[Proto] = running[Proto]
      /\ \A o \in Workers : running'[o] = "FALSE" => running[o] = "FALSE"
  BY <1>2, <1>3, OrderFacts, ProtoIsObject, Types DEF CInv
<1>5. /\ stage[t] # "unborn" /\ stage'[t] # "joined" /\ stage[t] # "body"
      /\ stage'[t] \in {"ending", "exited", "joined"} => stage[t] = "ending"
  BY <1>2, Types DEF CInv
<1>6. CTypeOK' /\ MainCall'
  BY <1>1, <1>4 DEF CInv, Own, CTypeOK, MainCall
<1>7. Started'
  BY <1>1, <1>4, <1>5 DEF CInv, Own, Started
<1>8. Finished'
  BY <1>1, <1>4, <1>5 DEF CInv, Own, Finished
<1>9. Exclusion'
  BY <1>1, <1>4, <1>5 DEF CInv, Own, Exclusion, Inside
<1>10. QED
  BY <1>6, <1>7, <1>8, <1>9 DEF Own

-----------------------------------------------------------------------------
LEMMA InitCInv == SInit => CInv
<1> SUFFICES ASSUME SInit PROVE CInv
  OBVIOUS
<1>1. /\ \A t \in All : call[t] = NoCall /\ call[t].op = "none"
      /\ \A t \in Tids : stage[t] = "unborn"
  BY NoCallFacts, SetFacts DEF SInit
<1>2. TypeOK
  BY ProtoIsObject, OrderFacts, NoCallFacts DEF SInit, TypeOK, Stages
<1>3. Tasks /\ RunningSlot
  BY <1>1, SetFacts DEF SInit, Tasks, RunningSlot, All
<1>4. Protos
  <2>1. \A o \in Objs : proto[o] # NULL => o \in Workers /\ proto[o] = Proto
    BY DEF SInit
  <2>2. QED
    BY <2>1 DEF SInit, Protos
<1>5. Lookups /\ WaitsAreValid
  BY <1>1 DEF Lookups, WaitsAreValid
<1>6. CTypeOK
  BY OrderFacts, RepsAreNat DEF SInit, CTypeOK
<1>7. Started /\ Finished
  <2>1. pc = 1 /\ \A k \in 1..N : ~(k < pc) /\ ~(N + k < pc)
    BY OrderFacts DEF SInit
  <2>2. \A o \in Workers : running[o] = "unset"
    BY OrderFacts DEF SInit
  <2>3. QED
    BY <1>1, <2>1, <2>2 DEF Started, Finished
<1>8. MainCall
  BY <1>1, SetFacts, ProtoIsObject, OrderFacts DEF SInit, MainCall
<1>9. Exclusion
  BY DEF SInit, Exclusion, Inside
<1>10. QED
  BY <1>2, <1>3, <1>4, <1>5, <1>6, <1>7, <1>8, <1>9 DEF CInv, TInv, Own

LEMMA NextCInv == CInv /\ [SNext]_svars => CInv'
<1> SUFFICES ASSUME CInv, [SNext]_svars PROVE CInv'
  OBVIOUS
<1>1. TInv'
  BY ThreadStep, NextTInv DEF CInv
<1>2. ASSUME MainStep PROVE Own'
  BY <1>2, MainStartKeeps, MainJoinKeeps, MainJoiningKeeps, MainEndKeeps DEF MainStep
<1>3. ASSUME NEW t \in Tids, WorkerStep(t) PROVE Own'
  BY <1>3, WorkerLockKeeps, WorkerReadKeeps, WorkerWriteKeeps, WorkerUnlockKeeps,
     WorkerFinishKeeps, WorkerThreadKeeps DEF WorkerStep
<1>4. ASSUME Over \/ UNCHANGED svars PROVE Own'
  BY <1>4, MainEndKeeps DEF Over
<1>5. Own'
  BY <1>2, <1>3, <1>4 DEF SNext
<1>6. QED
  BY <1>1, <1>5 DEF CInv

THEOREM AlwaysCInv == SSpec => []CInv
BY InitCInv, NextCInv, PTL DEF SSpec

(* Whatever the number of threads and of repetitions, what a thread has    *)
(* read in its critical section is still what the slot holds when it       *)
(* writes.                                                                 *)
THEOREM NoUpdateIsLost == SSpec => []NoLostUpdate
<1>1. CInv => NoLostUpdate
  BY SetFacts DEF CInv, Own, Exclusion, NoLostUpdate
<1>2. QED
  BY AlwaysCInv, <1>1, PTL

(* The program of threads, mutex and joins implements the program that     *)
(* increments in one step and prints when no increment is left.            *)
THEOREM CounterIsAtomic == SSpec => ImplementsAtomic
<1>1. SInit => Atomic!Init
  BY DEF SInit, Atomic!Init
<1>2. CInv /\ [SNext]_svars => [Atomic!Next]_(Atomic!vars)
  <2> SUFFICES ASSUME CInv, [SNext]_svars PROVE [Atomic!Next]_(Atomic!vars)
    OBVIOUS
  <2>1. CASE MainPrint
    <3>1. pc = 2 * N + 1 /\ printed' = shared /\ UNCHANGED <<shared, todo>>
      BY <2>1 DEF MainPrint, work
    <3>2. \A k \in 1..N : todo[Order[k]] = 0
      BY <3>1, OrderFacts DEF CInv, Own, Finished
    <3>3. \A o \in Workers : todo[o] = 0
      BY <3>2, OrderFacts DEF Workers
    <3>4. QED
      BY <3>1, <3>3 DEF Atomic!Next, Atomic!PrintSlot
  <2>2. ASSUME NEW t \in Tids, WorkerWrite(t) PROVE Atomic!Next
    <3>1. /\ task[t] \in Workers /\ todo[task[t]] > 0
          /\ todo' = [todo EXCEPT ![task[t]] = @ - 1]
          /\ shared' = shared + 1 /\ printed' = printed
      BY <2>2, WorkerWriteKeeps
    <3>2. Atomic!Increment(task[t])
      BY <3>1 DEF Atomic!Increment
    <3>3. QED
      BY <3>1, <3>2 DEF Atomic!Next
  <2>3. CASE MainStart \/ MainJoin \/ MainJoining \/ MainEnd \/ Over \/ UNCHANGED svars
    BY <2>3 DEF MainStart, MainJoin, MainJoining, MainEnd, Over, svars, work, Atomic!vars
  <2>4. ASSUME NEW t \in Tids,
               \/ WorkerLock(t) \/ WorkerRead(t) \/ WorkerUnlock(t)
               \/ WorkerFinish(t) \/ WorkerThread(t)
        PROVE  UNCHANGED Atomic!vars
    BY <2>4 DEF WorkerLock, WorkerRead, WorkerUnlock, WorkerFinish, WorkerThread, work, Atomic!vars
  <2>5. QED
    BY <2>1, <2>2, <2>3, <2>4 DEF SNext, MainStep, WorkerStep
<1>3. QED
  BY AlwaysCInv, <1>1, <1>2, PTL DEF SSpec, ImplementsAtomic, Atomic!Spec

-----------------------------------------------------------------------------
(***************************************************************************)
(* The sum.  TLAPS has no induction: a proof takes the least counterexample. *)
(***************************************************************************)
LEMMA LeastNat ==
  ASSUME NEW S \in SUBSET Nat, S # {}
  PROVE  \E m \in S : \A k \in S : m <= k
<1>1. PICK m \in S : \A k \in S : ~ (<<k, m>> \in OpToRel(<, Nat))
  BY WFMin, NatLessThanWellFounded
<1>2. ASSUME NEW k \in S PROVE m <= k
  <2>1. k \in Nat /\ m \in Nat
    OBVIOUS
  <2>2. ~ (k < m)
    BY <1>1, <2>1 DEF OpToRel
  <2>3. QED
    BY <2>1, <2>2
<1>3. QED
  BY <1>2

\* S adds up f along the program's workers, the first j of them.
Adds(S, f, j) == /\ S \in [0..N -> Int]
                 /\ S[0] = 0
                 /\ \A k \in 1..j : S[k] = S[k - 1] + f[Order[k]]

(* The definition of SumTo is well-founded.                                *)
LEMMA SumToAdds == Adds(SumTo, Reps, N)
<1> DEFINE Bad == {j \in 0..N : \A S \in [0..N -> Int] : ~ Adds(S, Reps, j)}
<1>1. N \in Nat /\ \A k \in 1..N : Order[k] \in Workers /\ Reps[Order[k]] \in Int
  BY OrderFacts, RepsAreNat
<1>2. Bad = {}
  <2> SUFFICES ASSUME Bad # {} PROVE FALSE
    OBVIOUS
  <2>0. Bad \in SUBSET Nat /\ Bad # {}
    BY <1>1
  <2>1. PICK m \in Bad : \A j \in Bad : m <= j
    <3> HIDE DEF Bad
    <3>1. QED
      BY <2>0, LeastNat
  <2>2. m \in 0..N /\ \A S \in [0..N -> Int] : ~ Adds(S, Reps, m)
    OBVIOUS
  <2>3. m # 0
    <3>1. [k \in 0..N |-> 0] \in [0..N -> Int] /\ [k \in 0..N |-> 0][0] = 0
      BY <1>1
    <3>2. Adds([k \in 0..N |-> 0], Reps, 0)
      BY <3>1 DEF Adds
    <3>3. QED
      BY <2>2, <3>1, <3>2
  <2>4. m - 1 \in 0..N /\ m - 1 \notin Bad
    BY <1>1, <2>1, <2>2, <2>3
  <2>5. PICK S \in [0..N -> Int] : Adds(S, Reps, m - 1)
    BY <2>4
  <2> DEFINE U == [k \in 0..N |-> IF k = m THEN S[m - 1] + Reps[Order[m]] ELSE S[k]]
  <2>6. S[m - 1] + Reps[Order[m]] \in Int
    <3>1. m \in 1..N /\ S[m - 1] \in Int
      BY <2>2, <2>3, <2>4
    <3>2. QED
      BY <1>1, <3>1
  <2>7. /\ U \in [0..N -> Int] /\ U[m] = S[m - 1] + Reps[Order[m]]
        /\ \A k \in 0..N : k # m => U[k] = S[k]
    BY <2>2, <2>6
  <2> HIDE DEF U, Bad
  <2>8. Adds(U, Reps, m)
    <3>1. U[0] = 0
      BY <1>1, <2>3, <2>5, <2>7 DEF Adds
    <3>2. ASSUME NEW k \in 1..m PROVE U[k] = U[k - 1] + Reps[Order[k]]
      <4>1. k - 1 \in 0..N /\ k - 1 # m /\ k \in 0..N
        BY <1>1, <2>2
      <4>2. k # m => k \in 1..m - 1
        BY <2>2
      <4>3. QED
        BY <2>5, <2>7, <4>1, <4>2 DEF Adds
    <3>3. QED
      BY <2>7, <3>1, <3>2 DEF Adds
  <2>9. QED
    BY <2>2, <2>7, <2>8
<1>3. PICK S \in [0..N -> Int] : Adds(S, Reps, N)
  <2>1. N \in 0..N /\ N \notin Bad
    BY <1>1, <1>2
  <2>2. QED
    BY <2>1
<1> DEFINE Body(f) == [k \in 0..N |-> IF k = 0 THEN 0 ELSE f[k - 1] + Reps[Order[k]]]
<1>4. S = Body(S)
  <2>1. \A k \in 0..N : k # 0 => k \in 1..N
    BY <1>1
  <2>2. \A k \in 0..N : S[k] = Body(S)[k]
    BY <1>3, <2>1 DEF Adds
  <2>3. QED
    BY <2>2
<1>5. SumTo = Body(SumTo)
  <2>1. SumTo = CHOOSE f : f = Body(f)
    BY DEF SumTo
  <2> HIDE DEF Body
  <2>2. QED
    BY <1>4, <2>1
<1> DEFINE Differ == {j \in 0..N : SumTo[j] # S[j]}
<1>6. /\ DOMAIN SumTo = 0..N
      /\ SumTo[0] = 0
      /\ \A k \in 1..N : SumTo[k] = SumTo[k - 1] + Reps[Order[k]]
  <2>1. 0 \in 0..N /\ \A k \in 1..N : k \in 0..N /\ k # 0
    BY <1>1
  <2>2. QED
    BY <1>5, <2>1
<1>7. Differ = {}
  <2> SUFFICES ASSUME Differ # {} PROVE FALSE
    OBVIOUS
  <2>0. Differ \in SUBSET Nat /\ Differ # {}
    BY <1>1
  <2>1. PICK m \in Differ : \A j \in Differ : m <= j
    <3> HIDE DEF Differ
    <3>1. QED
      BY <2>0, LeastNat
  <2>2. m \in 0..N /\ SumTo[m] # S[m]
    OBVIOUS
  <2>3. m # 0
    BY <1>3, <1>6, <2>2 DEF Adds
  <2>4. m \in 1..N /\ m - 1 \in 0..N /\ m - 1 \notin Differ
    BY <1>1, <2>1, <2>2, <2>3
  <2>5. SumTo[m - 1] = S[m - 1]
    BY <2>4
  <2>6. QED
    BY <1>3, <1>6, <2>2, <2>4, <2>5 DEF Adds
<1>8. SumTo \in [0..N -> Int]
  <2>1. \A j \in 0..N : SumTo[j] = S[j]
    BY <1>7
  <2>2. SumTo = [j \in 0..N |-> SumTo[j]]
    BY <1>5
  <2> HIDE DEF Body
  <2>3. QED
    BY <2>1, <2>2
<1>9. QED
  BY <1>6, <1>8 DEF Adds

(* Nothing left to add.                                                    *)
LEMMA AddsZero ==
  ASSUME NEW T, NEW f, Adds(T, f, N), \A o \in Workers : f[o] = 0
  PROVE  T[N] = 0
<1> DEFINE Bad == {j \in 0..N : T[j] # 0}
<1>1. N \in Nat /\ \A k \in 1..N : f[Order[k]] = 0
  BY OrderFacts
<1>2. Bad = {}
  <2> SUFFICES ASSUME Bad # {} PROVE FALSE
    OBVIOUS
  <2>0. Bad \in SUBSET Nat /\ Bad # {}
    BY <1>1
  <2>1. PICK m \in Bad : \A j \in Bad : m <= j
    <3> HIDE DEF Bad
    <3>1. QED
      BY <2>0, LeastNat
  <2>2. m \in 0..N /\ T[m] # 0
    OBVIOUS
  <2>3. m \in 1..N /\ m - 1 \in 0..N
    BY <1>1, <2>2 DEF Adds
  <2>4. T[m - 1] = 0
    BY <2>1, <2>3
  <2>5. T[m] = T[m - 1] + f[Order[m]] /\ f[Order[m]] = 0
    BY <1>1, <2>3 DEF Adds
  <2>6. QED
    BY <2>2, <2>4, <2>5
<1>3. QED
  BY <1>1, <1>2

(* An increment: what is left is one less.                                 *)
LEMMA AddsLess ==
  ASSUME NEW T, NEW f \in [Workers -> Nat], NEW w \in Workers, Adds(T, f, N),
         NEW g, g = [f EXCEPT ![w] = @ - 1]
  PROVE  \E U : Adds(U, g, N) /\ U[N] = T[N] - 1
<1>1. PICK j \in 1..N : w = Order[j]
  BY OrderFacts DEF Workers
<1>2. /\ N \in Nat /\ j \in 0..N
      /\ \A k \in 1..N : Order[k] \in Workers /\ (Order[k] = w <=> k = j)
      /\ \A k \in 1..N : k \in 0..N /\ k - 1 \in 0..N
  BY <1>1, OrderFacts
<1> DEFINE U == [k \in 0..N |-> IF k >= j THEN T[k] - 1 ELSE T[k]]
<1>3. /\ U \in [0..N -> Int]
      /\ \A k \in 0..N : U[k] = IF k >= j THEN T[k] - 1 ELSE T[k]
  BY DEF Adds
<1> HIDE DEF U
<1>4. \A k \in 1..N : g[Order[k]] = IF k = j THEN f[Order[k]] - 1 ELSE f[Order[k]]
  BY <1>2
<1>5. \A k \in 1..N : f[Order[k]] \in Int /\ T[k] \in Int /\ T[k - 1] \in Int
  BY <1>2 DEF Adds
<1>6. ASSUME NEW k \in 1..N PROVE U[k] = U[k - 1] + g[Order[k]]
  <2>1. /\ T[k] = T[k - 1] + f[Order[k]] /\ f[Order[k]] \in Int
        /\ T[k] \in Int /\ T[k - 1] \in Int /\ k \in Int /\ j \in Int
    BY <1>1, <1>2, <1>5 DEF Adds
  <2>2. /\ U[k] = IF k >= j THEN T[k] - 1 ELSE T[k]
        /\ U[k - 1] = IF k - 1 >= j THEN T[k - 1] - 1 ELSE T[k - 1]
        /\ g[Order[k]] = IF k = j THEN f[Order[k]] - 1 ELSE f[Order[k]]
    BY <1>2, <1>3, <1>4
  <2> DEFINE d == f[Order[k]]
             t == T[k]
             r == T[k - 1]
  <2> HIDE DEF d, t, r
  <2>3. t = r + d /\ d \in Int /\ t \in Int /\ r \in Int
    BY <2>1 DEF d, t, r
  <2>4. (IF k >= j THEN t - 1 ELSE t)
        = (IF k - 1 >= j THEN r - 1 ELSE r) + (IF k = j THEN d - 1 ELSE d)
    BY <2>1, <2>3
  <2>5. QED
    BY <2>2, <2>4 DEF d, t, r
<1>7. U[0] = 0 /\ U[N] = T[N] - 1
  <2>1. 0 \in 0..N /\ N \in 0..N /\ ~ (0 >= j) /\ N >= j
    BY <1>1, <1>2
  <2>2. QED
    BY <1>3, <2>1 DEF Adds
<1>8. QED
  BY <1>3, <1>6, <1>7 DEF Adds

\* What is in the slot and what is left make up the sum.
Conserved == /\ \E T : Adds(T, todo, N) /\ shared + T[N] = SumTo[N]
             /\ ShouldBe100

(* Whatever the number of threads and of repetitions, the program prints   *)
(* the sum of the repetitions.                                             *)
THEOREM PrintsTheSum == SSpec => []ShouldBe100
<1>1. SInit => Conserved
  <2> SUFFICES ASSUME SInit PROVE Conserved
    OBVIOUS
  <2>1. printed = NULL /\ shared = 0 /\ todo = [o \in Workers |-> Reps[o]]
    BY DEF SInit
  <2>2. Adds(SumTo, todo, N) /\ SumTo[N] \in Int
    BY <2>1, SumToAdds, OrderFacts DEF Adds
  <2>3. QED
    BY <2>1, <2>2 DEF Conserved, ShouldBe100
<1>2. CInv /\ Conserved /\ [Atomic!Next]_(Atomic!vars) => Conserved'
  <2> SUFFICES ASSUME CInv, Conserved, [Atomic!Next]_(Atomic!vars) PROVE Conserved'
    OBVIOUS
  <2>1. PICK T : Adds(T, todo, N) /\ shared + T[N] = SumTo[N]
    BY DEF Conserved
  <2>2. T[N] \in Int /\ shared \in Int /\ todo \in [Workers -> Nat]
    BY <2>1, OrderFacts DEF Adds, CInv, Own, CTypeOK
  <2>3. CASE Atomic!PrintSlot
    <3>1. T[N] = 0
      BY <2>1, <2>3, AddsZero DEF Atomic!PrintSlot
    <3>2. printed' = SumTo[N] /\ UNCHANGED <<shared, todo>>
      BY <2>1, <2>2, <2>3, <3>1 DEF Atomic!PrintSlot
    <3>3. QED
      BY <2>1, <3>2 DEF Conserved, ShouldBe100
  <2>4. ASSUME NEW w \in Workers, Atomic!Increment(w) PROVE Conserved'
    <3>1. todo' = [todo EXCEPT ![w] = @ - 1] /\ shared' = shared + 1 /\ printed' = printed
      BY <2>4 DEF Atomic!Increment
    <3>2. PICK U : Adds(U, todo', N) /\ U[N] = T[N] - 1
      BY <2>1, <2>2, <3>1, AddsLess
    <3>3. shared' + U[N] = SumTo[N]
      BY <2>1, <2>2, <3>1, <3>2
    <3>4. QED
      BY <3>1, <3>2, <3>3 DEF Conserved, ShouldBe100
  <2>5. CASE UNCHANGED Atomic!vars
    BY <2>1, <2>5 DEF Atomic!vars, Conserved, ShouldBe100
  <2>6. QED
    BY <2>3, <2>4, <2>5 DEF Atomic!Next
<1>3. Conserved => ShouldBe100
  BY DEF Conserved
<1>4. QED
  BY <1>1, <1>2, <1>3, AlwaysCInv, CounterIsAtomic, PTL
     DEF SSpec, ImplementsAtomic, Atomic!Spec

(* thread-test.ava itself, whose workers repeat 11, 55 and 34 times.       *)
THEOREM Prints100 ==
  ASSUME N = 3, Reps[Order[1]] = 11, Reps[Order[2]] = 55, Reps[Order[3]] = 34
  PROVE  SSpec => [](printed # NULL => printed = 100)
<1>1. SumTo[0] = 0 /\ \A k \in 1..3 : SumTo[k] = SumTo[k - 1] + Reps[Order[k]]
  BY SumToAdds DEF Adds
<1>2. SumTo[1] = 11 /\ SumTo[2] = 66 /\ SumTo[3] = 100
  <2>1. SumTo[1] = SumTo[0] + 11 /\ SumTo[2] = SumTo[1] + 55 /\ SumTo[3] = SumTo[2] + 34
    BY <1>1
  <2>2. QED
    BY <1>1, <2>1
<1>3. ShouldBe100 => (printed # NULL => printed = 100)
  BY <1>2 DEF ShouldBe100
<1>4. QED
  BY <1>3, PrintsTheSum, PTL
=============================================================================
