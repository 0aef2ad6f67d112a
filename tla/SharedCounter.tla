---------------------------- MODULE SharedCounter ----------------------------
(***************************************************************************)
(* The program thread-test.ava, run by the threads and mutexes of Threads: *)
(* main starts some threads and joins them in the same order; each thread  *)
(* increments the slot `shared' of the lobby a number of times under a     *)
(* mutex; then main prints the slot and ends the process.                  *)
(*                                                                         *)
(* One step is one access to a slot, a mutex or a thread.  The variables   *)
(* of a worker are indexed by its thread object.                           *)
(***************************************************************************)
EXTENDS Threads, Sequences

CONSTANTS Order,     \* the thread objects in the order of the program
          Reps,      \* the receiver of `times' in each worker's message
          mutex      \* the slot `mutex'

Workers == {Order[k] : k \in DOMAIN Order}

N == Len(Order)

ASSUME OrderIsSeq == Order \in Seq(Objs \ {Proto})
ASSUME OrderIsInjective == \A j, k \in DOMAIN Order : Order[j] = Order[k] => j = k
ASSUME RepsAreNat == Reps \in [Workers -> Nat]
ASSUME MutexIsMutex == mutex \in Mutexes

VARIABLES pc,        \* the statement of main's program: 1..N start a worker,
                     \* N+1..2N join one, 2N+1 prints, 2N+2 ends main
          at,        \* where a worker is in the body of its loop
          todo,      \* the repetitions it has still to finish
          reg,       \* the value of `shared' it has read and not yet written
          shared,    \* the slot `shared'
          printed    \* what was printed

work == <<at, todo, reg, shared>>
svars == <<vars, pc, work, printed>>

-----------------------------------------------------------------------------
MainStart == /\ pc \in 1..N
             /\ Start(Main, Order[pc])
             /\ pc' = pc + 1
             /\ UNCHANGED <<work, printed>>

MainJoin == /\ pc \in N + 1..2 * N
            /\ Join(Main, Order[pc - N])
            /\ UNCHANGED <<pc, work, printed>>

MainJoining == /\ Joining(Main)
               /\ pc' = IF call'[Main] = NoCall THEN pc + 1 ELSE pc
               /\ UNCHANGED <<work, printed>>

\* Mutant: the program does not join its last thread.
MainPrintEarly == /\ pc \in {2 * N, 2 * N + 1}
                  /\ Idle(Main)
                  /\ printed' = shared
                  /\ pc' = 2 * N + 2
                  /\ UNCHANGED <<vars, work>>

MainPrint == /\ pc = 2 * N + 1
             /\ Idle(Main)
             /\ printed' = shared
             /\ pc' = pc + 1
             /\ UNCHANGED <<vars, work>>

MainEnd == /\ pc = 2 * N + 2
           /\ Exit
           /\ UNCHANGED <<pc, work, printed>>

-----------------------------------------------------------------------------
(***************************************************************************)
(* A worker's message: Reps times                                          *)
(*     mutex lock; update_slot("shared", shared +(1)); mutex unlock;       *)
(***************************************************************************)
At(t, where) == t \in Tids /\ Idle(t) /\ at[task[t]] = where

GoTo(t, where) == at' = [at EXCEPT ![task[t]] = where]

\* Mutant: lock does not wait.
WorkerTrylock(t) == /\ At(t, "lock")
                    /\ todo[task[t]] > 0
                    /\ Lock(t, mutex) \/ (holder[mutex] # NULL /\ UNCHANGED vars)
                    /\ GoTo(t, "read")
                    /\ UNCHANGED <<pc, todo, reg, shared, printed>>

WorkerLock(t) == /\ At(t, "lock")
                 /\ todo[task[t]] > 0
                 /\ Lock(t, mutex)
                 /\ GoTo(t, "read")
                 /\ UNCHANGED <<pc, todo, reg, shared, printed>>

WorkerRead(t) == /\ At(t, "read")
                 /\ reg' = [reg EXCEPT ![task[t]] = shared]
                 /\ GoTo(t, "write")
                 /\ UNCHANGED <<vars, pc, todo, shared, printed>>

WorkerWrite(t) == /\ At(t, "write")
                  /\ shared' = reg[task[t]] + 1
                  /\ todo' = [todo EXCEPT ![task[t]] = @ - 1]
                  /\ reg' = [reg EXCEPT ![task[t]] = 0]
                  /\ GoTo(t, "unlock")
                  /\ UNCHANGED <<vars, pc, printed>>

WorkerUnlock(t) == /\ At(t, "unlock")
                   /\ Unlock(t, mutex)
                   /\ GoTo(t, "lock")
                   /\ UNCHANGED <<pc, todo, reg, shared, printed>>

WorkerFinish(t) == /\ At(t, "lock")
                   /\ todo[task[t]] = 0
                   /\ Finish(t)
                   /\ UNCHANGED <<pc, work, printed>>

WorkerThread(t) == /\ Begin(t) \/ ThreadExit(t)
                   /\ UNCHANGED <<pc, work, printed>>

-----------------------------------------------------------------------------
SInit == /\ process = "running"
         /\ stage = [t \in All |-> IF t = Main THEN "body" ELSE "unborn"]
         /\ task = [t \in All |-> NULL]
         /\ objects = {Proto} \cup Workers
         /\ proto = [o \in Objs |-> IF o \in Workers THEN Proto ELSE NULL]
         /\ running = [o \in Objs |-> "unset"]
         /\ handle = [o \in Objs |-> NULL]
         /\ call = [t \in All |-> NoCall]
         /\ holder = [m \in Mutexes |-> NULL]
         /\ started = [o \in Objs |-> 0]
         /\ pc = 1
         /\ at = [o \in Workers |-> "lock"]
         /\ todo = [o \in Workers |-> Reps[o]]
         /\ reg = [o \in Workers |-> 0]
         /\ shared = 0
         /\ printed = NULL

MainStep == MainStart \/ MainJoin \/ MainJoining \/ MainPrint \/ MainEnd

WorkerStep(t) == \/ WorkerLock(t) \/ WorkerRead(t) \/ WorkerWrite(t) \/ WorkerUnlock(t)
                 \/ WorkerFinish(t) \/ WorkerThread(t)

\* The process is gone.
Over == process # "running" /\ UNCHANGED svars

SNext == MainStep \/ (\E t \in Tids : WorkerStep(t)) \/ Over

SSpec == SInit /\ [][SNext]_svars

\* The scheduler runs every thread that can go on.
Fairness == WF_svars(MainStep) /\ \A t \in Tids : WF_svars(WorkerStep(t))

FairSpec == SSpec /\ Fairness

-----------------------------------------------------------------------------
(***************************************************************************)
(* Properties.                                                             *)
(***************************************************************************)

Inside(o) == at[o] \in {"read", "write", "unlock"}

(* Only the thread that holds the mutex is between lock and unlock, and    *)
(* what it has read is still what the slot holds when it writes: no other  *)
(* thread's increment is lost.                                             *)
NoLostUpdate ==
  \A o \in Workers :
    /\ Inside(o) => holder[mutex] # NULL /\ task[holder[mutex]] = o
    /\ at[o] = "write" => reg[o] = shared

\* The repetitions of the first k workers.
SumTo[k \in 0..N] == IF k = 0 THEN 0 ELSE SumTo[k - 1] + Reps[Order[k]]

(* thread-test.ava:37, "should be 100": what is printed is the number of   *)
(* all repetitions.                                                        *)
ShouldBe100 == printed # NULL => printed = SumTo[N]

Atomic == INSTANCE AtomicCounter

(* The program behaves as if every increment were one step and as if the   *)
(* slot were printed when no increment is left to make: no increment is    *)
(* lost, and all joins wait.                                               *)
ImplementsAtomic == Atomic!Spec

(* The program comes to its end: no thread waits for ever for the mutex or *)
(* for another thread, and no handle is null when it is joined.            *)
Terminates == <>(process = "exited" /\ printed # NULL)
=============================================================================
