-------------------------------- MODULE CStack --------------------------------
(***************************************************************************)
(* The stacks of cstack.h as the drivers use them.  Every thread has a     *)
(* pointer and a counter of its own (threadprivate); the size in elements, *)
(* unit_for_size, and the lock are variables of the process.  For every    *)
(* number of threads the driver runs three parallel regions: ad_init,      *)
(* the adjoint code with its pushes and pops, and ad_dealloc.  Each of the *)
(* three stacks of a thread goes through the same steps; one stands here   *)
(* for them.                                                               *)
(*                                                                         *)
(* ad_push does not look at the size.  A push beyond the end of the array  *)
(* is undefined: it may change an element of any array of the process.     *)
(* ad_spush compares the counter with unit_for_size, not with the size     *)
(* this array was allocated with, and stops the program.  So does ad_init   *)
(* when malloc gives no memory, which it may do at any time.               *)
(***************************************************************************)
EXTENDS StackArray

CONSTANTS
    Procs,      \* omp_get_num_procs: the driver goes up to this many threads
    StackBytes, \* adjoint_stack_size_kb * 1024, 0 when main found no memory
    Checked,    \* the threads whose code uses ad_spush, the others use ad_push
    Depth       \* no more than this many plain pushes are open at a time

Threads == 1 .. Procs

\* local_stack_size / 16 for a team of n threads.
UnitFor(n) == (StackBytes \div n) \div 16

ASSUME ConstantsAssumption ==
    /\ Procs \in Nat \ {0}
    /\ StackBytes \in Nat
    /\ Depth \in Nat
    /\ Checked \subseteq Threads

\* Nothing else keeps the unchecked push inside its array.
ASSUME DepthAssumption ==
    \/ Checked = Threads
    \/ \A n \in Threads : Depth <= UnitFor(n)

VARIABLES
    threads,    \* the size of the team, omp_set_num_threads
    phase,      \* where the driver is: "init", "adjoint", "free", "done"
    pc,         \* where the thread is in ad_init or ad_dealloc
    unit,       \* unit_for_size
    lock,       \* the holder of lock_var, 0 when it is free
    allocated,  \* whether the pointer of the thread is not NULL
    array,      \* the elements the pointer leads to
    counter,    \* the number of elements pushed
    result,     \* what the last ad_top of the thread returned
    stopped     \* the thread whose assertion has stopped the program, or 0

vars == <<threads, phase, pc, unit, lock, allocated, array, counter, result, stopped>>
driver == <<threads, phase>>

Team == 1 .. threads

Init ==
    /\ threads = 1
    /\ phase = "init"
    /\ pc = [t \in Threads |-> "idle"]
    /\ unit = 0
    /\ lock = 0
    /\ allocated = [t \in Threads |-> FALSE]
    /\ array = [t \in Threads |-> Fresh(0)]
    /\ counter = [t \in Threads |-> 0]
    /\ result = [t \in Threads |-> 0]
    /\ stopped = 0

-------------------------------------------------------------------------------
(* ad_init *)

\* Mutant: the number of the thread in place of the number of threads.
ComputeUnitByThread(t) ==
    /\ stopped = 0 /\ phase = "init" /\ pc[t] = "idle"
    /\ IF allocated[t] \/ StackBytes = 0
         THEN /\ stopped' = t
              /\ UNCHANGED <<unit, pc>>
         ELSE /\ unit' = UnitFor(t)
              /\ pc' = [pc EXCEPT ![t] = "sized"]
              /\ UNCHANGED stopped
    /\ UNCHANGED <<driver, lock, allocated, array, counter, result>>

\* The size is computed and stored before the lock is taken.
ComputeUnit(t) ==
    /\ stopped = 0 /\ phase = "init" /\ pc[t] = "idle"
    /\ IF allocated[t] \/ StackBytes = 0
         THEN /\ stopped' = t
              /\ UNCHANGED <<unit, pc>>
         ELSE /\ unit' = UnitFor(threads)
              /\ pc' = [pc EXCEPT ![t] = "sized"]
              /\ UNCHANGED stopped
    /\ UNCHANGED <<driver, lock, allocated, array, counter, result>>

\* Mutant: the answer of omp_test_lock is ignored.
TakeLockTested(t, to) ==
    /\ lock' = t
    /\ pc' = [pc EXCEPT ![t] = to]

\* while(!omp_test_lock(&lock_var)) usleep(100)
TakeLock(t, to) ==
    /\ lock = 0
    /\ lock' = t
    /\ pc' = [pc EXCEPT ![t] = to]

LockToAllocate(t) ==
    /\ stopped = 0 /\ pc[t] = "sized"
    /\ TakeLock(t, "allocating")
    /\ UNCHANGED <<driver, unit, allocated, array, counter, result, stopped>>

\* Mutant: the lock is not released.
AllocateLocked(t) ==
    /\ stopped = 0 /\ pc[t] = "allocating"
    /\ \E got \in BOOLEAN :
        /\ allocated' = [allocated EXCEPT ![t] = got]
        /\ array' = [array EXCEPT ![t] = Fresh(IF got THEN unit ELSE 0)]
    /\ counter' = [counter EXCEPT ![t] = 0]
    /\ pc' = [pc EXCEPT ![t] = "checking"]
    /\ UNCHANGED <<driver, unit, lock, result, stopped>>

\* malloc gives an array of the size that unit_for_size has now, or NULL.
\* Either way the lock is released before the pointer is looked at.
Allocate(t) ==
    /\ stopped = 0 /\ pc[t] = "allocating"
    /\ \E got \in BOOLEAN :
        /\ allocated' = [allocated EXCEPT ![t] = got]
        /\ array' = [array EXCEPT ![t] = Fresh(IF got THEN unit ELSE 0)]
    /\ counter' = [counter EXCEPT ![t] = 0]
    /\ lock' = 0
    /\ pc' = [pc EXCEPT ![t] = "checking"]
    /\ UNCHANGED <<driver, unit, result, stopped>>

\* assert(sname): a thread that got no memory stops the program.
CheckAllocated(t) ==
    /\ stopped = 0 /\ pc[t] = "checking"
    /\ IF allocated[t]
         THEN pc' = [pc EXCEPT ![t] = "ready"] /\ UNCHANGED stopped
         ELSE stopped' = t /\ UNCHANGED pc
    /\ UNCHANGED <<driver, unit, lock, allocated, array, counter, result>>

-------------------------------------------------------------------------------
(* The operations of the adjoint code *)

\* The memory after v was stored at the counter of t.
Stored(t, v) ==
    IF counter[t] \in DOMAIN array[t]
      THEN {[array EXCEPT ![t][counter[t]] = v]}
      ELSE {array} \cup UNION {{[array EXCEPT ![u][i] = v] : i \in DOMAIN array[u]} :
                               u \in Threads}

\* ad_push
PlainPush(t, v) ==
    /\ stopped = 0 /\ phase = "adjoint"
    /\ t \notin Checked /\ counter[t] < Depth
    /\ array' \in Stored(t, v)
    /\ counter' = [counter EXCEPT ![t] = @ + 1]
    /\ UNCHANGED <<driver, pc, unit, lock, allocated, result, stopped>>

\* Mutant: the comparison admits one element too many.
CheckedPushOneMore(t, v) ==
    /\ stopped = 0 /\ phase = "adjoint"
    /\ t \in Checked
    /\ IF allocated[t] /\ counter[t] <= unit
         THEN /\ array' \in Stored(t, v)
              /\ counter' = [counter EXCEPT ![t] = @ + 1]
              /\ UNCHANGED stopped
         ELSE /\ stopped' = t
              /\ UNCHANGED <<array, counter>>
    /\ UNCHANGED <<driver, pc, unit, lock, allocated, result>>

\* ad_spush
CheckedPush(t, v) ==
    /\ stopped = 0 /\ phase = "adjoint"
    /\ t \in Checked
    /\ IF allocated[t] /\ counter[t] < unit
         THEN /\ array' \in Stored(t, v)
              /\ counter' = [counter EXCEPT ![t] = @ + 1]
              /\ UNCHANGED stopped
         ELSE /\ stopped' = t
              /\ UNCHANGED <<array, counter>>
    /\ UNCHANGED <<driver, pc, unit, lock, allocated, result>>

\* ad_top: 0 for an empty stack.
Top(t) ==
    /\ stopped = 0 /\ phase = "adjoint"
    /\ \E v \in IF counter[t] > 0 THEN Readable(array[t], counter[t] - 1) ELSE {0} :
            result' = [result EXCEPT ![t] = v]
    /\ UNCHANGED <<driver, pc, unit, lock, allocated, array, counter, stopped>>

\* ad_pop: the reverse section pops what the forward section pushed.
Pop(t) ==
    /\ stopped = 0 /\ phase = "adjoint"
    /\ counter[t] > 0
    /\ counter' = [counter EXCEPT ![t] = @ - 1]
    /\ UNCHANGED <<driver, pc, unit, lock, allocated, array, result, stopped>>

-------------------------------------------------------------------------------
(* ad_dealloc *)

LockToFree(t) ==
    /\ stopped = 0 /\ phase = "free" /\ pc[t] = "ready"
    /\ IF allocated[t]
         THEN TakeLock(t, "freeing") /\ UNCHANGED stopped
         ELSE stopped' = t /\ UNCHANGED <<lock, pc>>
    /\ UNCHANGED <<driver, unit, allocated, array, counter, result>>

\* Mutant: the pointer is not set to NULL.
DeallocateDangling(t) ==
    /\ stopped = 0 /\ pc[t] = "freeing"
    /\ array' = [array EXCEPT ![t] = Fresh(0)]
    /\ counter' = [counter EXCEPT ![t] = 0]
    /\ lock' = 0
    /\ pc' = [pc EXCEPT ![t] = "idle"]
    /\ UNCHANGED <<driver, unit, allocated, result, stopped>>

Deallocate(t) ==
    /\ stopped = 0 /\ pc[t] = "freeing"
    /\ allocated' = [allocated EXCEPT ![t] = FALSE]
    /\ array' = [array EXCEPT ![t] = Fresh(0)]
    /\ counter' = [counter EXCEPT ![t] = 0]
    /\ lock' = 0
    /\ pc' = [pc EXCEPT ![t] = "idle"]
    /\ UNCHANGED <<driver, unit, result, stopped>>

-------------------------------------------------------------------------------
(* The driver: a parallel region ends when every thread of the team has    *)
(* reached its end.                                                        *)

EnterAdjoint ==
    /\ stopped = 0 /\ phase = "init"
    /\ \A t \in Team : pc[t] = "ready"
    /\ phase' = "adjoint"
    /\ UNCHANGED <<threads, pc, unit, lock, allocated, array, counter, result, stopped>>

LeaveAdjoint ==
    /\ stopped = 0 /\ phase = "adjoint"
    /\ phase' = "free"
    /\ UNCHANGED <<threads, pc, unit, lock, allocated, array, counter, result, stopped>>

\* for (num_threads = 1; num_threads <= procs; num_threads *= 2)
NextTeam ==
    /\ stopped = 0 /\ phase = "free"
    /\ \A t \in Team : pc[t] = "idle"
    /\ IF 2 * threads <= Procs
         THEN threads' = 2 * threads /\ phase' = "init"
         ELSE phase' = "done" /\ UNCHANGED threads
    /\ UNCHANGED <<pc, unit, lock, allocated, array, counter, result, stopped>>

MemoryStep(t) ==
    \/ ComputeUnit(t)
    \/ LockToAllocate(t)
    \/ Allocate(t)
    \/ CheckAllocated(t)
    \/ LockToFree(t)
    \/ Deallocate(t)

StackStep(t) ==
    \/ \E v \in Element : PlainPush(t, v)
    \/ \E v \in Element : CheckedPush(t, v)
    \/ Top(t)
    \/ Pop(t)

Next ==
    \/ \E t \in Team : MemoryStep(t) \/ StackStep(t)
    \/ EnterAdjoint
    \/ LeaveAdjoint
    \/ NextTeam

Spec == Init /\ [][Next]_vars

\* The threads of a team are scheduled until they reach the barrier at the
\* end of the region.  Nothing is assumed of a thread that waits for the lock
\* while others take it.
Fairness ==
    /\ \A t \in Threads : WF_vars(t \in Team /\ MemoryStep(t))
    /\ WF_vars(EnterAdjoint)
    /\ WF_vars(NextTeam)

FairSpec == Spec /\ Fairness

-------------------------------------------------------------------------------
(* Properties *)

\* Type invariant: the counters are numbers and the lock has one holder, the
\* thread that is allocating or freeing.
TypeOK ==
    /\ threads \in Threads
    /\ phase \in {"init", "adjoint", "free", "done"}
    /\ pc \in [Threads -> {"idle", "sized", "allocating", "checking", "ready", "freeing"}]
    /\ unit \in Nat
    /\ lock \in Threads \cup {0}
    /\ \A t \in Threads : lock = t <=> pc[t] \in {"allocating", "freeing"}
    /\ allocated \in [Threads -> BOOLEAN]
    /\ counter \in [Threads -> Nat]
    /\ stopped \in Threads \cup {0}

\* The size that ad_spush compares with is the size of every array that is
\* there, although the threads write it without the lock and it changes from
\* one team to the next (ad_init, cstack.h:32-36; ad_spush, cstack.h:61).
ArraysHaveUnit ==
    \A t \in Threads : allocated[t] => DOMAIN array[t] = 0 .. unit - 1

\* An assertion stops the program only for want of memory: main has found
\* none (cstack.h:31), malloc has given none to the very thread that stops
\* (cstack.h:40), or the stack this thread pushes on with ad_spush is full
\* (cstack.h:61).  No thread ever finds an array of an earlier team
\* (assert(!sname), cstack.h:30) or none to push on or to free (cstack.h:60, 76).
StoppedForMemory ==
    stopped # 0 =>
        \/ StackBytes = 0 /\ pc[stopped] = "idle"
        \/ pc[stopped] = "checking" /\ ~allocated[stopped]
        \/ /\ stopped \in Team \cap Checked
           /\ allocated[stopped] /\ counter[stopped] = UnitFor(threads)

Ideal == INSTANCE IdealStack WITH
    Stacks <- Threads,
    EmptyTop <- 0,
    open <- allocated,
    content <- [t \in Threads |-> Held(array[t], counter[t])]

\* What the code reads from its stacks is what an ideal stack of its own
\* returns: no push of another thread, no allocation of another team and no
\* uninitialised element ever shows (ad_push, ad_top, cstack.h:45-47).
IdealStacks == Ideal!ISpec

\* Every thread of the team gets its array and later gives it back, unless an
\* assertion stops the program: the lock is released by whoever holds it, with
\* or without memory (cstack.h:34-38, 77-81).
RegionsEnd ==
    \A p \in {"init", "free"} : phase = p ~> (phase # p \/ stopped # 0)
===============================================================================
