----------------------------- MODULE CStackProofs -----------------------------
(***************************************************************************)
(* The stacks of cstack.h are ideal stacks, for every number of            *)
(* processors, every amount of memory and every choice of checked threads, *)
(* as long as the unchecked ones stay within the memory that the largest   *)
(* team leaves to each of them.                                            *)
(***************************************************************************)
EXTENDS CStack, StackArrayProofs

\* Where the threads are tells who has an array.
PhaseInv ==
    /\ \A t \in Threads : allocated[t] => pc[t] \in {"checking", "ready", "freeing"}
    /\ \A t \in Threads : pc[t] \in {"ready", "freeing"} => allocated[t]
    /\ \A t \in Threads : pc[t] # "idle" => t <= threads
    /\ \A t \in Threads : pc[t] \in {"sized", "allocating", "checking"} => phase = "init"
    /\ \A t \in Threads : pc[t] = "freeing" => phase = "free"
    /\ phase = "adjoint" => \A t \in Team : pc[t] = "ready"
    /\ phase = "done" => \A t \in Threads : pc[t] = "idle"

\* From the moment a thread has stored it until its array is freed,
\* unit_for_size is what the present team gives to each of its threads.
UnitInv ==
    \A t \in Threads : pc[t] # "idle" => unit = UnitFor(threads)

\* Every array has that size and holds what its counter says.
ArrayInv ==
    \A t \in Threads :
        /\ ~allocated[t] => counter[t] = 0
        /\ allocated[t] => /\ array[t] \in [0 .. unit - 1 -> Element \cup {Junk}]
                           /\ counter[t] <= unit

\* The functions are functions of the threads.
ShapeInv == DOMAIN array = Threads /\ DOMAIN result = Threads

Inv == TypeOK /\ ShapeInv /\ PhaseInv /\ UnitInv /\ ArrayInv

\* The size of a stack is a number for every team.
LEMMA UnitIsNat == ASSUME NEW n \in Threads PROVE UnitFor(n) \in Nat
<1>1. n \in Nat /\ n > 0 /\ StackBytes \in Nat
  BY ConstantsAssumption DEF Threads
<1>2. StackBytes \div n \in Nat
  BY <1>1, Z3
<1>3. ASSUME NEW k \in Nat PROVE k \div 16 \in Nat
  OBVIOUS
<1> QED
  BY <1>2, <1>3 DEF UnitFor

\* At the start there is no array, no lock is held and every counter is 0.
LEMMA InitInv == Init => Inv
<1> SUFFICES ASSUME Init PROVE Inv
  OBVIOUS
<1>1. TypeOK
  BY ConstantsAssumption DEF Init, TypeOK, Threads
<1>2. ShapeInv /\ PhaseInv /\ UnitInv
  BY DEF Init, ShapeInv, PhaseInv, UnitInv, Threads
<1>3. ArrayInv
  BY DEF Init, ArrayInv
<1> QED
  BY <1>1, <1>2, <1>3 DEF Inv

-------------------------------------------------------------------------------
(* The memory operations *)

\* An assertion that fails leaves everything else alone.
LEMMA StopInv ==
    ASSUME Inv, NEW t \in Threads, stopped' = t,
           UNCHANGED <<threads, phase, pc, unit, lock, allocated, array, counter, result>>
    PROVE  Inv'
  BY DEF Inv, TypeOK, ShapeInv, PhaseInv, UnitInv, UnitFor, ArrayInv, Team

\* All threads of a team write the same size, and no array of another size is left.
LEMMA ComputeUnitInv == ASSUME Inv, NEW t \in Team, ComputeUnit(t) PROVE Inv'
<1> USE DEF Inv
<1>1. t \in Threads /\ t <= threads /\ ~allocated[t] /\ threads \in Threads
  BY ConstantsAssumption DEF Team, TypeOK, Threads, PhaseInv, ComputeUnit
<1>2. pc[t] = "idle" /\ phase = "init"
  BY DEF ComputeUnit
<1>3. CASE StackBytes = 0
  <2>1. stopped' = t /\ UNCHANGED <<threads, phase, pc, unit, lock, allocated, array, counter, result>>
    BY <1>3 DEF ComputeUnit, driver
  <2> QED
    BY <1>1, <2>1, StopInv
<1>4. CASE StackBytes # 0
  <2>1. /\ unit' = UnitFor(threads)
        /\ pc' = [pc EXCEPT ![t] = "sized"]
        /\ UNCHANGED <<threads, phase, lock, allocated, array, counter, result, stopped>>
    BY <1>1, <1>4, Zenon DEF ComputeUnit, driver
  <2>2. TypeOK'
    BY <1>1, <1>2, <2>1, UnitIsNat DEF TypeOK
  <2>3. PhaseInv'
    BY <1>1, <1>2, <2>1 DEF PhaseInv, TypeOK, Team
  <2>4. UnitInv'
    BY <2>1 DEF UnitInv, UnitFor
  <2>5. ArrayInv'
    <3>1. \A u \in Threads : allocated[u] => unit' = unit
      BY <2>1 DEF UnitInv, PhaseInv
    <3> QED
      BY <2>1, <3>1 DEF ArrayInv
  <2> QED
    BY <2>1, <2>2, <2>3, <2>4, <2>5 DEF ShapeInv
<1> QED
  BY <1>3, <1>4

\* The lock gets its holder.
LEMMA LockToAllocateInv == ASSUME Inv, NEW t \in Team, LockToAllocate(t) PROVE Inv'
<1> USE DEF Inv
<1>1. t \in Threads /\ t <= threads /\ pc[t] = "sized" /\ lock = 0
  BY ConstantsAssumption DEF Team, TypeOK, Threads, LockToAllocate, TakeLock
<1>2. /\ lock' = t
      /\ pc' = [pc EXCEPT ![t] = "allocating"]
      /\ UNCHANGED <<threads, phase, unit, allocated, array, counter, result, stopped>>
  BY DEF LockToAllocate, TakeLock, driver
<1>3. TypeOK'
  BY <1>1, <1>2 DEF TypeOK, Threads
<1>4. PhaseInv'
  BY <1>1, <1>2 DEF PhaseInv, TypeOK, Team
<1>5. UnitInv'
  BY <1>1, <1>2 DEF UnitInv, UnitFor, TypeOK
<1>6. ArrayInv'
  BY <1>2 DEF ArrayInv
<1> QED
  BY <1>2, <1>3, <1>4, <1>5, <1>6 DEF ShapeInv

\* The new array, if there is one, has the size every thread of the team has computed.
LEMMA AllocateInv == ASSUME Inv, NEW t \in Team, Allocate(t) PROVE Inv'
<1> USE DEF Inv
<1>1. t \in Threads /\ t <= threads /\ pc[t] = "allocating" /\ lock = t
  BY ConstantsAssumption DEF Team, TypeOK, Threads, Allocate
<1>2. PICK got \in BOOLEAN :
          /\ allocated' = [allocated EXCEPT ![t] = got]
          /\ array' = [array EXCEPT ![t] = Fresh(IF got THEN unit ELSE 0)]
  BY DEF Allocate
<1>3. /\ counter' = [counter EXCEPT ![t] = 0]
      /\ lock' = 0
      /\ pc' = [pc EXCEPT ![t] = "checking"]
      /\ UNCHANGED <<threads, phase, unit, result, stopped>>
  BY DEF Allocate, driver
<1>4. TypeOK'
  BY <1>1, <1>2, <1>3 DEF TypeOK, Threads
<1>5. PhaseInv'
  BY <1>1, <1>2, <1>3 DEF PhaseInv, TypeOK, Team
<1>6. UnitInv'
  BY <1>1, <1>3 DEF UnitInv, UnitFor, TypeOK
<1>7. ArrayInv'
  <2> SUFFICES ASSUME NEW u \in Threads
               PROVE  /\ ~allocated'[u] => counter'[u] = 0
                      /\ allocated'[u] => /\ array'[u] \in [0 .. unit - 1 -> Element \cup {Junk}]
                                          /\ counter'[u] <= unit
    BY <1>3 DEF ArrayInv
  <2>1. CASE u = t
    <3>1. counter'[t] = 0 /\ unit \in Nat
      BY <1>1, <1>3 DEF TypeOK
    <3>2. allocated'[t] => array'[t] = Fresh(unit)
      BY <1>1, <1>2 DEF TypeOK, ShapeInv
    <3> QED
      BY <2>1, <3>1, <3>2 DEF Fresh
  <2>2. CASE u # t
    <3>1. allocated'[u] = allocated[u] /\ array'[u] = array[u] /\ counter'[u] = counter[u]
      BY <1>2, <1>3, <2>2 DEF TypeOK, ShapeInv
    <3> QED
      BY <3>1 DEF ArrayInv
  <2> QED
    BY <2>1, <2>2
<1> QED
  BY <1>2, <1>3, <1>4, <1>5, <1>6, <1>7 DEF ShapeInv

\* Only a thread with an array gets past the assertion.
LEMMA CheckAllocatedInv == ASSUME Inv, NEW t \in Team, CheckAllocated(t) PROVE Inv'
<1> USE DEF Inv
<1>1. t \in Threads /\ t <= threads /\ pc[t] = "checking"
  BY ConstantsAssumption DEF Team, TypeOK, Threads, CheckAllocated
<1>2. CASE ~allocated[t]
  <2>1. stopped' = t /\ UNCHANGED <<threads, phase, pc, unit, lock, allocated, array, counter, result>>
    BY <1>2 DEF CheckAllocated, driver
  <2> QED
    BY <1>1, <2>1, StopInv
<1>3. CASE allocated[t]
  <2>1. /\ pc' = [pc EXCEPT ![t] = "ready"]
        /\ UNCHANGED <<threads, phase, unit, lock, allocated, array, counter, result, stopped>>
    BY <1>3 DEF CheckAllocated, driver
  <2>2. TypeOK'
    BY <1>1, <2>1 DEF TypeOK, Threads
  <2>3. PhaseInv'
    BY <1>1, <1>3, <2>1 DEF PhaseInv, TypeOK, Team
  <2>4. UnitInv'
    BY <1>1, <2>1 DEF UnitInv, UnitFor, TypeOK
  <2>5. ArrayInv'
    BY <2>1 DEF ArrayInv
  <2> QED
    BY <2>1, <2>2, <2>3, <2>4, <2>5 DEF ShapeInv
<1> QED
  BY <1>2, <1>3

\* The lock gets its holder; an array is there to be freed.
LEMMA LockToFreeInv == ASSUME Inv, NEW t \in Team, LockToFree(t) PROVE Inv'
<1> USE DEF Inv
<1>1. t \in Threads /\ t <= threads /\ pc[t] = "ready" /\ phase = "free"
  BY ConstantsAssumption DEF Team, TypeOK, Threads, LockToFree
<1>2. allocated[t]
  BY <1>1 DEF PhaseInv
<1>3. /\ lock = 0 /\ lock' = t
      /\ pc' = [pc EXCEPT ![t] = "freeing"]
      /\ UNCHANGED <<threads, phase, unit, allocated, array, counter, result, stopped>>
  BY <1>2 DEF LockToFree, TakeLock, driver
<1>4. TypeOK'
  BY <1>1, <1>3 DEF TypeOK, Threads
<1>5. PhaseInv'
  BY <1>1, <1>2, <1>3 DEF PhaseInv, TypeOK, Team
<1>6. UnitInv'
  BY <1>1, <1>3 DEF UnitInv, UnitFor, TypeOK
<1>7. ArrayInv'
  BY <1>3 DEF ArrayInv
<1> QED
  BY <1>3, <1>4, <1>5, <1>6, <1>7 DEF ShapeInv

\* The freed stack is empty and its pointer NULL.
LEMMA DeallocateInv == ASSUME Inv, NEW t \in Team, Deallocate(t) PROVE Inv'
<1> USE DEF Inv
<1>1. t \in Threads /\ t <= threads /\ pc[t] = "freeing" /\ lock = t /\ phase = "free"
  BY ConstantsAssumption DEF Team, TypeOK, Threads, Deallocate, PhaseInv
<1>2. /\ allocated' = [allocated EXCEPT ![t] = FALSE]
      /\ array' = [array EXCEPT ![t] = Fresh(0)]
      /\ counter' = [counter EXCEPT ![t] = 0]
      /\ lock' = 0
      /\ pc' = [pc EXCEPT ![t] = "idle"]
      /\ UNCHANGED <<threads, phase, unit, result, stopped>>
  BY DEF Deallocate, driver
<1>3. TypeOK'
  BY <1>1, <1>2 DEF TypeOK, Threads
<1>4. PhaseInv'
  BY <1>1, <1>2 DEF PhaseInv, TypeOK, Team
<1>5. UnitInv'
  BY <1>1, <1>2 DEF UnitInv, UnitFor, TypeOK
<1>6. ArrayInv'
  <2> SUFFICES ASSUME NEW u \in Threads
               PROVE  /\ ~allocated'[u] => counter'[u] = 0
                      /\ allocated'[u] => /\ array'[u] \in [0 .. unit - 1 -> Element \cup {Junk}]
                                          /\ counter'[u] <= unit
    BY <1>2 DEF ArrayInv
  <2>1. CASE u = t
    BY <1>1, <1>2, <2>1 DEF TypeOK
  <2>2. CASE u # t
    <3>1. allocated'[u] = allocated[u] /\ array'[u] = array[u] /\ counter'[u] = counter[u]
      BY <1>2, <2>2 DEF TypeOK, ShapeInv
    <3> QED
      BY <3>1 DEF ArrayInv
  <2> QED
    BY <2>1, <2>2
<1> QED
  BY <1>2, <1>3, <1>4, <1>5, <1>6 DEF ShapeInv

-------------------------------------------------------------------------------
(* The operations of the adjoint code *)

\* A thread whose code pushes and pops has an array of unit_for_size.
LEMMA InAdjoint ==
    ASSUME Inv, NEW t \in Team, phase = "adjoint"
    PROVE  /\ t \in Threads /\ threads \in Threads
           /\ pc[t] = "ready" /\ allocated[t]
           /\ unit = UnitFor(threads) /\ unit \in Nat
           /\ array[t] \in [0 .. unit - 1 -> Element \cup {Junk}]
           /\ counter[t] \in Nat /\ counter[t] <= unit
<1> USE DEF Inv
<1>1. t \in Threads /\ threads \in Threads
  BY ConstantsAssumption DEF Team, TypeOK, Threads
<1>2. pc[t] = "ready"
  BY DEF PhaseInv
<1>3. allocated[t] /\ unit = UnitFor(threads)
  BY <1>1, <1>2 DEF PhaseInv, UnitInv
<1> QED
  BY <1>1, <1>2, <1>3 DEF ArrayInv, TypeOK

\* What both pushes do when there is room.
PushStep(t, v) ==
    /\ phase = "adjoint"
    /\ allocated[t]
    /\ counter[t] < unit
    /\ array' = [array EXCEPT ![t][counter[t]] = v]
    /\ counter' = [counter EXCEPT ![t] = @ + 1]
    /\ UNCHANGED <<threads, phase, pc, unit, lock, allocated, result, stopped>>

\* A push below the end of an array changes one element of it and nothing else.
LEMMA StoredInside ==
    ASSUME Inv, NEW t \in Team, phase = "adjoint", counter[t] < unit, NEW v,
           array' \in Stored(t, v)
    PROVE  array' = [array EXCEPT ![t][counter[t]] = v]
<1>1. counter[t] \in DOMAIN array[t]
  BY InAdjoint
<1> QED
  BY <1>1 DEF Stored

\* The depth of the code keeps a plain push inside the array.
LEMMA PlainPushStep ==
    ASSUME Inv, NEW t \in Team, NEW v \in Element, PlainPush(t, v)
    PROVE  PushStep(t, v)
<1>1. phase = "adjoint" /\ t \notin Checked /\ counter[t] < Depth
  BY DEF PlainPush
<1>2. t \in Threads /\ threads \in Threads /\ unit = UnitFor(threads)
      /\ allocated[t] /\ counter[t] \in Nat /\ unit \in Nat
  BY <1>1, InAdjoint
<1>3. Depth <= unit
  BY <1>1, <1>2, DepthAssumption
<1>4. counter[t] < unit
  BY <1>1, <1>2, <1>3, ConstantsAssumption
<1>5. array' = [array EXCEPT ![t][counter[t]] = v]
  BY <1>1, <1>4, StoredInside DEF PlainPush
<1> QED
  BY <1>1, <1>2, <1>4, <1>5 DEF PlainPush, PushStep, driver

\* The comparison with unit_for_size keeps a checked push inside the array.
LEMMA CheckedPushStep ==
    ASSUME Inv, NEW t \in Team, NEW v \in Element, CheckedPush(t, v)
    PROVE  \/ PushStep(t, v)
           \/ /\ stopped' = t
              /\ t \in Checked /\ allocated[t] /\ counter[t] = UnitFor(threads)
              /\ UNCHANGED <<threads, phase, pc, unit, lock, allocated, array, counter, result>>
<1>1. phase = "adjoint" /\ t \in Checked
  BY DEF CheckedPush
<1>2. t \in Threads /\ unit = UnitFor(threads) /\ allocated[t]
      /\ counter[t] \in Nat /\ unit \in Nat /\ counter[t] <= unit
  BY <1>1, InAdjoint
<1>3. CASE counter[t] < unit
  <2>1. array' \in Stored(t, v)
    BY <1>2, <1>3 DEF CheckedPush
  <2>2. array' = [array EXCEPT ![t][counter[t]] = v]
    BY <1>1, <1>3, <2>1, StoredInside
  <2> QED
    BY <1>1, <1>2, <1>3, <2>2 DEF CheckedPush, PushStep, driver
<1>4. CASE ~(counter[t] < unit)
  BY <1>1, <1>2, <1>4 DEF CheckedPush, driver
<1> QED
  BY <1>3, <1>4

\* A push inside the array keeps the invariant.
LEMMA PushInv ==
    ASSUME Inv, NEW t \in Team, NEW v \in Element, PushStep(t, v)
    PROVE  Inv'
<1> USE DEF Inv
<1>1. /\ t \in Threads /\ unit \in Nat /\ counter[t] \in Nat /\ counter[t] < unit
      /\ array[t] \in [0 .. unit - 1 -> Element \cup {Junk}]
  BY InAdjoint DEF PushStep
<1>2. /\ array' = [array EXCEPT ![t][counter[t]] = v]
      /\ counter' = [counter EXCEPT ![t] = @ + 1]
      /\ UNCHANGED <<threads, phase, pc, unit, lock, allocated, result, stopped>>
  BY DEF PushStep
<1>3. TypeOK'
  BY <1>1, <1>2 DEF TypeOK
<1>4. PhaseInv' /\ UnitInv'
  BY <1>2 DEF PhaseInv, UnitInv, UnitFor, Team
<1>5. ArrayInv'
  <2> SUFFICES ASSUME NEW u \in Threads
               PROVE  /\ ~allocated[u] => counter'[u] = 0
                      /\ allocated[u] => /\ array'[u] \in [0 .. unit - 1 -> Element \cup {Junk}]
                                         /\ counter'[u] <= unit
    BY <1>2 DEF ArrayInv
  <2>1. CASE u = t
    <3>1. counter'[t] = counter[t] + 1 /\ counter'[t] <= unit
      BY <1>1, <1>2 DEF TypeOK
    <3>2. array'[t] = [array[t] EXCEPT ![counter[t]] = v]
      BY <1>1, <1>2 DEF ShapeInv
    <3>3. array'[t] \in [0 .. unit - 1 -> Element \cup {Junk}]
      BY <1>1, <3>2
    <3>4. allocated[t]
      BY DEF PushStep
    <3> QED
      BY <2>1, <3>1, <3>3, <3>4
  <2>2. CASE u # t
    <3>1. array'[u] = array[u] /\ counter'[u] = counter[u]
      BY <1>2, <2>2 DEF TypeOK, ShapeInv
    <3> QED
      BY <3>1 DEF ArrayInv
  <2> QED
    BY <2>1, <2>2
<1> QED
  BY <1>2, <1>3, <1>4, <1>5 DEF ShapeInv

\* A pop lowers one counter.
LEMMA PopInv == ASSUME Inv, NEW t \in Team, Pop(t) PROVE Inv'
<1> USE DEF Inv
<1>1. t \in Threads /\ counter[t] \in Nat /\ counter[t] > 0
  BY InAdjoint DEF Pop
<1>2. /\ counter' = [counter EXCEPT ![t] = @ - 1]
      /\ UNCHANGED <<threads, phase, pc, unit, lock, allocated, array, result, stopped>>
  BY DEF Pop, driver
<1>3. TypeOK'
  BY <1>1, <1>2 DEF TypeOK
<1>4. PhaseInv' /\ UnitInv'
  BY <1>2 DEF PhaseInv, UnitInv, UnitFor, Team
<1>5. ArrayInv'
  BY <1>1, <1>2 DEF ArrayInv, TypeOK
<1> QED
  BY <1>2, <1>3, <1>4, <1>5 DEF ShapeInv

\* Reading the top changes no stack.
LEMMA TopInv == ASSUME Inv, NEW t \in Team, Top(t) PROVE Inv'
<1> USE DEF Inv
<1>1. UNCHANGED <<threads, phase, pc, unit, lock, allocated, array, counter, stopped>>
  BY DEF Top, driver
<1>2. DOMAIN result' = Threads
  BY DEF Top, ShapeInv
<1> QED
  BY <1>1, <1>2 DEF TypeOK, ShapeInv, PhaseInv, UnitInv, UnitFor, ArrayInv, Team

-------------------------------------------------------------------------------
(* The driver *)

\* Between two parallel regions the team is complete, and after the last one no array is left.
LEMMA DriverInv ==
    ASSUME Inv, EnterAdjoint \/ LeaveAdjoint \/ NextTeam
    PROVE  Inv'
<1> USE DEF Inv
<1>1. /\ UNCHANGED <<pc, unit, lock, allocated, array, counter, result, stopped>>
      /\ threads \in Threads /\ threads' \in Threads
      /\ phase' \in {"init", "adjoint", "free", "done"}
  BY DEF EnterAdjoint, LeaveAdjoint, NextTeam, TypeOK, Threads
<1>2. TypeOK'
  BY <1>1 DEF TypeOK
<1>3. CASE EnterAdjoint
  <2>1. phase = "init" /\ phase' = "adjoint" /\ threads' = threads
        /\ \A t \in Team : pc[t] = "ready"
    BY <1>3 DEF EnterAdjoint
  <2>2. \A t \in Threads : pc[t] \notin {"sized", "allocating", "checking", "freeing"}
    BY <1>1, <2>1, ConstantsAssumption DEF PhaseInv, Team, Threads
  <2>3. PhaseInv'
    BY <1>1, <2>1, <2>2 DEF PhaseInv, Team
  <2> QED
    BY <1>1, <1>2, <2>1, <2>3 DEF ShapeInv, UnitInv, UnitFor, ArrayInv
<1>4. CASE LeaveAdjoint
  <2>1. phase = "adjoint" /\ phase' = "free" /\ threads' = threads
    BY <1>4 DEF LeaveAdjoint
  <2>2. PhaseInv'
    BY <1>1, <2>1 DEF PhaseInv, Team
  <2> QED
    BY <1>1, <1>2, <2>1, <2>2 DEF ShapeInv, UnitInv, UnitFor, ArrayInv
<1>5. CASE NextTeam
  <2>1. phase = "free" /\ phase' \in {"init", "done"} /\ \A t \in Team : pc[t] = "idle"
    BY <1>5 DEF NextTeam
  <2>2. \A t \in Threads : pc[t] = "idle"
    BY <1>1, <2>1, ConstantsAssumption DEF PhaseInv, Team, Threads
  <2>3. PhaseInv' /\ UnitInv'
    BY <1>1, <2>1, <2>2 DEF PhaseInv, UnitInv, Team
  <2> QED
    BY <1>1, <1>2, <2>3 DEF ShapeInv, ArrayInv
<1> QED
  BY <1>3, <1>4, <1>5

\* The invariant is inductive.
LEMMA InvNext == Inv /\ [Next]_vars => Inv'
<1> SUFFICES ASSUME Inv, [Next]_vars PROVE Inv'
  OBVIOUS
<1>1. ASSUME NEW t \in Team, MemoryStep(t) PROVE Inv'
  BY <1>1, ComputeUnitInv, LockToAllocateInv, AllocateInv, CheckAllocatedInv, LockToFreeInv,
     DeallocateInv DEF MemoryStep
<1>2. ASSUME NEW t \in Team, StackStep(t) PROVE Inv'
  <2>1. ASSUME NEW v \in Element, PlainPush(t, v) PROVE Inv'
    BY <2>1, PlainPushStep, PushInv
  <2>2. ASSUME NEW v \in Element, CheckedPush(t, v) PROVE Inv'
    <3>1. CASE PushStep(t, v)
      BY <3>1, PushInv
    <3>2. CASE /\ stopped' = t
               /\ UNCHANGED <<threads, phase, pc, unit, lock, allocated, array, counter, result>>
      <4>1. t \in Threads
        BY ConstantsAssumption DEF Inv, TypeOK, Team, Threads
      <4> QED
        BY <3>2, <4>1, StopInv
    <3> QED
      BY <2>2, <3>1, <3>2, CheckedPushStep
  <2> QED
    BY <1>2, <2>1, <2>2, TopInv, PopInv DEF StackStep
<1>3. CASE EnterAdjoint \/ LeaveAdjoint \/ NextTeam
  BY <1>3, DriverInv
<1>4. CASE UNCHANGED vars
  BY <1>4 DEF vars, driver, Inv, TypeOK, ShapeInv, PhaseInv, UnitInv, UnitFor, ArrayInv, Team
<1> QED
  BY <1>1, <1>2, <1>3, <1>4 DEF Next

\* The lock has one holder and the counters are numbers, for every team
\* (cstack.h:29-43, 75-85).
THEOREM CStackTypeCorrect == Spec => []TypeOK
<1>1. Inv => TypeOK
  BY DEF Inv
<1> QED
  BY <1>1, InitInv, InvNext, PTL DEF Spec

\* The invariant holds in every reachable state.
LEMMA InvHolds == Spec => []Inv
  BY InitInv, InvNext, PTL DEF Spec

\* The size that ad_spush compares with is the size of every array, however
\* the threads interleave in ad_init and whatever teams came before
\* (cstack.h:32-36, 61).
THEOREM CStackArraysHaveUnit == Spec => []ArraysHaveUnit
<1>1. Inv => ArraysHaveUnit
  BY DEF Inv, ArraysHaveUnit, ArrayInv
<1> QED
  BY <1>1, InvHolds, PTL

\* No assertion can fail but for want of memory.
LEMMA StoppedNext == Inv /\ StoppedForMemory /\ [Next]_vars => StoppedForMemory'
<1> SUFFICES ASSUME Inv, StoppedForMemory, [Next]_vars, stopped' # 0 PROVE StoppedForMemory'
  BY DEF StoppedForMemory
<1>1. CASE stopped # 0
  <2>1. UNCHANGED vars
    BY <1>1 DEF Next, MemoryStep, StackStep, ComputeUnit, LockToAllocate, Allocate,
                CheckAllocated, LockToFree, Deallocate, PlainPush, CheckedPush, Top, Pop,
                EnterAdjoint, LeaveAdjoint, NextTeam
  <2> QED
    BY <1>1, <2>1 DEF StoppedForMemory, vars, Team, UnitFor
<1>2. CASE stopped = 0
  <2>1. PICK t \in Team : MemoryStep(t) \/ StackStep(t)
    BY <1>2 DEF Next, EnterAdjoint, LeaveAdjoint, NextTeam, vars
  <2>2. t \in Threads
    BY ConstantsAssumption DEF Inv, TypeOK, Team, Threads
  <2>3. CASE ComputeUnit(t)
    <3>1. ~allocated[t] /\ pc[t] = "idle"
      BY <2>2, <2>3 DEF ComputeUnit, Inv, PhaseInv
    <3>2. StackBytes = 0 /\ stopped' = t /\ pc' = pc
      BY <1>2, <2>3, <3>1 DEF ComputeUnit
    <3> QED
      BY <3>1, <3>2 DEF StoppedForMemory
  <2>4. CASE CheckAllocated(t)
    <3>1. /\ stopped' = t /\ pc[t] = "checking" /\ ~allocated[t]
          /\ UNCHANGED <<pc, allocated>>
      BY <1>2, <2>4 DEF CheckAllocated
    <3> QED
      BY <3>1 DEF StoppedForMemory
  <2>5. ~LockToFree(t)
    BY <1>2, <2>2 DEF LockToFree, Inv, PhaseInv
  <2>6. CASE StackStep(t)
    <3>1. PICK v \in Element : CheckedPush(t, v)
      BY <1>2, <2>6 DEF StackStep, PlainPush, Top, Pop
    <3>2. /\ stopped' = t /\ t \in Checked
          /\ allocated[t] /\ counter[t] = UnitFor(threads)
          /\ UNCHANGED <<threads, allocated, counter>>
      BY <1>2, <3>1, CheckedPushStep DEF PushStep
    <3> QED
      BY <3>2 DEF StoppedForMemory, Team, UnitFor
  <2> QED
    BY <1>2, <2>1, <2>3, <2>4, <2>5, <2>6 DEF MemoryStep, LockToAllocate, Allocate, Deallocate
<1> QED
  BY <1>1, <1>2

\* The assertions that can fail are those of a process without memory: none
\* found by main (cstack.h:31), none given by malloc (cstack.h:40), no room
\* left on the checked stack of the thread that stops (cstack.h:61).  Those
\* about arrays of other teams (cstack.h:30, 60, 76) never do.
THEOREM CStackStopsForMemory == Spec => []StoppedForMemory
<1>1. Init => StoppedForMemory
  BY DEF Init, StoppedForMemory
<1> QED
  BY <1>1, StoppedNext, InvHolds, PTL DEF Spec

-------------------------------------------------------------------------------
(* The refinement: the ideal stack of a thread is what its array holds     *)
(* below its counter.                                                      *)

Content == [t \in Threads |-> Held(array[t], counter[t])]

\* A step that changes one array, or one counter, changes one ideal stack.
LEMMA OneStack ==
    ASSUME NEW t \in Threads, NEW c,
           Held(array'[t], counter'[t]) = c,
           \A u \in Threads : u # t => array'[u] = array[u] /\ counter'[u] = counter[u]
    PROVE  Content' = [Content EXCEPT ![t] = c]
  BY DEF Content

\* What lies below the counter has been pushed.
LEMMA ArrayElements ==
    ASSUME Inv, NEW t \in Team, phase = "adjoint"
    PROVE  /\ \A i \in DOMAIN array[t] : array[t][i] \in Element \cup {Junk}
           /\ DOMAIN array[t] = 0 .. unit - 1
  BY InAdjoint

\* A push inside the array appends to the ideal stack.
LEMMA PushRefined ==
    ASSUME Inv, NEW t \in Team, NEW v \in Element, PushStep(t, v)
    PROVE  Ideal!Push(t, v)
<1> DEFINE S == Element \cup {Junk}
<1>1. /\ t \in Threads /\ counter[t] \in Nat /\ counter[t] \in DOMAIN array[t]
      /\ \A i \in DOMAIN array[t] : array[t][i] \in S
      /\ v \in S /\ Junk \in S
  BY InAdjoint DEF PushStep
<1>2. array'[t] = [array[t] EXCEPT ![counter[t]] = v] /\ counter'[t] = counter[t] + 1
  BY <1>1 DEF PushStep, Inv, ShapeInv, TypeOK
<1>3. \A u \in Threads : u # t => array'[u] = array[u] /\ counter'[u] = counter[u]
  BY <1>1 DEF PushStep, Inv, ShapeInv, TypeOK
<1>4. /\ DOMAIN array'[t] = DOMAIN array[t] /\ array'[t][counter[t]] = v
      /\ \A i \in DOMAIN array[t] : i # counter[t] => array'[t][i] = array[t][i]
  BY <1>1, <1>2
<1> HIDE DEF S
<1>5. Held(array'[t], counter'[t]) = Append(Held(array[t], counter[t]), v)
  <2> DEFINE f == array[t]
             g == array'[t]
             n == counter[t]
  <2>1. /\ n \in Nat /\ n \in DOMAIN f
        /\ \A i \in DOMAIN f : f[i] \in S
        /\ DOMAIN g = DOMAIN f /\ g[n] = v
        /\ \A i \in DOMAIN f : i # n => g[i] = f[i]
    BY <1>1, <1>4
  <2>2. counter'[t] = n + 1
    BY <1>2
  <2> HIDE DEF f, g, n
  <2>3. Held(g, n + 1) = Append(Held(f, n), v)
    BY <1>1, <2>1, StoreAppends
  <2> QED
    BY <2>2, <2>3 DEF f, g, n
<1>6. Content' = [Content EXCEPT ![t] = Append(Content[t], v)]
  BY <1>1, <1>3, <1>5, OneStack DEF Content
<1> QED
  BY <1>6 DEF Ideal!Push, PushStep, Content

\* A pop removes the last element of the ideal stack.
LEMMA PopRefined == ASSUME Inv, NEW t \in Team, Pop(t) PROVE Ideal!Pop(t)
<1> DEFINE S == Element \cup {Junk}
<1>1. /\ t \in Threads /\ counter[t] \in Nat /\ counter[t] > 0 /\ allocated[t]
      /\ \A i \in DOMAIN array[t] : array[t][i] \in S
      /\ Junk \in S
  BY InAdjoint DEF Pop
<1>2. array' = array /\ counter'[t] = counter[t] - 1
  BY <1>1 DEF Pop, Inv, TypeOK
<1>3. \A u \in Threads : u # t => array'[u] = array[u] /\ counter'[u] = counter[u]
  BY <1>1 DEF Pop, Inv, TypeOK
<1> HIDE DEF S
<1>4. /\ Held(array[t], counter[t]) # <<>>
      /\ Held(array'[t], counter'[t])
           = SubSeq(Held(array[t], counter[t]), 1, Len(Held(array[t], counter[t])) - 1)
  BY <1>1, <1>2, PopShortens
<1>5. Content' = [Content EXCEPT ![t] = SubSeq(Content[t], 1, Len(Content[t]) - 1)]
  BY <1>1, <1>3, <1>4, OneStack DEF Content
<1> QED
  BY <1>1, <1>4, <1>5 DEF Ideal!Pop, Pop, Content

\* What ad_top returns is the last element of the ideal stack.
LEMMA TopRefined == ASSUME Inv, NEW t \in Team, Top(t) PROVE Ideal!Top(t)
<1> DEFINE S == Element \cup {Junk}
<1>1. /\ t \in Threads /\ counter[t] \in Nat /\ allocated[t]
      /\ counter[t] > 0 => counter[t] - 1 \in DOMAIN array[t]
      /\ \A i \in DOMAIN array[t] : array[t][i] \in S
      /\ Junk \in S
  BY InAdjoint DEF Top
<1>2. UNCHANGED <<allocated, array, counter>>
  BY DEF Top
<1>3. PICK v \in IF counter[t] > 0 THEN Readable(array[t], counter[t] - 1) ELSE {0} :
          result' = [result EXCEPT ![t] = v]
  BY DEF Top
<1> HIDE DEF S
<1>4. v = IF Held(array[t], counter[t]) = <<>> THEN 0
          ELSE Held(array[t], counter[t])[Len(Held(array[t], counter[t]))]
  <2>1. CASE counter[t] = 0
    BY <1>3, <2>1, HeldEmpty
  <2>2. CASE counter[t] > 0
    <3>1. v = Held(array[t], counter[t])[Len(Held(array[t], counter[t]))]
      BY <1>1, <1>3, <2>2, TopIsLast
    <3>2. Held(array[t], counter[t]) # <<>>
      BY <1>1, <2>2, PopShortens
    <3> QED
      BY <3>1, <3>2
  <2> QED
    BY <1>1, <2>1, <2>2
<1> QED
  BY <1>1, <1>2, <1>3, <1>4 DEF Ideal!Top

\* An allocation opens an empty ideal stack; where malloc fails, it stays closed.
LEMMA AllocateRefined ==
    ASSUME Inv, NEW t \in Team, Allocate(t)
    PROVE  Ideal!Open(t) \/ Ideal!Close(t)
<1>1. t \in Threads
  BY ConstantsAssumption DEF Inv, TypeOK, Team, Threads
<1>2. counter'[t] = 0 /\ \A u \in Threads : u # t => array'[u] = array[u] /\ counter'[u] = counter[u]
  BY <1>1 DEF Allocate, Inv, TypeOK, ShapeInv
<1>3. Held(array'[t], counter'[t]) = <<>>
  BY <1>2, HeldEmpty
<1>4. Content' = [Content EXCEPT ![t] = <<>>]
  BY <1>1, <1>2, <1>3, OneStack
<1>5. PICK got \in BOOLEAN : allocated' = [allocated EXCEPT ![t] = got]
  BY DEF Allocate
<1>6. UNCHANGED result
  BY DEF Allocate
<1>7. CASE got = TRUE
  BY <1>4, <1>5, <1>6, <1>7 DEF Ideal!Open, Content
<1>8. CASE got = FALSE
  BY <1>4, <1>5, <1>6, <1>8 DEF Ideal!Close, Content
<1> QED
  BY <1>7, <1>8

\* A deallocation closes the ideal stack.
LEMMA DeallocateRefined == ASSUME Inv, NEW t \in Team, Deallocate(t) PROVE Ideal!Close(t)
<1>1. t \in Threads
  BY ConstantsAssumption DEF Inv, TypeOK, Team, Threads
<1>2. counter'[t] = 0 /\ \A u \in Threads : u # t => array'[u] = array[u] /\ counter'[u] = counter[u]
  BY <1>1 DEF Deallocate, Inv, TypeOK, ShapeInv
<1>3. Held(array'[t], counter'[t]) = <<>>
  BY <1>2, HeldEmpty
<1>4. Content' = [Content EXCEPT ![t] = <<>>]
  BY <1>1, <1>2, <1>3, OneStack
<1> QED
  BY <1>4 DEF Ideal!Close, Content, Deallocate

\* Every step is a step of the ideal stacks or changes nothing of them.
LEMMA Refined == Inv /\ [Next]_vars => [Ideal!INext]_(Ideal!IVars)
<1> SUFFICES ASSUME Inv, [Next]_vars PROVE [Ideal!INext]_(Ideal!IVars)
  OBVIOUS
<1>0. ASSUME UNCHANGED <<allocated, array, counter, result>> PROVE UNCHANGED Ideal!IVars
  BY <1>0 DEF Ideal!IVars
<1>1. \A t \in Team : t \in Threads
  BY ConstantsAssumption DEF Inv, TypeOK, Team, Threads
<1>2. ASSUME NEW t \in Team, MemoryStep(t) PROVE [Ideal!INext]_(Ideal!IVars)
  <2>1. CASE ComputeUnit(t)
    BY <1>0, <2>1 DEF ComputeUnit
  <2>2. CASE LockToAllocate(t)
    BY <1>0, <2>2 DEF LockToAllocate
  <2>3. CASE Allocate(t)
    BY <1>1, <2>3, AllocateRefined DEF Ideal!INext
  <2>4. CASE CheckAllocated(t) \/ LockToFree(t)
    BY <1>0, <2>4 DEF CheckAllocated, LockToFree
  <2>5. CASE Deallocate(t)
    BY <1>1, <2>5, DeallocateRefined DEF Ideal!INext
  <2> QED
    BY <1>2, <2>1, <2>2, <2>3, <2>4, <2>5 DEF MemoryStep
<1>3. ASSUME NEW t \in Team, StackStep(t) PROVE [Ideal!INext]_(Ideal!IVars)
  <2>1. ASSUME NEW v \in Element, PushStep(t, v) PROVE Ideal!INext
    BY <1>1, <2>1, PushRefined DEF Ideal!INext
  <2>2. ASSUME NEW v \in Element, PlainPush(t, v) PROVE Ideal!INext
    BY <2>1, <2>2, PlainPushStep
  <2>3. ASSUME NEW v \in Element, CheckedPush(t, v) PROVE [Ideal!INext]_(Ideal!IVars)
    BY <1>0, <2>1, <2>3, CheckedPushStep
  <2>4. CASE Top(t)
    BY <1>1, <2>4, TopRefined DEF Ideal!INext
  <2>5. CASE Pop(t)
    BY <1>1, <2>5, PopRefined DEF Ideal!INext
  <2> QED
    BY <1>3, <2>2, <2>3, <2>4, <2>5 DEF StackStep
<1>4. CASE EnterAdjoint \/ LeaveAdjoint \/ NextTeam \/ UNCHANGED vars
  BY <1>0, <1>4 DEF EnterAdjoint, LeaveAdjoint, NextTeam, vars
<1> QED
  BY <1>2, <1>3, <1>4 DEF Next

\* All ideal stacks are closed at the start.
LEMMA RefinedInit == Init => Ideal!IInit
<1> SUFFICES ASSUME Init PROVE Ideal!IInit
  OBVIOUS
<1>1. ASSUME NEW t \in Threads PROVE Held(array[t], counter[t]) = <<>>
  BY HeldEmpty DEF Init
<1> QED
  BY <1>1 DEF Init, Ideal!IInit

\* Every thread reads from its stack what an ideal stack of its own returns,
\* for every number of processors, whatever the other threads push and
\* however the allocations interleave (cstack.h:29-85).
THEOREM CStackRefinesIdeal == Spec => IdealStacks
<1>1. []Inv /\ [][Next]_vars => [][Ideal!INext]_(Ideal!IVars)
  BY Refined, PTL
<1> QED
  BY <1>1, RefinedInit, InvHolds, PTL DEF Spec, IdealStacks, Ideal!ISpec
===============================================================================
