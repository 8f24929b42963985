--------------------------- MODULE ClassStackProofs ---------------------------
(***************************************************************************)
(* The objects of Stack.h are ideal stacks, for every size of the array,   *)
(* every depth that fits into it and every class.                          *)
(***************************************************************************)
EXTENDS ClassStack, StackArrayProofs

\* An object of the program has no array and is empty.
LEMMA TypeInit == Init => TypeOK
<1> SUFFICES ASSUME Init PROVE TypeOK
  OBVIOUS
<1>1. counter \in 0 .. StackSize /\ counter = 0 /\ kind \in Kinds
  BY SizeAssumption DEF Init
<1>2. ~allocated /\ allocated \in BOOLEAN /\ stopped \in {"no", "assertion", "exception"}
  BY Zenon DEF Init
<1> QED
  BY <1>1, <1>2 DEF TypeOK

\* A value stored inside the array leaves an array of the same size.
LEMMA StoreType ==
    ASSUME TypeOK, allocated, counter < StackSize, NEW v \in Element, Store(v)
    PROVE  /\ stack' \in [0 .. StackSize - 1 -> Element \cup {Junk}]
           /\ counter' \in 0 .. StackSize
           /\ stack' = [stack EXCEPT ![counter] = v]
           /\ counter \in DOMAIN stack
<1>1. stack \in [0 .. StackSize - 1 -> Element \cup {Junk}] /\ counter \in 0 .. StackSize - 1
  BY SizeAssumption DEF TypeOK
<1>2. stack' = [stack EXCEPT ![counter] = v] /\ counter' = counter + 1
  BY <1>1 DEF Store
<1> QED
  BY <1>1, <1>2, SizeAssumption

\* Every operation keeps the counter inside the array.
LEMMA TypeNext == TypeOK /\ [Next]_vars => TypeOK'
<1> SUFFICES ASSUME TypeOK, [Next]_vars PROVE TypeOK'
  OBVIOUS
<1> USE SizeAssumption DEF TypeOK
<1>1. CASE InitStack
  <2>1. CASE allocated' = TRUE
    <3>1. CASE stack' = Fresh(StackSize) /\ counter' = 0 /\ UNCHANGED <<kind, stopped>>
      BY <2>1, <3>1 DEF Fresh
    <3>2. CASE stopped' = "exception" /\ UNCHANGED <<kind, allocated, stack, counter>>
      BY <3>2
    <3> QED
      BY <1>1, <3>1, <3>2, Zenon DEF InitStack
  <2>2. CASE allocated' # TRUE
    <3>1. stopped' = "exception" /\ UNCHANGED <<kind, allocated, stack, counter>>
      BY <1>1, <2>2 DEF InitStack
    <3> QED
      BY <3>1
  <2> QED
    BY <2>1, <2>2
<1>2. ASSUME NEW v \in Element, SafePush(v) PROVE TypeOK'
  <2>1. CASE allocated /\ counter < StackSize
    <3>1. Store(v)
      BY <1>2, <2>1 DEF SafePush
    <3>2. UNCHANGED <<kind, allocated, stopped>>
      BY <3>1 DEF Store
    <3> QED
      BY <2>1, <3>1, <3>2, StoreType
  <2>2. CASE ~(allocated /\ counter < StackSize)
    <3>1. Abort
      BY <1>2, <2>2, Zenon DEF SafePush
    <3> QED
      BY <3>1 DEF Abort
  <2> QED
    BY <2>1, <2>2
<1>3. ASSUME NEW v \in Element, UncheckedPush(v) PROVE TypeOK'
  <2>1. Store(v) /\ allocated /\ counter < StackSize
    BY <1>3 DEF UncheckedPush
  <2>2. UNCHANGED <<kind, allocated, stopped>>
    BY <2>1 DEF Store
  <2> QED
    BY <2>1, <2>2, StoreType
<1>4. CASE Top
  <2>1. UNCHANGED <<kind, allocated, stack, counter>> /\ stopped' \in {"no", "assertion", "exception"}
    BY <1>4 DEF Top, Abort
  <2> QED
    BY <2>1
<1>5. CASE Pop
  BY <1>5 DEF Pop
<1>6. CASE UNCHANGED vars
  BY <1>6 DEF vars
<1> QED
  BY <1>1, <1>2, <1>3, <1>4, <1>5, <1>6 DEF Next

\* The counter of an object stays inside its array, whatever the class and
\* the number of calls of init (Stack.h:26-36, 65, 82, 94-103, 111).
THEOREM ClassTypeCorrect == Spec => []TypeOK
  BY TypeInit, TypeNext, PTL DEF Spec

\* Only an assertion of a safe class fails, and only at its limits.
LEMMA LimitNext ==
    TypeOK /\ StoppedOnlyAtLimit /\ [Next]_vars => StoppedOnlyAtLimit'
<1> SUFFICES ASSUME TypeOK, StoppedOnlyAtLimit, [Next]_vars PROVE StoppedOnlyAtLimit'
  OBVIOUS
<1> USE SizeAssumption DEF TypeOK, StoppedOnlyAtLimit, Safe
<1>1. CASE InitStack
  BY <1>1 DEF InitStack
<1>2. ASSUME NEW v \in Element, SafePush(v) PROVE StoppedOnlyAtLimit'
  <2>1. CASE allocated /\ counter < StackSize
    BY <1>2, <2>1 DEF SafePush, Store
  <2>2. CASE ~(allocated /\ counter < StackSize)
    <3>1. Abort /\ kind \in Safe
      BY <1>2, <2>2, Zenon DEF SafePush
    <3>2. UNCHANGED <<kind, allocated, counter>>
      BY <3>1 DEF Abort
    <3>3. ~allocated \/ counter = StackSize
      BY <2>2
    <3> QED
      BY <3>1, <3>2, <3>3
  <2> QED
    BY <2>1, <2>2
<1>3. CASE \E v \in Element : UncheckedPush(v)
  BY <1>3 DEF UncheckedPush, Store
<1>4. CASE Top
  BY <1>4 DEF Top, Abort
<1>5. CASE Pop
  BY <1>5 DEF Pop
<1>6. CASE UNCHANGED vars
  BY <1>6 DEF vars
<1> QED
  BY <1>1, <1>2, <1>3, <1>4, <1>5, <1>6 DEF Next

\* The assertions of a safe class fail only at a limit of its array, the other
\* classes have none that can fail (Stack.h:65-67, 111-116).
THEOREM ClassStopsOnlyAtLimit == Spec => []StoppedOnlyAtLimit
<1>1. Init => StoppedOnlyAtLimit
  BY DEF Init, StoppedOnlyAtLimit
<1> QED
  BY <1>1, LimitNext, ClassTypeCorrect, PTL DEF Spec

-------------------------------------------------------------------------------
(* The refinement: every step of the object is a step of the ideal stack   *)
(* or leaves what the ideal stack sees alone.                              *)

\* A push inside the array appends to the ideal stack.
LEMMA StoreStep ==
    ASSUME TypeOK, allocated, counter < StackSize, NEW v \in Element, Store(v)
    PROVE  Ideal!Push(1, v)
<1> DEFINE S == Element \cup {Junk}
<1>1. /\ counter \in Nat /\ counter \in DOMAIN stack
      /\ \A i \in DOMAIN stack : stack[i] \in S
      /\ v \in S /\ Junk \in S
  BY SizeAssumption DEF TypeOK
<1>2. /\ DOMAIN stack' = DOMAIN stack /\ stack'[counter] = v
      /\ \A i \in DOMAIN stack : i # counter => stack'[i] = stack[i]
      /\ counter' = counter + 1
  BY <1>1 DEF Store
<1> HIDE DEF S
<1>3. Held(stack', counter + 1) = Append(Held(stack, counter), v)
  BY <1>1, <1>2, StoreAppends
<1>4. Held(stack', counter') = Append(Held(stack, counter), v)
  BY <1>2, <1>3
<1> QED
  BY <1>4 DEF Ideal!Push, Store

\* What top returns is the last element of the ideal stack.
LEMMA TopStep ==
    ASSUME TypeOK, Top
    PROVE  Ideal!Top(1) \/ UNCHANGED <<allocated, stack, counter, result>>
<1>1. CASE kind = "doubleSafe" /\ counter = 0
  BY <1>1 DEF Top, Abort
<1>2. CASE ~(kind = "doubleSafe" /\ counter = 0)
  <2>1. UNCHANGED <<allocated, stack, counter>> /\ allocated
    BY <1>2 DEF Top
  <2>2. CASE counter = 0
    <3>1. Held(stack, counter) = <<>> /\ result' = -1
      BY <1>2, <2>2, HeldEmpty DEF Top
    <3> QED
      BY <2>1, <3>1 DEF Ideal!Top
  <2>3. CASE counter # 0
    <3> DEFINE S == Element \cup {Junk}
    <3>1. /\ counter \in Nat /\ counter > 0 /\ counter - 1 \in DOMAIN stack
          /\ \A i \in DOMAIN stack : stack[i] \in S
          /\ Junk \in S
      BY <2>1, <2>3, SizeAssumption DEF TypeOK
    <3>2. result' \in Readable(stack, counter - 1)
      BY <1>2, <3>1 DEF Top
    <3> HIDE DEF S
    <3>3. result' = Held(stack, counter)[Len(Held(stack, counter))]
      BY <3>1, <3>2, TopIsLast
    <3>4. Held(stack, counter) # <<>>
      BY <3>1, PopShortens
    <3> QED
      BY <2>1, <3>3, <3>4 DEF Ideal!Top
  <2> QED
    BY <2>2, <2>3
<1> QED
  BY <1>1, <1>2

\* A pop removes the last element of the ideal stack.
LEMMA PopStep == ASSUME TypeOK, Pop PROVE Ideal!Pop(1)
<1> DEFINE S == Element \cup {Junk}
<1>1. /\ counter \in Nat /\ counter > 0
      /\ \A i \in DOMAIN stack : stack[i] \in S
      /\ Junk \in S
  BY SizeAssumption DEF TypeOK, Pop
<1>2. stack' = stack /\ counter' = counter - 1
  BY DEF Pop
<1> HIDE DEF S
<1>3. /\ Held(stack, counter) # <<>>
      /\ Held(stack', counter') = SubSeq(Held(stack, counter), 1, Len(Held(stack, counter)) - 1)
  BY <1>1, <1>2, PopShortens
<1> QED
  BY <1>3 DEF Ideal!Pop, Pop

\* init opens an empty ideal stack, also when one was open, or throws.
LEMMA InitStep ==
    ASSUME InitStack
    PROVE  Ideal!Open(1) \/ UNCHANGED <<allocated, stack, counter, result>>
<1>1. CASE UNCHANGED <<allocated, stack, counter>>
  BY <1>1 DEF InitStack
<1>2. CASE allocated' = TRUE /\ counter' = 0
  <2>1. Held(stack', counter') = <<>>
    BY <1>2, HeldEmpty
  <2> QED
    BY <1>2, <2>1 DEF Ideal!Open, InitStack
<1> QED
  BY <1>1, <1>2 DEF InitStack

\* Every step is a step of the ideal stack or changes nothing of it.
LEMMA RefinedNext ==
    TypeOK /\ [Next]_vars => [Ideal!INext]_(Ideal!IVars)
<1> SUFFICES ASSUME TypeOK, [Next]_vars PROVE [Ideal!INext]_(Ideal!IVars)
  OBVIOUS
<1>0. ASSUME UNCHANGED <<allocated, stack, counter, result>> PROVE UNCHANGED Ideal!IVars
  BY <1>0 DEF Ideal!IVars
<1>1. CASE InitStack
  BY <1>0, <1>1, InitStep DEF Ideal!INext
<1>2. ASSUME NEW v \in Element, SafePush(v) PROVE [Ideal!INext]_(Ideal!IVars)
  <2>1. CASE allocated /\ counter < StackSize
    BY <1>2, <2>1, StoreStep DEF SafePush, Ideal!INext
  <2>2. CASE ~(allocated /\ counter < StackSize)
    BY <1>0, <1>2, <2>2 DEF SafePush, Abort
  <2> QED
    BY <2>1, <2>2
<1>3. ASSUME NEW v \in Element, UncheckedPush(v) PROVE [Ideal!INext]_(Ideal!IVars)
  <2>1. counter < StackSize
    BY <1>3, SizeAssumption DEF UncheckedPush, TypeOK
  <2> QED
    BY <1>3, <2>1, StoreStep DEF UncheckedPush, Ideal!INext
<1>4. CASE Top
  BY <1>0, <1>4, TopStep DEF Ideal!INext
<1>5. CASE Pop
  BY <1>5, PopStep DEF Ideal!INext
<1>6. CASE UNCHANGED vars
  BY <1>0, <1>6 DEF vars
<1> QED
  BY <1>1, <1>2, <1>3, <1>4, <1>5, <1>6 DEF Next

\* The ideal stack is closed at the start.
LEMMA RefinedInit == Init => Ideal!IInit
<1> SUFFICES ASSUME Init PROVE Ideal!IInit
  OBVIOUS
<1>1. Held(stack, counter) = <<>>
  BY HeldEmpty DEF Init
<1> QED
  BY <1>1 DEF Init, Ideal!IInit

\* What the code reads from an object is what an ideal stack returns: the
\* value pushed last and not popped, for every class and every legal use
\* (Stack.h:23-32, 65-75, 82, 92-103, 111-121).
THEOREM ClassRefinesIdeal == Spec => IdealObject
<1>1. []TypeOK /\ [][Next]_vars => [][Ideal!INext]_(Ideal!IVars)
  BY RefinedNext, PTL
<1> QED
  BY <1>1, RefinedInit, ClassTypeCorrect, PTL DEF Spec, IdealObject, Ideal!ISpec
===============================================================================
