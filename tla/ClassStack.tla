------------------------------ MODULE ClassStack ------------------------------
(***************************************************************************)
(* The stack classes of Stack.h.  An object belongs to one thread; init    *)
(* gives it an array of STACK_SIZE elements, and the code may call it      *)
(* again for the next region.  The object is one of                        *)
(*     "double"      Stackf and ldStackf: push does not test the size and  *)
(*                   top does not test the counter                         *)
(*     "doubleSafe"  safeStackf: both are asserted                         *)
(*     "int"         Stacki and Stackc: top of an empty stack is -1        *)
(*     "intSafe"     safeStacki and safeStackc: push is asserted           *)
(* A push beyond the end of the array is undefined; what is read there     *)
(* afterwards can be anything.  Arrays that init replaces without deleting *)
(* them, all of the int classes and the empty ones of the others, are not  *)
(* kept account of.                                                        *)
(***************************************************************************)
EXTENDS StackArray

CONSTANTS
    StackSize,  \* STACK_SIZE
    Depth       \* the code has at most this many values on an unsafe stack

Safe == {"doubleSafe", "intSafe"}
Kinds == {"double", "int"} \cup Safe

\* Nothing else keeps the unchecked push inside its array.
ASSUME SizeAssumption ==
    /\ StackSize \in Nat
    /\ Depth \in Nat
    /\ Depth <= StackSize

VARIABLES
    kind,       \* the class of the object
    allocated,  \* stack # NULL; objects of the program start with NULL
    stack,      \* the elements
    counter,    \* stack_counter
    result,     \* what the last top returned
    stopped     \* "no", or what ended the program: "assertion" or "exception"

vars == <<kind, allocated, stack, counter, result, stopped>>

Init ==
    /\ kind \in Kinds
    /\ allocated = FALSE
    /\ stack = Fresh(0)
    /\ counter = 0
    /\ result = -1
    /\ stopped = "no"

Abort ==
    /\ stopped' = "assertion"
    /\ UNCHANGED <<kind, allocated, stack, counter, result>>

\* Mutant: the new array inherits the counter of the old one.
InitStackKept ==
    /\ stopped = "no"
    /\ \/ /\ allocated' = TRUE
          /\ stack' = Fresh(StackSize)
          /\ UNCHANGED <<counter, stopped>>
       \/ /\ stopped' = "exception"
          /\ UNCHANGED <<allocated, stack, counter>>
    /\ UNCHANGED <<kind, result>>

\* init(): new gives the array or throws, and nobody catches the exception.
InitStack ==
    /\ stopped = "no"
    /\ \/ /\ allocated' = TRUE
          /\ stack' = Fresh(StackSize)
          /\ counter' = 0
          /\ UNCHANGED stopped
       \/ /\ stopped' = "exception"
          /\ UNCHANGED <<allocated, stack, counter>>
    /\ UNCHANGED <<kind, result>>

\* stack[stack_counter++] = v
Store(v) ==
    /\ stack' = IF counter \in DOMAIN stack THEN [stack EXCEPT ![counter] = v] ELSE stack
    /\ counter' = counter + 1
    /\ UNCHANGED <<kind, allocated, result, stopped>>

\* Mutant: the end of the array is taken for an element.
SafePushOneMore(v) ==
    /\ stopped = "no" /\ kind \in Safe
    /\ IF allocated /\ counter <= StackSize THEN Store(v) ELSE Abort

\* push of the safe classes
SafePush(v) ==
    /\ stopped = "no" /\ kind \in Safe
    /\ IF allocated /\ counter < StackSize THEN Store(v) ELSE Abort

\* push of the other classes, by code that stays within its depth
UncheckedPush(v) ==
    /\ stopped = "no" /\ kind \notin Safe
    /\ allocated /\ counter < Depth
    /\ Store(v)

\* Mutant: the assertion compares with a counter of one.
TopAtLast ==
    /\ stopped = "no" /\ allocated
    /\ kind = "double" => counter > 0
    /\ IF kind = "doubleSafe" /\ counter = 1
         THEN Abort
         ELSE /\ result' \in IF counter > 0 THEN Readable(stack, counter - 1) ELSE {-1}
              /\ UNCHANGED <<kind, allocated, stack, counter, stopped>>

\* top(): only the code of a plain double stack has to know that it is not
\* empty.
Top ==
    /\ stopped = "no" /\ allocated
    /\ kind = "double" => counter > 0
    /\ IF kind = "doubleSafe" /\ counter = 0
         THEN Abort
         ELSE /\ result' \in IF counter > 0 THEN Readable(stack, counter - 1) ELSE {-1}
              /\ UNCHANGED <<kind, allocated, stack, counter, stopped>>

\* pop(): no class tests the counter, the code pops what it pushed.
Pop ==
    /\ stopped = "no" /\ allocated
    /\ counter > 0
    /\ counter' = counter - 1
    /\ UNCHANGED <<kind, allocated, stack, result, stopped>>

Next ==
    \/ InitStack
    \/ \E v \in Element : SafePush(v) \/ UncheckedPush(v)
    \/ Top
    \/ Pop

Spec == Init /\ [][Next]_vars

-------------------------------------------------------------------------------
(* Properties *)

\* Type invariant: an object with an array has room for what its counter
\* says, one without is empty.
TypeOK ==
    /\ kind \in Kinds
    /\ allocated \in BOOLEAN
    /\ allocated => stack \in [0 .. StackSize - 1 -> Element \cup {Junk}]
    /\ counter \in 0 .. StackSize
    /\ ~allocated => counter = 0
    /\ stopped \in {"no", "assertion", "exception"}

Ideal == INSTANCE IdealStack WITH
    Stacks <- {1},
    EmptyTop <- -1,
    open <- [s \in {1} |-> allocated],
    content <- [s \in {1} |-> Held(stack, counter)],
    result <- [s \in {1} |-> result]

\* Whatever the class, and however often init is called, the code reads what
\* it pushed last and has not popped, never an element of new or of the
\* array before (init, push and top, Stack.h:23-32, 65-75, 82, 92-103).
IdealObject == Ideal!ISpec

\* Only a safe class fails an assertion, and only when it is full, empty or
\* has no array: the assertions do not reject what the array has room for
\* (Stack.h:65-67, 111-116).
StoppedOnlyAtLimit ==
    stopped = "assertion" =>
        kind \in Safe /\ (~allocated \/ counter \in {0, StackSize})
===============================================================================
