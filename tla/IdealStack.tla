------------------------------ MODULE IdealStack ------------------------------
(***************************************************************************)
(* What the adjoint code expects of its runtime stacks, whichever header   *)
(* implements them: every stack is a sequence of its own, a value read at  *)
(* the top is the one pushed last and not popped yet, and nothing that     *)
(* happens to one stack shows in another.  A stack without memory, not yet  *)
(* or no longer, is not open.  What a top of an empty stack returns is     *)
(* fixed by the implementation.                                            *)
(***************************************************************************)
EXTENDS Integers, Sequences

CONSTANTS
    Stacks,     \* the stacks of the program, one of each thread
    Element,    \* the values that are pushed
    EmptyTop    \* what top returns for an empty stack

VARIABLES
    open,       \* whether the stack has memory
    content,    \* the values of every stack, the oldest first
    result      \* what the last top of every stack returned

IVars == <<open, content, result>>

IInit ==
    /\ open = [s \in Stacks |-> FALSE]
    /\ content = [s \in Stacks |-> <<>>]
    /\ result = [s \in Stacks |-> EmptyTop]

\* The stack gets memory, or fresh memory, and is empty.
Open(s) ==
    /\ open' = [open EXCEPT ![s] = TRUE]
    /\ content' = [content EXCEPT ![s] = <<>>]
    /\ UNCHANGED result

Push(s, v) ==
    /\ open[s]
    /\ content' = [content EXCEPT ![s] = Append(@, v)]
    /\ UNCHANGED <<open, result>>

Pop(s) ==
    /\ open[s]
    /\ content[s] # <<>>
    /\ content' = [content EXCEPT ![s] = SubSeq(@, 1, Len(@) - 1)]
    /\ UNCHANGED <<open, result>>

Top(s) ==
    /\ open[s]
    /\ result' = [result EXCEPT ![s] = IF content[s] = <<>> THEN EmptyTop
                                       ELSE content[s][Len(content[s])]]
    /\ UNCHANGED <<open, content>>

\* The memory is returned; what was left on the stack is gone.
Close(s) ==
    /\ open' = [open EXCEPT ![s] = FALSE]
    /\ content' = [content EXCEPT ![s] = <<>>]
    /\ UNCHANGED result

INext ==
    \E s \in Stacks :
        \/ Open(s)
        \/ \E v \in Element : Push(s, v)
        \/ Pop(s)
        \/ Top(s)
        \/ Close(s)

ISpec == IInit /\ [][INext]_IVars
===============================================================================
