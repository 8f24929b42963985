------------------------------ MODULE StackArray ------------------------------
(***************************************************************************)
(* The array behind a stack, indexed from 0, and the sequence of values    *)
(* that it holds below a counter.  Both headers keep their stacks so.      *)
(***************************************************************************)
EXTENDS Integers, Sequences

CONSTANTS
    Element,    \* the values that are pushed
    Junk        \* what malloc or new leaves in an element

Fresh(size) == [i \in 0 .. size - 1 |-> Junk]

\* What can be read at index i: outside the array that is anything.
Readable(f, i) ==
    IF i \in DOMAIN f THEN {f[i]} ELSE Element \cup {Junk}

\* The values below the counter n, the oldest first.
Held(f, n) ==
    [i \in 1 .. n |-> IF i - 1 \in DOMAIN f THEN f[i - 1] ELSE Junk]
===============================================================================
