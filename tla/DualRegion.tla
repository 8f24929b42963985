------------------------------ MODULE DualRegion ------------------------------
(***************************************************************************)
(* What the tangent-linear code of a region promises: it runs the region   *)
(* with a value and a directional derivative for each float variable. Each *)
(* statement first differentiates by the chain rule, then does what it did *)
(* in the region. Its integers, tests, critical and master constructs and  *)
(* barriers are those of the region.                                       *)
(***************************************************************************)
EXTENDS Integers, Sequences, SequencesExt

CONSTANTS
  Thread,        \* the threads of the team
  Master,        \* the one that executes master constructs
  NoThread,      \* the holder of a free lock, the owner of shared variables
  SharedName(_), \* whether a variable is shared
  ValueOf(_, _)    \* the value of an expression in a memory

VARIABLES
  region,    \* its code, and the values and derivatives on entry
  todo,      \* the statements that each thread has before it
  half,      \* whether it has differentiated the first of them
  val, dot,  \* the values and the derivatives, by owner and name
  vstack,    \* the float stack of each thread
  dstack,    \* the derivatives of what is on it
  lock

dvars == <<region, todo, half, val, dot, vstack, dstack, lock>>

Owner(t, x) == IF SharedName(x) THEN NoThread ELSE t
See(t, m) == [x \in DOMAIN m[t] |-> m[Owner(t, x)][x]]

(* The chain rule. *)
RECURSIVE Derivative(_, _, _)
Derivative(e, v, d) ==
  LET a(k) == ValueOf(e.args[k], v)
      da(k) == Derivative(e.args[k], v, d)
      outer(op) == ValueOf([e EXCEPT !.op = op], v)
  IN  CASE e.op = "id" -> d[e.x]
        [] e.op = "const" -> 0
        [] e.op = "add" -> da(1) + da(2)
        [] e.op = "sub" -> da(1) - da(2)
        [] e.op = "mul" -> da(1) * a(2) + a(1) * da(2)
        [] e.op = "sin" -> outer("cos") * da(1)
        [] e.op = "cos" -> -outer("sin") * da(1)
        [] e.op = "exp" -> outer("exp") * da(1)
        [] e.op = "brackets" -> da(1)

Adds(st) == st.s \in {"plus", "atomic"}
Floating == {"assign", "plus", "atomic", "push", "pop"}

Becomes(m, t, st, v) ==
  [m EXCEPT ![Owner(t, st.x)][st.x] = IF Adds(st) THEN @ + v ELSE v]

(* A statement under a pragma is done as it is. *)
Plainly(st) == IF st.s = "failure" THEN st.of ELSE st
First(t) == Plainly(Head(todo[t]))
At(t, kinds) == todo[t] # <<>> /\ First(t).s \in kinds
Past(t) == todo' = [todo EXCEPT ![t] = Tail(@)]

Differentiate(t) ==
  /\ ~half[t] /\ At(t, Floating)
  /\ LET st == First(t) IN
       CASE st.s = "push" ->
              /\ dstack' = [dstack EXCEPT ![t] = Append(@, See(t, dot)[st.x])]
              /\ UNCHANGED dot
         [] st.s = "pop" ->
              /\ dstack' = [dstack EXCEPT ![t] = Front(@)]
              /\ UNCHANGED dot
         [] OTHER ->
              /\ dot' = Becomes(dot, t, st,
                          IF st.e.op = "top" THEN Last(dstack[t])
                          ELSE Derivative(st.e, See(t, val), See(t, dot)))
              /\ UNCHANGED dstack
  /\ half' = [half EXCEPT ![t] = TRUE]
  /\ UNCHANGED <<todo, val, vstack, lock>>

Evaluate(t) ==
  /\ half[t]
  /\ LET st == First(t) IN
       CASE st.s = "push" ->
              /\ vstack' = [vstack EXCEPT ![t] = Append(@, See(t, val)[st.x])]
              /\ UNCHANGED val
         [] st.s = "pop" ->
              /\ vstack' = [vstack EXCEPT ![t] = Front(@)]
              /\ UNCHANGED val
         [] OTHER ->
              /\ val' = Becomes(val, t, st,
                          IF st.e.op = "top" THEN Last(vstack[t])
                          ELSE ValueOf(st.e, See(t, val)))
              /\ UNCHANGED vstack
  /\ half' = [half EXCEPT ![t] = FALSE]
  /\ Past(t)
  /\ UNCHANGED <<dot, dstack, lock>>

Count(t) ==
  /\ At(t, {"int"})
  /\ val' = Becomes(val, t, First(t), ValueOf(First(t).e, See(t, val)))
  /\ Past(t)
  /\ UNCHANGED <<half, dot, vstack, dstack, lock>>

(* A loop stays behind its body. *)
Branch(t) ==
  /\ At(t, {"if", "while", "master", "for"})
  /\ LET st   == First(t)
         runs == CASE st.s = "master" -> t = Master
                   [] st.s = "for" -> TRUE
                   [] OTHER -> ValueOf(st.e, See(t, val)) > 0
         rest == IF runs /\ st.s = "while" THEN todo[t] ELSE Tail(todo[t])
     IN  todo' = [todo EXCEPT ![t] = IF runs THEN st.body \o rest ELSE rest]
  /\ UNCHANGED <<half, val, dot, vstack, dstack, lock>>

Leave == [s |-> "leave"]

EnterCritical(t) ==
  /\ At(t, {"critical"})
  /\ lock = NoThread /\ lock' = t
  /\ todo' = [todo EXCEPT ![t] = First(t).body \o <<Leave>> \o Tail(@)]
  /\ UNCHANGED <<half, val, dot, vstack, dstack>>

LeaveCritical(t) ==
  /\ At(t, {"leave"})
  /\ lock' = NoThread
  /\ Past(t)
  /\ UNCHANGED <<half, val, dot, vstack, dstack>>

CrossBarrier ==
  /\ \A t \in Thread : At(t, {"barrier"})
  /\ todo' = [t \in Thread |-> Tail(todo[t])]
  /\ UNCHANGED <<half, val, dot, vstack, dstack, lock>>

DInit ==
  /\ todo = region.code
  /\ val = region.val
  /\ dot = region.dot
  /\ half = [t \in Thread |-> FALSE]
  /\ vstack = [t \in Thread |-> <<>>]
  /\ dstack = [t \in Thread |-> <<>>]
  /\ lock = NoThread

DStep == \/ \E t \in Thread : \/ Differentiate(t) \/ Evaluate(t) \/ Count(t) \/ Branch(t)
                              \/ EnterCritical(t) \/ LeaveCritical(t)
         \/ CrossBarrier

DNext == DStep /\ UNCHANGED region

DSpec == DInit /\ [][DNext]_dvars
===============================================================================
