---------------------------- MODULE TangentLinear -----------------------------
(***************************************************************************)
(* A team that runs the tangent-linear code of a region, one generated     *)
(* statement of one thread at a time. The region may be the adjoint code   *)
(* of straight-line code; the tangent-linear code then holds the adjoint   *)
(* statements among its own, and its run shows both: first derivatives by  *)
(* the adjoint code and second derivatives by the tangent-linear code of   *)
(* it.                                                                     *)
(***************************************************************************)
EXTENDS DerivativeCode, FiniteSets

CONSTANTS
  Thread, Master, NoThread,
  Program      \* the regions: see ProgramType

VARIABLES
  prog,        \* the region
  code,        \* the generated statements each thread has before it
  mem,         \* the memory, by owner and name
  stack,       \* the float stacks of each thread, by their prefix
  loaded,      \* what a thread has loaded for a plain increment, if anything
  lock

vars == <<prog, code, mem, stack, loaded, lock>>

(* Intermediates of the largest expression. *)
Intermediates(o) == { Intermediate(k, o) : k \in 0..6 }

SharedNames ==
  LET adj == Shared \cup { AdjPrefix(0) \o x : x \in Shared }
                    \cup UNION { {Flag([x |-> x]), Storage([x |-> x])} : x \in Shared }
  IN  adj \cup { TlPrefix(o) \o x : o \in {0, 1}, x \in adj }

Places == Thread \cup {NoThread}

(* order is that of the code; val and dot are the memory on entry; of is    *)
(* the region whose adjoint this is, or the region itself.                  *)
ProgramOK(p) ==
  /\ p.order \in {0, 1}
  /\ DOMAIN p.code = Thread /\ DOMAIN p.val = Places /\ DOMAIN p.dot = Places
  /\ \A w \in Places : DOMAIN p.dot[w] \subseteq DOMAIN p.val[w]

ASSUME ConstantsAssumption ==
  /\ Master \in Thread /\ NoThread \notin Thread
  /\ Exclusive \subseteq Shared
  /\ \A p \in Program : ProgramOK(p)

Tl(x) == TlPrefix(prog.order) \o x

(* The memory of one owner: variables, derivatives, intermediates. *)
OnEntry(w) ==
  LET zero(names) == [x \in names |-> 0]
      tl == [y \in { Tl(x) : x \in DOMAIN prog.dot[w] } |->
               prog.dot[w][CHOOSE x \in DOMAIN prog.dot[w] : Tl(x) = y]]
      v  == Intermediates(prog.order)
  IN  prog.val[w] @@ tl @@ zero(v) @@ zero({ Tl(x) : x \in v })

Init ==
  /\ prog \in Program
  /\ code = [t \in Thread |-> TauSeq(prog.code[t], prog.order)]
  /\ mem = [w \in Places |-> OnEntry(w)]
  /\ loaded = [t \in Thread |-> <<>>]
  /\ stack = [t \in Thread |-> [st \in {AdjPrefix(0), Tl("")} |-> <<>>]]
  /\ lock = NoThread

-------------------------------------------------------------------------------
Owner(t, x) == IF x \in SharedNames THEN NoThread ELSE t
See(t) == [x \in DOMAIN mem[t] |-> mem[Owner(t, x)][x]]

First(t) == Head(code[t]).c
At(t, kinds) == code[t] # <<>> /\ First(t).s \in kinds
Past(t) == code' = [code EXCEPT ![t] = Tail(@)]

Rhs(t) == IF First(t).e.op = "top" THEN Last(stack[t][First(t).e.st])
          ELSE Value(First(t).e, See(t))

DoAssign(t) ==
  /\ At(t, {"assign", "int"})
  /\ mem' = [mem EXCEPT ![Owner(t, First(t).x)][First(t).x] = Rhs(t)]
  /\ Past(t)
  /\ UNCHANGED <<prog, stack, loaded, lock>>

IsPlain(t) == First(t).s = "plus" /\ Owner(t, First(t).x) = NoThread

(* An atomic increment, or one of a variable nobody else can see. *)
DoIncrement(t) ==
  /\ At(t, {"plus", "atomic"}) /\ ~IsPlain(t)
  /\ mem' = [mem EXCEPT ![Owner(t, First(t).x)][First(t).x] = @ + Rhs(t)]
  /\ Past(t)
  /\ UNCHANGED <<prog, stack, loaded, lock>>

(* A plain increment of a shared variable is a load and a store. *)
DoLoad(t) ==
  /\ At(t, {"plus"}) /\ IsPlain(t)
  /\ loaded[t] = <<>>
  /\ loaded' = [loaded EXCEPT ![t] = << mem[NoThread][First(t).x] >>]
  /\ UNCHANGED <<prog, code, mem, stack, lock>>

DoStore(t) ==
  /\ loaded[t] # <<>>
  /\ mem' = [mem EXCEPT ![NoThread][First(t).x] = loaded[t][1] + Rhs(t)]
  /\ loaded' = [loaded EXCEPT ![t] = <<>>]
  /\ Past(t)
  /\ UNCHANGED <<prog, stack, lock>>

DoPush(t) ==
  /\ At(t, {"push"})
  /\ stack' = [stack EXCEPT ![t][First(t).st] = Append(@, See(t)[First(t).x])]
  /\ Past(t)
  /\ UNCHANGED <<prog, mem, loaded, lock>>

DoPop(t) ==
  /\ At(t, {"pop"})
  /\ stack[t][First(t).st] # <<>>
  /\ stack' = [stack EXCEPT ![t][First(t).st] = Front(@)]
  /\ Past(t)
  /\ UNCHANGED <<prog, mem, loaded, lock>>

Runs(t) == CASE First(t).s = "master" -> t = Master
             [] First(t).s = "for" -> TRUE
             [] OTHER -> Value(First(t).e, See(t)) > 0

DoBranch(t) ==
  /\ At(t, {"if", "while", "master", "for"})
  /\ LET rest == IF Runs(t) /\ First(t).s = "while" THEN code[t] ELSE Tail(code[t])
     IN  code' = [code EXCEPT ![t] = IF Runs(t) THEN First(t).body \o rest ELSE rest]
  /\ UNCHANGED <<prog, mem, stack, loaded, lock>>

Leave == [s |-> "leave"]

(* Mutant: the lock is tested and not taken. *)
DoEnterUnlocked(t) ==
  /\ At(t, {"critical"})
  /\ lock = NoThread
  /\ code' = [code EXCEPT ![t] = First(t).body \o Completes(<<Leave>>, Leave) \o Tail(@)]
  /\ UNCHANGED <<prog, mem, stack, loaded, lock>>

DoEnter(t) ==
  /\ At(t, {"critical"})
  /\ lock = NoThread /\ lock' = t
  /\ code' = [code EXCEPT ![t] = First(t).body \o Completes(<<Leave>>, Leave) \o Tail(@)]
  /\ UNCHANGED <<prog, mem, stack, loaded>>

DoLeave(t) ==
  /\ At(t, {"leave"})
  /\ lock' = NoThread
  /\ Past(t)
  /\ UNCHANGED <<prog, mem, stack, loaded>>

DoBarrier ==
  /\ \A t \in Thread : At(t, {"barrier"})
  /\ code' = [t \in Thread |-> Tail(code[t])]
  /\ UNCHANGED <<prog, mem, stack, loaded, lock>>

Finished == \A t \in Thread : code[t] = <<>>
Terminated == Finished /\ UNCHANGED vars

Next == \/ \E t \in Thread : \/ DoAssign(t) \/ DoIncrement(t) \/ DoLoad(t) \/ DoStore(t)
                             \/ DoPush(t) \/ DoPop(t) \/ DoBranch(t) \/ DoEnter(t) \/ DoLeave(t)
        \/ DoBarrier
        \/ Terminated

Spec == Init /\ [][Next]_vars

-------------------------------------------------------------------------------
(* The refinement. A thread has done half of a statement when only the last *)
(* of the two generated for a float statement is left.                      *)
Completed(S) == LET ends == SelectSeq(S, LAMBDA c : c.done # <<>>)
                IN  [k \in DOMAIN ends |-> ends[k].done[1]]
todo == [t \in Thread |-> Completed(code[t])]

half == [t \in Thread |->
           /\ code[t] # <<>>
           /\ Head(code[t]).done # <<>>
           /\ Head(code[t]).c.s \in {"assign", "plus", "atomic", "push", "pop"}]

val == [w \in Places |-> [x \in DOMAIN prog.val[w] |-> mem[w][x]]]
dot == [w \in Places |-> [x \in DOMAIN prog.dot[w] |-> mem[w][Tl(x)]]]
IsShared(x) == x \in SharedNames

Dual == INSTANCE DualRegion
          WITH region <- prog,
               SharedName <- IsShared,
               ValueOf <- Value,
               vstack <- [t \in Thread |-> stack[t][AdjPrefix(0)]],
               dstack <- [t \in Thread |-> stack[t][Tl("")]]

(* The tangent-linear code of a team implements the region on dual numbers: *)
(* whatever the interleaving, each variable is changed when the region      *)
(* changes it, to the same value, and its derivative follows the chain      *)
(* rule; the derivatives on the stacks belong to the values on them.        *)
DualRun == Dual!DSpec

-------------------------------------------------------------------------------
(* The reference for adjoint code: the derivatives of the region in one     *)
(* direction, its threads run one after the other.                          *)
Step(s, t, st) ==
  LET p == Dual!Plainly(st)
      v == Dual!See(t, s.val)
      d == Dual!See(t, s.dot)
  IN  [val |-> Dual!Becomes(s.val, t, p, Value(p.e, v)),
       dot |-> Dual!Becomes(s.dot, t, p, Dual!Derivative(p.e, v, d))]

Derivatives(p, direction) ==
  LET run(s, t) == FoldLeft(LAMBDA r, st : Step(r, t, st), s, p.code[t])
  IN  FoldLeft(run, [val |-> p.val, dot |-> direction], SetToSeq(Thread)).dot

Cells(p) == { <<w, x>> \in Places \X UNION { DOMAIN p.dot[w] : w \in Places } :
                x \in DOMAIN p.dot[w] /\ (w = NoThread) = (x \in Shared) }
Unit(p, c) == [w \in Places |-> [x \in DOMAIN p.dot[w] |-> IF <<w, x>> = c THEN 1 ELSE 0]]
Adj(x) == AdjPrefix(0) \o x
Total(S, f(_)) == FoldLeft(LAMBDA n, c : n + f(c), 0, SetToSeq(S))

(* The adjoint code of straight-line code, run by a team, multiplies the    *)
(* adjoints it is given with the transposed Jacobian of the region; it      *)
(* restores what it has overwritten and leaves nothing on its stack.        *)
AdjointExact ==
  Finished /\ prog.order = 1 =>
    LET p == prog.of IN
    /\ \A c \in Cells(p) :
         LET D == Derivatives(p, Unit(p, c))
         IN  mem[c[1]][Adj(c[2])]
               = Total(Cells(p), LAMBDA o : prog.val[o[1]][Adj(o[2])] * D[o[1]][o[2]])
    /\ \A c \in Cells(p) : mem[c[1]][c[2]] = p.val[c[1]][c[2]]
    /\ \A t \in Thread : \A st \in DOMAIN stack[t] : stack[t][st] = <<>>

(* The statements of the region under the pragma exclusive_read_failure. *)
Failures(p) == { st \in UNION { ToSet(p.code[t]) : t \in Thread } : st.s = "failure" }

(* Behind the pragma every increment of an adjoint is atomic, whatever the  *)
(* analysis said, and nothing else has changed: the edited list has lost,   *)
(* doubled or moved no statement.                                           *)
FailuresAtomic ==
  prog.order = 1 =>
    \A f \in Failures(prog.of) :
      LET S == RhoExclusiveRead(f, 0)
          R == RhoAssign(f.of, 0)
      IN  /\ Len(S) = Len(R)
          /\ \A k \in DOMAIN S :
               S[k] = IF R[k].s = "plus" THEN Atomic(R[k]) ELSE R[k]

TypeOK ==
  /\ prog \in Program
  /\ \A t \in Thread : lock = t <=> \E k \in DOMAIN code[t] : code[t][k].c.s = "leave"
  /\ \A t \in Thread : loaded[t] # <<>> => At(t, {"plus"})
  /\ \A t \in Thread : DOMAIN stack[t] = {AdjPrefix(0), Tl("")}
  /\ \A w \in Places : mem[w] \in [DOMAIN OnEntry(w) -> Int]
===============================================================================
