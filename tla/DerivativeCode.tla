---------------------------- MODULE DerivativeCode ----------------------------
(***************************************************************************)
(* What the transformations make of assignments: the tangent-linear code   *)
(* of rule tau, and the adjoint code of rules sigma and rho for straight-  *)
(* line code. Input and output are statements of the same language, so     *)
(* that the adjoint code can be differentiated once more. A statement is   *)
(*   [s |-> "assign" | "plus" | "atomic" | "int", x, e]   x = e or x += e  *)
(*   [s |-> "push", st, x], [s |-> "pop", st]             on a float stack *)
(*   [s |-> "if" | "while" | "critical" | "master" | "for", e, body]       *)
(*   [s |-> "failure", of]      a float assignment under the pragma        *)
(*                              ad exclusive_read_failure                  *)
(*   [s |-> "barrier"]                                                     *)
(* and an expression is [op, args] with a name, a number or a stack in     *)
(* its leaves. sin, cos and exp stand for any functions: all that matters  *)
(* is which of them is applied to what.                                    *)
(***************************************************************************)
EXTENDS Integers, Sequences, SequencesExt, TLC

CONSTANTS
  Shared,      \* the variables that are declared outside of the region
  Exclusive    \* those of them whose reads the analysis holds exclusive

Id(x) == [op |-> "id", x |-> x, args |-> <<>>]
Const(c) == [op |-> "const", c |-> c, args |-> <<>>]
Top(st) == [op |-> "top", st |-> st, args |-> <<>>]
Apply(op, args) == [op |-> op, args |-> args]
Plus(a, b) == Apply("add", <<a, b>>)
Minus(a, b) == Apply("sub", <<a, b>>)
Times(a, b) == Apply("mul", <<a, b>>)

Assign(x, e) == [s |-> "assign", x |-> x, e |-> e]
Increment(x, e) == [s |-> "plus", x |-> x, e |-> e]
Atomic(stmt) == [stmt EXCEPT !.s = "atomic"]
Push(st, x) == [s |-> "push", st |-> st, x |-> x]
Pop(st) == [s |-> "pop", st |-> st]

MapCode(S, f(_)) == FlattenSeq([k \in DOMAIN S |-> f(S[k])])

SinOf(n) == (n % 3) - 1
CosOf(n) == 2 - (n % 4)
ExpOf(n) == (n % 5) + 1

RECURSIVE Value(_, _)
Value(e, m) ==
  LET v(k) == Value(e.args[k], m)
  IN  CASE e.op = "id" -> m[e.x]
        [] e.op = "const" -> e.c
        [] e.op = "add" -> v(1) + v(2)
        [] e.op = "sub" -> v(1) - v(2)
        [] e.op = "mul" -> v(1) * v(2)
        [] e.op = "sin" -> SinOf(v(1))
        [] e.op = "cos" -> CosOf(v(1))
        [] e.op = "exp" -> ExpOf(v(1))
        [] e.op = "brackets" -> v(1)
        [] e.op = "eq" -> IF v(1) = v(2) THEN 1 ELSE 0
        [] e.op = "neq" -> IF v(1) # v(2) THEN 1 ELSE 0

-------------------------------------------------------------------------------
(* Names. The order is that of the code that is transformed.               *)

TlPrefix(o) == "t" \o ToString(o + 1) \o "_"
AdjPrefix(o) == "a" \o ToString(o + 1) \o "_"
Intermediate(k, o) == "v" \o ToString(k) \o "_from" \o ToString(o)

(* The operands of e from left to right, each with its code and the name   *)
(* it is left in; the counter of intermediates runs through.               *)
Operands(e, k, build(_, _)) ==
  LET step(acc, a) ==
        LET r == build(a, acc.k)
        IN  [k |-> r.k, codes |-> Append(acc.codes, r.code), names |-> Append(acc.names, r.n)]
  IN  FoldLeft(step, [k |-> k, codes |-> <<>>, names |-> <<>>], e.args)

(* The operation of e on intermediates. *)
Flat(e, names) ==
  IF e.args = <<>> THEN e ELSE [e EXCEPT !.args = [k \in DOMAIN names |-> Id(names[k])]]

-------------------------------------------------------------------------------
(* The tangent-linear code.                                                *)

Zero == Const(0)

(* Mutant: the two factors of the product rule are the same. *)
TlOperationSameFactor(e, n, o) ==
  LET t(k) == Id(TlPrefix(o) \o n[k])
      v(k) == Id(n[k])
  IN  CASE e.op = "id" -> Id(TlPrefix(o) \o e.x)
        [] e.op = "const" -> Zero
        [] e.op = "add" -> Plus(t(1), t(2))
        [] e.op = "sub" -> Minus(t(1), t(2))
        [] e.op = "mul" -> Plus(Times(t(1), v(2)), Times(v(2), t(2)))
        [] e.op = "sin" -> Times(t(1), Apply("cos", <<v(1)>>))
        [] e.op = "cos" -> Times(t(1), Minus(Zero, Apply("sin", <<v(1)>>)))
        [] e.op = "exp" -> Times(t(1), Apply("exp", <<v(1)>>))

(* The right-hand side of the derivative statement of one operation. *)
TlOperation(e, n, o) ==
  LET t(k) == Id(TlPrefix(o) \o n[k])
      v(k) == Id(n[k])
  IN  CASE e.op = "id" -> Id(TlPrefix(o) \o e.x)
        [] e.op = "const" -> Zero
        [] e.op = "add" -> Plus(t(1), t(2))
        [] e.op = "sub" -> Minus(t(1), t(2))
        [] e.op = "mul" -> Plus(Times(t(1), v(2)), Times(v(1), t(2)))
        [] e.op = "sin" -> Times(t(1), Apply("cos", <<v(1)>>))
        [] e.op = "cos" -> Times(t(1), Minus(Zero, Apply("sin", <<v(1)>>)))
        [] e.op = "exp" -> Times(t(1), Apply("exp", <<v(1)>>))

(* build_tl_rhs: the code, the intermediate with the value, the counter.   *)
RECURSIVE BuildTlRhs(_, _, _)
BuildTlRhs(e, k, o) ==
  LET below == Operands(e, k, LAMBDA a, j : BuildTlRhs(a, j, o))
      v     == Intermediate(below.k, o)
  IN  IF e.op = "brackets" THEN BuildTlRhs(e.args[1], k, o)
      ELSE [ code |-> FlattenSeq(below.codes)
                        \o << Assign(TlPrefix(o) \o v, TlOperation(e, below.names, o)),
                              Assign(v, Flat(e, below.names)) >>,
             n |-> v,
             k |-> below.k + 1 ]

(* Mutant: the variable is assigned before its derivative and the           *)
(* intermediates are spared.                                                *)
TauAssignDirect(st, o) ==
  LET r == BuildTlRhs(st.e, 0, o)
  IN  IF st.e.op = "top"
      THEN << [st EXCEPT !.x = TlPrefix(o) \o @, !.e = Top(TlPrefix(o))], st >>
      ELSE << st >> \o r.code \o << [st EXCEPT !.x = TlPrefix(o) \o @, !.e = Id(TlPrefix(o) \o r.n)] >>

(* The derivative stack has the prefix of this order only. *)
TauAssign(st, o) ==
  LET r == BuildTlRhs(st.e, 0, o)
  IN  IF st.e.op = "top"
      THEN << [st EXCEPT !.x = TlPrefix(o) \o @, !.e = Top(TlPrefix(o))], st >>
      ELSE r.code \o << [st EXCEPT !.x = TlPrefix(o) \o @, !.e = Id(TlPrefix(o) \o r.n)],
                        [st EXCEPT !.e = Id(r.n)] >>

(* Mutant: the derivative is not popped. *)
TauStackUnpopped(st, o) ==
  IF st.s = "push" THEN << Push(TlPrefix(o), TlPrefix(o) \o st.x), st >> ELSE << st >>

TauStack(st, o) ==
  IF st.s = "push" THEN << Push(TlPrefix(o), TlPrefix(o) \o st.x), st >>
                   ELSE << Pop(TlPrefix(o)), st >>

(* Mutant: only the original increment stays atomic. *)
TauAtomicHalf(st, o) ==
  LET r == TauAssign([st EXCEPT !.s = "plus"], o)
  IN  Front(r) \o << Atomic(Last(r)) >>

(* The last two assignments become atomic statements of their own. *)
TauAtomic(st, o) ==
  LET r == TauAssign([st EXCEPT !.s = "plus"], o)
  IN  Front(Front(r)) \o << Atomic(Last(Front(r))), Atomic(Last(r)) >>

(* done names the statement of the source that a generated one completes.  *)
Completes(code, st) ==
  [k \in DOMAIN code |-> [c |-> code[k], done |-> IF k = Len(code) THEN <<st>> ELSE <<>>]]

RECURSIVE Tau(_, _)
TauSeq(S, o) == MapCode(S, LAMBDA st : Completes(Tau(st, o), st))

TauConditional(st, o) == << [st EXCEPT !.body = TauSeq(@, o)] >>

(* The body is the loop's initialisation and the loop. Of the former the    *)
(* first generated statement is taken.                                      *)
TauOmpFor(st, o) ==
  LET init == st.body[1]
      loop == st.body[2]
  IN  << [st EXCEPT !.body = Completes(<< Head(Tau(init, o)) >>, init)
                               \o Completes(Tau(loop, o), loop)] >>

(* Tests and integer assignments stay as they are. *)
Tau(st, o) ==
  CASE st.s \in {"assign", "plus"} -> TauAssign(st, o)
    [] st.s = "failure" -> TauAssign(st.of, o)
    [] st.s = "atomic" -> TauAtomic(st, o)
    [] st.s \in {"push", "pop"} -> TauStack(st, o)
    [] st.s \in {"if", "while", "critical", "master"} -> TauConditional(st, o)
    [] st.s = "for" -> TauOmpFor(st, o)
    [] st.s \in {"int", "barrier"} -> << st >>

-------------------------------------------------------------------------------
(* The adjoint code of straight-line code.                                 *)

SigmaAssign(st, o) == << Push(AdjPrefix(o), st.x), st >>

RECURSIVE BuildAdjRhsForward(_, _, _)
BuildAdjRhsForward(e, k, o) ==
  LET below == Operands(e, k, LAMBDA a, j : BuildAdjRhsForward(a, j, o))
      v     == Intermediate(below.k, o)
  IN  IF e.op = "brackets" THEN BuildAdjRhsForward(e.args[1], k, o)
      ELSE [ code |-> FlattenSeq(below.codes) \o << Assign(v, Flat(e, below.names)) >>,
             n |-> v,
             k |-> below.k + 1 ]

(* Private variables and exclusive reads do without the atomic pragma.      *)
AdjIncrement(x, w, o) ==
  LET inc == Increment(AdjPrefix(o) \o x, w)
  IN  IF x \in Shared \ Exclusive THEN Atomic(inc) ELSE inc

(* Mutant: the subtrahend gets the sign of the minuend. *)
AdjOperationUnsigned(e, n, v, o) ==
  LET w == Id(AdjPrefix(o) \o v)
      to(k, rhs) == Assign(AdjPrefix(o) \o n[k], rhs)
  IN  CASE e.op \in {"add", "sub"} -> << to(1, w), to(2, w) >>
        [] e.op = "mul" -> << to(1, Times(w, Id(n[2]))), to(2, Times(w, Id(n[1]))) >>
        [] e.op = "sin" -> << to(1, Times(w, Apply("cos", <<Id(n[1])>>))) >>
        [] e.op = "cos" -> << to(1, Times(w, Minus(Zero, Apply("sin", <<Id(n[1])>>)))) >>
        [] e.op = "exp" -> << to(1, Times(w, Apply("exp", <<Id(n[1])>>))) >>
        [] e.op = "id" -> << AdjIncrement(e.x, w, o) >>
        [] e.op = "const" -> <<>>

(* The adjoint statements of one operation with the result v. *)
AdjOperation(e, n, v, o) ==
  LET w == Id(AdjPrefix(o) \o v)
      to(k, rhs) == Assign(AdjPrefix(o) \o n[k], rhs)
  IN  CASE e.op = "add" -> << to(1, w), to(2, w) >>
        [] e.op = "sub" -> << to(1, w), to(2, Minus(Zero, w)) >>
        [] e.op = "mul" -> << to(1, Times(w, Id(n[2]))), to(2, Times(w, Id(n[1]))) >>
        [] e.op = "sin" -> << to(1, Times(w, Apply("cos", <<Id(n[1])>>))) >>
        [] e.op = "cos" -> << to(1, Times(w, Minus(Zero, Apply("sin", <<Id(n[1])>>)))) >>
        [] e.op = "exp" -> << to(1, Times(w, Apply("exp", <<Id(n[1])>>))) >>
        [] e.op = "id" -> << AdjIncrement(e.x, w, o) >>
        [] e.op = "const" -> <<>>

(* The adjoint statements of an operation, then those of its operands. *)
RECURSIVE BuildAdjRhsReverse(_, _, _)
BuildAdjRhsReverse(e, k, o) ==
  LET below == Operands(e, k, LAMBDA a, j : BuildAdjRhsReverse(a, j, o))
      v     == Intermediate(below.k, o)
  IN  IF e.op = "brackets" THEN BuildAdjRhsReverse(e.args[1], k, o)
      ELSE [ code |-> AdjOperation(e, below.names, v, o) \o FlattenSeq(below.codes),
             n |-> v,
             k |-> below.k + 1 ]

(* Mutant: the adjoint of the overwritten variable keeps its value. *)
RhoAssignKept(st, o) ==
  LET f == BuildAdjRhsForward(st.e, 0, o)
      x == AdjPrefix(o) \o st.x
  IN  << Assign(st.x, Top(AdjPrefix(o))), Pop(AdjPrefix(o)) >>
        \o f.code \o << Assign(AdjPrefix(o) \o f.n, Id(x)) >>
        \o BuildAdjRhsReverse(st.e, 0, o).code

(* Restore, recompute the intermediates, propagate the adjoint. *)
RhoAssign(st, o) ==
  LET f == BuildAdjRhsForward(st.e, 0, o)
      x == AdjPrefix(o) \o st.x
  IN  << Assign(st.x, Top(AdjPrefix(o))), Pop(AdjPrefix(o)) >>
        \o f.code \o << Assign(AdjPrefix(o) \o f.n, Id(x)) >>
        \o (IF st.s = "assign" THEN << Assign(x, Zero) >> ELSE <<>>)
        \o BuildAdjRhsReverse(st.e, 0, o).code

(* The flag and the storage of an atomic statement, numbered by the         *)
(* statement; no two atomic statements of a region increment one variable   *)
(* here (AtomicAdjoint has more).                                           *)
Flag(st) == "atomic_flag_" \o st.x
Storage(st) == "atomic_storage_" \o st.x
SetFlag(st, n) == [s |-> "int", x |-> Flag(st), e |-> Const(n)]
InCritical(body) == << [s |-> "critical", body |-> body] >>
IfFlag(op, st, n, body) ==
  [s |-> "if", e |-> Apply(op, << Id(Flag(st)), Const(n) >>), body |-> body]

(* The first thread to come saves the variable for all executions.          *)
SigmaAtomic(st) ==
  InCritical(<< IfFlag("eq", st, 0, << SetFlag(st, 1), Assign(Storage(st), Id(st.x)) >>),
                Increment(st.x, st.e) >>)

(* The adjoint statements without the restore, which the first thread makes *)
(* for all.                                                                 *)
RhoAtomic(st, o) ==
  LET incremental == RhoAssign([st EXCEPT !.s = "plus"], o)
  IN  SubSeq(incremental, 3, Len(incremental))
        \o InCritical(<< IfFlag("neq", st, 2, << SetFlag(st, 2), Assign(st.x, Id(Storage(st))) >>) >>)

BeforeForward(st) ==
  << [s |-> "master", body |-> << SetFlag(st, 0) >>], [s |-> "barrier"] >>
BeforeReverse(st) == << [s |-> "barrier"] >>

IsPlainIncrement(st) == st.s = "plus"
IndexOf(S, st) == SelectInSeq(S, LAMBDA r : r = st)

(* Mutant: the place of the old statement is taken for the place to go on,  *)
(* which is one too far.                                                    *)
RECURSIVE AugmentSkipping(_, _)
AugmentSkipping(S, i) ==
  IF i > Len(S) THEN S
  ELSE IF ~IsPlainIncrement(S[i]) THEN AugmentSkipping(S, i + 1)
  ELSE LET atomic == Atomic(S[i])
           more   == InsertAt(S, i, atomic)
           rest   == RemoveAt(more, IndexOf(more, S[i]))
       IN  AugmentSkipping(rest, IndexOf(more, S[i]) + 1)

(* rho_exclusive_read edits the list it runs through: it inserts the atomic *)
(* statement, finds the old one again from the front and erases it, and     *)
(* finds its place again by the new one. Its statements are all different.  *)
RECURSIVE Augment(_, _)
Augment(S, i) ==
  IF i > Len(S) THEN S
  ELSE IF ~IsPlainIncrement(S[i]) THEN Augment(S, i + 1)
  ELSE LET atomic == Atomic(S[i])
           more   == InsertAt(S, i, atomic)
           rest   == RemoveAt(more, IndexOf(more, S[i]))
       IN  Augment(rest, IndexOf(rest, atomic) + 1)

(* From the statement behind the restore and its pop on. *)
RhoExclusiveRead(st, o) ==
  LET S == RhoAssign(st.of, o)
  IN  Augment(S, SelectInSeq(S, LAMBDA r : r.s = "pop") + 1)

Sigma(st, o) == CASE st.s = "atomic" -> SigmaAtomic(st)
                  [] st.s = "failure" -> SigmaAssign(st.of, o)
                  [] OTHER -> SigmaAssign(st, o)

Rho(st, o) == CASE st.s = "atomic" -> RhoAtomic(st, o)
                [] st.s = "failure" -> RhoExclusiveRead(st, o)
                [] OTHER -> RhoAssign(st, o)

AdjointCode(S, o) ==
  LET atomics == SelectSeq(S, LAMBDA st : st.s = "atomic")
  IN  MapCode(atomics, BeforeForward) \o MapCode(S, LAMBDA st : Sigma(st, o))
        \o MapCode(atomics, BeforeReverse) \o MapCode(Reverse(S), LAMBDA st : Rho(st, o))
===============================================================================
