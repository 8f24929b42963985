-------------------------------- MODULE Bounds --------------------------------
(***************************************************************************)
(* The domain of the exclusive read analysis: intervals whose bounds are   *)
(* arithmetic expressions over the shared integers, the thread number and  *)
(* the number of threads. The code holds a bound as a pointer to a vertex. *)
(* It compares pointers to find out whether a bound is one of seven global *)
(* vertices (infinity, THREAD_ID, ...) and trees to find out whether two   *)
(* bounds are alike; a clone of a global vertex is alike but is not that   *)
(* vertex. Field glob tells them apart.                                    *)
(***************************************************************************)
EXTENDS Integers, Sequences

CONSTANTS
  Unsigned,   \* the unsigned variables
  IntMax      \* INT_MAX

(* Vertices. *)
Num(k) == [op |-> "int", val |-> k, glob |-> FALSE]
Id(x) == [op |-> "id", name |-> x]
Node(o, l, r) == [op |-> o, l |-> l, r |-> r]

ZERO == [op |-> "int", val |-> 0, glob |-> TRUE]
Global(o) == [op |-> o, glob |-> TRUE]
BOTTOM == Global("bottom")
MINUS_INFINITY == Global("-inf")
PLUS_INFINITY == Global("inf")
THREAD_ID == Global("tid")
NUM_OF_THREADS == Global("nthreads")

IsInner(e) == e.op \in {"add", "sub", "mul", "div"}
IsConst(e) == ~IsInner(e) /\ e.op # "id"

(* A constant that is not one of the global vertices; a clone of THREAD_ID  *)
(* passes, and is then read as the number 0, for its text is not a number   *)
(* (the stream sets the long to 0 since C++11).                             *)
IsCommon(e) == e.op = "int" \/ ~e.glob
Parsed(e) == IF e.op = "int" THEN e.val ELSE 0

RECURSIVE Clone(_)
Clone(e) ==
  IF IsInner(e) THEN Node(e.op, Clone(e.l), Clone(e.r))
  ELSE IF IsConst(e) THEN [e EXCEPT !.glob = FALSE]
  ELSE e

(* operator_equal: alike as trees. *)
Same(l, r) == Clone(l) = Clone(r)

RECURSIVE Leaves(_)
Leaves(e) == IF IsInner(e) THEN Leaves(e.l) \cup Leaves(e.r) ELSE {e}

ThereAreUints(e) == \E x \in Unsigned : Id(x) \in Leaves(e)

(* S + c and S - c for a constant c. *)
HasOffset(e) == e.op \in {"add", "sub"} /\ IsConst(e.r) /\ IsCommon(e.r)
Offset(e) == IF e.op = "add" THEN Parsed(e.r) ELSE -Parsed(e.r)

-------------------------------------------------------------------------------
(* The smaller and the larger of two bounds, as far as their form tells.    *)

(* e is const + s or s + const. *)
IsConstPlus(e, s) ==
  e.op = "add" /\ \E side \in {<<e.l, e.r>>, <<e.r, e.l>>} : IsConst(side[1]) /\ Same(s, side[2])

(* The code then looks at the sign of s where it means the constant.        *)
MinConstPlus(l, r) ==
  LET s == IF IsConstPlus(l, r) THEN r ELSE l
  IN  IF (Parsed(s) >= 0) = (l.op = "add") THEN r ELSE l

(* The bounds of thread t in a region whose n data are split among p threads. *)
Chunk(n) == Node("mul", Node("add", THREAD_ID, Num(1)), Node("div", n, NUM_OF_THREADS))

special_case_001(l, r) ==
  /\ l.op = "sub" /\ Same(l.r, Num(1))
  /\ l.l.op = "mul" /\ l.l.l.op = "add" /\ l.l.r.op = "div"
  /\ Same(l.l.l, Node("add", THREAD_ID, Num(1)))
  /\ r.op = "mul" /\ Same(r, Node("mul", THREAD_ID, l.l.r))

RECURSIVE Depth(_)
Depth(e) == IF ~IsInner(e) THEN 0
            ELSE 1 + (IF Depth(e.l) > Depth(e.r) THEN Depth(e.l) ELSE Depth(e.r))

special_case_002(l, r) ==
  /\ Depth(l) = 5 /\ Depth(r) = 3
  /\ l.op = "add" /\ r.op = "mul"
  /\ Same(l, Node("add", Node("mul", Node("sub", r.l, Num(1)), r.r),
                         Node("sub", r.r, Num(1))))

MinGlobal(l, g) ==
  CASE g = MINUS_INFINITY -> g
    [] g = PLUS_INFINITY -> l
    [] OTHER -> ZERO

(* Mutant: naturals are assumed everywhere. *)
UndecidedNatural(l, r) == ZERO

Undecided(l, r) == IF ThereAreUints(l) \/ ThereAreUints(r) THEN ZERO ELSE MINUS_INFINITY

MinOfTrees(l, r) ==
  IF IsConstPlus(r, l) \/ IsConstPlus(l, r) THEN MinConstPlus(l, r)
  ELSE IF r.op = "sub" /\ HasOffset(r) /\ Same(l, r.l) THEN
    IF Parsed(r.r) >= 0 THEN r ELSE l
  ELSE IF l.op = "sub" /\ HasOffset(l) /\ Same(r, l.l) THEN
    IF Parsed(l.r) >= 0 THEN l ELSE r
  ELSE IF special_case_001(l, r) \/ special_case_002(r, l) THEN r
  ELSE IF special_case_001(r, l) \/ special_case_002(l, r) THEN l
  ELSE IF HasOffset(l) /\ HasOffset(r) /\ Same(l.l, r.l) THEN
    IF Offset(l) <= Offset(r) THEN l ELSE r
  ELSE Undecided(l, r)

operator_min(l, r) ==
  IF Same(l, r) THEN l
  ELSE IF IsConst(r) /\ ~IsCommon(r) THEN MinGlobal(l, r)
  ELSE IF IsConst(l) /\ ~IsCommon(l) THEN MinGlobal(r, l)
  ELSE IF IsConst(l) /\ IsConst(r) THEN IF Parsed(l) < Parsed(r) THEN l ELSE r
  ELSE MinOfTrees(l, r)

operator_max(l, r) ==
  LET m == operator_min(l, r)
  IN  IF Same(l, r) THEN l
      ELSE IF m = l THEN r
      ELSE IF m = r THEN l
      ELSE PLUS_INFINITY

-------------------------------------------------------------------------------
(* Arithmetic on bounds. *)

Quotient(a, b) == LET q == (IF a < 0 THEN -a ELSE a) \div (IF b < 0 THEN -b ELSE b)
                  IN  IF (a < 0) = (b < 0) THEN q ELSE -q

Apply(o, a, b) ==
  CASE o = "add" -> a + b
    [] o = "sub" -> a - b
    [] o = "mul" -> a * b
    [] o = "div" -> Quotient(a, b)

(* s + k for a number k, written with a sign that keeps the number positive. *)
PlusNumber(s, k) ==
  CASE k = 0 -> s
    [] k > 0 -> Node("add", s, Num(k))
    [] k < 0 -> Node("sub", s, Num(-k))

operator_arithmetic(l, r, o) ==
  IF IsConst(l) /\ IsCommon(l) /\ IsConst(r) /\ IsCommon(r)
  THEN Num(Apply(o, Parsed(l), Parsed(r)))
  ELSE IF o = "add" /\ HasOffset(l) /\ IsConst(r) /\ IsCommon(r)
  THEN LET k == Offset(l) + Parsed(r)
       IN  IF k = 0 THEN l.l ELSE PlusNumber(Clone(l.l), k)
  ELSE Node(o, Clone(l), Clone(r))

Interval(lo, hi) == [lo |-> lo, hi |-> hi]
Exactly(e) == Interval(e, e)
Bottom == Exactly(BOTTOM)
Top == Interval(MINUS_INFINITY, PLUS_INFINITY)

is_interval_top(d) == Same(d.lo, MINUS_INFINITY) /\ Same(d.hi, PLUS_INFINITY)

AllNumbers(l, r) ==
  \A e \in {l.lo, l.hi, r.lo, r.hi} : IsConst(e) /\ IsCommon(e)
Capped(e) == IF IsConst(e) /\ Parsed(e) > IntMax THEN PLUS_INFINITY ELSE e
(* A lower bound too large for an int leaves no room for the upper one. *)
CappedInterval(lo, hi) ==
  IF Capped(lo) = PLUS_INFINITY THEN Exactly(PLUS_INFINITY) ELSE Interval(lo, Capped(hi))

operator_add(l, r) ==
  LET lo == operator_arithmetic(l.lo, r.lo, "add")
      hi == operator_arithmetic(l.hi, r.hi, "add")
  IN  IF AllNumbers(l, r) THEN CappedInterval(lo, hi)
      ELSE IF PLUS_INFINITY \in {l.lo, r.lo} THEN Exactly(PLUS_INFINITY)
      ELSE Interval(lo, IF PLUS_INFINITY \in {l.hi, r.hi} THEN PLUS_INFINITY ELSE hi)

operator_sub(l, r) ==
  LET lo == operator_arithmetic(l.lo, r.hi, "sub")
      hi == operator_arithmetic(l.hi, r.lo, "sub")
      Bound(a, b, e) == IF a = PLUS_INFINITY THEN PLUS_INFINITY
                        ELSE IF b = PLUS_INFINITY THEN MINUS_INFINITY ELSE e
  IN  IF AllNumbers(l, r) THEN CappedInterval(lo, hi)
      ELSE Interval(Bound(l.lo, r.hi, lo), Bound(l.hi, r.lo, hi))

(* The least and the largest of four corners, compared in this order. *)
Hull(c) ==
  Interval(operator_min(operator_min(operator_min(c[1], c[2]), c[3]), c[4]),
           operator_max(operator_max(operator_max(c[1], c[2]), c[3]), c[4]))

MulCorner(a, b) == IF PLUS_INFINITY \in {a, b} THEN PLUS_INFINITY
                   ELSE operator_arithmetic(a, b, "mul")
DivCorner(a, b) == IF a = PLUS_INFINITY THEN PLUS_INFINITY
                   ELSE IF b = PLUS_INFINITY THEN ZERO
                   ELSE operator_arithmetic(a, b, "div")

operator_mul(l, r) ==
  IF Same(l.lo, l.hi) \/ Same(r.lo, r.hi)
  THEN Interval(operator_arithmetic(l.lo, r.lo, "mul"), operator_arithmetic(l.hi, r.hi, "mul"))
  ELSE Hull(<<MulCorner(l.lo, r.lo), MulCorner(l.lo, r.hi),
              MulCorner(l.hi, r.lo), MulCorner(l.hi, r.hi)>>)

operator_div(l, r) ==
  IF Same(r.lo, Num(0)) THEN Top
  ELSE IF Same(r.lo, r.hi)
  THEN Interval(operator_arithmetic(l.lo, r.lo, "div"), operator_arithmetic(l.hi, r.hi, "div"))
  ELSE Hull(<<DivCorner(l.lo, r.lo), DivCorner(l.lo, r.hi),
              DivCorner(l.hi, r.lo), DivCorner(l.hi, r.hi)>>)

Combine(o, l, r) ==
  IF Bottom \in {l, r} THEN Bottom
  ELSE CASE o = "add" -> operator_add(l, r)
         [] o = "sub" -> operator_sub(l, r)
         [] o = "mul" -> operator_mul(l, r)
         [] o = "div" -> operator_div(l, r)

operator_join(l, r) ==
  IF l = Bottom THEN r
  ELSE IF r = Bottom THEN l
  ELSE IF Top \in {l, r} THEN Top
  ELSE Interval(operator_min(l.lo, r.lo), operator_max(l.hi, r.hi))

(* A bound that moved is given up. *)
WidenLow(x, a, c) ==
  IF Same(a, c) \/ operator_min(a, c) = a THEN a
  ELSE IF x \in Unsigned THEN ZERO ELSE MINUS_INFINITY
WidenHigh(b, d) == IF Same(b, d) \/ operator_max(b, d) = b THEN b ELSE PLUS_INFINITY
===============================================================================
