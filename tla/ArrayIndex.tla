------------------------------ MODULE ArrayIndex ------------------------------
(***************************************************************************)
(* When is an array element read by one thread only? The analysis compares *)
(* the largest index of thread t with the smallest one of thread t + 1, as *)
(* expressions: is_array_index_thread_unique. D maps the integer variables *)
(* to their intervals where the element is read.                           *)
(***************************************************************************)
EXTENDS Bounds

RECURSIVE replace_TID_by_TID_plus_one(_)
replace_TID_by_TID_plus_one(e) ==
  IF IsInner(e) THEN Node(e.op, replace_TID_by_TID_plus_one(e.l), replace_TID_by_TID_plus_one(e.r))
  ELSE IF Same(e, THREAD_ID) THEN Node("add", e, Num(1))
  ELSE e

(* Each variable of an index is replaced by one of its bounds, the lower    *)
(* one in LowerOfNext, whatever the operation it stands under.              *)
RECURSIVE LowerOfNext(_, _)
LowerOfNext(v, D) ==
  IF IsInner(v) THEN Node(v.op, LowerOfNext(v.l, D), LowerOfNext(v.r, D))
  ELSE IF v.op = "id" THEN replace_TID_by_TID_plus_one(Clone(D[v.name].lo))
  ELSE Clone(v)

RECURSIVE Upper(_, _)
Upper(v, D) ==
  IF IsInner(v) THEN Node(v.op, Upper(v.l, D), Upper(v.r, D))
  ELSE IF v.op = "id" THEN D[v.name].hi
  ELSE Clone(v)

(* The operation of (S +- c) +- d is kept when both are alike. *)
FuseConstants(e) ==
  LET k == Parsed(e.l.r) + Parsed(e.r)
  IN  IF e.op # e.l.op THEN PlusNumber(e.l.l, Offset(e.l) + Offset(e))
      ELSE IF k = 0 THEN e.l.l ELSE Node(e.op, e.l.l, Num(k))

(* S +- 0, S * 1 and S / 1 become S, and two constants become one. A second *)
(* operand that is a constant but no number is taken for 0.                 *)
NormalizeTop(e) ==
  IF ~IsConst(e.r) THEN e
  ELSE IF e.op \in {"add", "sub"} /\ Parsed(e.r) = 0 THEN e.l
  ELSE IF e.op \in {"mul", "div"} /\ Parsed(e.r) = 1 THEN e.l
  ELSE IF e.op \in {"add", "sub"} /\ e.l.op \in {"add", "sub"} /\ IsConst(e.l.r)
  THEN FuseConstants(e)
  ELSE e

(* The results of normalize_arithmetic_expression. Replacing the first      *)
(* operand rebuilds the list of operands under the loop that runs over it,  *)
(* which is undefined: the second operand may then be passed over.          *)
RECURSIVE normalize(_)
normalize(e) ==
  IF ~IsInner(e) THEN {e}
  ELSE UNION { { NormalizeTop(Node(e.op, l, r))
                 : r \in normalize(e.r) \cup (IF l = e.l THEN {} ELSE {e.r}) }
               : l \in normalize(e.l) }

(* (Chunk(n) - 1) * n + (n +- c)  becomes  Chunk(n) * n +- c. *)
RECURSIVE apply_distributivity(_)
apply_distributivity(e) ==
  IF ~IsInner(e) THEN e
  ELSE LET l == apply_distributivity(e.l)
           r == apply_distributivity(e.r)
       IN  IF /\ e.op = "add" /\ r.op \in {"add", "sub"}
              /\ r.l.op = "id" /\ IsConst(r.r)
              /\ Same(l, Node("mul", Node("sub", Chunk(r.l), Num(1)), r.l))
           THEN Node(r.op, Node("mul", l.l.l, r.l), r.r)
           ELSE Node(e.op, l, r)

is_THREAD_ID_present(e) == \E leaf \in Leaves(e) : Same(leaf, THREAD_ID)

(* The interval of thread t ends before that of thread t + 1 begins. *)
Before(upper, lower) ==
  /\ is_THREAD_ID_present(lower) /\ is_THREAD_ID_present(upper)
  /\ ~Same(lower, upper)
  /\ operator_min(upper, lower) = upper

IsThreadNumber(v, D) ==
  v.op = "id" /\ Same(D[v.name].lo, THREAD_ID) /\ Same(D[v.name].hi, THREAD_ID)

(* The results is_array_index_thread_unique can have. *)
is_array_index_thread_unique(v, D) ==
  IF IsThreadNumber(v, D) THEN {TRUE}
  ELSE LET uppers == UNION { normalize(apply_distributivity(u)) : u \in normalize(Upper(v, D)) }
       IN  { Before(u, l) : u \in uppers, l \in normalize(LowerOfNext(v, D)) }
===============================================================================
