----------------------------- MODULE ExclusiveRead -----------------------------
(***************************************************************************)
(* The exclusive read analysis of a parallel region, and then the region   *)
(* itself run by a team of threads, so that what the analysis says can be  *)
(* held against what happens.                                              *)
(*                                                                         *)
(* A region is a flow graph: a sequence of vertices, each a declaration,   *)
(* an integer assignment, a test (if or while), a floating point           *)
(* assignment with its reads, or the exit. The analysis computes for each  *)
(* vertex the intervals D of the integer variables before it, first with   *)
(* widening until nothing changes, then without for at most ten rounds.    *)
(* Vertices are visited in an order that depends on their addresses.       *)
(***************************************************************************)
EXTENDS ArrayIndex, FiniteSets, SequencesExt

CONSTANTS
  Region,      \* the regions: [code |-> vertices, addresses |-> orders of the vertices]
  Shared,      \* the shared variables and arrays
  Thread,      \* the numbers of the threads, 0 .. p - 1
  Input,       \* values of the shared integers when the region is entered
  RoundBound   \* no round of widening is started after this many

ConstantsOK ==
  /\ Thread = 0 .. (Cardinality(Thread) - 1)
  /\ RoundBound \in Nat
ASSUME ConstantsAssumption == ConstantsOK

VARIABLES
  code,        \* the vertices of the region
  address,     \* the vertices by increasing address
  equations,   \* the vertices in the order in which the analysis visits them
  D,           \* for each vertex the intervals of the variables known there
  assertions,  \* for each vertex its list_of_assertions
  phase,       \* "widening", "narrowing", "run"
  round,       \* the rounds of this phase begun so far
  next,        \* the place in equations of the vertex to visit next
  changed,     \* not fixpoint_reached
  exclusive,   \* is_memory_read_exclusive
  at, store,   \* for each thread its vertex and its integer variables
  seen         \* history: what each thread read, and by which read access

analysis == <<D, assertions, phase, round, next, changed, exclusive>>
threads == <<at, store, seen>>
graph == <<code, address, equations>>
vars == <<graph, analysis, threads>>

-------------------------------------------------------------------------------
(* The flow graph. *)

Vertex == DOMAIN code
IsTest(v) == code[v].type \in {"if", "while"}
Successors(v) ==
  CASE IsTest(v) -> {code[v].yes, code[v].no}
    [] code[v].type = "exit" -> {}
    [] OTHER -> {code[v].next}

(* set_CFG_elements gives a set of pairs of pointers. It is run through in *)
(* the order of the addresses, and a vertex has its equation when it is met *)
(* first.                                                                   *)
Flow == FlattenSeq([ i \in DOMAIN address |->
          FlattenSeq([ j \in DOMAIN address |->
            IF address[j] \in Successors(address[i]) THEN << <<address[i], address[j]>> >> ELSE <<>> ]) ])
Met(seq, v) == IF v \in ToSet(seq) THEN seq ELSE Append(seq, v)
EquationsInOrder == FoldLeft(LAMBDA seq, e : Met(Met(seq, e[1]), e[2]), <<>>, Flow)
Predecessors(v) == SelectSeq(address, LAMBDA u : v \in Successors(u))

(* Maps from declarations are run through by address, too. *)
InOrder(S) == LET decls == SelectSeq(address, LAMBDA v : code[v].type = "decl" /\ code[v].var \in S)
              IN  [ i \in DOMAIN decls |-> code[decls[i]].var ]

-------------------------------------------------------------------------------
(* Transfer functions. *)

RECURSIVE eval(_, _)
eval(d, e) ==
  CASE e.op = "routine" -> Exactly(IF e.name = "omp_get_thread_num" THEN THREAD_ID
                                                                      ELSE NUM_OF_THREADS)
    [] e.op = "int" -> Exactly(e)
    [] e.op = "id" -> IF e.name \in DOMAIN d THEN d[e.name] ELSE Bottom
    [] OTHER -> Combine(e.op, eval(d, e.l), eval(d, e.r))

Assign(d, x, i) == (x :> i) @@ d

(* The bound that x < y gives to x when y is at most e. *)
Below(e) ==
  IF e.op = "sub" /\ IsConst(e.r) THEN Node("sub", e.l, Num(Parsed(e.r) + 1))
                                  ELSE Node("sub", e, Num(1))

BelowTest(t, e) == IF t.op = "leq" THEN e ELSE Below(e)

(* A new upper bound must not lie below the lower one, as far as one sees. *)
Fits(lo, hi) == Same(lo, hi) \/ Same(operator_min(lo, hi), lo)

AdjustToVariable(d, x, t) ==
  LET ub == d[t.r.name].hi
      hi == BelowTest(t, ub)
  IN  IF /\ d[x].hi = PLUS_INFINITY \/ Same(operator_min(d[x].hi, ub), ub)
         /\ Fits(d[x].lo, hi)
      THEN [d EXCEPT ![x].hi = hi] ELSE d

(* This case of the code does not ask whether the test is about x.          *)
AdjustToNumber(d, x, t) ==
  LET k == IF t.op = "leq" THEN Parsed(t.r) ELSE Parsed(t.r) - 1
      hi == d[x].hi
  IN  IF hi = PLUS_INFINITY \/ (IsConst(hi) /\ IsCommon(hi) /\ Parsed(hi) > k)
      THEN [d EXCEPT ![x].hi = Num(k)] ELSE d

adjust_AI_depending_on_assertion(d, x, t) ==
  IF t.op \notin {"leq", "lower"} THEN d
  ELSE IF t.l = Id(x) /\ t.r.op = "id" THEN
    IF d[t.r.name].hi # PLUS_INFINITY THEN AdjustToVariable(d, x, t) ELSE d
  ELSE IF IsConst(t.r) THEN AdjustToNumber(d, x, t)
  ELSE d

(* What holds after u when the next vertex is v. *)
phi(u, v) ==
  LET s == code[u]
      d == D[u]
  IN  CASE s.type = "decl" ->
             Assign(d, s.var, IF s.var \in Shared THEN Exactly(Id(s.var)) ELSE Exactly(s.init))
        [] s.type = "assign" -> Assign(d, s.var, eval(d, s.expr))
        [] IsTest(u) /\ s.yes = v ->
             FoldLeft(LAMBDA e, x : adjust_AI_depending_on_assertion(e, x, s.test), d,
                      InOrder(DOMAIN d))
        [] OTHER -> d

Complement(t) ==
  [t EXCEPT !.op = CASE t.op = "eq" -> "neq"   [] t.op = "neq" -> "eq"
                     [] t.op = "leq" -> "greater" [] t.op = "greater" -> "leq"
                     [] t.op = "lower" -> "geq" [] t.op = "geq" -> "lower"]

(* Assertions are alike for the code when the texts of their operands are,  *)
(* and every operation has the empty text.                                  *)
Text(e) == IF IsInner(e) THEN [op |-> "text"] ELSE Clone(e)
Alike(s, t) == s.op = t.op /\ Text(s.l) = Text(t.l) /\ Text(s.r) = Text(t.r)

(* The assertions of v after those of u have been handed on. They are only  *)
(* ever added.                                                              *)
HandOn(list, u, v) ==
  LET s == code[u]
      t == IF s.yes = v THEN s.test ELSE Complement(s.test)
      new == IF IsTest(u) /\ ~\E a \in list : Alike(a, t) THEN {t} ELSE {}
      kept == { a \in assertions[u] :
                  s.type = "assign" => Id(s.var) \notin {a.l, a.r} }
  IN  list \cup new \cup kept

-------------------------------------------------------------------------------
(* Joins of what holds at a vertex. *)

(* Mutant: what the first predecessor said is kept. *)
JoinFirst(l, r) == l

JoinIntervals(l, r) ==
  IF is_interval_top(l) \/ is_interval_top(r) THEN Top ELSE operator_join(l, r)

Join(l, r) ==
  [ x \in DOMAIN l \cup DOMAIN r |->
      IF x \notin DOMAIN r THEN l[x]
      ELSE IF x \notin DOMAIN l THEN r[x]
      ELSE JoinIntervals(l[x], r[x]) ]

(* An assertion x <= y or x < y that holds at the vertex caps the bound.    *)
CapBy(d, lo, hi, a) ==
  LET ub == d[a.r.name].hi
  IN  IF Same(operator_min(hi, ub), ub) /\ Same(operator_min(lo, ub), lo) THEN ub ELSE hi

(* Mutant: the join alone. *)
NoWidening(d, list, x, l, r) == r

operator_widening(d, list, x, l, r) ==
  IF l = Bottom THEN r ELSE IF r = Bottom THEN l
  ELSE LET lo == WidenLow(x, l.lo, r.lo)
           caps == { a \in list : a.op \in {"leq", "lower"} /\ a.l = Id(x) /\ a.r.op = "id" }
       IN  Interval(lo, FoldLeft(LAMBDA hi, a : CapBy(d, lo, hi, a), WidenHigh(l.hi, r.hi),
                                 SetToSeq(caps)))

(* Only then are the variables added that r alone knows: a cap by one of     *)
(* those reads through a null pointer.                                      *)
JoinWidening(list, l, r) ==
  LET joined == Join(l, r)
      widened == FoldLeft(LAMBDA d, x : [d EXCEPT ![x] = operator_widening(d, list, x, l[x], d[x])],
                          [ x \in DOMAIN l |-> joined[x] ], InOrder(DOMAIN l \cap DOMAIN r))
  IN  widened @@ joined

(* operator_equal of two maps. *)
SameMap(l, r) ==
  DOMAIN l = DOMAIN r /\ \A x \in DOMAIN l : Same(l[x].lo, r[x].lo) /\ Same(l[x].hi, r[x].hi)

Nothing == [ x \in {} |-> Bottom ]
FromPredecessors(v) ==
  FoldLeft(LAMBDA d, u : Join(d, phi(u, v)), Nothing, Predecessors(v))
AssertionsFrom(v) ==
  FoldLeft(LAMBDA list, u : HandOn(list, u, v), assertions[v], Predecessors(v))

-------------------------------------------------------------------------------
(* The read accesses: place k among the reads of vertex v. *)
Access == { <<v, k>> \in Vertex \X (1 .. 4) : code[v].type = "float" /\ k \in DOMAIN code[v].reads }
ReadOf(a) == code[a[1]].reads[a[2]]
IsElement(a) == ReadOf(a).index.op # "none"

Init ==
  /\ \E r \in Region : code = r.code /\ address \in r.addresses
  /\ equations = EquationsInOrder
  /\ D = [ v \in Vertex |-> Nothing ]
  /\ assertions = [ v \in Vertex |-> {} ]
  /\ phase = "widening" /\ round = 1 /\ next = 1 /\ changed = FALSE
  /\ exclusive = [ a \in Access |-> FALSE ]
  /\ at = [ t \in Thread |-> 1 ]
  /\ \E input \in Input : store = [ t \in Thread |-> input ]
  /\ seen = [ t \in Thread |-> {} ]

Visit(v, d) ==
  /\ D' = [D EXCEPT ![v] = d]
  /\ assertions' = [assertions EXCEPT ![v] = AssertionsFrom(v)]
  /\ changed' = (changed \/ ~SameMap(D[v], d))
  /\ next' = next + 1
  /\ UNCHANGED <<graph, phase, round, exclusive, threads>>

WidenVertex ==
  /\ phase = "widening" /\ next <= Len(equations)
  /\ LET v == equations[next]
     IN  Visit(v, JoinWidening(AssertionsFrom(v), D[v], FromPredecessors(v)))

NarrowVertex ==
  /\ phase = "narrowing" /\ next <= Len(equations)
  /\ LET v == equations[next] IN Visit(v, FromPredecessors(v))

BeginRound(p, k) ==
  /\ phase' = p /\ round' = k /\ next' = 1 /\ changed' = FALSE
  /\ UNCHANGED <<graph, D, assertions, exclusive, threads>>

RoundOver(p) == phase = p /\ next > Len(equations)

WidenAgain ==
  RoundOver("widening") /\ changed /\ round <= RoundBound /\ BeginRound("widening", round + 1)
StartNarrowing ==
  RoundOver("widening") /\ ~changed /\ BeginRound("narrowing", 1)
NarrowAgain ==
  RoundOver("narrowing") /\ changed /\ round < 10 /\ BeginRound("narrowing", round + 1)

(* Mutant: each element by itself. *)
Alone(unique, a) == unique[a]

(* Elements of one array are exclusive all together or not at all. *)
Connected(unique, a) ==
  \A b \in Access : IsElement(b) /\ ReadOf(b).array = ReadOf(a).array => unique[b]

(* Mutant: reads of scalars are left out. *)
VerdictOnElements(unique) ==
  [ a \in { b \in Access : IsElement(b) } |-> Connected(unique, a) ]

Verdict(unique) ==
  [ a \in Access |-> IF IsElement(a) THEN Connected(unique, a) ELSE unique[a] ]

Decide ==
  /\ RoundOver("narrowing") /\ (changed => round >= 10)
  /\ \E unique \in [Access -> BOOLEAN] :
       /\ \A a \in Access :
            unique[a] \in IF IsElement(a) /\ ReadOf(a).array \in Shared
                         THEN is_array_index_thread_unique(ReadOf(a).index, D[a[1]])
                         ELSE {ReadOf(a).array \notin Shared}
       /\ exclusive' = Verdict(unique)
  /\ phase' = "run"
  /\ UNCHANGED <<graph, D, assertions, round, next, changed, threads>>

-------------------------------------------------------------------------------
(* The region, run by the team. *)

RECURSIVE Value(_, _, _)
Value(e, t, s) ==
  CASE e.op = "int" -> e.val
    [] e.op = "id" -> s[e.name]
    [] e.op = "tid" -> t
    [] e.op = "nthreads" -> Cardinality(Thread)
    [] e.op = "routine" -> IF e.name = "omp_get_thread_num" THEN t ELSE Cardinality(Thread)
    [] OTHER -> Apply(e.op, Value(e.l, t, s), Value(e.r, t, s))

Holds(test, t, s) ==
  LET l == Value(test.l, t, s)
      r == Value(test.r, t, s)
  IN  CASE test.op = "leq" -> l <= r [] test.op = "geq" -> l >= r
        [] test.op = "lower" -> l < r [] test.op = "greater" -> l > r
        [] test.op = "eq" -> l = r [] test.op = "neq" -> l # r

(* A private variable or array is a location of its own in each thread. *)
Location(a, t) ==
  LET r == ReadOf(a)
  IN  << r.array, IF IsElement(a) THEN Value(r.index, t, store[t]) ELSE 0,
         IF r.array \in Shared THEN Cardinality(Thread) ELSE t >>

(* No region of the instances writes a shared integer, so one thread may as *)
(* well run before the next.                                                *)
Turn(t) == phase = "run" /\ code[at[t]].type # "exit"
           /\ \A u \in Thread : u < t => code[at[u]].type = "exit"
GoTo(t, v) == at' = [at EXCEPT ![t] = v]
SetVar(t, x, k) == store' = [store EXCEPT ![t] = (x :> k) @@ @]

RunInteger(t) ==
  LET s == code[at[t]]
  IN  /\ Turn(t) /\ s.type \in {"decl", "assign"}
      /\ IF s.type = "assign" THEN SetVar(t, s.var, Value(s.expr, t, store[t]))
         ELSE IF s.var \in Shared THEN UNCHANGED store
         ELSE SetVar(t, s.var, Value(s.init, t, store[t]))
      /\ GoTo(t, s.next)
      /\ UNCHANGED <<graph, analysis, seen>>

RunTest(t) ==
  LET s == code[at[t]]
  IN  /\ Turn(t) /\ IsTest(at[t])
      /\ GoTo(t, IF Holds(s.test, t, store[t]) THEN s.yes ELSE s.no)
      /\ UNCHANGED <<graph, analysis, store, seen>>

RunFloat(t) ==
  LET s == code[at[t]]
  IN  /\ Turn(t) /\ s.type = "float"
      /\ seen' = [seen EXCEPT ![t] = @ \cup { <<a, Location(a, t)>> : a \in { b \in Access : b[1] = at[t] } }]
      /\ GoTo(t, s.next)
      /\ UNCHANGED <<graph, analysis, store>>

Analyse == WidenVertex \/ NarrowVertex \/ WidenAgain \/ StartNarrowing \/ NarrowAgain \/ Decide
Run(t) == RunInteger(t) \/ RunTest(t) \/ RunFloat(t)
Finished ==
  phase = "run" /\ (\A t \in Thread : code[at[t]].type = "exit") /\ UNCHANGED vars

Next == Analyse \/ (\E t \in Thread : Run(t)) \/ Finished
Spec == Init /\ [][Next]_vars

-------------------------------------------------------------------------------
TypeOK ==
  /\ DOMAIN D = Vertex /\ DOMAIN assertions = Vertex
  /\ phase \in {"widening", "narrowing", "run"}
  /\ round \in 1 .. (RoundBound + 1)
  /\ next \in 1 .. (Len(equations) + 1)
  /\ changed \in BOOLEAN
  /\ exclusive \in [Access -> BOOLEAN]
  /\ at \in [Thread -> Vertex]
  /\ DOMAIN store = Thread /\ DOMAIN seen = Thread

(* A bound in which infinity occurs bounds nothing. *)
Unbounded(e) == \E leaf \in Leaves(e) : leaf.op \in {"inf", "-inf"}
Within(k, i, t) ==
  /\ i # Bottom
  /\ Unbounded(i.lo) \/ Value(i.lo, t, store[t]) <= k
  /\ Unbounded(i.hi) \/ k <= Value(i.hi, t, store[t])

(* When a thread is at a vertex, its variables lie in the intervals the     *)
(* analysis ended with there. A join that forgets one path, a bound cut by  *)
(* an assertion that does not hold on every path, or rounds without widening *)
(* from a wrong start would break it; the decisions of the analysis rest on *)
(* it.                                                                      *)
Contained ==
  phase = "run" =>
    \A t \in Thread : \A x \in DOMAIN D[at[t]] : Within(store[t][x], D[at[t]][x], t)

(* What one thread reads by an access found exclusive, no other thread      *)
(* reads: rho increments the adjoint of the location without an atomic.     *)
ExclusiveReads ==
  \A t, u \in Thread : \A r \in seen[t], q \in seen[u] :
    t # u /\ r[2] = q[2] => ~exclusive[r[1]]

(* Widening comes to rest within RoundBound rounds of all equations; without *)
(* it the bounds of a loop variable grow for ever.                          *)
Converges == round <= RoundBound
===============================================================================
