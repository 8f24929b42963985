--------------------------- MODULE MCTangentLinear ----------------------------
EXTENDS TangentLinear

Team == {1, 2}
Nobody == 0

X == Id("x")
P == Id("p")
Q == Id("q")

(* Each operation, constants, brackets and repeated operands. *)
Arithmetic(t) ==
  << Assign("p", Minus(Times(Apply("sin", <<X>>), Q), Apply("exp", <<P>>))),
     Increment("q", Times(Apply("cos", <<P>>), Apply("brackets", <<Plus(Q, Const(3))>>))),
     Assign("p", Times(P, P)) >>

Counting(n) == [s |-> "int", x |-> "i", e |-> n]

Control(t) ==
  << Counting(Const(t)),
     [s |-> "while", e |-> Id("i"),
      body |-> << Assign("q", Times(Q, X)), Counting(Minus(Id("i"), Const(1))) >>],
     [s |-> "if", e |-> Minus(Const(2), Const(t)), body |-> << Assign("p", Q) >>],
     [s |-> "for", body |-> << Counting(Const(1)),
        [s |-> "while", e |-> Id("i"),
         body |-> << Increment("p", X), Counting(Const(0)) >>] >>] >>

(* Increments of y by all, then y read by all. *)
Synchronised(t) ==
  << Atomic(Increment("y", Times(P, X))),
     [s |-> "barrier"],
     Assign("q", Id("y")),
     [s |-> "barrier"],
     [s |-> "master", body |-> << Assign("x", Const(2)) >>],
     [s |-> "critical", body |-> << Assign("y", Times(Id("y"), P)), Increment("y", Q) >>] >>

StraightLine(t) ==
  << Assign("p", Minus(Q, Apply("sin", <<Times(P, X)>>))),
     Increment("q", Times(P, P)) >>

Mixed(t) ==
  << Assign("p", Plus(Apply("exp", <<P>>), Apply("brackets", <<Apply("cos", <<Q>>)>>))),
     Assign("q", Const(4)),
     Increment("q", P) >>

Reading(t) ==
  << [s |-> "failure", of |-> Assign("p", Times(Q, Id("z")))],
     Atomic(Increment("y", Times(P, X))) >>

Floats(w) == IF w = Nobody THEN {"x", "y", "z"} ELSE {"p", "q"}

(* All places know all names; those of other owners are never used. *)
Names == {"x", "y", "z", "p", "q"}
Number(x) == CHOOSE k \in 1..5 : <<"p", "q", "x", "y", "z">>[k] = x
Spread(seed, w, x) == ((seed * Number(x) + w) % 4) - 1

Memory(names, f(_, _)) == [w \in Team \cup {Nobody} |-> [x \in names |-> f(w, x)]]

Region(body(_), seed) ==
  [ order |-> 0,
    code |-> [t \in Team |-> body(t)],
    val |-> Memory(Names \cup {"i"}, LAMBDA w, x : IF x = "i" THEN 0 ELSE Spread(seed, w, x) + 1),
    dot |-> Memory(Names, LAMBDA w, x : Spread(seed + 3, w, x)) ]

AdjNames == { AdjPrefix(0) \o x : x \in Names }
Temps == UNION { { Intermediate(k, 0), AdjPrefix(0) \o Intermediate(k, 0) } : k \in 0..6 }
AtomicNames == {Flag([x |-> "y"]), Storage([x |-> "y"])}
Base(y) == CHOOSE x \in Names : AdjPrefix(0) \o x = y

(* The adjoint code of a region for the threads in who. *)
Adjoint(body(_), who, seed) ==
  LET p == [Region(body, seed) EXCEPT !.code = [t \in Team |-> IF t \in who THEN body(t) ELSE <<>>]]
  IN  [ order |-> 1,
        of |-> p,
        code |-> [t \in Team |-> AdjointCode(p.code[t], 0)],
        val |-> [w \in Team \cup {Nobody} |->
                   p.val[w] @@ [y \in AdjNames |-> Spread(seed + 1, w, Base(y))]
                            @@ [y \in Temps \cup AtomicNames |-> 0]],
        dot |-> [w \in Team \cup {Nobody} |->
                   p.dot[w] @@ [y \in AdjNames |-> Spread(seed + 2, w, Base(y))]
                            @@ [y \in Temps \cup {Storage([x |-> "y"])} |-> 0]] ]

Regions ==
  UNION { { Region(Arithmetic, seed), Region(Control, seed), Region(Synchronised, seed),
            Adjoint(Arithmetic, {1}, seed), Adjoint(Mixed, {1}, seed),
            Adjoint(StraightLine, {2}, seed) } : seed \in 1..2 }
  \cup { Adjoint(Reading, Team, 1) }

SharedVars == {"x", "y", "z"}
ExclusiveVars == {"z"}
===============================================================================
