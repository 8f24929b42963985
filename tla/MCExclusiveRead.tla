---------------------------- MODULE MCExclusiveRead ----------------------------
(* Regions of the test suite for the exclusive read analysis, and others    *)
(* that show its limits. n data are split among the threads; n is unsigned, *)
(* and m is the number of data where a signed one is meant.                 *)
EXTENDS ExclusiveRead

Decl(x, k) == [type |-> "decl", var |-> x, init |-> Num(k), next |-> 0]
Set(x, e) == [type |-> "assign", var |-> x, expr |-> e, next |-> 0]
BackTo(s, v) == [s EXCEPT !.next = v]
Test(t, o, l, r, yes, no) ==
  [type |-> t, test |-> [op |-> o, l |-> l, r |-> r], yes |-> yes, no |-> no]
Float(reads) == [type |-> "float", reads |-> reads, next |-> 0]
Element(x, e) == [array |-> x, index |-> e]
Scalar(x) == [array |-> x, index |-> [op |-> "none"]]
Exit == [type |-> "exit"]

Add(l, r) == Node("add", l, r)
Sub(l, r) == Node("sub", l, r)
Mul(l, r) == Node("mul", l, r)
Routine(x) == [op |-> "routine", name |-> x]

(* The first 15 vertices: the variables and the decomposition of the data.  *)
Variables(n) == [ v \in 1 .. 9 |-> Decl(<<n, "tid", "p", "c", "lb", "ub", "i", "j", "k">>[v], 0) ]
Team(n) == << Set("tid", Routine("omp_get_thread_num")), Set("p", Routine("omp_get_num_threads")),
              Set("c", Node("div", Id(n), Id("p"))) >>
Bounds3 == << Set("lb", Mul(Id("tid"), Id("c"))),
              Set("ub", Sub(Mul(Add(Id("tid"), Num(1)), Id("c")), Num(1))), Set("i", Id("lb")) >>
Decomposition == Variables("n") \o Team("n") \o Bounds3

(* A region from its vertices, each followed by the next one in the text    *)
(* unless it says where to go. The parser makes the vertices of a body      *)
(* before the loop around it, and on a fresh heap addresses follow.         *)
RegionOf(list, parsed) ==
  [ code |-> [ v \in DOMAIN list |-> IF "next" \in DOMAIN list[v] /\ list[v].next = 0
                                    THEN [list[v] EXCEPT !.next = v + 1] ELSE list[v] ],
    addresses |-> { [ v \in DOMAIN list |-> v ],
                    [ v \in 1 .. (Len(list) - Len(parsed)) |-> v ] \o parsed } ]

(* first-example.in with reads:  while(i<=ub) { y = ...; i = i+1; } *)
Loop(reads) == RegionOf(Decomposition \o
  << Test("while", "leq", Id("i"), Id("ub"), 17, 19),
     Float(reads), BackTo(Set("i", Add(Id("i"), Num(1))), 16), Exit >>, <<17, 18, 16, 19>>)

(* small.in: a matrix with a row of n elements for each datum.              *)
(* while(i<=ub) { j=0; k=last; while(j o k) { y = ...; j = j+1; } i = i+1; }  *)
Matrix(last, o, reads) == RegionOf(Decomposition \o
  << Test("while", "leq", Id("i"), Id("ub"), 17, 23),
     Set("j", Num(0)), Set("k", last),
     Test("while", o, Id("j"), Id("k"), 20, 22),
     Float(reads), BackTo(Set("j", Add(Id("j"), Num(1))), 19),
     BackTo(Set("i", Add(Id("i"), Num(1))), 16), Exit >>, <<17, 18, 20, 21, 19, 22, 16, 23>>)
InRow(e) == Add(Mul(Id("i"), Id("n")), e)

(* data-decomposition.in: the last thread gets what is left over.           *)
Remainder(n, reads) == RegionOf(Variables(n) \o Team(n) \o
  << Set("i", Mul(Id("c"), Id("p"))), Test("if", "neq", Id("i"), Id(n), 15, 16),
     Set("c", Add(Id("c"), Num(1))) >> \o SubSeq(Bounds3, 1, 2) \o
  << Test("if", "geq", Id("ub"), Id(n), 19, 20), Set("ub", Sub(Id(n), Num(1))),
     Set("i", Id("lb")), Float(reads), Exit >>, <<15, 14, 16, 17, 19, 18, 20, 21, 22>>)

Own == Element("x", Id("i"))
Suite == { Loop(<<Own>>), Loop(<<Own, Element("x", Num(0))>>),
           Loop(<<Element("z", Num(0)), Scalar("y"), Scalar("s"), Element("w", Id("tid"))>>),
           Matrix(Sub(Id("n"), Num(2)), "leq", <<Own, Element("A", InRow(Add(Id("j"), Num(1))))>>),
           Matrix(Sub(Id("n"), Num(2)), "leq", <<Own, Element("A", Add(InRow(Id("j")), Num(1)))>>),
           Matrix(Sub(Id("n"), Num(1)), "lower", <<Element("A", Add(InRow(Id("j")), Num(1)))>>),
           Remainder("n", <<Own>>), Remainder("m", <<Scalar("y")>>) }
Data == { [ x \in {"n", "m"} |-> IF x = "n" THEN k ELSE k - 3 ] : k \in 3 .. 7 }

(* The neighbour of each datum is read as well. *)
Stencil == { Loop(<<Own, Element("x", Add(Id("i"), Num(1)))>>) }

(* k=5; if(j<=1) { y = x[i]; } *)
NumberTest == { RegionOf(Decomposition \o
  << Set("k", Num(5)), Test("if", "leq", Id("j"), Num(1), 18, 19), Float(<<Own>>), Exit >>,
  <<18, 17, 19>>) }

(* j=tid-1; j=j+1; k=j+1; *)
CloneOfThread == { RegionOf(Decomposition \o
  << Set("j", Sub(Id("tid"), Num(1))), Set("j", Add(Id("j"), Num(1))),
     Set("k", Add(Id("j"), Num(1))), Exit >>, <<>>) }

(* j=tid; if(tid==0) { j=0-5; } *)
NegativeJoin == { RegionOf(Decomposition \o
  << Set("j", Id("tid")), Test("if", "eq", Id("tid"), Num(0), 18, 19),
     Set("j", Sub(Num(0), Num(5))), Exit >>, <<18, 17, 19>>) }

(* j=0-1; while(i<=ub) { k=i*j; i=i+1; } *)
NegativeFactor == { RegionOf(Decomposition \o
  << Set("j", Sub(Num(0), Num(1))), Test("while", "leq", Id("i"), Id("ub"), 18, 20),
     Set("k", Mul(Id("i"), Id("j"))), BackTo(Set("i", Add(Id("i"), Num(1))), 17), Exit >>,
  <<18, 19, 17, 20>>) }

(* while(i<=ub) { j=j+1; if(j<=k) { y = x[i]; } i=i+1; }                      *)
StaleAssertion == { RegionOf(Decomposition \o
  << Test("while", "leq", Id("i"), Id("ub"), 17, 21),
     Set("j", Add(Id("j"), Num(1))), Test("if", "leq", Id("j"), Id("k"), 19, 20), Float(<<Own>>),
     BackTo(Set("i", Add(Id("i"), Num(1))), 16), Exit >>, <<17, 19, 18, 20, 16, 21>>) }
Large == { [ x \in {"n"} |-> 26 ] }
===============================================================================
