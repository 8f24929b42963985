--------------------------- MODULE MCControlReversal ---------------------------
(* Regions for ControlReversal: all sequences of one or two statements that *)
(* nest conditionals, loops and master constructs two deep, each construct  *)
(* around a sequence of at most two statements; a construct between two     *)
(* assignments; and one worksharing loop.                                   *)
EXTENDS ControlReversal, TLC

(* The table of a region written with the body inside each construct. *)
RECURSIVE Table(_, _)
Table(v, S) ==
  LET flat(s) == IF "body" \in DOMAIN s
                 THEN [f \in DOMAIN s \ {"body"} |-> s[f]] ELSE s
      inner == { k \in DOMAIN S : "body" \in DOMAIN S[k] }
      own == v :> [k \in DOMAIN S |-> flat(S[k])]
      below(k) == Table(S[k].id, S[k].body)
      at == UNION { DOMAIN below(k) : k \in inner }
  IN  own @@ [w \in at |-> below(CHOOSE k \in inner : w \in DOMAIN below(k))[w]]

Simple(id) == { [op |-> "int", var |-> "i", id |-> id],
                [op |-> "float", var |-> "x", id |-> id] }

Around(ops, bodies, id) ==
  { [op |-> o, body |-> b, id |-> id] : o \in ops, b \in bodies }

Pairs(A, B) == { <<a, b>> : a \in A, b \in B }

(* Bodies of constructs, numbered 10 * id + 1 and on. *)
Flat(id) == {<<>>} \cup { <<s>> : s \in Simple(10 * id + 1) }
                   \cup Pairs(Simple(10 * id + 1), Simple(10 * id + 2))

Inner(id) == Around({"if", "while"}, { b \in Flat(id) : Len(b) < 2 }, id)

Nested(id) ==
  Flat(id) \cup Pairs(Inner(10 * id + 1), Simple(10 * id + 2))
           \cup Pairs(Simple(10 * id + 1), Inner(10 * id + 2))

Statement(id) == Simple(id) \cup Around({"if", "while"}, Nested(id), id)
                            \cup Around({"master"}, Flat(id), id)

Triples == { <<a, b, c>> : a \in Simple(1), b \in Around({"if", "while"}, Flat(2), 2),
                           c \in Simple(3) }

RegionBodies == { <<s>> : s \in Statement(1) }
                  \cup Pairs(Simple(1), Statement(2))
                  \cup Pairs(Around({"while"}, Flat(1), 1), Statement(2))
                  \cup Triples

Regions == { Table(Root, S) : S \in RegionBodies }

ForRegion == { Table(Root, << [op |-> "for", id |-> 2,
                               init |-> [op |-> "int", var |-> "i", id |-> 1],
                               body |-> << [op |-> "float", var |-> "x", id |-> 21],
                                           [op |-> "int", var |-> "i", id |-> 22] >>] >>) }
===============================================================================
