--------------------------- MODULE MCSymbolTable ---------------------------
(***************************************************************************)
(* Programs of up to five floats, with names before, between and behind    *)
(* the names that tau and sigma make: A, n, x, y, and in codes that are    *)
(* themselves derivatives a1_x, t1_x and t2_a1_x.                          *)
(***************************************************************************)
EXTENDS SymbolTable

A == <<50>>
N == <<150>>
X == <<400>>
Y == <<410>>

\* The tangent-linear code of an assignment to x, with its v0_from0.
TangentLinearCode == {X, <<201>> \o X, <<300>>, <<201, 300>>}

MCPrograms ==
    [floats   : {TangentLinearCode, TangentLinearCode \cup {A}} \cup
                ((SUBSET {A, X, Y, <<101>> \o X, <<201>> \o X, <<202, 101>> \o X}) \ {{}}),
     others   : SUBSET {N, <<420>>},
     counters : {{}, {<<120>>}},
     lengths  : {<<1>>, <<2, 1>>}]
===============================================================================
