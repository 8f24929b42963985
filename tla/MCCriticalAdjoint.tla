--------------------------- MODULE MCCriticalAdjoint ---------------------------
(* Instances of CriticalAdjoint for TLC: critical constructs are numbered   *)
(* 2, 3, ..., the pieces of their bodies 10, 11, ..., and the counters      *)
(* start behind the vertices that sigma_critical creates.                   *)
EXTENDS CriticalAdjoint

MCCounterInit == [l \in Critical |-> 20 + l]
MCTouchesOwn  == [l \in Critical |-> IF l = 2 THEN "x" ELSE "y"]
MCTouchesSame == [l \in Critical |-> "x"]
===============================================================================
