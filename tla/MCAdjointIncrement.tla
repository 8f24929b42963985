-------------------------- MODULE MCAdjointIncrement --------------------------
(* Reads of two locations: those of a region that reads each of them either *)
(* always inside critical constructs or always outside, and those of one    *)
(* that reads the same location inside and outside.                         *)
EXTENDS AdjointIncrement

Sequences(S) == { <<>> } \cup { <<a>> : a \in S } \cup { <<a, b>> : a, b \in S }

Unmixed == Sequences({ [loc |-> "x", critical |-> TRUE], [loc |-> "z", critical |-> FALSE] })
Mixed == Sequences([loc : {"x"}, critical : BOOLEAN])
===============================================================================
