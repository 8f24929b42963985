---------------------------- MODULE MCClassStack ----------------------------
(***************************************************************************)
(* Arrays of three elements: the safe classes run into the limit, the code *)
(* of the others goes up to it.                                            *)
(***************************************************************************)
EXTENDS ClassStack

MCElement == {1, 2}
===============================================================================
