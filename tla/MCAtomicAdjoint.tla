---------------------------- MODULE MCAtomicAdjoint ----------------------------
(* Programs for AtomicAdjoint: two phases of increments with a read between *)
(* them, a loop around a phase, and two statements in one phase.            *)
EXTENDS AtomicAdjoint

CONSTANTS a1, a2, t1, t2, t3

TwoPhases == <<a1, a1, "barrier", "read", "barrier", a2>>
LoopPhase == <<a1, "barrier", "read", "barrier", a1, "barrier", "read">>
TwoAtoms  == <<a1, a2>>
===============================================================================
