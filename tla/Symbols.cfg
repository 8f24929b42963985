CONSTANT Programs <- MCPrograms
SPECIFICATION Spec
INVARIANTS TableInv NeverFails DeclaredOnce ClearedButOne
PROPERTY Finishes
CHECK_DEADLOCK FALSE
