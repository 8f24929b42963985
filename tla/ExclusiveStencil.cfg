SPECIFICATION Spec
CONSTANTS
  Unsigned = {"n"}
  IntMax = 1000
  Region <- Stencil
  Shared = {"n", "m", "x", "A", "s", "w"}
  Thread = {0, 1}
  Input <- Data
  RoundBound = 12
INVARIANTS ExclusiveReads
