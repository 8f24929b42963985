SPECIFICATION Spec
CONSTANTS
  Unsigned = {"n"}
  IntMax = 1000
  Region <- Suite
  Shared = {"n", "m", "x", "A", "s", "w"}
  Thread = {0, 1, 2}
  Input <- Data
  RoundBound = 12
INVARIANTS TypeOK Contained ExclusiveReads Converges
