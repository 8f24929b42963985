SPECIFICATION FairSpec
CONSTANTS
  Program <- Regions
  Var = {"i", "x"}
  StackBound = 2
INVARIANTS TypeOK Retraced RegionReversed
PROPERTY ReverseEnds
