SPECIFICATION Spec
CONSTANTS
  Program <- ForRegion
  Var = {"i", "x"}
  StackBound = 2
INVARIANT AssignmentsKept
