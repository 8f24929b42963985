CONSTANTS
  Thread <- Team
  Master = 1
  NoThread <- Nobody
  Program <- Regions
  Shared <- SharedVars
  Exclusive <- ExclusiveVars
SPECIFICATION Spec
INVARIANT TypeOK
INVARIANT AdjointExact
INVARIANT FailuresAtomic
PROPERTY DualRun
