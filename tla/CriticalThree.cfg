SPECIFICATION FairSpec
CONSTANTS
  Thread = {t1, t2, t3}
  NoThread = NoThread
  Critical = {2}
  Slc = {10}
  CounterInit <- MCCounterInit
  Var = {"x"}
  Touches <- MCTouchesSame
  Value = {0, 1}
  InitValue = 0
  StackBound = 4
PROPERTY ReversedLastFirst RegionLeft
