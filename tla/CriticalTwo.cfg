SPECIFICATION FairSpec
CONSTANTS
  Thread = {t1, t2}
  NoThread = NoThread
  Critical = {2, 3}
  Slc = {10}
  CounterInit <- MCCounterInit
  Var = {"x", "y"}
  Touches <- MCTouchesOwn
  Value = {0, 1}
  InitValue = 0
  StackBound = 7
INVARIANTS TypeOK CriticalInv TicketsExact StacksAligned RegionUndone
PROPERTY ReversedLastFirst RegionLeft
