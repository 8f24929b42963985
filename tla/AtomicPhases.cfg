SPECIFICATION Spec
CONSTANTS
  t1 = t1
  t2 = t2
  t3 = t3
  Thread = {t1, t2, t3}
  Master = t1
  NoThread = NoThread
  a1 = a1
  a2 = a2
  Atomic = {a1, a2}
  Program <- TwoPhases
  EntryValue = {0, 5}
  Regions = 2
INVARIANTS TypeOK AtomicInv ReadsReplayed RegionRestored
