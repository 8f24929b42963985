SPECIFICATION Spec
CONSTANTS
  Thread = {t1, t2, t3}
  NoThread = NoThread
  Location = {"x", "z"}
  Reads <- Unmixed
  Analysed = {TRUE, FALSE}
  SuppressAtomic = FALSE
INVARIANT NothingLost
PROPERTY IncrementsKept
