CONSTANTS
    Procs = 2
    StackBytes = 64
    Element <- MCElement
    Junk = Junk
    Checked <- MCChecked
    Depth = 2
SPECIFICATION FairSpec
INVARIANTS TypeOK ArraysHaveUnit StoppedForMemory
PROPERTIES IdealStacks RegionsEnd
CHECK_DEADLOCK FALSE
