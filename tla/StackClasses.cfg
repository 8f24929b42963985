CONSTANTS
    StackSize = 3
    Element <- MCElement
    Junk = Junk
    Depth = 3
SPECIFICATION Spec
INVARIANTS TypeOK StoppedOnlyAtLimit
PROPERTY IdealObject
CHECK_DEADLOCK FALSE
