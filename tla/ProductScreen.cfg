SPECIFICATION FairSpec
CONSTANTS
    DocIds = {1, 2}
    Stamps = {1, 2}
    Revs = {1}
    Trap = trap
    NoReg = noreg
    MaxWrites = 1
    MaxLive = 3
    MaxScreens = 2
    MaxExits = 1
CHECK_DEADLOCK FALSE
INVARIANTS LeaksAreEmptyExits ChangesFitRows
PROPERTIES EventuallyCurrent
