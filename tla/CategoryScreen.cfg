SPECIFICATION FairSpec
CONSTANTS
    DocIds = {1, 2, 3}
    Stamps = {1, 2}
    Revs = {1}
    Trap = trap
    NoReg = noreg
    MaxWrites = 2
    MaxLive = 2
INVARIANTS ChangesFitRows
PROPERTIES MirrorSpec EventuallyCurrent
