SPECIFICATION FairSpec
CONSTANTS
    Users = {u1, u2}
    Other = other
    Keys = {k1}
    MaxPending = 2
    MaxWrites = 2
    MaxFaults = 1
    MaxListens = 2
INVARIANTS ShownIsView OwnWritesAreShown
PROPERTIES NeverBackInTime EventuallySynced
CHECK_DEADLOCK FALSE
