SPECIFICATION Spec
CONSTANTS
    Uids = {u1, u2}
    Anonymous = anon
    NoUid = nouid
    Products = {p1}
    Slots = {s1, s2}
    NoReg = noreg
    OtherDevices = TRUE
    MaxChanges = 0
SYMMETRY Symmetry
INVARIANTS LoadedUserIsListenedTo NoLeakedListener SessionIsCurrentUser
