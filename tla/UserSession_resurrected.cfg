SPECIFICATION Spec
CONSTANTS
    Uids = {u1}
    Anonymous = anon
    NoUid = nouid
    Products = {p1, p2}
    Slots = {s1}
    NoReg = noreg
    OtherDevices = FALSE
    MaxChanges = 2
INVARIANTS RemovedFavoritesStayRemoved
