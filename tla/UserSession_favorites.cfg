SPECIFICATION FairSpec
CONSTANTS
    Uids = {u1}
    Anonymous = anon
    NoUid = nouid
    Products = {p1, p2}
    Slots = {s1}
    NoReg = noreg
    OtherDevices = TRUE
    MaxChanges = 2
INVARIANTS FavoritesCoverServer
PROPERTIES SessionGetsLoaded LogoutLeadsToLogin
