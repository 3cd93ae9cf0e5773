SPECIFICATION FairSpec
CONSTANTS
    Products = {p1, p2}
    MaxEntries = 2
    MaxVisits = 2
    MaxWaiting = 1
CHECK_DEADLOCK FALSE
INVARIANTS PaidOnce ChargeHoldsScreen ClearedIsPaid ScreenShowsCart
PROPERTIES ChargeIsReported
