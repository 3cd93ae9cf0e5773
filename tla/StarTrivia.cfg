SPECIFICATION FairSpec
CONSTANTS
    p1 = p1
    p2 = p2
    Persons = {p1, p2}
    NoPerson = NoPerson
    Count <- MCCount
    MaxInFlight = 2
INVARIANTS
    CrashNeedsSwipe
    ShowsCurrent
    SpinnerMeansLoading
    OpenedHasDetails
PROPERTIES
    SpinnerEnds
