SPECIFICATION FairSpec
CONSTANTS
    a = a
    b = b
    f1 = f1
    f2 = f2
    f3 = f3
    Caller = {a, b}
    Fetch = {f1, f2, f3}
    CallerOf <- ThreeFetches
    Setups <- Mixed
    MaxAbandoned = 1
INVARIANTS
    TypeOK
    CountExact
    CeilingHolds
    HolderFilled
    LateBrowserGone
PROPERTIES
    KillsSpareOthers
    FetchEnds
