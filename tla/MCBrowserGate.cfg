SPECIFICATION FairSpec
CONSTANTS
    web = web
    cli = cli
    w1 = w1
    w2 = w2
    c1 = c1
    c2 = c2
    Proc = {web, cli}
    Caller = {w1, w2, c1, c2}
    ProcOf <- TwoEach
    MaxConcurrent = 2
    Nobody = Nobody
INVARIANTS
    TypeOK
    HoldersBounded
    PermitsExact
    LocksExact
PROPERTIES
    GateProgress
