SPECIFICATION FairSpec
CONSTANTS
    Owner = {o1, o2, o3}
    MaxRestarts = 1
    Cooldown = 2
    Threshold = 2
    NoOwner = NoOwner
INVARIANTS
    TypeOK
    Coalesced
    InFlightExact
    DeadLeavesNobodyWaiting
    BacklogLatchExact
PROPERTIES
    CooldownRespected
    QueuedRunEnds
