SPECIFICATION FairSpec
CONSTANTS
    j1 = j1
    j2 = j2
    s1 = s1
    s2 = s2
    Proc = {web, cli}
    Loop = {web}
    Job = {j1, j2}
    Deployments <- PairOrLone
    Source = {s1, s2}
    SourcesOf <- TwoSources
    Period <- TwoPeriods
    Unavailable = {s2}
    Timeout = 1
    MaxOrphans = 1
    MaxClock = 2
    MaxFaults = 1
    None = None
INVARIANTS
    TypeOK
    AtMostOnceSend
    ClaimDiscipline
    OrphansBounded
    LoneJobSingleton
PROPERTIES
    LedgerImplemented
    StrandedRowReleased
    LoneTerminalStable
    ScrapeDedup
