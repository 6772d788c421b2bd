CONSTANTS
    Source = {1, 2, 3}
    Product = {"p1", "p2"}
    Site = {"s1", "s2", "s3"}
    ProductOf <- MCProductOf
    SiteOf <- MCSiteOf
    MaxEdits = 2
    TierOf <- MCTierOf
    DomainsOf <- MCDomainsOf
    ParsersOf <- MCParsersOf
    Installed = {"http", "uc"}
    Retries = 2
    MaxRedirects = 2
    Default <- MCDefault
    KillWait = 1
    LateSweep = 1
    MaxPrep = 2
    MaxOversleep = 1
    EnvironmentsOf <- RunOnly
SPECIFICATION Spec
PROPERTIES
    RunNeverAborted
