SPECIFICATION PromptSpec
CONSTANTS
    j1 = j1
    j2 = j2
    s1 = s1
    s2 = s2
    Proc = {cli1, cli2}
    Loop = {}
    Job = {j1, j2}
    Deployments <- Overlap
    Source = {s1, s2}
    SourcesOf <- TwoSources
    Period <- TwoPeriods
    Unavailable = {s2}
    Timeout = 1
    MaxOrphans = 1
    MaxClock = 4
    MaxFaults = 0
    None = None
PROPERTIES
    TerminalStatusStable
