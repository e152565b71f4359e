CONSTANTS
    s1 = s1
    h1 = h1
    h2 = h2
    a = a
    b = b
    c = c
    d = d
    Nobody = Nobody
    NoRun = 0
    NumRuns = 2
    Sessions = {s1}
    Hosts = {h1, h2}
    Workers <- MCWorkersHosts
    ProcOf <- MCProcOf
    OriginOf <- MCOriginOne
    ParentOf <- MCNoParents
    StallPoints = {}
    HasCheckpoints = TRUE
    SourceMayChange = TRUE
    MaxDisruptions = 2
SPECIFICATION FairSpec
PROPERTY StrandedRunTaken
PROPERTY EndedBundleIsFinal
PROPERTY ImplementsOwnership
