CONSTANTS
    s1 = s1
    h1 = h1
    h2 = h2
    a = a
    b = b
    c = c
    d = d
    Nobody = Nobody
    NoRun = 0
    NumRuns = 1
    Sessions = {s1}
    Hosts = {h1}
    Workers <- MCWorkersSolo
    ProcOf <- MCProcOf
    OriginOf <- MCOriginOne
    ParentOf <- MCNoParents
    StallPoints = {}
    HasCheckpoints = FALSE
    SourceMayChange = FALSE
    MaxDisruptions = 2
SPECIFICATION FairSpec
PROPERTY DeadClaimTaken
