CONSTANTS
    s1 = s1
    h1 = h1
    h2 = h2
    a = a
    b = b
    c = c
    d = d
    Nobody = Nobody
    NoRun = 0
    NumRuns = 3
    Sessions = {s1}
    Hosts = {h1}
    Workers <- MCWorkersSolo
    ProcOf <- MCProcOf
    OriginOf <- MCOriginOne
    ParentOf <- MCParents
    StallPoints = {}
    HasCheckpoints = TRUE
    SourceMayChange = FALSE
    MaxDisruptions = 2
SPECIFICATION Spec
INVARIANT OneContinuation
