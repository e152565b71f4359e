CONSTANTS
    s1 = s1
    h1 = h1
    h2 = h2
    a = a
    b = b
    c = c
    d = d
    Nobody = Nobody
    NoRun = 0
    NumRuns = 2
    Sessions = {s1}
    Hosts = {h1}
    Workers <- MCWorkersPair
    ProcOf <- MCProcOf
    OriginOf <- MCOriginOne
    ParentOf <- MCNoParents
    StallPoints = {"setup", "begin", "interrupt"}
    HasCheckpoints = FALSE
    SourceMayChange = FALSE
    MaxDisruptions = 2
SPECIFICATION Spec
INVARIANT IInv
INVARIANT OneExecutionPerRun
INVARIANT OneExecutionPerSession
PROPERTY NoForeignWrite
PROPERTY CancelledLaunchNeverRuns
SYMMETRY MCSymmetry
