\* One worker whose deadline passes while it reads the child's bundle, and
\* the attempt after it.
CONSTANTS
    ReconWorkers = {w1, w2}
    Solo = w1
    NoWorker = nobody
    MaxGeneration = 2
    MaxUid = 2
    MaxWakes = 1
    MaxMishaps = 2
    MaxSteps = 3
    MaxNudges = 1
    MaxRetries = 1
    MaxEvents = 4
    MaxNotes = 2
    MaxCrashes = 3
    HostIds = {h1, h2}
    NoHost = nohost
    MaxStarts = 3
    MaxChildren = 2
    MaxAttempts = 2
    MaxTurns = 1
    MaxMessages = 2
    FlushMax = 2
    QueueMax = 3
    MaxTroubles = 1
SPECIFICATION SvcSpec
INVARIANT OneEngineWhateverAborts
\* Every part ends its bounded work.
CHECK_DEADLOCK FALSE
