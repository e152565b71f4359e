\* Two reconciling workers, two generations, two mishaps; three steps with one
\* nudge and one retry each, four events; two notes and three crashes; two hosts,
\* three starts and two agent processes; two attempts, one recorded turn of two
\* messages, a queue of three events.
CONSTANTS
    ReconWorkers = {w1, w2}
    Solo = w1
    NoWorker = nobody
    MaxGeneration = 2
    MaxUid = 2
    MaxWakes = 1
    MaxMishaps = 2
    MaxSteps = 3
    MaxNudges = 1
    MaxRetries = 1
    MaxEvents = 4
    MaxNotes = 2
    MaxCrashes = 3
    HostIds = {h1, h2}
    NoHost = nohost
    MaxStarts = 3
    MaxChildren = 2
    MaxAttempts = 2
    MaxTurns = 1
    MaxMessages = 2
    FlushMax = 2
    QueueMax = 3
    MaxTroubles = 1
SPECIFICATION SvcSpec
INVARIANTS
    SvcTypeOK NoChangeLost EffectOnce OneChildEngine
    NoStepForgotten NothingIsSentTwice OneHostOwner CaptureIsHonest
PROPERTIES
    Converges OutcomeIsFinal StepEnds NoteIsShown CaptureEnds
\* Every part ends its bounded work.
CHECK_DEADLOCK FALSE
