\* The graph of MCEngine with six steps and three disruptions; one challenge and
\* two fallbacks; four checks of a monitor; one check of a change; two plans, one
\* replan allowed, four rounds; the default branch and a task branch, two requests,
\* two acts of people or crashes; two nested includes and eight steps; three
\* commands, two at a time.
CONSTANTS
    plan = plan
    work = work
    gate = gate
    NoNode = NoNode
    Nodes = {plan, work, gate}
    StartAt = plan
    Checkpoints = {gate}
    Updaters = {work}
    Outputs = {"go", "stop"}
    Edge <- MCEdge
    Carries <- MCCarries
    MaxSteps = 6
    MaxDisruptions = 3
    MaxChallenges = 1
    MaxFallbacks = 2
    MaxChecks = 4
    MaxTimeouts = 2
    MonFailures = {f1, f2}
    VerChecks = {c1}
    Comparable = {c1}
    MaxRepairs = 2
    Plans = {p1, p2}
    NoPlan = noPlan
    MaxReplans = 1
    MaxRounds = 4
    Branches = {main, t1}
    Main = main
    NoReceipt = noReceipt
    MaxCommits = 2
    WorkRequests = 2
    WorkActs = 2
    Depth = 2
    Names = {n1}
    MaxRunSteps = 8
    BatchSize = 3
    BatchWidth = 2
    Readers = {1}
SPECIFICATION GrfSpec
\* A run that has ended stays so, and every other part ends its bounded work.
CHECK_DEADLOCK FALSE
INVARIANTS
    GrfTypeOK OnlyUpdatersRelapse VerdictIsEarned NoRepairTwice IncludesAreFrames BatchTellsTheTruth
PROPERTIES
    TerminalIsFinal HistoryIsKept NoWorkAfterStop
