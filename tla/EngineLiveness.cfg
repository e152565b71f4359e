CONSTANTS
    plan = plan
    work = work
    gate = gate
    NoNode = NoNode
    Nodes = {plan, work, gate}
    StartAt = plan
    Checkpoints = {gate}
    Updaters = {work}
    Outputs = {"go", "stop"}
    Edge <- MCEdge
    Carries <- MCCarries
    MaxSteps = 4
    MaxDisruptions = 2
SPECIFICATION FairSpec
CHECK_DEADLOCK FALSE
PROPERTY StopsWhenAsked
PROPERTY RunEnds
