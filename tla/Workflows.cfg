\* Two sessions, two answers, two acts of people or crashes; two hosts, two
\* message parts; two agents, one of them with a provider.
CONSTANTS
    Sessions = {s1, s2}
    Answers = {yes, no}
    MaxActs = 2
    Hosts = {h1, h2}
    Parts = 2
    MaxPresses = 2
    MaxTrouble = 2
    AgentCount = 2
    MaxConcurrency = 2
    WithProvider = {1}
SPECIFICATION WflSpec
INVARIANTS
    WflTypeOK OneOutcome NoBlindResend NoUpdateSkipped GroupIsAccounted
PROPERTIES
    DecisionSettles UpdateConsumed GroupFinishes
\* Every part ends its bounded work.
CHECK_DEADLOCK FALSE
