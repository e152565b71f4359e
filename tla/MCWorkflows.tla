---------------------------- MODULE MCWorkflows -----------------------------
(***************************************************************************)
(* Human decisions, the Telegram channel and agent groups in one TLC run.   *)
(* They share no state, so a behaviour is one of one part, chosen at the    *)
(* start, while the others rest in one of their initial states.             *)
(***************************************************************************)
EXTENDS HumanDecisions, TelegramChannel, AgentGroup

VARIABLE part

\* There are as many sessions and hosts as agents; this numbers them.
ASSUME NumberedAlike == Cardinality(Sessions) = AgentCount /\ Cardinality(Hosts) = AgentCount
Numbered(S) == CHOOSE f \in [Requests -> S] : \A s \in S : \E k \in Requests : f[k] = s
Session == Numbered(Sessions)
Host == Numbered(Hosts)

wflVars == <<part, decVars, telVars, grpVars>>

WflInit ==
    /\ part \in {"decisions", "telegram", "group"}
    /\ DecInit /\ TelInit /\ GrpInit
    /\ part # "decisions" => policy = "required" /\ \A s \in Sessions : ~busy[s]
    /\ part # "group" => failFast /\ \A k \in Pool : worker[k] = 0

\* A step of one part.
OfDecisions(A) == part = "decisions" /\ A /\ UNCHANGED <<part, telVars, grpVars>>
OfTelegram(A) ==
    /\ part = "telegram" /\ A
    /\ updates' # <<>> => trouble' <= 1
    /\ UNCHANGED <<part, decVars, grpVars>>
OfGroup(A) == part = "group" /\ A /\ UNCHANGED <<part, decVars, telVars>>

WflNext == OfDecisions(DecNext) \/ OfTelegram(TelNext) \/ OfGroup(GrpNext)

\* The fairness of each part, as its module explains it. Only one part takes
\* steps, so conditions of different parts share a conjunct.
WflFairness ==
    /\ WF_wflVars(OfDecisions(QueueResumes) \/ OfTelegram(DeliverGoesOn) \/ OfGroup(PoolNext))
    /\ WF_wflVars(OfDecisions(\E s \in Sessions : OtherRunEnds(s)) \/ OfTelegram(LeaseExpires))
    /\ \A k \in Requests :
         /\ WF_wflVars(\/ OfDecisions(HandStep(Session[k])) \/ OfTelegram(PollGoesOn(Host[k]))
                       \/ OfGroup(AgentNext(k)))
         /\ WF_wflVars(OfDecisions(TimerStep(Session[k])))

WflSpec == WflInit /\ [][WflNext]_wflVars /\ WflFairness

\* WflTypeOK: every variable of the three parts keeps its type.
WflTypeOK == DecTypeOK /\ TelTypeOK /\ GrpTypeOK

\* DecisionSettles (HumanDecisions): an answer that is stored gets its run going again, and the
\* dialogs that still ask for it close.
DecisionSettles == DecisionContinues /\ DialogsClose

=============================================================================
