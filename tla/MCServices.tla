----------------------------- MODULE MCServices -----------------------------
(***************************************************************************)
(* Controllers, conversation steps, the notification outbox, the project   *)
(* hosts' ownership and the recorder in one TLC run. They share no state,  *)
(* so a behaviour is one of one part, chosen at the start, while the       *)
(* others rest: the state spaces add instead of multiplying. Controllers   *)
(* run twice: "solo", one worker beside one aborted pass, with three       *)
(* changes, wake-ups and mishaps of which none is a stall, and "pair", all *)
(* workers, which overtake each other, with one generation, one mishap, a  *)
(* recreated resource and no wake-up; a pass is aborted there because its  *)
(* claim was lost. Pi rests once a capture drains: its hooks change        *)
(* nothing of it any more.                                                 *)
(***************************************************************************)
EXTENDS Controllers, Conversation, Outbox, HostOwnership, Recorder

CONSTANT Solo  \* the worker that runs alone
VARIABLE part

svcVars == <<part, ctlVars, convVars, outVars, hostVars, recVars>>

SvcInit ==
    /\ part \in {"solo", "pair", "conversation", "outbox", "host", "recorder"}
    /\ CtlInit /\ ConvInit /\ OutInit /\ HostInit /\ RecInit

\* A step of one part.
OfControllers(A) ==
    /\ \/ /\ part = "solo" /\ A
          /\ \A w \in ReconWorkers \ {Solo} : pass'[w] = pass[w]
          /\ ~stalled' /\ resource'.uid <= 1
          /\ resource'.gen + mishaps' + wakes' <= IF resource'.deleting THEN 2 ELSE 3
          /\ Cardinality(aborted') <= IF resource'.gen <= 1 THEN 1 ELSE 0
       \/ /\ part = "pair" /\ A
          /\ resource'.gen <= 1 /\ mishaps' <= 1 /\ wakes' = 0
          /\ aborted' # {} => stalled'
    /\ UNCHANGED <<part, convVars, outVars, hostVars, recVars>>
OfConversation(A) ==
    part = "conversation" /\ A /\ UNCHANGED <<part, ctlVars, outVars, hostVars, recVars>>
OfOutbox(A) ==
    part = "outbox" /\ A /\ UNCHANGED <<part, ctlVars, convVars, hostVars, recVars>>
OfHost(A) == part = "host" /\ A /\ UNCHANGED <<part, ctlVars, convVars, outVars, recVars>>
OfRecorder(A) ==
    /\ part = "recorder" /\ A
    /\ \/ stage \in {"open", "waiting"} \/ stage' = "dead"
       \/ <<piVars, ownVars, hook>>' = <<piVars, ownVars, hook>>
    /\ UNCHANGED <<part, ctlVars, convVars, outVars, hostVars>>

SvcNext ==
    \/ OfControllers(CtlNext) \/ OfConversation(ConvNext) \/ OfOutbox(OutNext)
    \/ OfHost(HostNext) \/ OfRecorder(RecNext)

\* The fairness of each part, as its module explains it. Only one part takes
\* steps, so conditions of different parts share a conjunct.
SvcFairness ==
    /\ WF_svcVars(\/ OfControllers(ManagerGoesOn) \/ OfConversation(SessionGoesOn)
                  \/ OfOutbox(OutGoesOn) \/ OfRecorder(CaptureGoesOn))
    /\ WF_svcVars(OfControllers(ChildrenGoOn) \/ OfConversation(AgentGoesOn))
    /\ SF_svcVars(OfConversation(TurnEnds))

SvcSpec == SvcInit /\ [][SvcNext]_svcVars /\ SvcFairness

\* SvcTypeOK: every variable of the five services keeps its type.
SvcTypeOK == CtlTypeOK /\ ConvTypeOK /\ OutTypeOK /\ HostTypeOK /\ RecTypeOK

\* NothingIsSentTwice (Conversation, Outbox): a deferred prompt is sent once whatever crash or
\* expired lease comes between sending and settling it, and so is a note that a rerun node,
\* a restart or a session that goes away and comes back finds again.
NothingIsSentTwice == OneSuccessorMessage /\ NotifiedOnce

=============================================================================
