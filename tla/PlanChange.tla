------------------------------ MODULE PlanChange ------------------------------
(***************************************************************************)
(* The plan-change workflow: autoplan designs a plan, autodoc records it in  *)
(* the canonical documents, plan-approval asks for it, and a replan starts   *)
(* over.  The three included workflows are walked through in place.  What    *)
(* the agents answer is free, but an inspection that calls the documents     *)
(* current is right.                                                         *)
(***************************************************************************)
EXTENDS Integers, Sequences, FiniteSets

CONSTANTS
    Plans, NoPlan,
    MaxReplans,  \* approval.maxReplans
    MaxRounds    \* designs after which maxSteps ends the run

ASSUME PlanAssumption == NoPlan \notin Plans /\ {MaxReplans, MaxRounds} \subseteq Nat \ {0}

VARIABLES
    asked,       \* the input: approval mode, previous plan, plan of the documentation receipt
    planNode,
    designed,    \* outputs.design: its plan, NoPlan before the first
    documented,  \* outputs.documentation: the plan it was ready with
    canonical,   \* the plan the documents hold
    answers,     \* the approvals: plan, who answered, and what
    planLocal    \* the node ids the nodes of this workflow see in state.steps

planVars == <<asked, planNode, designed, documented, canonical, answers, planLocal>>

PlanEnds == {"planReady", "planBlocked", "planStopped"}
Inputs == [mode : {"auto", "required", "skip"},
           previous : Plans \cup {NoPlan}, receipt : Plans \cup {NoPlan}]

\* StepShown: a node of this workflow, or an include by its mount name when it is left.
StepShown(n) == planLocal' = Append(planLocal, n)

----------------------------------------------------------------------------
\* AutoplanWalk: the agents of autoplan that only pass their findings on.
AutoplanEdges ==
    {<<"captureIntent", "frame">>, <<"frame", "solutions">>, <<"solutions", "holyGrail">>,
     <<"holyGrail", "select">>, <<"select", "plan">>}

AutoplanWalk == \E e \in AutoplanEdges :
    /\ planNode = e[1] /\ planNode' = e[2]
    /\ UNCHANGED <<asked, designed, documented, canonical, answers, planLocal>>

\* SelectNothing: the selection is blocked, and so the design.
SelectNothing ==
    /\ planNode = "select" /\ planNode' = "planBlocked" /\ StepShown("design")
    /\ UNCHANGED <<asked, designed, documented, canonical, answers>>

Prior == IF designed = NoPlan THEN asked.previous ELSE designed

\* AssessPlan: the finished design, unless it is the plan that has failed already.
AssessPlan ==
    /\ planNode = "plan"
    /\ \E p \in Plans :
         /\ designed' = p
         /\ planNode' = IF asked.previous # NoPlan /\ p = Prior THEN "planBlocked" ELSE "prepare"
    /\ StepShown("design")
    /\ UNCHANGED <<asked, documented, canonical, answers>>

\* Receipt: documentation that needs no inspection, the caller's or that of the round before.
Receipt == designed \in {asked.receipt, documented}

Documented ==
    /\ documented' = designed /\ planNode' = "routePolicy" /\ StepShown("documentation")

PrepareDocumentation ==
    /\ planNode = "prepare"
    /\ \/ Receipt /\ Documented
       \/ ~Receipt /\ planNode' = "inspectDocumentation" /\ UNCHANGED <<documented, planLocal>>
    /\ UNCHANGED <<asked, designed, canonical, answers>>

InspectDocumentation ==
    /\ planNode = "inspectDocumentation"
    /\ \/ canonical = designed /\ Documented
       \/ planNode' = "updateDocumentation" /\ UNCHANGED <<documented, planLocal>>
    /\ UNCHANGED <<asked, designed, canonical, answers>>

\* UpdateDocumentation: in a workspace of its own, before its verification.
UpdateDocumentation ==
    /\ planNode = "updateDocumentation" /\ planNode' = "verification" /\ canonical' = designed
    /\ UNCHANGED <<asked, designed, documented, answers, planLocal>>

VerifyDocumentation ==
    /\ planNode = "verification" /\ Documented
    /\ UNCHANGED <<asked, designed, canonical, answers>>

\* DocumentationBlocked: no target, no repository, no workspace, or no verified update.
DocumentationBlocked ==
    /\ planNode \in {"inspectDocumentation", "updateDocumentation", "verification"}
    /\ planNode' = "planBlocked" /\ StepShown("documentation")
    /\ UNCHANGED <<asked, designed, documented, canonical, answers>>

----------------------------------------------------------------------------
RoutePolicy ==
    /\ planNode = "routePolicy"
    /\ planNode' = IF asked.mode = "skip" THEN "continued" ELSE "approve"
    /\ answers' = IF asked.mode # "skip" THEN answers
                  ELSE Append(answers, [plan |-> documented, by |-> "skipped", choice |-> "continue"])
    /\ planLocal' = IF asked.mode # "skip" THEN planLocal ELSE Append(planLocal, "approval")
    /\ UNCHANGED <<asked, designed, documented, canonical>>

Choices ==
    [by : {"human"}, choice : {"continue", "stop", "replan"}] \cup
    [by : IF asked.mode = "auto" THEN {"timeout"} ELSE {}, choice : {"continue"}]

\* Approve: the decision on the documented plan, by a human or by its deadline.
Approve ==
    /\ planNode = "approve"
    /\ \E c \in Choices :
         /\ answers' = Append(answers, [plan |-> documented, by |-> c.by, choice |-> c.choice])
         /\ planNode' = CASE c.choice = "continue" -> "continued"
                          [] c.choice = "stop" -> "planBlocked"
                          [] c.choice = "replan" -> "replanGuard"
    /\ StepShown("approval")
    /\ UNCHANGED <<asked, designed, documented, canonical>>

Replans == Cardinality({i \in DOMAIN planLocal : planLocal[i] = "approval/replan"})

ReplanGuard ==
    /\ planNode = "replanGuard" /\ StepShown("replanGuard")
    /\ planNode' = IF Replans > MaxReplans THEN "planBlocked"
                   ELSE IF Len(answers) >= MaxRounds THEN "planStopped" ELSE "captureIntent"
    /\ UNCHANGED <<asked, designed, documented, canonical, answers>>

FinalizePlan ==
    /\ planNode = "continued" /\ planNode' = "planReady"
    /\ UNCHANGED <<asked, designed, documented, canonical, answers, planLocal>>

\* PlanStops: a step that throws or times out ends the run.
PlanStops ==
    /\ planNode \notin PlanEnds /\ planNode' = "planStopped"
    /\ UNCHANGED <<asked, designed, documented, canonical, answers, planLocal>>

----------------------------------------------------------------------------
PlanInit ==
    /\ asked \in Inputs /\ planNode = "captureIntent" /\ planLocal = <<"start">>
    /\ designed = NoPlan /\ documented = NoPlan /\ answers = <<>>
    /\ canonical = asked.receipt

PlanNext ==
    \/ AutoplanWalk \/ SelectNothing \/ AssessPlan \/ PrepareDocumentation
    \/ InspectDocumentation \/ UpdateDocumentation \/ VerifyDocumentation
    \/ DocumentationBlocked \/ RoutePolicy \/ Approve \/ ReplanGuard \/ FinalizePlan \/ PlanStops

PlanSpec == PlanInit /\ [][PlanNext]_planVars

----------------------------------------------------------------------------
PlanTypeOK ==
    /\ asked \in Inputs
    /\ planNode \in PlanEnds \cup {e[1] : e \in AutoplanEdges} \cup
         {"plan", "prepare", "inspectDocumentation", "updateDocumentation", "verification",
          "routePolicy", "approve", "continued", "replanGuard"}
    /\ {designed, documented, canonical} \subseteq Plans \cup {NoPlan}
    /\ Len(answers) <= MaxRounds

LastAnswer == answers[Len(answers)]

\* ReadyMeansApproved (finalize): the plan a ready plan change returns is the one designed,
\* documented and approved last: by a human, or by nobody only in a mode that allows it,
\* after nothing but replans; and the documents hold it, unless the caller's own receipt
\* vouched for them.
ReadyMeansApproved ==
    planNode = "planReady" =>
        /\ LastAnswer.plan = documented /\ documented = designed
        /\ LastAnswer.choice = "continue"
        /\ \A i \in 1..Len(answers) - 1 : answers[i].choice = "replan"
        /\ LastAnswer.by = "human" \/ asked.mode = (IF LastAnswer.by = "timeout" THEN "auto" ELSE "skip")
        /\ canonical = documented \/ asked.receipt = documented

\* ReplansAreBounded (replanGuard, "maxReplans ... bounds the exact-instructions replan
\* loop"): no design is started after more replans than the policy allows.
ReplansAreBounded == Len(answers) > MaxReplans => planNode # "captureIntent"

\* ReadyMeansDocumented (autodoc): the documents hold the plan that is returned as ready.
ReadyMeansDocumented == planNode = "planReady" => canonical = documented

=============================================================================
