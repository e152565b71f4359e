---------------------------- MODULE Autoimplement ----------------------------
(***************************************************************************)
(* The graph of the autoimplement workflow: which node may follow which, and *)
(* what its guards read from the run's history.  Agents answer anything      *)
(* their validators accept.  The engine that walks the graph is Engine; its  *)
(* step limit, and a node that fails without a switch on the outcome, end    *)
(* the run at any node.  Included workflows are one node with their exits.   *)
(***************************************************************************)
EXTENDS Integers, FiniteSets

CONSTANTS MaxChallenges, MaxFallbacks   \* MAX_BLOCKER_CHALLENGES, MAX_TIMEOUT_FALLBACKS

ASSUME AutAssumption == MaxChallenges \in Nat /\ MaxFallbacks \in Nat

VARIABLES
    job,        \* the input: plan given, checks given, workspace mode
    node,
    previous,   \* the node of the last step, while it is read
    answer,     \* the output route of the last step, until it is followed
    timedOut,   \* latestTimedOutStep, until its fallback
    tried,      \* counts of ok challengeBlocker and timeoutFallback steps, a repair made
    lastWork,       \* the latest work attempt: "none", "ok", "unfinished"
    published,  \* hasCurrentPublication
    comments,   \* currentCommentsIndex >= 0
    ci,         \* the latest CI route after those comments; "unrelated" once classified
    verified,   \* checks have passed since the latest work attempt (ghost)
    moved,      \* the work differs from the head that publish reported last
    review      \* the review of that head: "none", "error", "critical", "p2", "clean"

histVars == <<lastWork, published, comments, ci, verified, moved, review>>
autVars == <<job, node, previous, answer, timedOut, tried, histVars>>

WorkNodes == {"implement", "fix", "addressP2"}
Sources == WorkNodes \cup
    {"planVerification", "publish", "verifyP2", "inspectComments", "inspectCi",
     "opportunisticTest", "finalizeDefaultBranch", "finalizeDelivery"}
AutEnds == {"blocked", "finalize", "failed"}

(***************************************************************************)
(* The edges that depend on nothing but the answer of the node itself.      *)
(***************************************************************************)
Edges ==
    {"findPlan"} \X {"routeFoundPlan", "blocked"} \cup
    {"routeFoundPlan"} \X {"workspace", "blocked"} \cup
    {"workspace"} \X {"routeWorkspace", "blocked"} \cup
    {"routeWorkspace"} \X {"implement", "documentation"} \cup
    {"documentation"} \X {"implement", "blocked"} \cup
    {"redesign"} \X {"adoptPlan", "blocked"} \cup
    {"adoptPlan"} \X {"implement"} \cup
    {"classifyImplementation"} \X {"selectVerificationPath", "redesign", "fix",
                                   "challengeBlockerGuard"} \cup
    {"reviewAssessmentRecoveryBlocked"} \X {"blocked"} \cup
    {"triageReview"} \X {"redesign", "fix"} \cup
    {"trackCi"} \X {"assessTrackedCi", "repairCiCommand"} \cup
    {"repairCiCommand"} \X {"trackCi", "challengeBlockerGuard"}

\* Where a switch on the route of the step before leads.
Switches == [
    routeReviewAssessment |-> [command_error |-> "repairReviewCommand", blocked |-> "blocked",
        critical |-> "triageReview", p2 |-> "addressP2", clean |-> "inspectComments"],
    routeVerifyP2Result |-> [passed |-> "inspectComments", failed |-> "fix"],
    routeInspectCommentsResult |-> [redesign |-> "redesign", fix |-> "fix", ci |-> "inspectCi",
        blocked |-> "challengeBlockerGuard"],
    routeInspectCiResult |-> [green |-> "finalizeDelivery", failed |-> "classifyCi",
        pending |-> "trackCi", unavailable |-> "challengeBlockerGuard"],
    routeFinalizeDeliveryResult |-> [completed |-> "finalize",
        blocked |-> "challengeBlockerGuard"],
    routeFinalizeDefaultBranchResult |-> [completed |-> "finalize",
        blocked |-> "challengeBlockerGuard"]]

AutNodes == AutEnds \cup Sources \cup DOMAIN Switches \cup {e[1] : e \in Edges}
         \cup {e[2] : e \in Edges} \cup
    {"prepare", "selectVerificationPath", "localVerification", "routeVerifiedWorkspace",
     "selectReviewCommands", "runReview", "repairReviewCommand", "assessReview",
     "recoverReviewAssessment", "classifyCi", "timeoutFallbackGuard", "timeoutFallback",
     "routeTimeoutFallback", "propagateSupportedFailure", "challengeBlocker",
     "routeBlockerRecovery"}

\* Go: the step before is kept where blockerOrigin reads it.
Go(n) ==
    /\ node' = n
    /\ previous' = IF n = "challengeBlockerGuard" THEN node ELSE "none"
Quiet == UNCHANGED <<job, answer, timedOut, tried, histVars>>

----------------------------------------------------------------------------
Walk == \E n \in AutNodes : <<node, n>> \in Edges /\ Go(n) /\ Quiet

FollowRoute ==
    /\ node \in DOMAIN Switches /\ Go(Switches[node][answer]) /\ answer' = "none"
    /\ UNCHANGED <<job, timedOut, tried, histVars>>

\* prepare: the reviewer cannot be attested, or on to the plan.
Prepare ==
    /\ node = "prepare" /\ Quiet
    /\ Go("blocked") \/ Go(IF job.plan THEN "workspace" ELSE "findPlan")

SelectVerificationPath ==
    /\ node = "selectVerificationPath" /\ Quiet
    /\ Go(IF job.checks THEN "localVerification" ELSE "planVerification")

RouteVerifiedWorkspace ==
    /\ node = "routeVerifiedWorkspace" /\ Quiet
    /\ Go(IF job.mode = "defaultBranch" THEN "finalizeDefaultBranch" ELSE "publish")

\* A work attempt voids what was checked before it, whether or not it is accepted.
Attempt(result) ==
    /\ lastWork' = result /\ published' = FALSE /\ verified' = FALSE
    /\ moved' \in {moved, TRUE}
    /\ UNCHANGED <<comments, ci, review>>

Unfinished ==
    IF node \in WorkNodes THEN Attempt("unfinished") ELSE UNCHANGED histVars

StepTimesOut ==
    /\ node \in Sources /\ Go("timeoutFallbackGuard") /\ timedOut' = node
    /\ Unfinished
    /\ UNCHANGED <<job, answer, tried>>

StepFails ==
    /\ node \in Sources /\ Go("propagateSupportedFailure")
    /\ Unfinished
    /\ UNCHANGED <<job, answer, timedOut, tried>>

RunStops ==
    /\ node \notin AutEnds /\ Go("failed") /\ answer' = "none" /\ timedOut' = "none"
    /\ UNCHANGED <<job, tried, histVars>>

AcceptWork ==
    /\ node \in WorkNodes /\ Attempt("ok")
    /\ Go(CASE node = "implement" -> "classifyImplementation"
            [] node = "fix" -> "selectVerificationPath"
            [] node = "addressP2" -> "verifyP2")
    /\ UNCHANGED <<job, answer, timedOut, tried>>

PlanVerification == node = "planVerification" /\ Go("localVerification") /\ Quiet

\* localVerification: the included change verification, ready or blocked.
LocalVerification ==
    /\ node = "localVerification"
    /\ \/ Go("routeVerifiedWorkspace") /\ verified' = TRUE
       \/ Go("challengeBlockerGuard") /\ UNCHANGED verified
    /\ UNCHANGED <<job, answer, timedOut, tried, lastWork, published, comments, ci, moved, review>>

\* Publish: an unmoved head keeps the reviews it has.
Publish ==
    /\ node = "publish" /\ Go("selectReviewCommands")
    /\ published' = TRUE /\ comments' = FALSE /\ moved' = FALSE
    /\ review' = IF moved THEN "none" ELSE review
    /\ UNCHANGED <<job, answer, timedOut, tried, lastWork, ci, verified>>

\* VerifyP2: verifies the P2 work and, when it passes, pushes it: a publication too.
VerifyP2 ==
    /\ node = "verifyP2" /\ Go("routeVerifyP2Result")
    /\ \/ /\ answer' = "passed" /\ published' = TRUE /\ comments' = FALSE /\ verified' = TRUE
       \/ answer' = "failed" /\ UNCHANGED <<published, comments, verified>>
    /\ UNCHANGED <<job, timedOut, tried, lastWork, ci, moved, review>>

Reviewed == review \in {"critical", "p2", "clean"}

\* SelectReviewCommands: a head with a complete review is not reviewed again.
SelectReviewCommands ==
    /\ node = "selectReviewCommands" /\ Quiet
    /\ Go(IF Reviewed THEN "inspectComments" ELSE "runReview")

\* RunReview: a broken batch is repaired once.
RunReview ==
    /\ node = "runReview" /\ Quiet
    /\ Go("assessReview") \/ Go(IF tried.repair THEN "blocked" ELSE "repairReviewCommand")

RepairReviewCommand ==
    /\ node = "repairReviewCommand"
    /\ Go("runReview") \/ Go("blocked")
    /\ tried' = [tried EXCEPT !.repair = TRUE]
    /\ UNCHANGED <<job, answer, timedOut, histVars>>

\* AssessReview: the assessment, or one recovery of it, is bound to the selected head.
AssessReview ==
    /\ node \in {"assessReview", "recoverReviewAssessment"}
    /\ \/ /\ Go("routeReviewAssessment")
          /\ review' \in {"error", "critical", "p2", "clean"}
          /\ answer' = IF review' # "error" THEN review'
                       ELSE IF tried.repair THEN "blocked" ELSE "command_error"
       \/ /\ Go(IF node = "assessReview" THEN "recoverReviewAssessment"
                ELSE "reviewAssessmentRecoveryBlocked")
          /\ UNCHANGED <<answer, review>>
       \/ Go("propagateSupportedFailure") /\ UNCHANGED <<answer, review>>
    /\ UNCHANGED <<job, timedOut, tried, lastWork, published, comments, ci, verified, moved>>

InspectComments ==
    /\ node = "inspectComments" /\ Go("routeInspectCommentsResult")
    /\ answer' \in {"redesign", "fix", "ci", "blocked"}
    /\ comments' = (answer' = "ci") /\ ci' = "none"
    /\ UNCHANGED <<job, timedOut, tried, lastWork, published, verified, moved, review>>

CiRoutes == {"green", "failed", "pending", "unavailable"}

InspectCi ==
    /\ node = "inspectCi" /\ Go("routeInspectCiResult")
    /\ answer' \in CiRoutes /\ ci' = answer'
    /\ UNCHANGED <<job, timedOut, tried, lastWork, published, comments, verified, moved, review>>

AssessTrackedCi ==
    /\ node = "assessTrackedCi" /\ ci' \in CiRoutes
    /\ Go(CASE ci' = "green" -> "finalizeDelivery" [] ci' = "failed" -> "classifyCi"
            [] ci' = "pending" -> "opportunisticTest" [] OTHER -> "challengeBlockerGuard")
    /\ UNCHANGED <<job, answer, timedOut, tried, lastWork, published, comments, verified, moved,
                   review>>

OpportunisticTest == node = "opportunisticTest" /\ Go("inspectCi") /\ Quiet

ClassifyCi ==
    /\ node = "classifyCi"
    /\ \/ Go("finalizeDelivery") /\ ci' = "unrelated"
       \/ /\ Go("redesign") \/ Go("fix") \/ Go("challengeBlockerGuard")
          /\ UNCHANGED ci
    /\ UNCHANGED <<job, answer, timedOut, tried, lastWork, published, comments, verified, moved,
                   review>>

Finalize ==
    /\ \/ node = "finalizeDelivery" /\ Go("routeFinalizeDeliveryResult")
       \/ node = "finalizeDefaultBranch" /\ Go("routeFinalizeDefaultBranchResult")
    /\ answer' \in {"completed", "blocked"}
    /\ UNCHANGED <<job, timedOut, tried, histVars>>

----------------------------------------------------------------------------
(***************************************************************************)
(* Blockers are challenged, timeouts are recovered from; both are limited.  *)
(***************************************************************************)

\* Recoveries: blockerOrigin of the last step, and what BLOCKER_RECOVERIES allows for it.
Recoveries ==
    CASE previous = "classifyImplementation" -> {"redesign", "fix"}
      [] previous \in {"selectVerificationPath", "localVerification"} ->
            {"planVerification", "fix"}
      [] previous \in {"runReview", "repairReviewCommand", "routeReviewAssessment"} ->
            {"repairReviewCommand", "selectReviewCommands"}
      [] previous = "routeInspectCommentsResult" -> {"inspectComments", "fix"}
      [] previous \in {"routeInspectCiResult", "repairCiCommand", "assessTrackedCi",
                       "classifyCi"} -> {"inspectCi", "opportunisticTest"}
      [] previous = "routeFinalizeDeliveryResult" -> {"inspectComments", "inspectCi"}
      [] previous = "routeFinalizeDefaultBranchResult" -> {"finalizeDefaultBranch"}
      [] OTHER -> {}

\* ChallengeGuard: the guarded recoveries are the next node's answer to choose from.
ChallengeGuard ==
    /\ node = "challengeBlockerGuard"
    /\ IF Recoveries = {} \/ tried.challenges >= MaxChallenges
       THEN Go("blocked") /\ UNCHANGED answer
       ELSE Go("challengeBlocker") /\ answer' \in Recoveries
    /\ UNCHANGED <<job, timedOut, tried, histVars>>

ChallengeBlocker ==
    /\ node = "challengeBlocker"
    /\ \/ Go("routeBlockerRecovery") /\ UNCHANGED answer
       \/ Go("blocked") /\ answer' = "none"
    /\ tried' = [tried EXCEPT !.challenges = @ + 1]
    /\ UNCHANGED <<job, timedOut, histVars>>

RouteBlockerRecovery ==
    /\ node = "routeBlockerRecovery" /\ Go(answer) /\ answer' = "none"
    /\ UNCHANGED <<job, timedOut, tried, histVars>>

\* Variant: the bound is compared one fallback late.
FallbackGuardLate ==
    /\ node = "timeoutFallbackGuard" /\ Quiet
    /\ Go(IF tried.fallbacks > MaxFallbacks THEN "blocked" ELSE "timeoutFallback")

FallbackGuard ==
    /\ node = "timeoutFallbackGuard" /\ Quiet
    /\ Go(IF tried.fallbacks >= MaxFallbacks THEN "blocked" ELSE "timeoutFallback")

\* TimeoutFallbackRoutes: where a timeout of the source may lead besides retry and replan.
TimeoutFallbackRoutes ==
    CASE timedOut = "planVerification" -> {"verify"}
      [] timedOut = "inspectComments" -> {"review", "ci"}
      [] timedOut \in {"inspectCi", "opportunisticTest"} -> {"ci", "deliver"}
      [] timedOut = "finalizeDelivery" -> {"deliver"}
      [] OTHER -> {}

CurrentReadyCi == comments /\ ci \in {"green", "unrelated"}

\* Variant: delivery only asks for a current publication and its comments.
SafeIfPublished(route) ==
    CASE route = "verify" -> lastWork = "ok"
      [] route = "review" -> published
      [] route \in {"ci", "deliver"} -> published /\ comments
      [] OTHER -> TRUE

\* SafeFallback: a route that moves forward needs current evidence for what it skips.
SafeFallback(route) ==
    CASE route = "verify" -> lastWork = "ok"
      [] route = "review" -> published
      [] route = "ci" -> published /\ comments
      [] route = "deliver" -> published /\ CurrentReadyCi
      [] OTHER -> TRUE

TimeoutFallback ==
    /\ node = "timeoutFallback" /\ Go("routeTimeoutFallback")
    /\ answer' \in TimeoutFallbackRoutes \cup {"retry", "replan", "blocked"}
    /\ SafeFallback(answer')
    /\ tried' = [tried EXCEPT !.fallbacks = @ + 1]
    /\ UNCHANGED <<job, timedOut, histVars>>

FallbackTarget ==
    /\ node = "routeTimeoutFallback"
    /\ Go(CASE answer = "verify" -> "selectVerificationPath"
            [] answer = "review" -> "selectReviewCommands" [] answer = "ci" -> "inspectCi"
            [] answer = "deliver" -> "finalizeDelivery" [] answer = "replan" -> "redesign"
            [] answer = "blocked" -> "blocked" [] OTHER -> timedOut)
    /\ answer' = "none" /\ timedOut' = "none"
    /\ UNCHANGED <<job, tried, histVars>>

----------------------------------------------------------------------------
AutInit ==
    /\ job \in [plan : BOOLEAN, checks : BOOLEAN, mode : {"pullRequest", "defaultBranch"}]
    /\ node = "prepare" /\ previous = "none" /\ answer = "none" /\ timedOut = "none"
    /\ tried = [challenges |-> 0, fallbacks |-> 0, repair |-> FALSE]
    /\ lastWork = "none" /\ published = FALSE /\ comments = FALSE /\ ci = "none"
    /\ verified = FALSE /\ moved = TRUE /\ review = "none"

AutNext ==
    \/ Walk \/ FollowRoute \/ Prepare \/ SelectVerificationPath \/ RouteVerifiedWorkspace
    \/ StepTimesOut \/ StepFails \/ RunStops \/ AcceptWork \/ PlanVerification
    \/ LocalVerification \/ Publish \/ VerifyP2 \/ SelectReviewCommands \/ RunReview
    \/ RepairReviewCommand \/ AssessReview \/ InspectComments \/ InspectCi
    \/ AssessTrackedCi \/ OpportunisticTest \/ ClassifyCi \/ Finalize
    \/ ChallengeGuard \/ ChallengeBlocker \/ RouteBlockerRecovery
    \/ FallbackGuard \/ TimeoutFallback \/ FallbackTarget

AutSpec == AutInit /\ [][AutNext]_autVars

----------------------------------------------------------------------------
AutTypeOK ==
    /\ job \in [plan : BOOLEAN, checks : BOOLEAN, mode : {"pullRequest", "defaultBranch"}]
    /\ node \in AutNodes /\ previous \in AutNodes \cup {"none"} /\ timedOut \in Sources \cup {"none"}
    /\ tried \in [challenges : 0..MaxChallenges, fallbacks : 0..MaxFallbacks, repair : BOOLEAN]
    /\ lastWork \in {"none", "ok", "unfinished"}
    /\ published \in BOOLEAN /\ comments \in BOOLEAN /\ verified \in BOOLEAN
    /\ ci \in CiRoutes \cup {"none", "unrelated"} /\ moved \in BOOLEAN
    /\ review \in {"none", "error", "critical", "p2", "clean"}

\* CompletedMeansChecked (the graph, parseTimeoutFallback, BLOCKER_RECOVERIES): whatever
\* timeouts, fallbacks, blockers and redesigns happened on the way, a run that completes
\* has an accepted latest work attempt that was verified after it; and, on a pull
\* request, was published after it, with a complete review of the head that publish
\* reported, comments inspected after the publication and CI found ready after those.
CompletedMeansChecked ==
    node = "finalize" =>
        /\ lastWork = "ok" /\ verified
        /\ job.mode = "pullRequest" => published /\ CurrentReadyCi /\ Reviewed

\* NoCriticalDelivered (selectReviewCommands): a delivered head has no open P0 or P1
\* finding of the reviewer.
NoCriticalDelivered ==
    node = "finalize" /\ job.mode = "pullRequest" => review # "critical"

=============================================================================
