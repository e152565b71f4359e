-------------------------- MODULE ChangeVerification --------------------------
(***************************************************************************)
(* The change-verification workflow: run the checks on the candidate and,   *)
(* where a check allows it, on the base revision, compare, and repair what  *)
(* the change broke.  A result is "pass", a complete failure ("fail", or    *)
(* "other" for one with a different fingerprint) or "partial" (timed out,   *)
(* cancelled, truncated); on the base, "none" stands for no complete result. *)
(***************************************************************************)
EXTENDS Integers, Sequences, FiniteSets

CONSTANTS
    VerChecks,   \* the checks
    Comparable,  \* those that are read-only and eligible for a base run
    MaxRepairs   \* MAX_REPAIR_ATTEMPTS

ASSUME VerAssumption == Comparable \subseteq VerChecks /\ MaxRepairs \in Nat

VARIABLES
    request,    \* the input: the checks with a mechanical fix, whether parts are untested
    verNode,
    candidate, base,
    cleanup,    \* the base worktree was removed
    repairs,    \* the repair attempts: the findings repaired, whether the fixer was rejected
    judgment    \* the route of the last judge; "stale" once a repair was made after it

verVars == <<request, verNode, candidate, base, cleanup, repairs, judgment>>

VerEnds == {"ready", "blocked", "stopped"}
CheckResults == {"pass", "fail", "other", "partial"}
NoCheckResults == [c \in VerChecks |-> "none"]
VerGo(n) == verNode' = n

----------------------------------------------------------------------------
(***************************************************************************)
(* classifyVerification.                                                    *)
(***************************************************************************)
Complete(r) == r \notin {"none", "partial"}
Passed(r) == r = "pass"

Compared == {c \in Comparable : Complete(candidate[c]) /\ Complete(base[c])}
Related ==
    {c \in VerChecks \ Comparable : Complete(candidate[c]) /\ ~Passed(candidate[c])} \cup
    {c \in Compared : ~Passed(candidate[c]) /\ Passed(base[c])}
Unrelated == {c \in Compared : ~Passed(candidate[c]) /\ candidate[c] = base[c]}
Unknown ==
    {c \in VerChecks : ~Complete(candidate[c])} \cup
    {c \in Comparable \ Compared : Complete(candidate[c]) /\ ~Passed(candidate[c])} \cup
    {c \in Compared : ~Passed(candidate[c]) /\ ~Passed(base[c]) /\ candidate[c] # base[c]}

\* FailureFingerprint: of the related and the unknown findings; the untested parts never
\* change, and a failed cleanup, which names a new directory, makes it a new one.
FailureFingerprint ==
    IF ~cleanup THEN <<Len(repairs)>>
    ELSE <<{<<c, candidate[c]>> : c \in Related \cup {d \in Unknown : ~Complete(candidate[d])}},
           {<<c, candidate[c], base[c]>> : c \in {d \in Unknown : Complete(candidate[d])}}>>

Rejected == \E i \in DOMAIN repairs : repairs[i].rejected

VerRoute ==
    IF Rejected THEN "blocked"
    ELSE IF Unknown # {} \/ ~cleanup \/ request.untested THEN "judge"
    ELSE IF Related = {} THEN "ready" ELSE "repairGuard"

----------------------------------------------------------------------------
SelectChecks ==
    /\ verNode = "selectChecks"
    /\ VerGo("runCandidate") \/ VerGo("planChecks")
    /\ UNCHANGED <<request, candidate, base, cleanup, repairs, judgment>>

PlanChecks ==
    /\ verNode = "planChecks" /\ VerGo("runCandidate")
    /\ UNCHANGED <<request, candidate, base, cleanup, repairs, judgment>>

RunCandidate ==
    /\ verNode = "runCandidate" /\ VerGo("runBase")
    /\ candidate' \in [VerChecks -> CheckResults]
    /\ UNCHANGED <<request, base, cleanup, repairs, judgment>>

\* RunBase: nothing runs when no check is comparable or the base cannot be set up; the
\* temporary worktree is removed in any case, if that works.
RunBase ==
    /\ verNode = "runBase" /\ VerGo("classify")
    /\ base' \in {[c \in VerChecks |-> IF c \in Comparable THEN f[c] ELSE "none"] :
                    f \in [Comparable -> (CheckResults \ {"partial"}) \cup {"none"}]}
    /\ cleanup' \in (IF Comparable = {} THEN {TRUE} ELSE BOOLEAN)
    /\ UNCHANGED <<request, candidate, repairs, judgment>>

Classify ==
    /\ verNode = "classify" /\ VerGo(VerRoute)
    /\ UNCHANGED <<request, candidate, base, cleanup, repairs, judgment>>

\* Variant: attempts are counted, their findings are not compared.
NeverRepeated == FALSE

Repeated == \E i \in DOMAIN repairs : repairs[i].fingerprint = FailureFingerprint

VerRepairGuard ==
    /\ verNode = "repairGuard"
    /\ VerGo(IF Len(repairs) >= MaxRepairs \/ Repeated THEN "blocked"
             ELSE IF Related # {} /\ Related \subseteq request.fixes
             THEN "mechanicalRepair" ELSE "semanticRepair")
    /\ UNCHANGED <<request, candidate, base, cleanup, repairs, judgment>>

Repaired(rejected) ==
    /\ VerGo("runCandidate")
    /\ repairs' = Append(repairs, [fingerprint |-> FailureFingerprint, rejected |-> rejected])
    /\ judgment' = IF judgment = "none" THEN "none" ELSE "stale"
    /\ UNCHANGED <<request, candidate, base, cleanup>>

\* MechanicalRepair: the fixer's, rejected when it changed undeclared files.
MechanicalRepair == verNode = "mechanicalRepair" /\ \E rejected \in BOOLEAN : Repaired(rejected)

SemanticRepair == verNode = "semanticRepair" /\ Repaired(FALSE)

Judge ==
    /\ verNode = "judge"
    /\ \E r \in {"ready", "repair", "blocked"} :
         /\ judgment' = r
         /\ VerGo(IF r = "repair" THEN "repairGuard" ELSE r)
    /\ UNCHANGED <<request, candidate, base, cleanup, repairs>>

\* VerStops: a step that throws or times out, or the step limit, ends the run.
VerStops ==
    /\ verNode \notin VerEnds /\ VerGo("stopped")
    /\ UNCHANGED <<request, candidate, base, cleanup, repairs, judgment>>

----------------------------------------------------------------------------
VerInit ==
    /\ request \in [fixes : SUBSET VerChecks, untested : BOOLEAN]
    /\ verNode = "selectChecks" /\ candidate = NoCheckResults /\ base = NoCheckResults
    /\ cleanup = TRUE /\ repairs = <<>> /\ judgment = "none"

VerNext ==
    \/ SelectChecks \/ PlanChecks \/ RunCandidate \/ RunBase \/ Classify \/ VerRepairGuard
    \/ MechanicalRepair \/ SemanticRepair \/ Judge \/ VerStops

VerSpec == VerInit /\ [][VerNext]_verVars

----------------------------------------------------------------------------
VerTypeOK ==
    /\ request \in [fixes : SUBSET VerChecks, untested : BOOLEAN]
    /\ verNode \in VerEnds \cup {"selectChecks", "planChecks", "runCandidate", "runBase",
         "classify", "repairGuard", "mechanicalRepair", "semanticRepair", "judge"}
    /\ candidate \in [VerChecks -> CheckResults \cup {"none"}]
    /\ base \in [VerChecks -> CheckResults \cup {"none"}] /\ cleanup \in BOOLEAN
    /\ judgment \in {"none", "ready", "repair", "blocked", "stale"}

\* ReadyMeansPassed (classify, judge): a change is ready only when, in the runs made after
\* the last repair, every check passed on the candidate or failed the same way on the base
\* with nothing left untested or unremoved, or the judge of these runs said so; and never
\* after a fixer was rejected.
ReadyMeansPassed ==
    verNode = "ready" =>
        /\ ~Rejected
        /\ \/ judgment = "ready"
           \/ /\ \A c \in VerChecks : candidate[c] = "pass" \/ c \in Unrelated
              /\ cleanup /\ ~request.untested

\* VerificationRepairsOnce (repairGuard): no two repairs are made for the same findings,
\* and no more than MAX_REPAIR_ATTEMPTS in all, judge and rejected fixers included.
VerificationRepairsOnce ==
    /\ Len(repairs) <= MaxRepairs
    /\ \A i, j \in DOMAIN repairs : repairs[i].fingerprint = repairs[j].fingerprint => i = j

\* VerdictIsExplained (ready): the reason and evidence of a ready result, which are the
\* last judge's if there was one, are about the runs that made it ready.
VerdictIsExplained ==
    verNode = "ready" => judgment # "stale"

=============================================================================
