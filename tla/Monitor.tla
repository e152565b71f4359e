------------------------------- MODULE Monitor --------------------------------
(***************************************************************************)
(* The graph of the monitor workflow: a check observes, then the run waits, *)
(* acts, repairs or stops, and checks again.  What the guards read of the   *)
(* run's steps is kept in monSteps: the checks, timed out or accepted, and  *)
(* the implementations of the included autoimplement.  A check's output is  *)
(* anything validateMonitorCheck accepts: its route, with the kind of an    *)
(* action and, for a repair, the failure and target state it names.         *)
(***************************************************************************)
EXTENDS Integers, Sequences, FiniteSets

CONSTANTS
    MaxChecks,    \* config.maxChecks
    MaxTimeouts,  \* MAX_CONSECUTIVE_CHECK_TIMEOUTS
    MonFailures      \* pairs of failureId and targetStateId

ASSUME MonitorAssumption == MaxChecks \in Nat \ {0} /\ MaxTimeouts \in Nat \ {0}

VARIABLES mayRepair, monNode, monSteps

monVars == <<mayRepair, monNode, monSteps>>

MonEnds == {"finish", "finishCheckTimeout", "finishCheckFailure", "failed"}

MonEdges ==
    {"prepare", "act", "sleep"} \X {"check"} \cup
    {"checkTimeoutRetryReport"} \X {"schedule"} \cup
    {"checkTimeoutStopReport"} \X {"finishCheckTimeout"} \cup
    {"recordCheckFailure"} \X {"checkFailureReport"} \cup
    {"checkFailureReport"} \X {"finishCheckFailure"} \cup
    {"estimate"} \X {"publish_progress"} \cup
    {"publish_progress"} \X {"report"} \cup
    {"report"} \X {"decide"} \cup
    {"planChange"} \X {"implementation", "repairBlocked"} \cup
    {"repairBlocked"} \X {"repairReport"} \cup
    {"repairReport"} \X {"finish"} \cup
    {"schedule"} \X {"sleep"}

MonNodes == MonEnds \cup {e[1] : e \in MonEdges} \cup {e[2] : e \in MonEdges} \cup
    {"recordCheckTimeout", "repairGuard"}

MonWalk == \E n \in MonNodes :
    <<monNode, n>> \in MonEdges /\ monNode' = n /\ UNCHANGED <<mayRepair, monSteps>>

\* Reports: what validateMonitorCheck accepts. A repair names a failure in a target
\* state, and is accepted only where repairs are authorised.
Reports ==
    [route : {"wait", "act", "stop"}, repair : {{}}] \cup
    [route : {"act"}, repair : IF mayRepair THEN {{f} : f \in MonFailures} ELSE {}]

TimedOut == [kind |-> "timeout"]
Implemented == [kind |-> "implementation"]

ObserveTarget ==
    /\ monNode = "check" /\ UNCHANGED mayRepair
    /\ \/ \E r \in Reports :
            /\ monSteps' = Append(monSteps, [kind |-> "check", report |-> r])
            /\ monNode' = "estimate"
       \/ monSteps' = Append(monSteps, TimedOut) /\ monNode' = "recordCheckTimeout"
       \/ UNCHANGED monSteps /\ monNode' = "recordCheckFailure"

Positions(kind) == {i \in DOMAIN monSteps : monSteps[i].kind = kind}
LastOf(S) == CHOOSE i \in S \cup {0} : \A j \in S : j <= i
CurrentCheck == LastOf(Positions("check"))
Report == monSteps[CurrentCheck].report

\* RecordCheckTimeout: the timed out checks since the last accepted one are counted.
RecordCheckTimeout ==
    /\ monNode = "recordCheckTimeout" /\ UNCHANGED <<mayRepair, monSteps>>
    /\ LET consecutive == {i \in Positions("timeout") : i > CurrentCheck}
       IN  monNode' = IF Cardinality(consecutive) >= MaxTimeouts
                      THEN "checkTimeoutStopReport" ELSE "checkTimeoutRetryReport"

Decide ==
    /\ monNode = "decide" /\ UNCHANGED <<mayRepair, monSteps>>
    /\ monNode' = IF Report.route = "stop" \/ Cardinality(Positions("check")) >= MaxChecks
                  THEN "finish"
                  ELSE IF Report.route = "wait" THEN "schedule"
                  ELSE IF Report.repair = {} THEN "act" ELSE "repairGuard"

\* PriorRequest: the latest earlier check that asked for the same repair.
PriorRequest ==
    LastOf({i \in Positions("check") : i < CurrentCheck /\ monSteps[i].report.repair = Report.repair})

\* Variant: only the check just before is compared.
RepeatedAtOnce ==
    PriorRequest > 0 /\ PriorRequest = LastOf(Positions("check") \ {CurrentCheck})

RepeatedRepairWithoutProgress ==
    PriorRequest > 0 /\ \E i \in Positions("implementation") : i > PriorRequest

\* RepairGuard: the scan reads the output of every check it passes, and a timed out
\* check has none: the guard throws, and the run fails.
RepairGuard ==
    /\ monNode = "repairGuard" /\ UNCHANGED <<mayRepair, monSteps>>
    /\ monNode' = IF \E i \in Positions("timeout") : PriorRequest < i THEN "failed"
                  ELSE IF RepeatedRepairWithoutProgress THEN "repairBlocked" ELSE "planChange"

Implementation ==
    /\ monNode = "implementation" /\ UNCHANGED mayRepair
    /\ monSteps' = Append(monSteps, Implemented)
    /\ monNode' \in {"check", "repairBlocked"}

MonStops ==
    /\ monNode \notin MonEnds /\ monNode' = "failed" /\ UNCHANGED <<mayRepair, monSteps>>

----------------------------------------------------------------------------
MonInit == mayRepair \in BOOLEAN /\ monNode = "prepare" /\ monSteps = <<>>

MonNext ==
    \/ MonWalk \/ ObserveTarget \/ RecordCheckTimeout \/ Decide \/ RepairGuard \/ Implementation
    \/ MonStops

MonSpec == MonInit /\ [][MonNext]_monVars

----------------------------------------------------------------------------
MonTypeOK ==
    /\ mayRepair \in BOOLEAN /\ monNode \in MonNodes
    /\ \A i \in DOMAIN monSteps : monSteps[i].kind \in {"check", "timeout", "implementation"}
    /\ Cardinality(Positions("check")) <= MaxChecks

RepairOf(i) ==
    monSteps[LastOf({j \in Positions("check") : j < i})].report.repair

\* MonitorRepairsOnce (repairGuard): whatever checks, waits, actions and other repairs lie
\* between, the same failure of the same target state is implemented at most once, and
\* only where repairs are authorised.
MonitorRepairsOnce ==
    \A i, j \in Positions("implementation") :
        mayRepair /\ (RepairOf(i) = RepairOf(j) => i = j)

\* GuardDecides (repeatedRepairWithoutProgress): a requested repair is started or blocked;
\* the guard itself does not fail the run.
GuardDecides ==
    [][monNode = "repairGuard" /\ RepairGuard => monNode' # "failed"]_monVars

=============================================================================
