---------------------------- MODULE GraphsProofs ----------------------------
(* What holds of the steps of a run and of the graphs they belong to: batches  *)
(* of commands of any size and width, the repair guards and the verdicts of    *)
(* the built-in workflows for any plans, checks, failures and limits, and what *)
(* a node of an included workflow is shown at any depth of includes.           *)
EXTENDS MCGraphs, EngineProofs

-----------------------------------------------------------------------------
(* Command batches *)

\* Where a command is tells what was done of it; what has been reported of a
\* command that is over does not change, nor what it was made from.
CommandOK(i) ==
    /\ cmd[i] = "waiting" <=> cursor <= i
    /\ shell[i] = "alive" <=> cmd[i] = "running"
    /\ cmd[i] = "flushing" => shell[i] \in Exited
    /\ cmd[i] = "over" => results[i] # "none"
    /\ results[i] # "none" => cmd[i] # "running"
    /\ results[i] # "none" /\ cmd[i] # "over" =>
         results[i] = "cancelled" /\ \A k \in Crew : hands[k] = Through
    /\ results[i] = "succeeded" => shell[i] = "zero" /\ killedBy[i] = "none" /\ ~lineError[i]
    /\ shell[i] = "none" => results[i] \in {"none", "failed", "cancelled"}

\* A command under way is in the hands of a worker; a worker leaves when nothing is
\* left to take or the batch is aborted.
HandsOK ==
    /\ \A i \in Commands : cmd[i] \notin {"waiting", "over"} => \E k \in Crew : hands[k] = i
    /\ \A k \in Crew : hands[k] = Through => stopping \/ cursor = Through

BatInv == BatTypeOK /\ HandsOK /\ \A i \in Commands : CommandOK(i)

LEMMA BatInvInit == BatInit => BatInv
  <1> SUFFICES ASSUME BatInit  PROVE  BatInv
    OBVIOUS
  <1> USE BatchAssumption DEF BatInit, Commands, Through
  <1>1. BatTypeOK
    <2>1. 1 \in 1..Through /\ 0 \in 0..Through
      OBVIOUS
    <2>2. "waiting" \in Watched \cup {"waiting", "checking", "spawning", "over"}
          /\ "none" \in Exited \cup {"none", "alive"} /\ "none" \in Outcome \cup {"none"}
      OBVIOUS
    <2> HIDE DEF Through
    <2>q. QED
      BY <2>1, <2>2 DEF BatTypeOK
  <1>2. HandsOK
    BY DEF HandsOK, Crew
  <1>3. ASSUME NEW i \in Commands  PROVE  CommandOK(i)
    BY DEF CommandOK
  <1>q. QED
    BY <1>1, <1>2, <1>3 DEF BatInv

\* A step of one command that is in somebody's hands.
LEMMA CommandStep ==
    ASSUME BatInv, NEW i \in Commands, CommandNext(i)
    PROVE  BatInv'
  <1>0. BatTypeOK /\ HandsOK /\ \A j \in Commands : CommandOK(j)
    BY DEF BatInv
  <1>1. /\ UNCHANGED <<stopping, cursor, hands>> /\ cmd[i] \notin {"waiting", "over"}
        /\ cmd' \in [Commands -> Watched \cup {"waiting", "checking", "spawning", "over"}]
        /\ \A j \in Commands \ {i} : cmd'[j] = cmd[j]
        /\ cmd'[i] # "waiting"
    BY <1>0 DEF CommandNext, CheckGit, Spawn, ShellTimesOut, LineFails, ChildCloses, FlushLines, SettledAs,
                BatTypeOK, Watched, CommandOK
  <1>2. /\ shell' \in [Commands -> Exited \cup {"none", "alive"}]
        /\ results' \in [Commands -> Outcome \cup {"none"}]
        /\ \A j \in Commands \ {i} : shell'[j] = shell[j] /\ results'[j] = results[j]
    <2>1. ShellFailure(i) \in Outcome
      BY DEF ShellFailure, Outcome
    <2>q. QED
      BY <1>0, <2>1 DEF CommandNext, CheckGit, Spawn, ShellTimesOut, LineFails, ChildCloses, FlushLines, SettledAs,
                        BatTypeOK, Exited, Outcome
  <1>3. /\ killedBy' \in [Commands -> {"none", "timeout", "abort"}]
        /\ lineError' \in [Commands -> BOOLEAN] /\ stray' \subseteq Commands
        /\ \A j \in Commands \ {i} : killedBy'[j] = killedBy[j] /\ lineError'[j] = lineError[j]
    <2>1. CASE CheckGit(i) \/ Spawn(i) \/ ChildCloses(i) \/ FlushLines(i)
      BY <1>0, <2>1 DEF CheckGit, Spawn, ChildCloses, FlushLines, BatTypeOK
    <2>2. ASSUME NEW why \in {"timeout", "abort"}, Killed({i}, why)
          PROVE  /\ killedBy' \in [Commands -> {"none", "timeout", "abort"}] /\ stray' \subseteq Commands
                 /\ \A j \in Commands \ {i} : killedBy'[j] = killedBy[j]
      BY <1>0, <2>2 DEF Killed, BatTypeOK
    <2>3. CASE ShellTimesOut(i)
      BY <1>0, <2>2, <2>3 DEF ShellTimesOut, BatTypeOK
    <2>4. CASE LineFails(i)
      BY <1>0, <2>2, <2>4 DEF LineFails, BatTypeOK
    <2>q. QED
      BY <2>1, <2>3, <2>4 DEF CommandNext
  <1>4. BatTypeOK'
    BY <1>0, <1>1, <1>2, <1>3 DEF BatTypeOK
  <1>5. HandsOK'
    BY <1>0, <1>1 DEF HandsOK
  <1>6. ASSUME NEW j \in Commands \ {i}  PROVE  CommandOK(j)'
    BY <1>0, <1>1, <1>2, <1>3 DEF CommandOK
  <1>7. CommandOK(i)'
    <2>0. /\ CommandOK(i) /\ \E k \in Crew : hands[k] # Through /\ hands'[k] # Through
          /\ results[i] = "none"
      BY <1>0, <1>1, BatchAssumption DEF HandsOK, Through, Commands, CommandOK
    <2>1. CASE CheckGit(i)
      BY <1>0, <1>1, <2>0, <2>1 DEF CheckGit, CommandOK, SettledAs, BatTypeOK, Exited, Watched
    <2>2. CASE Spawn(i)
      BY <1>0, <1>1, <2>0, <2>2 DEF Spawn, CommandOK, SettledAs, BatTypeOK, Exited, Watched
    <2>3. CASE ShellTimesOut(i) \/ LineFails(i)
      BY <1>0, <1>1, <2>0, <2>3 DEF ShellTimesOut, LineFails, CommandOK, Watched, Exited, BatTypeOK
    <2>4. CASE ChildCloses(i)
      BY <1>0, <1>1, <2>0, <2>4 DEF ChildCloses, CommandOK, BatTypeOK, Exited, Watched
    <2>5. CASE FlushLines(i)
      BY <1>0, <1>1, <2>0, <2>5 DEF FlushLines, ShellFailure, CommandOK, SettledAs, BatTypeOK, Exited, Watched
    <2>q. QED
      BY <2>1, <2>2, <2>3, <2>4, <2>5 DEF CommandNext
  <1>q. QED
    BY <1>4, <1>5, <1>6, <1>7 DEF BatInv

LEMMA WorkerStep ==
    ASSUME BatInv, NEW k \in Crew, TakeCommand(k) \/ ItemSettles(k)
    PROVE  BatInv'
  <1>0. BatTypeOK /\ HandsOK /\ \A j \in Commands : CommandOK(j)
    BY DEF BatInv
  <1>n. /\ cursor \in 1..Through /\ Commands = 1..BatchSize /\ Through = BatchSize + 1 /\ BatchSize \in Nat
        /\ hands \in [Crew -> 0..Through] /\ 0 # Through
        /\ cmd \in [Commands -> Watched \cup {"waiting", "checking", "spawning", "over"}]
    BY <1>0, BatchAssumption DEF BatTypeOK, Commands, Through
  <1>a. hands[k] # Through /\ \A j \in Commands : results[j] # "none" => cmd[j] = "over"
    BY <1>0, <1>n DEF TakeCommand, ItemSettles, CommandOK
  <1>1. CASE ItemSettles(k)
    <2>1. /\ hands' = [hands EXCEPT ![k] = 0] /\ cmd[hands[k]] = "over" /\ hands[k] \in Commands
          /\ UNCHANGED <<stopping, cursor, cmd, shell, killedBy, lineError, results, stray>>
      BY <1>1 DEF ItemSettles
    <2>2. BatTypeOK'
      BY <1>0, <1>n, <2>1 DEF BatTypeOK
    <2>3. HandsOK'
      BY <1>0, <1>n, <2>1 DEF HandsOK
    <2>4. \A j \in Commands : CommandOK(j)'
      BY <1>0, <1>a, <2>1 DEF CommandOK
    <2>q. QED
      BY <2>2, <2>3, <2>4 DEF BatInv
  <1>2. CASE TakeCommand(k) /\ (stopping \/ cursor > BatchSize)
    <2>1. /\ hands' = [hands EXCEPT ![k] = Through] /\ hands[k] = 0
          /\ UNCHANGED <<stopping, cursor, cmd, shell, killedBy, lineError, results, stray>>
      BY <1>2 DEF TakeCommand
    <2>2. BatTypeOK'
      BY <1>0, <1>n, <2>1 DEF BatTypeOK
    <2>3. HandsOK'
      BY <1>0, <1>2, <1>n, <2>1 DEF HandsOK
    <2>4. \A j \in Commands : CommandOK(j)'
      BY <1>0, <1>a, <2>1 DEF CommandOK
    <2>q. QED
      BY <2>2, <2>3, <2>4 DEF BatInv
  <1>3. CASE TakeCommand(k) /\ ~(stopping \/ cursor > BatchSize)
    <2>1. /\ hands' = [hands EXCEPT ![k] = cursor] /\ cursor' = cursor + 1 /\ hands[k] = 0
          /\ cmd' = [cmd EXCEPT ![cursor] = "checking"] /\ cursor \in Commands /\ ~stopping
          /\ UNCHANGED <<stopping, shell, killedBy, lineError, results, stray>>
      BY <1>3, <1>n DEF TakeCommand
    <2>2. BatTypeOK'
      BY <1>0, <1>n, <2>1 DEF BatTypeOK, Watched
    <2>3. \A h \in Crew : hands[h] # Through
      BY <1>0, <1>n, <2>1 DEF HandsOK
    <2>4. HandsOK'
      <3>1. ASSUME NEW j \in Commands, cmd'[j] \notin {"waiting", "over"}
            PROVE  \E h \in Crew : hands'[h] = j
        BY <1>0, <1>n, <2>1, <3>1 DEF HandsOK
      <3>2. \A h \in Crew : hands'[h] # Through
        BY <1>n, <2>1, <2>3
      <3>q. QED
        BY <3>1, <3>2 DEF HandsOK
    <2>5. ASSUME NEW j \in Commands  PROVE  CommandOK(j)'
      <3>1. CommandOK(j) /\ CommandOK(cursor)
        BY <1>0, <2>1
      <3>2. CASE j = cursor
        BY <1>n, <1>a, <2>1, <3>1, <3>2 DEF CommandOK, Watched
      <3>3. CASE j # cursor
        <4>1. (cursor <= j) <=> (cursor' <= j)
          BY <1>n, <2>1, <3>3
        <4>2. cmd'[j] = cmd[j]
          BY <1>n, <2>1, <3>3
        <4>q. QED
          BY <1>a, <2>1, <3>1, <4>1, <4>2 DEF CommandOK
      <3>q. QED
        BY <3>2, <3>3
    <2>q. QED
      BY <2>2, <2>4, <2>5 DEF BatInv
  <1>q. QED
    BY <1>1, <1>2, <1>3

LEMMA BatInvStep == BatInv /\ [BatNext]_batVars => BatInv'
  <1> SUFFICES ASSUME BatInv, [BatNext]_batVars  PROVE  BatInv'
    OBVIOUS
  <1>0. BatTypeOK /\ HandsOK /\ \A j \in Commands : CommandOK(j)
    BY DEF BatInv
  <1>1. CASE BatchAborts
    <2>1. BatTypeOK' /\ \A i \in Commands : cmd[i] \notin Watched => killedBy'[i] = killedBy[i]
      BY <1>0, <1>1 DEF BatchAborts, Killed, BatTypeOK
    <2>2. HandsOK'
      BY <1>0, <1>1 DEF BatchAborts, HandsOK
    <2>3. ASSUME NEW i \in Commands  PROVE  CommandOK(i)'
      BY <1>0, <1>1, <2>1 DEF BatchAborts, CommandOK, HandsOK, Watched, Through, Commands
    <2>q. QED
      BY <2>1, <2>2, <2>3 DEF BatInv
  <1>2. CASE BatchReturns
    <2>1. /\ \A k \in Crew : hands[k] = Through
          /\ results' = [i \in Commands |-> IF results[i] = "none" THEN "cancelled" ELSE results[i]]
          /\ UNCHANGED <<stopping, cursor, hands, cmd, shell, killedBy, lineError, stray>>
      BY <1>2 DEF BatchReturns
    <2>2. BatTypeOK' /\ HandsOK'
      BY <1>0, <2>1 DEF BatTypeOK, HandsOK, Outcome
    <2>3. \A i \in Commands : cmd[i] # "running"
      BY <1>0, <2>1, BatchAssumption DEF HandsOK, Through, Commands
    <2>4. ASSUME NEW i \in Commands  PROVE  CommandOK(i)'
      BY <1>0, <2>1, <2>3 DEF CommandOK
    <2>q. QED
      BY <2>2, <2>4 DEF BatInv
  <1>3. CASE UNCHANGED batVars
    BY <1>0, <1>3 DEF batVars, BatInv, BatTypeOK, HandsOK, CommandOK
  <1>q. QED
    BY <1>1, <1>2, <1>3, CommandStep, WorkerStep DEF BatNext

\* The inductive invariant of a batch: what was reported of each command, the state of
\* its child and the reason of its kill agree, and no command is out of hands.
THEOREM BatInvariance == BatSpec => []BatInv
  BY BatInvInit, BatInvStep, PTL DEF BatSpec

\* runCommandBatch, runShellAction: whatever times out, is aborted, fails in its last
\* lines or cannot be started, the results are what happened, and when the workers are
\* through no child runs and no command was skipped but by an abort.
THEOREM ResultsAreTrue == BatSpec => []BatchTellsTheTruth
  <1>1. ASSUME BatInv  PROVE  BatchTellsTheTruth
    <2>0. BatTypeOK /\ HandsOK /\ \A j \in Commands : CommandOK(j)
      BY <1>1 DEF BatInv
    <2>1. ASSUME NEW i \in Commands, results[i] # "none"
          PROVE  /\ shell[i] # "alive"
                 /\ results[i] = "succeeded" =>
                      shell[i] = "zero" /\ killedBy[i] = "none" /\ ~lineError[i]
                 /\ shell[i] = "none" => results[i] \in {"failed", "cancelled"}
      BY <2>0, <2>1 DEF CommandOK
    <2>2. ASSUME NEW i \in Commands, \A k \in Crew : hands[k] = Through
          PROVE  shell[i] # "alive" /\ (results[i] = "none" => stopping)
      <3>1. cmd[i] \in {"waiting", "over"}
        BY <2>0, <2>2, BatchAssumption DEF HandsOK, Through, Commands
      <3>2. 1 \in Crew
        BY BatchAssumption DEF Crew
      <3>3. stopping \/ cursor = Through
        BY <2>0, <2>2, <3>2 DEF HandsOK
      <3>4. cursor = Through => ~(cursor <= i)
        BY BatchAssumption DEF Through, Commands
      <3>q. QED
        BY <2>0, <3>1, <3>3, <3>4 DEF CommandOK
    <2>q. QED
      BY <2>1, <2>2 DEF BatchTellsTheTruth
  <1>q. QED
    BY <1>1, BatInvariance, PTL

-----------------------------------------------------------------------------
(* The repair guard of the monitor *)

MonRecords ==
    [kind : {"check"}, report : [route : {"wait", "act", "stop"}, repair : SUBSET MonFailures]]
    \cup {TimedOut, Implemented}
Last == Len(monSteps)
Implementations == {i \in 1..Last : monSteps[i].kind = "implementation"}

\* Each implementation follows the check that asked for it, a check that asks for a
\* repair is followed by nothing else, and no two repairs are the same.
RepairsFollowChecks ==
    /\ monSteps \in Seq(MonRecords)
    /\ \A i \in Implementations :
         /\ mayRepair /\ i - 1 \in 1..Last
         /\ monSteps[i - 1].kind = "check" /\ monSteps[i - 1].report.repair # {}
    /\ \A p \in 1..Last : monSteps[p].kind = "check" /\ monSteps[p].report.repair # {} /\ p < Last
         => p + 1 \in Implementations
    /\ \A i, j \in Implementations :
         monSteps[i - 1].report.repair = monSteps[j - 1].report.repair => i = j

\* Where the run is tells what the last check asked for.
Asks == Last > 0 /\ monSteps[Last].kind = "check" /\ monSteps[Last].report.repair # {}
Judging == {"estimate", "publish_progress", "report", "decide"}
Repairing == {"planChange", "implementation"}
Going == {"prepare", "act", "schedule", "sleep", "check", "recordCheckTimeout", "checkTimeoutRetryReport"}
NodeAgrees ==
    /\ monNode \in Judging \cup Repairing \cup {"repairGuard"} => Last > 0 /\ monSteps[Last].kind = "check"
    /\ monNode \in Judging /\ Asks => mayRepair /\ monSteps[Last].report.route = "act"
    /\ monNode \in Repairing \cup {"repairGuard"} => Asks /\ mayRepair
    /\ monNode \in Repairing => \A i \in Implementations :
         monSteps[i - 1].report.repair # monSteps[Last].report.repair
    /\ monNode \in Going => ~Asks

MonInv == RepairsFollowChecks /\ NodeAgrees

LEMMA Latest ==
    ASSUME NEW n \in Nat, NEW S \in SUBSET (1..n), NEW k \in S, \A j \in S : j <= k
    PROVE  LastOf(S) = k
  <1>1. ASSUME NEW m \in S \cup {0}, \A j \in S : j <= m  PROVE  m = k
    BY <1>1
  <1>2. k \in S \cup {0} /\ \A j \in S : j <= k
    OBVIOUS
  <1>q. QED
    BY <1>1, <1>2 DEF LastOf

LEMMA AppendedStep ==
    ASSUME monSteps \in Seq(MonRecords), NEW e \in MonRecords, monSteps' = Append(monSteps, e)
    PROVE  /\ monSteps' \in Seq(MonRecords) /\ Last \in Nat /\ Last' = Last + 1
           /\ monSteps'[Last + 1] = e /\ \A i \in 1..Last : monSteps'[i] = monSteps[i]
           /\ Implementations' = Implementations \cup {i \in {Last + 1} : e.kind = "implementation"}
           /\ Implementations \subseteq 1..Last
  <1>1. /\ monSteps' \in Seq(MonRecords) /\ Last \in Nat /\ Last' = Last + 1
        /\ monSteps'[Last + 1] = e /\ \A i \in 1..Last : monSteps'[i] = monSteps[i]
    BY DEF Last
  <1>2. Implementations' = {i \in 1..(Last + 1) : monSteps'[i].kind = "implementation"}
    BY <1>1 DEF Implementations
  <1>3. 1..(Last + 1) = 1..Last \cup {Last + 1}
    BY <1>1
  <1> HIDE DEF Last
  <1>q. QED
    BY <1>1, <1>2, <1>3 DEF Implementations

LEMMA MonInvInit == MonInit => MonInv
  <1> SUFFICES ASSUME MonInit  PROVE  MonInv
    OBVIOUS
  <1>1. monSteps \in Seq(MonRecords) /\ Last = 0 /\ Implementations = {} /\ monNode = "prepare"
    BY DEF MonInit, Last, Implementations
  <1>q. QED
    BY <1>1 DEF MonInv, RepairsFollowChecks, NodeAgrees, Asks, Judging, Repairing

LEMMA MonInvStep == MonInv /\ [MonNext]_monVars => MonInv'
  <1> SUFFICES ASSUME MonInv, [MonNext]_monVars  PROVE  MonInv'
    OBVIOUS
  <1>0. RepairsFollowChecks /\ NodeAgrees /\ monSteps \in Seq(MonRecords) /\ Last \in Nat
    BY DEF MonInv, RepairsFollowChecks, Last
  <1>a. ASSUME UNCHANGED <<mayRepair, monSteps>>, NodeAgrees'  PROVE  MonInv'
    BY <1>0, <1>a DEF MonInv, RepairsFollowChecks, Implementations, Last
  <1>b. ASSUME UNCHANGED <<mayRepair, monSteps>>
        PROVE  /\ Asks' = Asks /\ Implementations' = Implementations /\ Last' = Last
               /\ UNCHANGED <<mayRepair, monSteps>>
    BY <1>b DEF Asks, Implementations, Last
  <1>c. Last > 0 /\ monSteps[Last].kind = "check" => CurrentCheck = Last
    <2>1. Positions("check") \in SUBSET (1..Last)
      BY <1>0 DEF Positions, Last
    <2>2. ASSUME Last > 0, monSteps[Last].kind = "check"
          PROVE  Last \in Positions("check") /\ \A j \in Positions("check") : j <= Last
      BY <1>0, <2>2 DEF Positions, Last
    <2>q. QED
      BY <1>0, <2>1, <2>2, Latest DEF CurrentCheck
  <1>1. CASE MonWalk \/ MonStops \/ RecordCheckTimeout \/ UNCHANGED monVars
    <2>1. UNCHANGED <<mayRepair, monSteps>>
      BY <1>1 DEF MonWalk, MonStops, RecordCheckTimeout, monVars
    <2>2. \/ monNode' = monNode
          \/ monNode' \notin Judging \cup Repairing \cup Going \cup {"repairGuard"}
          \/ monNode \in Judging /\ monNode' \in Judging
          \/ monNode \in Going /\ monNode' \in Going
          \/ monNode \in Repairing /\ monNode' \in Repairing
      BY <1>1 DEF MonWalk, MonStops, RecordCheckTimeout, monVars, MonEdges, Judging, Repairing, Going
    <2>3. "repairGuard" \notin Judging \cup Repairing \cup Going
          /\ Judging \cap (Repairing \cup Going) = {} /\ Repairing \cap Going = {}
      BY DEF Judging, Repairing, Going
    <2>4. NodeAgrees'
      BY <1>0, <1>b, <2>1, <2>2, <2>3 DEF NodeAgrees
    <2>q. QED
      BY <1>a, <2>1, <2>4
  <1>2. CASE Decide
    <2>1. UNCHANGED <<mayRepair, monSteps>> /\ monNode = "decide" /\ CurrentCheck = Last
          /\ Last > 0 /\ monSteps[Last].kind = "check"
      BY <1>0, <1>2, <1>c DEF Decide, NodeAgrees, Judging
    <2>2. \/ monNode' = "finish"
          \/ monNode' = "schedule" /\ Report.route = "wait"
          \/ monNode' = "act" /\ Report.repair = {}
          \/ monNode' = "repairGuard" /\ Report.repair # {}
      BY <1>2 DEF Decide
    <2>3. Report = monSteps[Last].report /\ (Asks => mayRepair /\ Report.route # "wait")
      BY <1>0, <2>1 DEF Report, NodeAgrees, Judging
    <2>4. (Asks => mayRepair) /\ (monNode' = "repairGuard" => Asks) /\ (monNode' \in {"schedule", "act"} => ~Asks)
      BY <2>1, <2>2, <2>3 DEF Asks
    <2>5. NodeAgrees'
      BY <1>b, <2>1, <2>2, <2>4 DEF NodeAgrees, Judging, Repairing, Going
    <2>q. QED
      BY <1>a, <2>1, <2>5
  <1>3. CASE RepairGuard
    <2>1. /\ UNCHANGED <<mayRepair, monSteps>> /\ monNode = "repairGuard" /\ CurrentCheck = Last
          /\ Asks /\ mayRepair /\ monSteps[Last].kind = "check" /\ Last > 0
          /\ monNode' \in {"failed", "repairBlocked", "planChange"}
          /\ monNode' = "planChange" => ~RepeatedRepairWithoutProgress
      BY <1>0, <1>3, <1>c DEF RepairGuard, NodeAgrees, Asks
    <2>2. ASSUME NEW i \in Implementations, monSteps[i - 1].report.repair = monSteps[Last].report.repair
          PROVE  RepeatedRepairWithoutProgress
      <3> DEFINE Waits == {p \in Positions("check") : p < CurrentCheck /\ monSteps[p].report.repair = Report.repair}
      <3>1. Waits \in SUBSET (1..Last) /\ i \in 1..Last
        BY <1>0 DEF Positions, Last, Implementations
      <3>2. i - 1 \in Waits
        BY <1>0, <2>1, <2>2 DEF RepairsFollowChecks, Positions, Report, Implementations, Last
      <3>3. ASSUME NEW p \in Waits  PROVE  p = i - 1
        <4>1. /\ p \in 1..Last /\ p < Last /\ monSteps[p].kind = "check"
              /\ monSteps[p].report.repair = monSteps[Last].report.repair
          BY <2>1, <3>3 DEF Positions, Report, Last
        <4>2. p + 1 \in Implementations
          BY <1>0, <2>1, <4>1 DEF RepairsFollowChecks, Asks
        <4>3. p + 1 - 1 = p
          BY <4>1
        <4>4. p + 1 = i
          BY <1>0, <2>2, <4>1, <4>2, <4>3 DEF RepairsFollowChecks
        <4>q. QED
          BY <1>0, <4>1, <4>4
      <3>4. LastOf(Waits) = i - 1
        <4>1. \A p \in Waits : p <= i - 1
          BY <3>1, <3>3
        <4> HIDE DEF Waits
        <4>q. QED
          BY <1>0, <3>1, <3>2, <4>1, Latest
      <3>5. PriorRequest = i - 1 /\ i - 1 > 0 /\ i > i - 1
        BY <3>1, <3>2, <3>4 DEF PriorRequest
      <3>6. i \in Positions("implementation")
        BY DEF Positions, Implementations, Last
      <3>q. QED
        BY <3>5, <3>6 DEF RepeatedRepairWithoutProgress
    <2>3. NodeAgrees'
      BY <1>0, <1>b, <2>1, <2>2 DEF NodeAgrees, Judging, Repairing, Going
    <2>q. QED
      BY <1>a, <2>1, <2>3
  <1>4. CASE ObserveTarget
    <2>0. monNode = "check" /\ UNCHANGED mayRepair /\ ~Asks
      BY <1>0, <1>4 DEF ObserveTarget, NodeAgrees, Going
    <2>1. CASE UNCHANGED monSteps /\ monNode' = "recordCheckFailure"
      BY <1>a, <2>0, <2>1 DEF NodeAgrees, Judging, Repairing, Going
    <2>2. ASSUME NEW e \in MonRecords, monSteps' = Append(monSteps, e), e.kind # "implementation",
                 \/ /\ monNode' = "estimate" /\ e.kind = "check"
                    /\ e.report.repair # {} => mayRepair /\ e.report.route = "act"
                 \/ monNode' = "recordCheckTimeout" /\ e.kind = "timeout"
          PROVE  MonInv'
      <3>1. /\ monSteps' \in Seq(MonRecords) /\ Last' = Last + 1
            /\ monSteps'[Last + 1] = e /\ \A i \in 1..Last : monSteps'[i] = monSteps[i]
            /\ Implementations' = Implementations /\ Implementations \subseteq 1..Last
        BY <1>0, <2>2, AppendedStep
      <3>2. \A i \in Implementations : i - 1 \in 1..Last /\ monSteps'[i - 1] = monSteps[i - 1]
        BY <1>0, <3>1 DEF RepairsFollowChecks
      <3>3. ASSUME NEW p \in 1..Last', monSteps'[p].kind = "check", monSteps'[p].report.repair # {}, p < Last'
            PROVE  p + 1 \in Implementations
        <4>1. p \in 1..Last /\ monSteps'[p] = monSteps[p]
          BY <1>0, <3>1, <3>3
        <4>2. p < Last
          BY <1>0, <2>0, <3>3, <4>1 DEF Asks
        <4>q. QED
          BY <1>0, <3>3, <4>1, <4>2 DEF RepairsFollowChecks
      <3>4. RepairsFollowChecks'
        <4> HIDE DEF Last
        <4>1. \A i \in Implementations' : i - 1 \in 1..Last'
          BY <1>0, <3>1, <3>2
        <4>2. \A i \in Implementations :
                /\ mayRepair' /\ monSteps'[i - 1].kind = "check"
                /\ monSteps'[i - 1].report.repair # {}
                /\ monSteps'[i - 1].report.repair = monSteps[i - 1].report.repair
          BY <1>0, <2>0, <3>2 DEF RepairsFollowChecks
        <4>3. \A i, j \in Implementations :
                monSteps'[i - 1].report.repair = monSteps'[j - 1].report.repair => i = j
          BY <1>0, <4>2 DEF RepairsFollowChecks
        <4>q. QED
          BY <3>1, <3>3, <4>1, <4>2, <4>3 DEF RepairsFollowChecks
      <3>5. NodeAgrees'
        BY <1>0, <2>0, <2>2, <3>1 DEF NodeAgrees, Asks, Judging, Repairing, Going
      <3>q. QED
        BY <3>4, <3>5 DEF MonInv
    <2>3. ASSUME NEW r \in Reports
          PROVE  /\ [kind |-> "check", report |-> r] \in MonRecords
                 /\ r.repair # {} => mayRepair /\ r.route = "act"
      BY DEF Reports, MonRecords
    <2>4. TimedOut \in MonRecords /\ TimedOut.kind = "timeout"
      BY DEF TimedOut, MonRecords
    <2>q. QED
      BY <1>4, <2>1, <2>2, <2>3, <2>4 DEF ObserveTarget
  <1>5. CASE Implementation
    <2>0. /\ monNode = "implementation" /\ UNCHANGED mayRepair /\ Asks /\ mayRepair
          /\ monSteps' = Append(monSteps, Implemented) /\ monNode' \in {"check", "repairBlocked"}
          /\ \A i \in Implementations : monSteps[i - 1].report.repair # monSteps[Last].report.repair
      BY <1>0, <1>5 DEF Implementation, NodeAgrees, Repairing
    <2>1. /\ monSteps' \in Seq(MonRecords) /\ Last' = Last + 1
          /\ monSteps'[Last + 1] = Implemented /\ \A i \in 1..Last : monSteps'[i] = monSteps[i]
          /\ Implementations' = Implementations \cup {Last + 1} /\ Implementations \subseteq 1..Last
      <3>1. Implemented \in MonRecords /\ Implemented.kind = "implementation"
        BY DEF Implemented, MonRecords
      <3>q. QED
        BY <1>0, <2>0, <3>1, AppendedStep
    <2>2. Last > 0 /\ Last + 1 - 1 = Last /\ Last \in 1..Last
      BY <1>0, <2>0 DEF Asks
    <2>3. \A i \in Implementations : i - 1 \in 1..Last /\ monSteps'[i - 1] = monSteps[i - 1]
      BY <1>0, <2>1 DEF RepairsFollowChecks
    <2>4. \A i \in Implementations' :
            /\ mayRepair' /\ i - 1 \in 1..Last'
            /\ monSteps'[i - 1].kind = "check" /\ monSteps'[i - 1].report.repair # {}
      <3> SUFFICES ASSUME NEW i \in Implementations'
                   PROVE  /\ mayRepair' /\ i - 1 \in 1..Last'
                          /\ monSteps'[i - 1].kind = "check" /\ monSteps'[i - 1].report.repair # {}
        OBVIOUS
      <3>1. CASE i \in Implementations
        <4>1. i - 1 \in 1..Last'
          <5>1. i - 1 \in 1..Last
            BY <2>3, <3>1
          <5> HIDE DEF Last
          <5>q. QED
            BY <1>0, <2>1, <5>1
        <4>q. QED
          BY <1>0, <2>0, <2>3, <3>1, <4>1 DEF RepairsFollowChecks
      <3>2. CASE i = Last + 1
        <4>1. i - 1 = Last /\ i - 1 \in 1..Last'
          BY <1>0, <2>1, <2>2, <3>2
        <4>q. QED
          BY <2>0, <2>1, <2>2, <4>1 DEF Asks
      <3>q. QED
        BY <2>1, <3>1, <3>2
    <2>5. ASSUME NEW p \in 1..Last', monSteps'[p].kind = "check", monSteps'[p].report.repair # {}, p < Last'
          PROVE  p + 1 \in Implementations'
      <3>1. p \in 1..Last /\ monSteps'[p] = monSteps[p]
        BY <1>0, <2>1, <2>5
      <3>2. CASE p = Last
        BY <2>1, <3>2
      <3>3. CASE p < Last
        BY <1>0, <2>1, <2>5, <3>1, <3>3 DEF RepairsFollowChecks
      <3>q. QED
        BY <1>0, <3>1, <3>2, <3>3
    <2>6. \A i, j \in Implementations' :
            monSteps'[i - 1].report.repair = monSteps'[j - 1].report.repair => i = j
      <3> DEFINE Asked(i) == monSteps'[i - 1].report.repair
      <3>1. \A i \in Implementations : Asked(i) = monSteps[i - 1].report.repair
        BY <2>3
      <3>2. Asked(Last + 1) = monSteps[Last].report.repair
        <4>1. monSteps'[Last] = monSteps[Last]
          BY <2>1, <2>2
        <4>q. QED
          BY <2>2, <4>1
      <3>3. \A i \in Implementations : Asked(i) # Asked(Last + 1)
        BY <2>0, <3>1, <3>2
      <3>4. \A i, j \in Implementations : Asked(i) = Asked(j) => i = j
        BY <1>0, <3>1 DEF RepairsFollowChecks
      <3> HIDE DEF Asked
      <3>5. \A i, j \in Implementations' : Asked(i) = Asked(j) => i = j
        BY <2>1, <3>3, <3>4
      <3>q. QED
        BY <3>5 DEF Asked
    <2>7. RepairsFollowChecks'
      <3> HIDE DEF Last
      <3>q. QED
        BY <2>1, <2>4, <2>5, <2>6 DEF RepairsFollowChecks
    <2>8. NodeAgrees'
      <3>1. ~Asks'
        BY <2>1 DEF Asks, Implemented
      <3>q. QED
        BY <2>0, <3>1 DEF NodeAgrees, Judging, Repairing, Going
    <2>q. QED
      BY <2>7, <2>8 DEF MonInv
  <1>q. QED
    BY <1>1, <1>2, <1>3, <1>4, <1>5 DEF MonNext

\* What the guard of the monitor promises: the check that asked for an implementation is
\* the step before it, and no two asked for the same.
LEMMA MonRepairs == MonInv => MonitorRepairsOnce
  <1> SUFFICES ASSUME MonInv  PROVE  MonitorRepairsOnce
    OBVIOUS
  <1>0. /\ monSteps \in Seq(MonRecords) /\ Last \in Nat
        /\ Positions("implementation") = Implementations /\ Implementations \subseteq 1..Last
    BY DEF MonInv, RepairsFollowChecks, Positions, Implementations, Last
  <1>1. ASSUME NEW i \in Implementations
        PROVE  RepairOf(i) = monSteps[i - 1].report.repair /\ mayRepair
    <2> DEFINE Before == {j \in Positions("check") : j < i}
    <2>1. Before \in SUBSET (1..Last) /\ i \in 1..Last /\ \A j \in Before : j <= i - 1
      BY <1>0 DEF Positions, Last
    <2>2. i - 1 \in Before /\ mayRepair
      BY <1>0, <2>1 DEF MonInv, RepairsFollowChecks, Positions, Last
    <2>3. LastOf(Before) = i - 1
      <3> HIDE DEF Before
      <3>q. QED
        BY <1>0, <2>1, <2>2, Latest
    <2>q. QED
      BY <2>2, <2>3 DEF RepairOf
  <1>q. QED
    <2>1. \A i, j \in Implementations : RepairOf(i) = RepairOf(j) => i = j
      BY <1>1 DEF MonInv, RepairsFollowChecks
    <2>q. QED
      BY <1>0, <1>1, <2>1 DEF MonitorRepairsOnce

-----------------------------------------------------------------------------
(* The repair guard and the verdict of change verification *)

\* Whoever is about to repair has an attempt left, for findings not repaired yet;
\* nobody judges, nor is ready, after a fixer was rejected.
VerInv ==
    /\ \E S : repairs \in Seq(S)
    /\ VerificationRepairsOnce
    /\ verNode \in {"mechanicalRepair", "semanticRepair"} => Len(repairs) < MaxRepairs /\ ~Repeated
    /\ verNode = "judge" => ~Rejected
    /\ ReadyMeansPassed

LEMMA VerInvInit == VerInit => VerInv
  <1> SUFFICES ASSUME VerInit  PROVE  VerInv
    OBVIOUS
  <1>1. repairs \in Seq({}) /\ Len(repairs) = 0 /\ DOMAIN repairs = {} /\ verNode = "selectChecks"
    BY DEF VerInit
  <1>2. VerificationRepairsOnce
    BY <1>1, VerAssumption DEF VerificationRepairsOnce
  <1>q. QED
    BY <1>1, <1>2 DEF VerInv, ReadyMeansPassed

\* A repair: its findings are those that were found when the guard let it pass.
LEMMA RepairStep ==
    ASSUME VerInv, verNode \in {"mechanicalRepair", "semanticRepair"},
           NEW rejected \in BOOLEAN, Repaired(rejected)
    PROVE  VerInv'
  <1>1. PICK S : repairs \in Seq(S)
    BY DEF VerInv
  <1>2. PICK r : r = [fingerprint |-> FailureFingerprint, rejected |-> rejected]
    OBVIOUS
  <1>3. /\ repairs' = Append(repairs, r) /\ verNode' = "runCandidate"
        /\ r.fingerprint = FailureFingerprint
    BY <1>2 DEF Repaired, VerGo
  <1>4. /\ Len(repairs) \in Nat /\ Len(repairs) < MaxRepairs /\ Len(repairs) <= MaxRepairs
        /\ \A i, j \in 1..Len(repairs) : repairs[i].fingerprint = repairs[j].fingerprint => i = j
        /\ \A i \in 1..Len(repairs) : repairs[i].fingerprint # r.fingerprint
    BY <1>1, <1>3 DEF VerInv, VerificationRepairsOnce, Repeated
  <1>5. /\ repairs' \in Seq(S \cup {r}) /\ Len(repairs') = Len(repairs) + 1
        /\ \A i \in 1..Len(repairs) : repairs'[i] = repairs[i]
        /\ repairs'[Len(repairs) + 1] = r
    <2>1. repairs \in Seq(S \cup {r})
      BY <1>1
    <2>q. QED
      BY <1>3, <2>1
  <1>6. Len(repairs') <= MaxRepairs
    BY <1>4, <1>5, VerAssumption
  <1>7. DOMAIN repairs' = 1..Len(repairs) \cup {Len(repairs) + 1}
    BY <1>4, <1>5
  <1>8. \A i, j \in DOMAIN repairs' : repairs'[i].fingerprint = repairs'[j].fingerprint => i = j
    BY <1>4, <1>5, <1>7
  <1>q. QED
    BY <1>3, <1>5, <1>6, <1>8 DEF VerInv, VerificationRepairsOnce, ReadyMeansPassed

\* classifyVerification calls a change ready only when nothing is left to ask.
LEMMA ReadyIsClean ==
    ASSUME VerRoute = "ready"
    PROVE  /\ ~Rejected /\ cleanup /\ ~request.untested
           /\ \A c \in VerChecks : candidate[c] = "pass" \/ c \in Unrelated
  <1>1. ~Rejected /\ Unknown = {} /\ cleanup /\ ~request.untested /\ Related = {}
    BY DEF VerRoute
  <1>2. ASSUME NEW c \in VerChecks, ~Passed(candidate[c])  PROVE  c \in Unrelated
    <2>1. Complete(candidate[c])
      BY <1>1 DEF Unknown
    <2>2. c \in Comparable
      BY <1>1, <1>2, <2>1 DEF Related
    <2>3. c \in Compared
      BY <1>1, <1>2, <2>1, <2>2 DEF Unknown
    <2>4. ~Passed(base[c])
      BY <1>1, <1>2, <2>3 DEF Related
    <2>5. candidate[c] = base[c]
      BY <1>1, <1>2, <2>3, <2>4 DEF Unknown
    <2>q. QED
      BY <1>2, <2>3, <2>5 DEF Unrelated
  <1>q. QED
    BY <1>1, <1>2 DEF Passed

LEMMA VerInvStep == VerInv /\ [VerNext]_verVars => VerInv'
  <1> SUFFICES ASSUME VerInv, [VerNext]_verVars  PROVE  VerInv'
    OBVIOUS
  <1>a. ASSUME UNCHANGED repairs,
               verNode' \in {"mechanicalRepair", "semanticRepair"} =>
                 Len(repairs) < MaxRepairs /\ ~Repeated /\ FailureFingerprint' = FailureFingerprint,
               verNode' = "judge" => ~Rejected, ReadyMeansPassed'
        PROVE  VerInv'
    BY <1>a DEF VerInv, VerificationRepairsOnce, Repeated, Rejected
  <1>b. ASSUME UNCHANGED <<request, candidate, base, cleanup, repairs>>
        PROVE  FailureFingerprint' = FailureFingerprint /\ Unrelated' = Unrelated /\ Rejected' = Rejected
    BY <1>b DEF FailureFingerprint, Related, Unknown, Unrelated, Compared, Complete, Passed, Rejected
  <1>1. CASE SelectChecks \/ PlanChecks \/ RunCandidate \/ RunBase \/ VerStops
    <2>1. UNCHANGED repairs /\ verNode' \in {"runCandidate", "planChecks", "runBase", "classify", "stopped"}
      BY <1>1 DEF SelectChecks, PlanChecks, RunCandidate, RunBase, VerStops, VerGo
    <2>q. QED
      BY <1>a, <2>1 DEF ReadyMeansPassed
  <1>2. CASE Classify
    <2>1. verNode' = VerRoute /\ UNCHANGED <<request, candidate, base, cleanup, repairs, judgment>>
      BY <1>2 DEF Classify, VerGo
    <2>2. VerRoute \in {"blocked", "judge", "ready", "repairGuard"} /\ (VerRoute = "judge" => ~Rejected)
      BY DEF VerRoute
    <2>3. ReadyMeansPassed'
      BY <1>b, <2>1, ReadyIsClean DEF ReadyMeansPassed
    <2>q. QED
      BY <1>a, <2>1, <2>2, <2>3
  <1>3. CASE VerRepairGuard
    <2>1. /\ UNCHANGED <<request, candidate, base, cleanup, repairs, judgment>>
          /\ \/ verNode' = "blocked"
             \/ /\ verNode' \in {"mechanicalRepair", "semanticRepair"}
                /\ ~(Len(repairs) >= MaxRepairs) /\ ~Repeated
      BY <1>3 DEF VerRepairGuard, VerGo
    <2>2. Len(repairs) \in Nat
      BY DEF VerInv
    <2>q. QED
      BY <1>a, <1>b, <2>1, <2>2, VerAssumption DEF ReadyMeansPassed
  <1>4. CASE MechanicalRepair \/ SemanticRepair
    BY <1>4, RepairStep DEF MechanicalRepair, SemanticRepair
  <1>5. CASE Judge
    <2>1. /\ UNCHANGED <<request, candidate, base, cleanup, repairs>> /\ ~Rejected
          /\ verNode' \in {"ready", "repairGuard", "blocked"}
          /\ verNode' = "ready" => judgment' = "ready"
      BY <1>5 DEF Judge, VerGo, VerInv
    <2>q. QED
      BY <1>a, <1>b, <2>1 DEF ReadyMeansPassed
  <1>6. CASE UNCHANGED verVars
    <2>1. UNCHANGED <<request, candidate, base, cleanup, repairs, judgment, verNode>>
      BY <1>6 DEF verVars
    <2>2. ReadyMeansPassed'
      BY <1>b, <2>1 DEF VerInv, ReadyMeansPassed
    <2>q. QED
      BY <1>a, <1>b, <2>1, <2>2 DEF VerInv
  <1>q. QED
    BY <1>1, <1>2, <1>3, <1>4, <1>5, <1>6 DEF VerNext

-----------------------------------------------------------------------------
(* What a ready plan rests on *)

Finished ==
    /\ Len(answers) > 0
    /\ LastAnswer.plan = documented /\ documented = designed
    /\ LastAnswer.choice = "continue"
    /\ \A i \in 1..Len(answers) - 1 : answers[i].choice = "replan"
    /\ LastAnswer.by = "human" \/ asked.mode = (IF LastAnswer.by = "timeout" THEN "auto" ELSE "skip")
    /\ canonical = documented \/ asked.receipt = documented

\* The documents hold what documentation was ready with, or the caller's receipt says so.
Vouched == documented # NoPlan => canonical = documented \/ asked.receipt = documented

Designing == {e[1] : e \in AutoplanEdges} \cup {"plan"}
Documenting == {"prepare", "inspectDocumentation", "updateDocumentation"}
Approving == {"routePolicy", "approve"}

\* Until a decision to go on, there have been nothing but replans; an update of the
\* documents is under way while they hold another plan than documentation was ready with.
PlanInv ==
    /\ \E S : answers \in Seq(S)
    /\ planNode \in Designing \cup Documenting \cup Approving \cup
         {"verification", "continued", "replanGuard"} \cup PlanEnds
    /\ planNode \in Designing \cup Documenting \cup Approving \cup {"verification", "replanGuard"}
         => \A i \in 1..Len(answers) : answers[i].choice = "replan"
    /\ planNode \in Designing \cup Documenting \cup Approving \cup {"replanGuard"} => Vouched
    /\ planNode \in Documenting \cup {"verification"} => designed \in Plans
    /\ planNode = "verification" => canonical = designed
    /\ planNode \in Approving => documented = designed /\ designed \in Plans
    /\ planNode \in {"continued", "planReady"} => Finished

LEMMA PlanInvInit == PlanInit => PlanInv
  <1> SUFFICES ASSUME PlanInit  PROVE  PlanInv
    OBVIOUS
  <1>1. answers \in Seq({}) /\ Len(answers) = 0
    BY DEF PlanInit
  <1>2. \E S : answers \in Seq(S)
    BY <1>1
  <1>3. planNode = "captureIntent" /\ documented = NoPlan /\ planNode \in Designing
    BY DEF PlanInit, Designing, AutoplanEdges
  <1>q. QED
    BY <1>1, <1>2, <1>3 DEF PlanInv, Vouched, Documenting, Approving

LEMMA AppendedAnswer ==
    ASSUME \E S : answers \in Seq(S), NEW a, answers' = Append(answers, a)
    PROVE  /\ \E S : answers' \in Seq(S)
           /\ Len(answers) \in Nat /\ Len(answers') = Len(answers) + 1 /\ LastAnswer' = a
           /\ \A i \in 1..Len(answers) : answers'[i] = answers[i]
  <1>1. PICK S : answers \in Seq(S)
    OBVIOUS
  <1>2. answers \in Seq(S \cup {a})
    BY <1>1
  <1>3. answers' \in Seq(S \cup {a})
    BY <1>2
  <1>q. QED
    BY <1>2, <1>3 DEF LastAnswer

LEMMA PlanInvStep == PlanInv /\ [PlanNext]_planVars => PlanInv'
  <1> SUFFICES ASSUME PlanInv, [PlanNext]_planVars  PROVE  PlanInv'
    OBVIOUS
  <1> USE DEF Documenting, Approving, PlanEnds
  <1>e. Designing = {"captureIntent", "frame", "solutions", "holyGrail", "select", "plan"}
    BY DEF Designing, AutoplanEdges
  <1>k. Len(answers) \in Nat
    BY DEF PlanInv
  <1>1. CASE AutoplanWalk
    <2>1. planNode \in Designing /\ planNode' \in Designing
      BY <1>1 DEF AutoplanWalk, AutoplanEdges, Designing
    <2>2. UNCHANGED <<asked, designed, documented, canonical, answers, planLocal>>
      BY <1>1 DEF AutoplanWalk
    <2>q. QED
      BY <1>e, <2>1, <2>2 DEF PlanInv, Vouched, Finished, LastAnswer
  <1>2. CASE SelectNothing \/ DocumentationBlocked \/ PlanStops
    <2>1. /\ planNode' \in {"planBlocked", "planStopped"}
          /\ UNCHANGED <<asked, designed, documented, canonical, answers>>
      BY <1>2 DEF SelectNothing, DocumentationBlocked, PlanStops
    <2>q. QED
      BY <1>e, <2>1 DEF PlanInv
  <1>3. CASE AssessPlan
    <2>1. /\ planNode = "plan" /\ designed' \in Plans /\ planNode' \in {"planBlocked", "prepare"}
          /\ UNCHANGED <<asked, documented, canonical, answers>>
      BY <1>3 DEF AssessPlan
    <2>q. QED
      BY <1>e, <2>1 DEF PlanInv, Vouched
  <1>4. CASE PrepareDocumentation \/ InspectDocumentation \/ VerifyDocumentation
    <2>1. /\ UNCHANGED <<asked, designed, canonical, answers>>
          /\ planNode \in {"prepare", "inspectDocumentation", "verification"}
      BY <1>4 DEF PrepareDocumentation, InspectDocumentation, VerifyDocumentation
    <2>2. CASE Documented
      <3>1. documented' = designed /\ planNode' = "routePolicy"
        BY <2>2 DEF Documented
      <3>2. canonical = designed \/ designed \in {asked.receipt, documented}
        <4>1. CASE PrepareDocumentation
          BY <3>1, <4>1 DEF PrepareDocumentation, Receipt
        <4>2. CASE InspectDocumentation
          BY <3>1, <4>2 DEF InspectDocumentation
        <4>3. CASE VerifyDocumentation
          BY <4>3 DEF VerifyDocumentation, PlanInv
        <4>q. QED
          BY <1>4, <4>1, <4>2, <4>3
      <3>3. designed # NoPlan /\ designed \in Plans
        BY <2>1, PlanAssumption DEF PlanInv
      <3>4. canonical = designed \/ asked.receipt = designed
        BY <1>e, <2>1, <3>2, <3>3 DEF PlanInv, Vouched
      <3>q. QED
        BY <1>e, <2>1, <3>1, <3>3, <3>4 DEF PlanInv, Vouched
    <2>3. CASE ~Documented
      <3>1. /\ planNode \in {"prepare", "inspectDocumentation"} /\ UNCHANGED documented
            /\ planNode' \in {"inspectDocumentation", "updateDocumentation"}
        BY <1>4, <2>3 DEF PrepareDocumentation, InspectDocumentation, VerifyDocumentation
      <3>q. QED
        BY <1>e, <2>1, <3>1 DEF PlanInv, Vouched
    <2>q. QED
      BY <2>2, <2>3
  <1>5. CASE UpdateDocumentation
    <2>1. /\ planNode = "updateDocumentation" /\ planNode' = "verification" /\ canonical' = designed
          /\ UNCHANGED <<asked, designed, documented, answers>>
      BY <1>5 DEF UpdateDocumentation
    <2>q. QED
      BY <1>e, <2>1 DEF PlanInv
  <1>6. CASE RoutePolicy /\ asked.mode # "skip"
    <2>1. /\ planNode = "routePolicy" /\ planNode' = "approve"
          /\ UNCHANGED <<asked, designed, documented, canonical, answers>>
      BY <1>6 DEF RoutePolicy
    <2>q. QED
      BY <1>e, <2>1 DEF PlanInv, Vouched
  <1>7. ASSUME (RoutePolicy /\ asked.mode = "skip") \/ Approve
        PROVE  PlanInv'
    <2>1. /\ planNode \in Approving
          /\ UNCHANGED <<asked, designed, documented, canonical>>
      BY <1>7 DEF RoutePolicy, Approve
    <2>2. PICK a : /\ answers' = Append(answers, a) /\ a.plan = documented
                   /\ a.by = "human" \/ asked.mode = (IF a.by = "timeout" THEN "auto" ELSE "skip")
                   /\ \/ planNode' = "continued" /\ a.choice = "continue"
                      \/ planNode' = "planBlocked"
                      \/ planNode' = "replanGuard" /\ a.choice = "replan"
      <3>1. CASE RoutePolicy /\ asked.mode = "skip"
        <4>1. planNode' = "continued"
              /\ answers' = Append(answers, [plan |-> documented, by |-> "skipped", choice |-> "continue"])
          BY <3>1 DEF RoutePolicy
        <4>q. QED
          BY <3>1, <4>1
      <3>2. CASE Approve
        <4>1. PICK c \in Choices :
                /\ answers' = Append(answers, [plan |-> documented, by |-> c.by, choice |-> c.choice])
                /\ planNode' = CASE c.choice = "continue" -> "continued"
                                 [] c.choice = "stop" -> "planBlocked"
                                 [] c.choice = "replan" -> "replanGuard"
          BY <3>2 DEF Approve
        <4>2. /\ c.by = "human" \/ (c.by = "timeout" /\ asked.mode = "auto")
              /\ c.choice \in {"continue", "stop", "replan"}
          BY DEF Choices
        <4>q. QED
          BY <4>1, <4>2
      <3>q. QED
        BY <1>7, <3>1, <3>2
    <2>3. \E S : answers \in Seq(S)
      BY DEF PlanInv
    <2>4. /\ \E S : answers' \in Seq(S)
          /\ Len(answers') = Len(answers) + 1 /\ LastAnswer' = a
          /\ \A i \in 1..Len(answers) : answers'[i] = answers[i]
      BY <2>2, <2>3, AppendedAnswer
    <2>5. \A i \in 1..Len(answers) : answers'[i].choice = "replan"
      BY <1>e, <2>1, <2>4 DEF PlanInv
    <2>6. designed \in Plans /\ documented = designed /\ Vouched /\ designed # NoPlan
      BY <2>1, PlanAssumption DEF PlanInv
    <2>7. canonical = documented \/ asked.receipt = documented
      BY <2>6 DEF Vouched
    <2>8. CASE planNode' = "continued"
      <3>1. a.choice = "continue"
        BY <2>2, <2>8
      <3>2. Finished'
        BY <1>k, <2>1, <2>2, <2>4, <2>5, <2>6, <2>7, <3>1 DEF Finished
      <3>q. QED
        BY <1>e, <2>4, <2>8, <3>2 DEF PlanInv
    <2>9. CASE planNode' = "replanGuard"
      <3>1. a.choice = "replan" /\ answers'[Len(answers) + 1] = a
        BY <2>2, <2>4, <2>9 DEF LastAnswer
      <3>2. \A i \in 1..Len(answers') : answers'[i].choice = "replan"
        BY <1>k, <2>4, <2>5, <3>1
      <3>q. QED
        BY <1>e, <2>1, <2>4, <2>6, <2>9, <3>2 DEF PlanInv, Vouched
    <2>10. CASE planNode' = "planBlocked"
      BY <1>e, <2>4, <2>10 DEF PlanInv
    <2>q. QED
      BY <2>2, <2>8, <2>9, <2>10
  <1>8. CASE ReplanGuard
    <2>1. /\ planNode = "replanGuard" /\ planNode' \in {"planBlocked", "planStopped", "captureIntent"}
          /\ UNCHANGED <<asked, designed, documented, canonical, answers>>
      BY <1>8 DEF ReplanGuard
    <2>q. QED
      BY <1>e, <2>1 DEF PlanInv, Vouched
  <1>9. CASE FinalizePlan \/ UNCHANGED planVars
    <2>1. /\ planNode' = planNode \/ (planNode = "continued" /\ planNode' = "planReady")
          /\ UNCHANGED <<asked, designed, documented, canonical, answers>>
      BY <1>9 DEF FinalizePlan, planVars
    <2>2. Finished' = Finished /\ Vouched' = Vouched
      BY <2>1 DEF Finished, Vouched, LastAnswer
    <2>q. QED
      BY <1>e, <2>1, <2>2 DEF PlanInv
  <1>q. QED
    BY <1>1, <1>2, <1>3, <1>4, <1>5, <1>6, <1>7, <1>8, <1>9 DEF PlanNext

-----------------------------------------------------------------------------
(* What a completed implementation rests on *)

\* Nodes by what has to hold when the run comes to them.
WorkDone == {"classifyImplementation", "selectVerificationPath", "planVerification",
             "localVerification", "verifyP2", "routeVerifyP2Result"}
WorkChecked == {"routeVerifiedWorkspace", "publish"}
OnDefaultBranch == {"finalizeDefaultBranch", "routeFinalizeDefaultBranchResult"}
UnderReview == {"runReview", "repairReviewCommand", "assessReview", "recoverReviewAssessment",
                "routeReviewAssessment"}
FixingP2 == {"addressP2", "verifyP2", "routeVerifyP2Result"}
Commenting == {"inspectComments", "routeInspectCommentsResult"}
WatchingCi == {"inspectCi", "routeInspectCiResult", "trackCi", "repairCiCommand",
               "assessTrackedCi", "classifyCi", "opportunisticTest"}
Delivering == {"finalizeDelivery", "routeFinalizeDeliveryResult"}
Guarding == {"challengeBlockerGuard", "timeoutFallbackGuard", "timeoutFallback",
             "challengeBlocker", "routeBlockerRecovery", "routeTimeoutFallback"}

Earned(n) ==
    /\ n \in WorkDone => lastWork = "ok"
    /\ n \in WorkChecked => verified
    /\ n \in OnDefaultBranch => verified /\ job.mode = "defaultBranch"
    /\ n \in UnderReview => published /\ ~comments
    /\ n = "selectReviewCommands" => published
    /\ n \in FixingP2 => Reviewed
    /\ n \in Commenting => published /\ Reviewed
    /\ n \in WatchingCi => published /\ comments
    /\ n \in Delivering => published /\ CurrentReadyCi
    /\ n = "finalize" => verified /\ (job.mode = "pullRequest" => published /\ CurrentReadyCi)

\* The answers a switch may meet, and what they say.
RouteKnown ==
    /\ node \in DOMAIN Switches => answer \in DOMAIN Switches[node]
    /\ node = "routeReviewAssessment" /\ answer \in {"critical", "p2", "clean"} => Reviewed
    /\ node = "routeVerifyP2Result" /\ answer = "passed" => published
    /\ node = "routeInspectCommentsResult" /\ answer = "ci" => comments
    /\ node = "routeInspectCiResult" /\ answer = "green" => ci = "green"

Blockers == {"classifyImplementation", "localVerification", "routeInspectCommentsResult",
             "routeInspectCiResult", "repairCiCommand", "assessTrackedCi", "classifyCi",
             "routeFinalizeDeliveryResult", "routeFinalizeDefaultBranchResult"}
RecoveryNodes == {"redesign", "fix", "planVerification", "inspectComments", "inspectCi",
                  "opportunisticTest", "finalizeDefaultBranch"}
FallbackRoutes == {"verify", "review", "ci", "deliver", "retry", "replan", "blocked"}

\* A challenged blocker and a timeout have not lost what their node had.
Recoverable ==
    /\ node = "challengeBlockerGuard" => previous \in Blockers /\ Earned(previous)
    /\ node \in {"challengeBlocker", "routeBlockerRecovery"} =>
         answer \in RecoveryNodes /\ Earned(answer)
    /\ node \in {"timeoutFallbackGuard", "timeoutFallback", "routeTimeoutFallback"} =>
         timedOut \in Sources /\ Earned(timedOut)
    /\ node = "routeTimeoutFallback" => answer \in FallbackRoutes /\ SafeFallback(answer)

\* A publication is one of checked work, comments are those on a reviewed publication.
Evidence ==
    /\ {published, verified, comments} \subseteq BOOLEAN
    /\ verified => lastWork = "ok"
    /\ published => verified
    /\ comments => Reviewed

AutInv == Evidence /\ Earned(node) /\ RouteKnown /\ Recoverable

LEMMA AutInvInit == AutInit => AutInv
  BY DEF AutInit, AutInv, Evidence, Earned, RouteKnown, Recoverable, Switches, WorkDone, WorkChecked,
         OnDefaultBranch, UnderReview, FixingP2, Commenting, WatchingCi, Delivering

\* The facts a node passes on when neither the input nor the history changes.
LEMMA EarnedKept ==
    ASSUME UNCHANGED <<job, histVars>>
    PROVE  /\ Evidence' = Evidence
           /\ \A n : Earned(n)' = Earned(n)
           /\ \A r : SafeFallback(r)' = SafeFallback(r)
           /\ Reviewed' = Reviewed /\ CurrentReadyCi' = CurrentReadyCi
  BY DEF Evidence, Earned, SafeFallback, Reviewed, CurrentReadyCi, histVars

LEMMA AutInvStep == AutInv /\ [AutNext]_autVars => AutInv'
  <1> SUFFICES ASSUME AutInv, [AutNext]_autVars  PROVE  AutInv'
    OBVIOUS
  <1> USE DEF WorkDone, WorkChecked, OnDefaultBranch, UnderReview, FixingP2, Commenting,
              WatchingCi, Delivering, Blockers, RecoveryNodes
  <1>i. Evidence /\ Earned(node) /\ RouteKnown /\ Recoverable
    BY DEF AutInv
  <1>s. /\ DOMAIN Switches["routeReviewAssessment"] =
             {"command_error", "blocked", "critical", "p2", "clean"}
        /\ DOMAIN Switches["routeVerifyP2Result"] = {"passed", "failed"}
        /\ DOMAIN Switches["routeInspectCommentsResult"] = {"redesign", "fix", "ci", "blocked"}
        /\ DOMAIN Switches["routeInspectCiResult"] = CiRoutes
        /\ DOMAIN Switches["routeFinalizeDeliveryResult"] = {"completed", "blocked"}
        /\ DOMAIN Switches["routeFinalizeDefaultBranchResult"] = {"completed", "blocked"}
    BY DEF Switches, CiRoutes
  \* A step to a node that reads no answer.
  <1>a. ASSUME Evidence', NEW m, node' = m, Earned(m)', m \notin DOMAIN Switches, m \notin Guarding
        PROVE  AutInv'
    <2>1. Earned(node)'
      BY <1>a DEF Earned
    <2>2. node' \notin {"routeReviewAssessment", "routeVerifyP2Result",
                        "routeInspectCommentsResult", "routeInspectCiResult"}
      BY <1>a DEF Switches
    <2>q. QED
      BY <1>a, <2>1, <2>2 DEF AutInv, RouteKnown, Recoverable, Guarding
  \* A blocker.
  <1>b. ASSUME Evidence', NEW m \in Blockers, Earned(m)', Go("challengeBlockerGuard"), node = m
        PROVE  AutInv'
    <2>1. node' = "challengeBlockerGuard" /\ previous' = m
      BY <1>b DEF Go
    <2>2. Earned(node)' /\ Earned(previous)'
      BY <1>b, <2>1 DEF Earned
    <2>q. QED
      BY <1>b, <2>1, <2>2 DEF AutInv, RouteKnown, Recoverable, Switches
  \* A step that leaves the input and the history alone.
  <1>c. ASSUME UNCHANGED <<job, histVars>>
        PROVE  /\ Evidence' /\ Reviewed' = Reviewed /\ CurrentReadyCi' = CurrentReadyCi
               /\ \A n : Earned(n)' = Earned(n)
               /\ \A r : SafeFallback(r)' = SafeFallback(r)
    BY <1>i, <1>c, EarnedKept
  <1>1. CASE Walk
    <2>1. UNCHANGED <<job, histVars>>
      BY <1>1 DEF Walk, Quiet
    <2>2. PICK n : <<node, n>> \in Edges /\ Go(n)
      BY <1>1 DEF Walk
    <2>3. /\ node' = n /\ n \notin DOMAIN Switches
          /\ \/ n \notin Guarding \cup WorkDone \cup WorkChecked \cup OnDefaultBranch
                      \cup UnderReview \cup FixingP2 \cup Commenting \cup WatchingCi
                      \cup Delivering \cup {"selectReviewCommands", "finalize"}
             \/ node = "classifyImplementation" /\ n \in {"selectVerificationPath", "challengeBlockerGuard"}
             \/ node = "trackCi" /\ n \in {"assessTrackedCi", "repairCiCommand"}
             \/ node = "repairCiCommand" /\ n \in {"trackCi", "challengeBlockerGuard"}
      BY <2>2 DEF Edges, Go, Switches, Guarding
    <2>4. CASE n = "challengeBlockerGuard"
      <3>1. node \in Blockers
        BY <2>3, <2>4 DEF Guarding
      <3>q. QED
        BY <1>b, <1>c, <1>i, <2>1, <2>2, <2>4, <3>1
    <2>5. CASE n # "challengeBlockerGuard"
      <3>1. Earned(n) /\ n \notin Guarding
        BY <1>i, <2>3, <2>5 DEF Earned, Guarding
      <3>q. QED
        BY <1>a, <1>c, <2>1, <2>3, <3>1
    <2>q. QED
      BY <2>4, <2>5
  <1>2. CASE FollowRoute
    <2>1. /\ node \in DOMAIN Switches /\ Go(Switches[node][answer])
          /\ UNCHANGED <<job, histVars>>
      BY <1>2 DEF FollowRoute
    <2>2. PICK n : n = Switches[node][answer]
      OBVIOUS
    <2>3. /\ node' = n /\ n \notin DOMAIN Switches
          /\ n \notin Guarding \ {"challengeBlockerGuard"}
          /\ n = "challengeBlockerGuard" => node \in Blockers
      BY <1>i, <2>1, <2>2 DEF Go, RouteKnown, Switches, Guarding
    <2>4. n # "challengeBlockerGuard" => Earned(n)
      BY <1>i, <2>1, <2>2 DEF Earned, RouteKnown, Switches, Evidence, CurrentReadyCi
    <2>5. CASE n = "challengeBlockerGuard"
      BY <1>b, <1>c, <1>i, <2>1, <2>2, <2>3, <2>5
    <2>6. CASE n # "challengeBlockerGuard"
      BY <1>a, <1>c, <2>1, <2>3, <2>4, <2>6
    <2>q. QED
      BY <2>5, <2>6
  <1>3. CASE Prepare \/ SelectVerificationPath \/ RouteVerifiedWorkspace \/ PlanVerification
             \/ OpportunisticTest \/ SelectReviewCommands \/ RunReview \/ RepairReviewCommand
             \/ RunStops
    <2>1. UNCHANGED <<job, histVars>>
      BY <1>3 DEF Prepare, SelectVerificationPath, RouteVerifiedWorkspace, PlanVerification,
                  OpportunisticTest, SelectReviewCommands, RunReview, RepairReviewCommand,
                  RunStops, Quiet
    <2>2. /\ node' \notin DOMAIN Switches /\ node' \notin Guarding
          /\ \/ node' \notin WorkDone \cup WorkChecked \cup OnDefaultBranch \cup UnderReview
                   \cup FixingP2 \cup Commenting \cup WatchingCi \cup Delivering
                   \cup {"selectReviewCommands", "finalize"}
             \/ node \in {"selectVerificationPath", "planVerification"} /\ lastWork = "ok"
                  /\ node' \in {"planVerification", "localVerification"}
             \/ node = "routeVerifiedWorkspace" /\ job.mode = "defaultBranch"
                  /\ node' = "finalizeDefaultBranch"
             \/ node = "routeVerifiedWorkspace" /\ node' = "publish"
             \/ node = "opportunisticTest" /\ node' = "inspectCi"
             \/ node = "selectReviewCommands" /\ Reviewed /\ node' = "inspectComments"
             \/ node = "selectReviewCommands" /\ ~Reviewed /\ node' = "runReview"
             \/ node \in {"runReview", "repairReviewCommand"}
                  /\ node' \in {"assessReview", "repairReviewCommand", "runReview"}
      BY <1>3, <1>i DEF Prepare, SelectVerificationPath, RouteVerifiedWorkspace, PlanVerification,
                  OpportunisticTest, SelectReviewCommands, RunReview, RepairReviewCommand,
                  RunStops, Go, Switches, Guarding, Earned
    <2>3. Earned(node')
      BY <1>i, <2>2 DEF Earned, Evidence
    <2>4. PICK n : n = node'
      OBVIOUS
    <2>q. QED
      BY <1>a, <1>c, <2>1, <2>2, <2>3, <2>4
  <1>4. CASE StepTimesOut \/ StepFails
    <2>1. /\ node \in Sources /\ UNCHANGED <<job, answer>>
          /\ \/ node' = "timeoutFallbackGuard" /\ timedOut' = node
             \/ node' = "propagateSupportedFailure"
          /\ Unfinished
      BY <1>4 DEF StepTimesOut, StepFails, Go
    <2>2. PICK m : m = node
      OBVIOUS
    <2>3. Evidence' /\ Earned(m)'
      <3>1. CASE node \in WorkNodes
        <4>1. lastWork' = "unfinished" /\ ~published' /\ ~verified' /\ UNCHANGED <<comments, ci, review>>
          BY <2>1, <3>1 DEF Unfinished, Attempt
        <4>2. {published', verified', comments'} \subseteq BOOLEAN
          BY <1>i, <2>1, <3>1 DEF Unfinished, Attempt, Evidence
        <4>q. QED
          BY <1>i, <2>1, <2>2, <3>1, <4>1, <4>2 DEF Evidence, Earned, Reviewed, WorkNodes
      <3>2. CASE node \notin WorkNodes
        BY <1>c, <1>i, <2>1, <2>2, <3>2 DEF Unfinished
      <3>q. QED
        BY <3>1, <3>2
    <2>4. CASE node' = "timeoutFallbackGuard" /\ timedOut' = node
      <3>1. Earned(node)' /\ Earned(timedOut)'
        BY <2>2, <2>3, <2>4 DEF Earned
      <3>q. QED
        BY <2>1, <2>3, <2>4, <3>1 DEF AutInv, RouteKnown, Recoverable, Switches
    <2>5. CASE node' = "propagateSupportedFailure"
      <3>1. Earned("propagateSupportedFailure")'
        BY DEF Earned
      <3>q. QED
        BY <1>a, <2>3, <2>5, <3>1 DEF Switches, Guarding
    <2>q. QED
      BY <2>1, <2>4, <2>5
  <1>5. CASE AcceptWork
    <2>1. /\ lastWork' = "ok" /\ ~published' /\ ~verified' /\ UNCHANGED <<job, comments, ci, review>>
          /\ {published', verified'} \subseteq BOOLEAN
          /\ node \in WorkNodes
          /\ node' = CASE node = "implement" -> "classifyImplementation"
                       [] node = "fix" -> "selectVerificationPath"
                       [] node = "addressP2" -> "verifyP2"
      BY <1>5 DEF AcceptWork, Attempt, Go
    <2>2. /\ node' \in {"classifyImplementation", "selectVerificationPath", "verifyP2"}
          /\ node' = "verifyP2" => Reviewed'
      BY <1>i, <2>1 DEF WorkNodes, Earned, Reviewed
    <2>3. PICK n : n = node'
      OBVIOUS
    <2>4. Evidence' /\ Earned(n)'
      BY <1>i, <2>1, <2>2, <2>3 DEF Evidence, Earned, Reviewed
    <2>q. QED
      BY <1>a, <2>2, <2>3, <2>4 DEF Switches, Guarding
  <1>6. CASE LocalVerification
    <2>1. /\ node = "localVerification" /\ UNCHANGED <<job, lastWork, published, comments, ci, review>>
          /\ \/ Go("routeVerifiedWorkspace") /\ verified' = TRUE
             \/ Go("challengeBlockerGuard") /\ UNCHANGED verified
      BY <1>6 DEF LocalVerification
    <2>2. lastWork = "ok"
      BY <1>i, <2>1 DEF Earned
    <2>3. Evidence' /\ Earned("localVerification")'
      BY <1>i, <2>1, <2>2 DEF Evidence, Earned, Reviewed
    <2>4. CASE Go("routeVerifiedWorkspace") /\ verified' = TRUE
      <3>1. node' = "routeVerifiedWorkspace" /\ Earned("routeVerifiedWorkspace")'
        BY <2>4 DEF Go, Earned
      <3>q. QED
        BY <1>a, <2>3, <3>1 DEF Switches, Guarding
    <2>q. QED
      BY <1>b, <2>1, <2>3, <2>4
  <1>7. CASE Publish
    <2>1. /\ node = "publish" /\ node' = "selectReviewCommands" /\ published' = TRUE
          /\ comments' = FALSE /\ UNCHANGED <<job, lastWork, ci, verified>>
      BY <1>7 DEF Publish, Go
    <2>2. Evidence' /\ Earned("selectReviewCommands")'
      BY <1>i, <2>1 DEF Evidence, Earned
    <2>q. QED
      BY <1>a, <2>1, <2>2 DEF Switches, Guarding
  <1>8. CASE VerifyP2
    <2>1. /\ node = "verifyP2" /\ node' = "routeVerifyP2Result"
          /\ \/ answer' = "passed" /\ published' = TRUE /\ comments' = FALSE /\ verified' = TRUE
             \/ answer' = "failed" /\ UNCHANGED <<published, comments, verified>>
          /\ UNCHANGED <<job, lastWork, ci, review>>
      BY <1>8 DEF VerifyP2, Go
    <2>2. Evidence' /\ Earned(node)'
      <3>1. lastWork' = "ok" /\ Reviewed'
        BY <1>i, <2>1 DEF Earned, Reviewed
      <3>2. CASE published' = TRUE /\ comments' = FALSE /\ verified' = TRUE
        BY <2>1, <3>1, <3>2 DEF Evidence, Earned
      <3>3. CASE UNCHANGED <<published, comments, verified>>
        <4>1. Evidence'
          BY <1>i, <3>1, <3>3 DEF Evidence
        <4>q. QED
          BY <2>1, <3>1, <3>3, <4>1 DEF Earned
      <3>q. QED
        BY <2>1, <3>2, <3>3
    <2>3. answer' \in DOMAIN Switches["routeVerifyP2Result"]
      BY <1>s, <2>1
    <2>4. RouteKnown'
      BY <2>1, <2>3 DEF RouteKnown
    <2>5. Recoverable'
      BY <2>1 DEF Recoverable
    <2>q. QED
      BY <2>2, <2>4, <2>5 DEF AutInv
  <1>9. CASE AssessReview
    <2>1. /\ node \in {"assessReview", "recoverReviewAssessment"}
          /\ UNCHANGED <<job, lastWork, published, comments, ci, verified>>
      BY <1>9 DEF AssessReview
    <2>2. Evidence' /\ Earned("routeReviewAssessment")' /\ \A n \in UnderReview : Earned(n)'
      BY <1>i, <2>1 DEF Evidence, Earned
    <2>3. CASE Go("routeReviewAssessment") /\ review' \in {"error", "critical", "p2", "clean"}
               /\ answer' = IF review' # "error" THEN review'
                            ELSE IF tried.repair THEN "blocked" ELSE "command_error"
      <3>1. node' = "routeReviewAssessment" /\ Earned(node)'
        BY <2>2, <2>3 DEF Go, Earned
      <3>2. answer' \in DOMAIN Switches["routeReviewAssessment"]
            /\ (answer' \in {"critical", "p2", "clean"} => Reviewed')
        BY <1>s, <2>3 DEF Reviewed
      <3>q. QED
        BY <2>2, <3>1, <3>2 DEF AutInv, RouteKnown, Recoverable
    <2>4. CASE node' \in {"recoverReviewAssessment", "reviewAssessmentRecoveryBlocked",
                          "propagateSupportedFailure"}
      <3>1. PICK n : n = node'
        OBVIOUS
      <3>2. Earned(n)'
        BY <2>2, <2>4, <3>1 DEF Earned
      <3>q. QED
        BY <1>a, <2>2, <2>4, <3>1, <3>2 DEF Switches, Guarding
    <2>q. QED
      BY <1>9, <2>3, <2>4 DEF AssessReview, Go
  <1>10. CASE InspectComments \/ InspectCi
    <2>1. /\ UNCHANGED <<job, lastWork, published, verified, review>>
          /\ \/ /\ node = "inspectComments" /\ node' = "routeInspectCommentsResult"
                /\ answer' \in {"redesign", "fix", "ci", "blocked"} /\ comments' = (answer' = "ci")
             \/ /\ node = "inspectCi" /\ node' = "routeInspectCiResult"
                /\ answer' \in CiRoutes /\ ci' = answer' /\ UNCHANGED comments
      BY <1>10 DEF InspectComments, InspectCi, Go
    <2>2. comments' \in BOOLEAN /\ {published', verified'} \subseteq BOOLEAN
      BY <1>i, <2>1 DEF Evidence
    <2>3. Evidence' /\ Earned(node)'
      BY <1>i, <2>1, <2>2 DEF Evidence, Earned, Reviewed
    <2>q. QED
      BY <1>s, <2>1, <2>3 DEF AutInv, RouteKnown, Recoverable
  <1>11. CASE AssessTrackedCi \/ ClassifyCi
    <2>1. /\ node \in {"assessTrackedCi", "classifyCi"}
          /\ UNCHANGED <<job, lastWork, published, comments, verified, review>>
          /\ \/ node' = "finalizeDelivery" /\ ci' \in {"green", "unrelated"}
             \/ node' \in {"classifyCi", "opportunisticTest", "redesign", "fix"}
             \/ Go("challengeBlockerGuard")
      BY <1>11 DEF AssessTrackedCi, ClassifyCi, Go, CiRoutes
    <2>2. Evidence' /\ published' /\ comments' /\ \A n \in WatchingCi : Earned(n)'
      BY <1>i, <2>1 DEF Evidence, Earned, Reviewed
    <2>3. PICK n, m : n = node' /\ m = node
      OBVIOUS
    <2>4. CASE n = "challengeBlockerGuard"
      BY <1>b, <2>1, <2>2, <2>3, <2>4 DEF Go
    <2>5. CASE n # "challengeBlockerGuard"
      <3>1. n \in {"finalizeDelivery", "classifyCi", "opportunisticTest", "redesign", "fix"}
        BY <2>1, <2>3, <2>5 DEF Go
      <3>2. Earned(n)'
        BY <2>1, <2>2, <2>3, <3>1 DEF Earned, CurrentReadyCi, Go
      <3>q. QED
        BY <1>a, <2>2, <2>3, <3>1, <3>2 DEF Switches, Guarding
    <2>q. QED
      BY <2>4, <2>5
  <1>12. CASE Finalize
    <2>1. /\ UNCHANGED <<job, histVars>> /\ answer' \in {"completed", "blocked"}
          /\ \/ node = "finalizeDelivery" /\ node' = "routeFinalizeDeliveryResult"
             \/ node = "finalizeDefaultBranch" /\ node' = "routeFinalizeDefaultBranchResult"
      BY <1>12 DEF Finalize, Go
    <2>2. Evidence' /\ Earned(node)'
      <3>1. Earned(node')
        BY <1>i, <2>1 DEF Earned
      <3>2. PICK n : n = node'
        OBVIOUS
      <3>3. Evidence' /\ Earned(n)'
        BY <1>c, <2>1, <3>1, <3>2
      <3>q. QED
        BY <3>2, <3>3 DEF Earned
    <2>q. QED
      BY <1>s, <2>1, <2>2 DEF AutInv, RouteKnown, Recoverable
  <1>13. CASE ChallengeGuard \/ ChallengeBlocker \/ RouteBlockerRecovery
    <2>1. UNCHANGED <<job, histVars>>
      BY <1>13 DEF ChallengeGuard, ChallengeBlocker, RouteBlockerRecovery
    <2>2. CASE node' = "blocked"
      <3>1. Earned("blocked")'
        BY DEF Earned
      <3>q. QED
        BY <1>a, <1>c, <2>1, <2>2, <3>1 DEF Switches, Guarding
    <2>3. ASSUME NEW r \in RecoveryNodes, Earned(r), answer' = r,
                 node' \in {"challengeBlocker", "routeBlockerRecovery"}
          PROVE  AutInv'
      <3>1. Evidence' /\ Earned(r)'
        BY <1>c, <2>1, <2>3
      <3>2. Earned(node)' /\ Earned(answer)'
        BY <2>3, <3>1 DEF Earned
      <3>q. QED
        BY <2>3, <3>1, <3>2 DEF AutInv, RouteKnown, Recoverable, Switches
    <2>4. CASE ChallengeGuard /\ node' # "blocked"
      <3>1. node' = "challengeBlocker" /\ answer' \in Recoveries /\ node = "challengeBlockerGuard"
        BY <2>4 DEF ChallengeGuard, Go
      <3>2. previous \in Blockers /\ Earned(previous)
        BY <1>i, <3>1 DEF Recoverable
      <3>3. answer' \in RecoveryNodes /\ Earned(answer')
        <4>1. \/ answer' \in {"redesign", "fix"}
              \/ previous = "localVerification" /\ answer' = "planVerification"
              \/ previous = "routeInspectCommentsResult" /\ answer' = "inspectComments"
              \/ previous \in WatchingCi /\ answer' \in {"inspectCi", "opportunisticTest"}
              \/ previous = "routeFinalizeDeliveryResult" /\ answer' \in {"inspectComments", "inspectCi"}
              \/ previous = "routeFinalizeDefaultBranchResult" /\ answer' = "finalizeDefaultBranch"
          BY <3>1, <3>2 DEF Recoveries
        <4>q. QED
          BY <1>i, <3>2, <4>1 DEF Earned, Evidence, CurrentReadyCi
      <3>q. QED
        BY <2>3, <3>1, <3>3
    <2>5. CASE ChallengeBlocker /\ node' # "blocked"
      <3>1. node = "challengeBlocker" /\ node' = "routeBlockerRecovery" /\ UNCHANGED answer
        BY <2>5 DEF ChallengeBlocker, Go
      <3>2. answer \in RecoveryNodes /\ Earned(answer)
        BY <1>i, <3>1 DEF Recoverable
      <3>q. QED
        BY <2>3, <3>1, <3>2
    <2>6. CASE RouteBlockerRecovery
      <3>1. node = "routeBlockerRecovery" /\ node' = answer
        BY <2>6 DEF RouteBlockerRecovery, Go
      <3>2. PICK n : n = answer
        OBVIOUS
      <3>3. n \in RecoveryNodes /\ Earned(n)
        BY <1>i, <3>1, <3>2 DEF Recoverable
      <3>4. Evidence' /\ Earned(n)'
        BY <1>c, <2>1, <3>3
      <3>5. n \notin DOMAIN Switches /\ n \notin Guarding
        BY <3>3 DEF Switches, Guarding
      <3>q. QED
        BY <1>a, <3>1, <3>2, <3>4, <3>5
    <2>q. QED
      BY <1>13, <2>2, <2>4, <2>5, <2>6
  <1>14. CASE FallbackGuard \/ TimeoutFallback \/ FallbackTarget
    <2>1. UNCHANGED <<job, histVars>>
      BY <1>14 DEF FallbackGuard, TimeoutFallback, FallbackTarget, Quiet
    <2>2. CASE node' = "blocked"
      <3>1. Earned("blocked")'
        BY DEF Earned
      <3>q. QED
        BY <1>a, <1>c, <2>1, <2>2, <3>1 DEF Switches, Guarding
    <2>3. timedOut \in Sources /\ Earned(timedOut)
      BY <1>14, <1>i DEF Recoverable, FallbackGuard, TimeoutFallback, FallbackTarget
    <2>4. ASSUME UNCHANGED timedOut, node' \in {"timeoutFallback", "routeTimeoutFallback"},
                 node' = "routeTimeoutFallback" => answer' \in FallbackRoutes /\ SafeFallback(answer')
          PROVE  AutInv'
      <3>1. PICK t, r : t = timedOut /\ r = answer'
        OBVIOUS
      <3>2. Evidence' /\ Earned(t)' /\ (SafeFallback(r)' = SafeFallback(r))
        BY <1>c, <2>1, <2>3, <3>1
      <3>3. Earned(node)' /\ Earned(timedOut)'
        BY <2>4, <3>1, <3>2 DEF Earned
      <3>4. node' = "routeTimeoutFallback" => answer' \in FallbackRoutes /\ SafeFallback(answer)'
        BY <2>4, <3>1, <3>2 DEF SafeFallback
      <3>q. QED
        BY <2>3, <2>4, <3>2, <3>3, <3>4 DEF AutInv, RouteKnown, Recoverable, Switches
    <2>5. CASE FallbackGuard /\ node' # "blocked"
      BY <2>4, <2>5 DEF FallbackGuard, Go, Quiet
    <2>6. CASE TimeoutFallback
      BY <2>4, <2>6 DEF TimeoutFallback, Go, TimeoutFallbackRoutes, FallbackRoutes
    <2>7. CASE FallbackTarget /\ node' # "blocked"
      <3>1. node = "routeTimeoutFallback" /\ node' =
              (CASE answer = "verify" -> "selectVerificationPath"
                 [] answer = "review" -> "selectReviewCommands" [] answer = "ci" -> "inspectCi"
                 [] answer = "deliver" -> "finalizeDelivery" [] answer = "replan" -> "redesign"
                 [] answer = "blocked" -> "blocked" [] OTHER -> timedOut)
        BY <2>7 DEF FallbackTarget, Go
      <3>2. answer \in FallbackRoutes /\ SafeFallback(answer)
        BY <1>i, <3>1 DEF Recoverable
      <3>3. PICK n : n = node'
        OBVIOUS
      <3>4. \/ n = "selectVerificationPath" /\ lastWork = "ok"
            \/ n = "selectReviewCommands" /\ published
            \/ n = "inspectCi" /\ published /\ comments
            \/ n = "finalizeDelivery" /\ published /\ CurrentReadyCi
            \/ n = "redesign" \/ n = timedOut
        BY <2>7, <3>1, <3>2, <3>3 DEF FallbackRoutes, SafeFallback
      <3>5. Earned(n) /\ n \notin DOMAIN Switches /\ n \notin Guarding
        BY <2>3, <3>4 DEF Earned, Switches, Guarding, Sources, WorkNodes
      <3>6. Evidence' /\ Earned(n)'
        BY <1>c, <2>1, <3>5
      <3>q. QED
        BY <1>a, <3>3, <3>5, <3>6
    <2>q. QED
      BY <1>14, <2>2, <2>5, <2>6, <2>7
  <1>15. CASE UNCHANGED autVars
    <2>1. UNCHANGED <<job, node, previous, answer, timedOut, histVars>>
      BY <1>15 DEF autVars
    <2>2. AutInv' = AutInv
      BY <2>1 DEF AutInv, Evidence, Earned, Reviewed, CurrentReadyCi, RouteKnown, Recoverable,
                  SafeFallback, histVars
    <2>q. QED
      BY <2>2
  <1>q. QED
    BY <1>1, <1>2, <1>3, <1>4, <1>5, <1>6, <1>7, <1>8, <1>9, <1>10, <1>11, <1>12, <1>13, <1>14,
       <1>15 DEF AutNext

-----------------------------------------------------------------------------
(* What a prepared workspace rests on *)

\* Whatever is checked out is a branch, and the default branch is never deleted.
GitOK ==
    /\ git = [branches |-> git.branches, head |-> git.head, dirty |-> git.dirty,
              trees |-> git.trees, origin |-> git.origin, made |-> git.made]
    /\ git.dirty \in BOOLEAN /\ git.origin \subseteq Branches /\ git.made \in Commits
    /\ DOMAIN git.branches \subseteq Branches /\ DOMAIN git.trees \subseteq Branches
    /\ git.branches \in [DOMAIN git.branches -> SUBSET Commits]
    /\ git.trees \in [DOMAIN git.trees -> DOMAIN git.branches]
    /\ {git.head, Main} \subseteq DOMAIN git.branches

\* A repository from its parts.
LEMMA GitFrom ==
    ASSUME NEW br, NEW hd, NEW di \in BOOLEAN, NEW tr, NEW og \in SUBSET Branches, NEW md \in Commits,
           NEW D \in SUBSET Branches, NEW T \in SUBSET Branches,
           br \in [D -> SUBSET Commits], tr \in [T -> D], {hd, Main} \subseteq D,
           git' = [branches |-> br, head |-> hd, dirty |-> di, trees |-> tr, origin |-> og, made |-> md]
    PROVE  GitOK'
  <1>1. /\ git'.branches = br /\ git'.head = hd /\ git'.dirty = di /\ git'.trees = tr
        /\ git'.origin = og /\ git'.made = md
    OBVIOUS
  <1>2. DOMAIN br = D /\ DOMAIN tr = T
    OBVIOUS
  <1>q. QED
    BY <1>1, <1>2 DEF GitOK

LEMMA GitInit == WorkInit => GitOK
  <1> SUFFICES ASSUME WorkInit  PROVE  GitOK
    OBVIOUS
  <1>1. PICK di \in BOOLEAN, og \in SUBSET (Branches \ {Main}) :
          git = [branches |-> [b \in {Main} |-> {1}], head |-> Main, dirty |-> di,
                 trees |-> [b \in {} |-> Main], origin |-> og, made |-> 1]
    BY DEF WorkInit
  <1>2. 1 \in Commits /\ Main \in Branches
    BY WorkspaceAssumption DEF Commits
  <1>3. /\ git.branches = [b \in {Main} |-> {1}] /\ git.head = Main /\ git.dirty = di
        /\ git.trees = [b \in {} |-> Main] /\ git.origin = og /\ git.made = 1
    BY <1>1
  <1>4. DOMAIN git.branches = {Main} /\ DOMAIN git.trees = {}
    BY <1>3
  <1>5. /\ git.branches \in [{Main} -> SUBSET Commits]
        /\ git.trees \in [{} -> {Main}]
    BY <1>2, <1>3
  <1>q. QED
    BY <1>1, <1>2, <1>3, <1>4, <1>5 DEF GitOK

\* A branch more, at a revision.
LEMMA NamedBranch ==
    ASSUME GitOK, NEW b \in Branches \ DOMAIN git.branches, NEW rev \in SUBSET Commits
    PROVE  LET br == Extended(git.branches, b, rev)
               D == DOMAIN git.branches \cup {b}
           IN  br \in [D -> SUBSET Commits] /\ br[b] = rev /\ D \in SUBSET Branches
               /\ git.trees \in [DOMAIN git.trees -> D]
  <1>1. /\ git.branches \in [DOMAIN git.branches -> SUBSET Commits]
        /\ git.trees \in [DOMAIN git.trees -> DOMAIN git.branches]
        /\ DOMAIN git.branches \subseteq Branches
    BY DEF GitOK
  <1>q. QED
    BY <1>1 DEF Extended

\* Every change that people make of the repository, one field or two at a time.
LEMMA PeopleKeepGit == GitOK /\ People => GitOK'
  <1> SUFFICES ASSUME GitOK, People  PROVE  GitOK'
    OBVIOUS
  <1> DEFINE Made(br, hd, di, tr, md) ==
        git' = [branches |-> br, head |-> hd, dirty |-> di, trees |-> tr,
                origin |-> git.origin, made |-> md]
      D == DOMAIN git.branches
      T == DOMAIN git.trees
  <1>0. /\ git.dirty \in BOOLEAN /\ git.origin \in SUBSET Branches /\ git.made \in Commits
        /\ D \in SUBSET Branches /\ T \in SUBSET Branches
        /\ git.branches \in [D -> SUBSET Commits] /\ git.trees \in [T -> D]
        /\ {git.head, Main} \subseteq D
    BY DEF GitOK
  <1>1. Heads \subseteq D
    BY <1>0 DEF Heads, Range
  <1>r. git = [branches |-> git.branches, head |-> git.head, dirty |-> git.dirty,
               trees |-> git.trees, origin |-> git.origin, made |-> git.made]
    BY DEF GitOK
  <1>2. CASE SwitchHead
    <2>1. PICK b \in D : git' = [git EXCEPT !.head = b]
      BY <1>2 DEF SwitchHead
    <2>2. Made(git.branches, b, git.dirty, git.trees, git.made)
      BY <1>r, <2>1
    <2>3. {b, Main} \subseteq D
      BY <1>0
    <2>q. QED
      BY <1>0, <2>2, <2>3, GitFrom
  <1>3. CASE SwitchTree
    <2>1. PICK t \in T, b \in D : git' = [git EXCEPT !.trees[t] = b]
      BY <1>3 DEF SwitchTree
    <2>2. PICK tr : tr = [git.trees EXCEPT ![t] = b]
      OBVIOUS
    <2>3. Made(git.branches, git.head, git.dirty, tr, git.made)
      BY <1>r, <2>1, <2>2
    <2>4. tr \in [T -> D]
      BY <1>0, <2>2
    <2>q. QED
      BY <1>0, <2>3, <2>4, GitFrom
  <1>4. CASE Edit
    <2>1. PICK di \in BOOLEAN : di = ~git.dirty
      OBVIOUS
    <2>2. Made(git.branches, git.head, di, git.trees, git.made)
      BY <1>r, <1>4, <2>1 DEF Edit
    <2>q. QED
      BY <1>0, <2>2, GitFrom
  <1>5. CASE NewBranch
    <2>1. PICK b \in Branches \ D : git' = [git EXCEPT !.head = b,
            !.branches = Extended(@, b, @[git.head])]
      BY <1>5 DEF NewBranch
    <2>2. PICK br : br = Extended(git.branches, b, git.branches[git.head])
      OBVIOUS
    <2>3. Made(br, b, git.dirty, git.trees, git.made)
      BY <1>r, <2>1, <2>2
    <2>4. git.branches[git.head] \in SUBSET Commits
      BY <1>0
    <2>5. /\ br \in [D \cup {b} -> SUBSET Commits] /\ D \cup {b} \in SUBSET Branches
          /\ git.trees \in [T -> D \cup {b}]
      BY <2>2, <2>4, NamedBranch
    <2>6. {b, Main} \subseteq D \cup {b}
      BY <1>0
    <2>q. QED
      BY <1>0, <2>3, <2>5, <2>6, GitFrom
  <1>6. CASE DeleteBranch
    <2>1. PICK b \in D \ (Heads \cup {Main}) :
            git' = [git EXCEPT !.branches = Restrict(@, DOMAIN @ \ {b})]
      BY <1>6 DEF DeleteBranch
    <2>2. PICK br : br = Restrict(git.branches, D \ {b})
      OBVIOUS
    <2>3. Made(br, git.head, git.dirty, git.trees, git.made)
      BY <1>r, <2>1, <2>2
    <2>4. br \in [D \ {b} -> SUBSET Commits] /\ D \ {b} \in SUBSET Branches
      BY <1>0, <2>2 DEF Restrict
    <2>5. git.trees \in [T -> D \ {b}] /\ {git.head, Main} \subseteq D \ {b}
      BY <1>0, <2>1 DEF Heads, Range
    <2>q. QED
      BY <1>0, <2>3, <2>4, <2>5, GitFrom
  <1>7. CASE RemoveTree
    <2>1. PICK t \in T : git' = [git EXCEPT !.trees = Restrict(@, DOMAIN @ \ {t})]
      BY <1>7 DEF RemoveTree
    <2>2. PICK tr : tr = Restrict(git.trees, T \ {t})
      OBVIOUS
    <2>3. Made(git.branches, git.head, git.dirty, tr, git.made)
      BY <1>r, <2>1, <2>2
    <2>4. tr \in [T \ {t} -> D] /\ T \ {t} \in SUBSET Branches
      BY <1>0, <2>2 DEF Restrict
    <2>q. QED
      BY <1>0, <2>3, <2>4, GitFrom
  <1>8. CASE CommitOrRebase
    <2>1. PICK b \in Heads : /\ NextCommit \in Commits
            /\ \E old \in {git.branches[b], git.branches[Main]} :
                 git' = [git EXCEPT !.made = NextCommit, !.branches[b] = old \cup {NextCommit}]
      BY <1>8 DEF CommitOrRebase
    <2>2. PICK old \in {git.branches[b], git.branches[Main]} :
            git' = [git EXCEPT !.made = NextCommit, !.branches[b] = old \cup {NextCommit}]
      BY <2>1
    <2>3. PICK br, md : br = [git.branches EXCEPT ![b] = old \cup {NextCommit}] /\ md = NextCommit
      OBVIOUS
    <2>4. Made(br, git.head, git.dirty, git.trees, md)
      BY <1>r, <2>2, <2>3
    <2>5. old \in SUBSET Commits /\ md \in Commits
      BY <1>0, <1>1, <2>1, <2>3
    <2>6. br \in [D -> SUBSET Commits]
      BY <1>0, <2>3, <2>5
    <2>q. QED
      BY <1>0, <2>4, <2>5, <2>6, GitFrom
  <1>q. QED
    BY <1>2, <1>3, <1>4, <1>5, <1>6, <1>7, <1>8 DEF People

\* What has been created is where the receipt will say.
Placed ==
    /\ proposal \in DOMAIN git.branches /\ git.branches[proposal] = inspection.revision
    /\ inspection.mode = "branch" => git.head = proposal
    /\ inspection.mode = "worktree" =>
         proposal \in DOMAIN git.trees /\ git.trees[proposal] = proposal

LEMMA CreatedKeepsGit ==
    ASSUME GitOK, Creatable, proposal \in Branches, inspection \in Inspected,
           inspection.mode # "defaultBranch", git' = Created, UNCHANGED <<proposal, inspection>>
    PROVE  GitOK' /\ Placed' /\ git'.dirty = git.dirty
  <1> DEFINE D == DOMAIN git.branches
      T == DOMAIN git.trees
  <1>0. /\ git.dirty \in BOOLEAN /\ git.origin \in SUBSET Branches /\ git.made \in Commits
        /\ D \in SUBSET Branches /\ T \in SUBSET Branches
        /\ git.branches \in [D -> SUBSET Commits] /\ git.trees \in [T -> D]
        /\ {git.head, Main} \subseteq D
        /\ git = [branches |-> git.branches, head |-> git.head, dirty |-> git.dirty,
                  trees |-> git.trees, origin |-> git.origin, made |-> git.made]
    BY DEF GitOK
  <1>1. /\ proposal \in Branches \ D /\ inspection.revision \in SUBSET Commits
        /\ inspection.mode \in {"branch", "worktree"}
        /\ inspection.mode = "worktree" => proposal \notin T
    BY DEF Creatable, Inspected
  <1>2. PICK br : br = Extended(git.branches, proposal, inspection.revision)
    OBVIOUS
  <1>3. /\ br \in [D \cup {proposal} -> SUBSET Commits] /\ br[proposal] = inspection.revision
        /\ D \cup {proposal} \in SUBSET Branches /\ git.trees \in [T -> D \cup {proposal}]
    BY <1>1, <1>2, NamedBranch
  <1>4. CASE inspection.mode = "branch"
    <2>1. git' = [branches |-> br, head |-> proposal, dirty |-> git.dirty, trees |-> git.trees,
                  origin |-> git.origin, made |-> git.made]
      BY <1>0, <1>2, <1>4 DEF Created
    <2>2. {proposal, Main} \subseteq D \cup {proposal}
      BY <1>0
    <2>3. GitOK'
      BY <1>0, <1>3, <2>1, <2>2, GitFrom
    <2>q. QED
      BY <1>3, <1>4, <2>1, <2>3 DEF Placed
  <1>5. CASE inspection.mode = "worktree"
    <2>1. PICK tr : tr = Extended(git.trees, proposal, proposal)
      OBVIOUS
    <2>2. git' = [branches |-> br, head |-> git.head, dirty |-> git.dirty, trees |-> tr,
                  origin |-> git.origin, made |-> git.made]
      BY <1>0, <1>2, <1>5, <2>1 DEF Created
    <2>3. /\ tr \in [T \cup {proposal} -> D \cup {proposal}] /\ tr[proposal] = proposal
          /\ T \cup {proposal} \in SUBSET Branches
      BY <1>0, <1>1, <2>1 DEF Extended
    <2>4. {git.head, Main} \subseteq D \cup {proposal}
      BY <1>0
    <2>5. GitOK'
      BY <1>0, <1>3, <2>2, <2>3, <2>4, GitFrom
    <2>q. QED
      BY <1>3, <1>5, <2>2, <2>3, <2>5 DEF Placed
  <1>q. QED
    BY <1>1, <1>4, <1>5

Creating == {"propose", "apply", "creating", "created"}

\* A receipt of work on the base branch is one of direct work.
Direct(r) == r # NoReceipt => (r.work = r.base => r.mode = "defaultBranch")

WantedOK ==
    \/ wanted \in FreshRequests
    \/ wanted.receipt \in Receipts /\ wanted \in RequestsWith(wanted.receipt)

\* The inspection is of the repository as it is, and what was created is there, as long
\* as nobody else has touched it.
WorkInv ==
    /\ GitOK /\ WantedOK
    /\ workNode \in {"inspect", "reading", "ready", "blocked"} \cup Creating
    /\ seen \in Branches \cup {"missing"} /\ proposal \in Branches /\ inspection \in Inspected
    /\ workspace \in Receipts \cup {NoReceipt} /\ calm \in BOOLEAN
    /\ spent \in [requests : 1..WorkRequests, acts : 0..WorkActs]
    /\ Direct(workspace) /\ Direct(wanted.receipt)
    /\ workNode = "reading" =>
         /\ calm => seen = Checkout(wanted.receipt)
         /\ wanted.receipt = NoReceipt => seen \in Branches
    /\ workNode \in Creating =>
         /\ wanted.receipt = NoReceipt /\ inspection.mode # "defaultBranch"
         /\ calm => inspection.changes = git.dirty
    /\ workNode \in {"creating", "created"} => proposal # inspection.base
    /\ workNode = "created" /\ calm => Placed
    /\ ReadyMeansOwned

LEMMA WorkInvInit == WorkInit => WorkInv
  <1> SUFFICES ASSUME WorkInit  PROVE  WorkInv
    OBVIOUS
  <1>1. GitOK
    BY GitInit
  <1>2. NotInspected \in Inspected /\ Main \in Branches
    BY WorkspaceAssumption DEF NotInspected, Inspected
  <1>3. wanted \in FreshRequests /\ wanted.receipt = NoReceipt
    BY DEF WorkInit, FreshRequests
  <1>4. [requests |-> 1, acts |-> 0] \in [requests : 1..WorkRequests, acts : 0..WorkActs]
    BY WorkspaceAssumption
  <1>5. /\ workNode = "inspect" /\ seen = Main /\ proposal = Main /\ inspection = NotInspected
        /\ workspace = NoReceipt /\ calm = TRUE /\ spent = [requests |-> 1, acts |-> 0]
    BY DEF WorkInit
  <1>q. QED
    BY <1>1, <1>2, <1>3, <1>4, <1>5 DEF WorkInv, WantedOK, Direct, ReadyMeansOwned, Creating

\* A fresh inspection: no receipt, and the branches it compares exist.
LEMMA Inspecting ==
    ASSUME WorkInv, FreshReading
    PROVE  /\ BaseBranch \in Branches /\ BaseBranch \in DOMAIN git.branches
           /\ git.branches[BaseBranch] \in SUBSET Commits /\ git.dirty \in BOOLEAN
           /\ seen \in Branches /\ (calm => seen = git.head)
  BY DEF WorkInv, GitOK, FreshReading, Checkout

LEMMA AdoptStep ==
    ASSUME WorkInv, FreshReading, NEW mode \in {"branch", "defaultBranch"}, Adopted(mode),
           seen = BaseBranch => mode = "defaultBranch" /\ wanted.authorized,
           git.branches[BaseBranch] \subseteq git.branches[git.head] \/ seen = BaseBranch
    PROVE  WorkInv'
  <1>1. /\ BaseBranch \in Branches /\ BaseBranch \in DOMAIN git.branches
        /\ git.branches[BaseBranch] \in SUBSET Commits /\ git.dirty \in BOOLEAN
        /\ seen \in Branches /\ (calm => seen = git.head)
    BY Inspecting
  <1>2. PICK r : r = [mode |-> mode, base |-> BaseBranch, revision |-> git.branches[BaseBranch],
                      work |-> seen, changes |-> git.dirty]
    OBVIOUS
  <1>3. r \in Receipts /\ r # NoReceipt
    BY <1>1, <1>2, ReceiptAssumption DEF Receipts
  <1>4. /\ workspace' = r /\ workNode' = "ready"
        /\ UNCHANGED <<seen, git, wanted, inspection, proposal, calm, spent>>
    BY <1>2 DEF Adopted, Ready, Turn
  <1>5. /\ r.mode = mode /\ r.base = BaseBranch /\ r.revision = git.branches[BaseBranch]
        /\ r.work = seen /\ r.changes = git.dirty
    BY <1>2
  <1>6. Direct(r)
    BY <1>5 DEF Direct
  <1>7. ReadyMeansOwned'
    <2>1. Checkout(workspace)' = git.head
      BY <1>4, <1>5 DEF Checkout
    <2>2. calm => r.revision \subseteq git.branches[r.work]
      BY <1>1, <1>5
    <2>q. QED
      BY <1>1, <1>4, <1>5, <2>1, <2>2 DEF ReadyMeansOwned
  <1>8. GitOK' /\ WantedOK' /\ Direct(workspace)' /\ Direct(wanted.receipt)'
    BY <1>4, <1>6 DEF WorkInv, GitOK, WantedOK, Direct, FreshRequests, RequestsWith
  <1>q. QED
    BY <1>3, <1>4, <1>7, <1>8 DEF WorkInv, Creating

\* A step of an inspection, a proposal or a creation that leaves the repository alone.
LEMMA QuietWork ==
    ASSUME WorkInv, UNCHANGED <<git, wanted, inspection, workspace>>
    PROVE  /\ GitOK' /\ WantedOK' /\ Direct(workspace)' /\ Direct(wanted.receipt)'
           /\ workspace' \in Receipts \cup {NoReceipt} /\ inspection' \in Inspected
           /\ Checkout(wanted.receipt)' = Checkout(wanted.receipt)
  BY DEF WorkInv, GitOK, WantedOK, Direct, FreshRequests, RequestsWith, Checkout

LEMMA WorkInvStep == WorkInv /\ [WorkNext]_workVars => WorkInv'
  <1> SUFFICES ASSUME WorkInv, [WorkNext]_workVars  PROVE  WorkInv'
    OBVIOUS
  <1> USE DEF Creating
  <1>1. CASE ReadBranch
    <2>1. /\ UNCHANGED <<git, wanted, inspection, proposal, calm, spent, workspace>>
          /\ seen' = Checkout(wanted.receipt) /\ workNode' = "reading"
      BY <1>1 DEF ReadBranch, Turn
    <2>2. /\ seen' \in Branches \cup {"missing"}
          /\ wanted.receipt = NoReceipt => seen' \in Branches
      BY <2>1 DEF WorkInv, GitOK, Checkout
    <2>q. QED
      BY <2>1, <2>2, QuietWork DEF WorkInv, ReadyMeansOwned
  <1>2. CASE Revalidate /\ ReceiptHolds(wanted.receipt)
    <2>1. PICK r : r = wanted.receipt
      OBVIOUS
    <2>2. /\ UNCHANGED <<git, wanted, inspection, proposal, calm, spent, seen>>
          /\ workspace' = r /\ workNode = "reading" /\ workNode' = "ready" /\ r # NoReceipt
      BY <1>2, <2>1 DEF Revalidate, Ready, Turn
    <2>3. r \in Receipts
      BY <2>1, <2>2 DEF WorkInv, WantedOK, FreshRequests
    <2>4. /\ seen = r.work /\ r.revision \subseteq git.branches[r.work]
          /\ r.mode = "defaultBranch" => wanted.authorized
      BY <1>2, <2>1 DEF ReceiptHolds
    <2>5. Direct(r) /\ (calm => seen = Checkout(r))
      BY <2>1, <2>2 DEF WorkInv
    <2>6. ReadyMeansOwned'
      <3>1. Checkout(workspace)' = Checkout(r)
        BY <2>2 DEF Checkout
      <3>q. QED
        BY <2>1, <2>2, <2>4, <2>5, <3>1 DEF ReadyMeansOwned, Direct
    <2>7. GitOK' /\ WantedOK' /\ Direct(workspace)' /\ Direct(wanted.receipt)'
      BY <2>2, <2>5 DEF WorkInv, GitOK, WantedOK, Direct, FreshRequests, RequestsWith
    <2>q. QED
      BY <2>2, <2>3, <2>6, <2>7 DEF WorkInv
  <1>3. CASE (Revalidate /\ ~ReceiptHolds(wanted.receipt)) \/ InspectBlocked
    <2>1. /\ UNCHANGED <<git, wanted, inspection, proposal, calm, spent, seen, workspace>>
          /\ workNode' = "blocked"
      BY <1>3 DEF Revalidate, InspectBlocked, Turn
    <2>q. QED
      BY <2>1, QuietWork DEF WorkInv, ReadyMeansOwned
  <1>4. CASE InspectDirect
    <2>1. /\ FreshReading /\ Adopted("defaultBranch") /\ wanted.authorized
          /\ seen = BaseBranch
      BY <1>4 DEF InspectDirect, MayWorkDirectly
    <2>q. QED
      BY <2>1, AdoptStep
  <1>5. CASE AdoptBranch
    <2>1. /\ FreshReading /\ Adopted("branch") /\ seen # BaseBranch
          /\ git.branches[BaseBranch] \subseteq git.branches[git.head]
      BY <1>5 DEF AdoptBranch, OnTaskBranch
    <2>q. QED
      BY <2>1, AdoptStep
  <1>6. CASE AskForName
    <2>1. PICK i : /\ inspection' = i /\ i.mode \in {"branch", "worktree"}
                   /\ i.changes = git.dirty /\ i \in Inspected
      <3>1. PICK mode \in {"branch", "worktree"} :
              inspection' = [mode |-> mode, base |-> BaseBranch,
                             revision |-> git.branches[BaseBranch], changes |-> git.dirty]
        BY <1>6 DEF AskForName
      <3>2. /\ BaseBranch \in Branches /\ git.branches[BaseBranch] \in SUBSET Commits
            /\ git.dirty \in BOOLEAN
        BY <1>6, Inspecting DEF AskForName
      <3>q. QED
        BY <3>1, <3>2 DEF Inspected
    <2>2. /\ UNCHANGED <<git, wanted, seen, proposal, workspace, calm, spent>>
          /\ workNode' = "propose" /\ wanted.receipt = NoReceipt
      BY <1>6 DEF AskForName, FreshReading
    <2>3. GitOK' /\ WantedOK' /\ Direct(workspace)' /\ Direct(wanted.receipt)'
      BY <2>2 DEF WorkInv, GitOK, WantedOK, Direct, FreshRequests, RequestsWith
    <2>q. QED
      BY <2>1, <2>2, <2>3 DEF WorkInv, ReadyMeansOwned
  <1>7. CASE Propose \/ ValidateBranchName
    <2>1. /\ UNCHANGED <<git, wanted, seen, inspection, workspace, calm, spent>>
          /\ proposal' \in Branches /\ workNode \in Creating
          /\ workNode' \in {"apply", "creating"}
          /\ workNode' = "creating" => proposal' # inspection.base
      BY <1>7 DEF Propose, ValidateBranchName, Turn, WorkInv
    <2>q. QED
      BY <2>1, QuietWork DEF WorkInv, ReadyMeansOwned
  <1>8. CASE CreateWorkspace \/ ApplyBlocked
    <2>1. /\ UNCHANGED <<wanted, seen, inspection, proposal, workspace, calm, spent>>
          /\ workNode \in Creating /\ workNode' \in {"created", "blocked"}
          /\ workNode' = "created" => workNode = "creating" /\ Creatable /\ git' = Created
          /\ (Creatable /\ git' = Created) \/ UNCHANGED git
      BY <1>8 DEF CreateWorkspace, ApplyBlocked
    <2>2. GitOK /\ proposal \in Branches /\ inspection \in Inspected /\ inspection.mode # "defaultBranch"
      BY <2>1 DEF WorkInv
    <2>3. GitOK' /\ (workNode' = "created" => Placed' /\ git'.dirty = git.dirty)
      <3>1. CASE Creatable /\ git' = Created
        BY <2>1, <2>2, <3>1, CreatedKeepsGit
      <3>2. CASE UNCHANGED git /\ ~(Creatable /\ git' = Created)
        BY <2>1, <2>2, <3>2 DEF GitOK
      <3>q. QED
        BY <2>1, <3>1, <3>2
    <2>4. WantedOK' /\ Direct(workspace)' /\ Direct(wanted.receipt)'
      BY <2>1 DEF WorkInv, WantedOK, Direct, FreshRequests, RequestsWith
    <2>q. QED
      BY <2>1, <2>3, <2>4 DEF WorkInv, ReadyMeansOwned
  <1>9. CASE ReturnWorkspace
    <2>1. PICK r : r = [mode |-> inspection.mode, base |-> inspection.base,
              revision |-> inspection.revision, work |-> proposal, changes |-> inspection.changes]
      OBVIOUS
    <2>2. /\ UNCHANGED <<git, wanted, inspection, proposal, calm, spent, seen>>
          /\ workspace' = r /\ workNode = "created" /\ workNode' = "ready"
      BY <1>9, <2>1 DEF ReturnWorkspace, Ready, Turn
    <2>3. r \in Receipts /\ r # NoReceipt
      BY <2>1, ReceiptAssumption DEF WorkInv, Inspected, Receipts
    <2>4. /\ r.mode = inspection.mode /\ r.base = inspection.base /\ r.work = proposal
          /\ r.revision = inspection.revision /\ r.changes = inspection.changes
      BY <2>1
    <2>5. /\ proposal # inspection.base /\ inspection.mode \in {"branch", "worktree"}
          /\ calm => Placed /\ inspection.changes = git.dirty
      BY <2>2 DEF WorkInv, Inspected
    <2>6. ReadyMeansOwned'
      <3>1. calm => Checkout(workspace)' = proposal
        BY <2>2, <2>3, <2>4, <2>5 DEF Checkout, Placed
      <3>q. QED
        BY <2>2, <2>4, <2>5, <3>1 DEF ReadyMeansOwned, Placed
    <2>7. GitOK' /\ WantedOK' /\ Direct(workspace)' /\ Direct(wanted.receipt)'
      BY <2>2, <2>4, <2>5 DEF WorkInv, GitOK, WantedOK, Direct, FreshRequests, RequestsWith
    <2>q. QED
      BY <2>2, <2>3, <2>6, <2>7 DEF WorkInv
  <1>10. CASE NextRequest
    <2>1. /\ wanted' \in FreshRequests \cup
               (IF workspace = NoReceipt THEN {} ELSE RequestsWith(workspace))
          /\ workNode' = "inspect" /\ calm' = TRUE
          /\ spent.requests < WorkRequests /\ spent' = [spent EXCEPT !.requests = @ + 1]
          /\ UNCHANGED <<git, seen, inspection, proposal, workspace>>
      BY <1>10 DEF NextRequest
    <2>2. WantedOK' /\ Direct(wanted.receipt)'
      <3>1. CASE wanted' \in FreshRequests
        BY <3>1 DEF WantedOK, Direct, FreshRequests
      <3>2. CASE workspace # NoReceipt /\ wanted' \in RequestsWith(workspace)
        <4>1. wanted'.receipt = workspace /\ workspace \in Receipts
          BY <3>2 DEF RequestsWith, WorkInv
        <4>q. QED
          BY <3>2, <4>1 DEF WantedOK, Direct, RequestsWith, WorkInv
      <3>q. QED
        BY <2>1, <3>1, <3>2
    <2>3. spent' \in [requests : 1..WorkRequests, acts : 0..WorkActs]
      BY <2>1, WorkspaceAssumption DEF WorkInv
    <2>4. GitOK' /\ Direct(workspace)'
      BY <2>1 DEF WorkInv, GitOK, Direct
    <2>q. QED
      BY <2>1, <2>2, <2>3, <2>4 DEF WorkInv, ReadyMeansOwned
  <1>11. CASE WorkCrash
    <2>1. /\ UNCHANGED <<git, wanted, seen, inspection, proposal, workspace, calm>>
          /\ \/ workNode = "reading" /\ workNode' = "inspect"
             \/ workNode \in Creating /\ workNode' = "apply"
          /\ spent.acts < WorkActs /\ spent' = [spent EXCEPT !.acts = @ + 1]
      BY <1>11 DEF WorkCrash
    <2>2. spent' \in [requests : 1..WorkRequests, acts : 0..WorkActs]
      BY <2>1, WorkspaceAssumption DEF WorkInv
    <2>q. QED
      BY <2>1, <2>2, QuietWork DEF WorkInv, ReadyMeansOwned
  <1>12. CASE People
    <2>1. /\ UNCHANGED <<wanted, workNode, seen, inspection, proposal, workspace>> /\ calm' = FALSE
          /\ spent.acts < WorkActs /\ spent' = [spent EXCEPT !.acts = @ + 1]
      BY <1>12 DEF People
    <2>2. spent' \in [requests : 1..WorkRequests, acts : 0..WorkActs]
      BY <2>1, WorkspaceAssumption DEF WorkInv
    <2>3. GitOK'
      BY <1>12, PeopleKeepGit DEF WorkInv
    <2>4. WantedOK' /\ Direct(workspace)' /\ Direct(wanted.receipt)'
      BY <2>1 DEF WorkInv, WantedOK, Direct, FreshRequests, RequestsWith
    <2>q. QED
      BY <2>1, <2>2, <2>3, <2>4 DEF WorkInv, ReadyMeansOwned
  <1>13. CASE UNCHANGED workVars
    <2>1. UNCHANGED <<git, wanted, workNode, seen, inspection, proposal, workspace, calm, spent>>
      BY <1>13 DEF workVars
    <2>2. ReadyMeansOwned' /\ (workNode = "created" /\ calm => Placed')
      BY <2>1 DEF WorkInv, ReadyMeansOwned, Checkout, Placed
    <2>q. QED
      BY <2>1, <2>2, QuietWork DEF WorkInv
  <1>q. QED
    BY <1>1, <1>2, <1>3, <1>4, <1>5, <1>6, <1>7, <1>8, <1>9, <1>10, <1>11, <1>12, <1>13
       DEF WorkNext

-----------------------------------------------------------------------------
(* Included workflows: what a node sees and what its call frame holds *)

FlowNodes == [scope : Scopes, name : Names \cup {"entry", "exit"}]
FlowSteps == [node : FlowNodes, ok : BOOLEAN, value : Nat]
FrameSteps == [name : Locals, ok : BOOLEAN, value : Nat]
CallFrames == [input : Nat, out : [Locals -> Nat], steps : Seq(FrameSteps)]

StepTypes ==
    /\ runSteps \in Seq(FlowSteps) /\ Len(runSteps) <= MaxRunSteps
    /\ \A i \in 1..Len(runSteps) : runSteps[i].value = i

ComTypes ==
    /\ scope \in Scopes /\ StepTypes
    /\ outputs \in [FlowNodes -> Nat] /\ \A m \in FlowNodes : outputs[m] <= Len(runSteps)
    /\ frames \in Seq(CallFrames) /\ Len(frames) = scope + 1

\* An include that the run is in has been entered.
Entered == \A d \in 1..scope : EntryIndex(d) # 0

\* A frame holds the input and the outputs of this invocation; of an include that was
\* entered again, the mount shows the new input until its exit.
FrameShows(d) ==
    /\ frames[d + 1].input = EntryIndex(d)
    /\ \A n \in Names : frames[d + 1].out[n] = ProjectedOutputs(d)[n]
    /\ d = scope => frames[d + 1].out["child"] = ProjectedOutputs(d)["child"]

\* A frame lists the scope's own steps of this invocation by their rank.
FrameLists(d) ==
    /\ Len(frames[d + 1].steps) = Cardinality(LocalSince(d))
    /\ \A k \in 1..Len(frames[d + 1].steps) : \E i \in LocalSince(d) :
         /\ Cardinality({j \in LocalSince(d) : j <= i}) = k
         /\ frames[d + 1].steps[k] = LocalStep(runSteps[i])

\* What a scope has of its own: its nodes, and the exit of the include in it.
Own(d) == {Node(d, n) : n \in Names} \cup {ExitNode(d + 1)}

ComInv == ComTypes /\ Entered /\ \A d \in 0..scope : FrameShows(d) /\ FrameLists(d)

-----------------------------------------------------------------------------
(* Ranks *)

\* Two numbers of one rank are one.
LEMMA RankedIs ==
    ASSUME NEW n \in Nat, NEW S \in SUBSET (1..n), NEW i \in S, NEW k \in Nat,
           Cardinality({j \in S : j <= i}) = k
    PROVE  Ranked(S, k) = i
  <1> DEFINE UpTo(x) == {j \in S : j <= x}
  <1>1. \A x \in S : IsFiniteSet(UpTo(x)) /\ UpTo(x) \in SUBSET (1..n)
    <2>1. IsFiniteSet(1..n)
      BY FS_Interval
    <2>2. ASSUME NEW x \in S PROVE UpTo(x) \in SUBSET (1..n)
      OBVIOUS
    <2> HIDE DEF UpTo
    <2>q. QED
      BY <2>1, <2>2, FS_Subset, Zenon
  <1>2. ASSUME NEW x \in S, NEW y \in S, x < y PROVE Cardinality(UpTo(x)) # Cardinality(UpTo(y))
    <2>0. x \in Nat /\ y \in Nat /\ \A j \in S : j \in Nat
      OBVIOUS
    <2>1. UpTo(x) \in SUBSET UpTo(y) /\ y \in UpTo(y) /\ y \notin UpTo(x)
      <3>1. ASSUME NEW j \in UpTo(x) PROVE j \in S /\ j <= y
        BY <1>2, <2>0
      <3>2. y \in UpTo(y) /\ y \notin UpTo(x)
        BY <1>2, <2>0
      <3>q. QED
        BY <3>1, <3>2
    <2>2. UpTo(x) # UpTo(y) /\ IsFiniteSet(UpTo(y))
      BY <1>1, <2>1
    <2> HIDE DEF UpTo
    <2>q. QED
      BY <2>1, <2>2, FS_Subset
  <1>3. \A x \in S : Cardinality(UpTo(x)) = k => x = i
    <2>1. \A x, y \in S : x = y \/ x < y \/ y < x
      OBVIOUS
    <2>2. Cardinality(UpTo(i)) = k
      OBVIOUS
    <2> HIDE DEF UpTo
    <2>q. QED
      BY <1>2, <2>1, <2>2
  <1>q. QED
    BY <1>3 DEF Ranked

-----------------------------------------------------------------------------
(* The latest step of a node *)

LEMMA LatestOf ==
    ASSUME NEW steps \in Seq(FlowSteps), NEW m,
           NEW latest, latest = LET S == {i \in DOMAIN steps : steps[i].node = m}
                                IN  CHOOSE i \in S \cup {0} : \A j \in S : j <= i
    PROVE  /\ latest \in 0..Len(steps)
           /\ latest # 0 => steps[latest].node = m
           /\ \A j \in 1..Len(steps) : steps[j].node = m => j <= latest
  <1> DEFINE S == {i \in DOMAIN steps : steps[i].node = m}
             Behind == {Len(steps) - i : i \in S \cup {0}}
  <1>0. Len(steps) \in Nat /\ DOMAIN steps = 1..Len(steps)
    OBVIOUS
  <1>1. Behind \subseteq Nat /\ Behind # {}
    BY <1>0
  <1>2. PICK x \in Behind : \A y \in Behind : x <= y
    <2> HIDE DEF Behind
    <2>q. QED
      BY <1>1, LeastNumber
  <1>3. PICK i \in S \cup {0} : x = Len(steps) - i
    OBVIOUS
  <1>4. \A j \in S : j <= i
    <2> SUFFICES ASSUME NEW j \in S PROVE j <= i
      OBVIOUS
    <2>1. Len(steps) - j \in Behind /\ j \in Nat /\ i \in Nat
      BY <1>0
    <2> HIDE DEF Behind, S
    <2>q. QED
      BY <1>0, <1>2, <1>3, <2>1
  <1>5. latest \in S \cup {0} /\ \A j \in S : j <= latest
    <2>1. latest = CHOOSE l \in S \cup {0} : \A j \in S : j <= l
      OBVIOUS
    <2> HIDE DEF S
    <2>q. QED
      BY <1>4, <2>1
  <1>6. latest \in 0..Len(steps) /\ (latest # 0 => steps[latest].node = m)
    <2>1. \A l \in S : l \in 1..Len(steps) /\ steps[l].node = m
      BY <1>0
    <2>2. latest \in S \/ latest = 0
      <3> HIDE DEF S
      <3>q. QED
        BY <1>5
    <2> HIDE DEF S
    <2>3. CASE latest = 0
      <3>1. 0 \in 0..Len(steps)
        BY <1>0
      <3>q. QED
        BY <2>3, <3>1
    <2>4. CASE latest \in S
      <3>1. latest \in 1..Len(steps) /\ steps[latest].node = m
        BY <2>1, <2>4
      <3>q. QED
        BY <1>0, <3>1
    <2>q. QED
      BY <2>2, <2>3, <2>4
  <1>7. ASSUME NEW j \in 1..Len(steps), steps[j].node = m PROVE j <= latest
    <2>1. j \in S
      BY <1>0, <1>7
    <2> HIDE DEF S
    <2>q. QED
      BY <1>5, <2>1
  <1> HIDE DEF S, Behind
  <1>q. QED
    BY <1>6, <1>7

LEMMA LatestIs ==
    ASSUME StepTypes, NEW m
    PROVE  /\ LatestStepIndex(m) \in 0..Len(runSteps)
           /\ LatestStepIndex(m) # 0 => runSteps[LatestStepIndex(m)].node = m
           /\ \A j \in 1..Len(runSteps) : runSteps[j].node = m => j <= LatestStepIndex(m)
  <1>1. runSteps \in Seq(FlowSteps)
    BY DEF StepTypes
  <1>q. QED
    BY <1>1, LatestOf DEF LatestStepIndex

LEMMA LatestUnique ==
    ASSUME StepTypes, NEW m \in FlowNodes, NEW i \in 0..Len(runSteps),
           i # 0 => runSteps[i].node = m,
           \A j \in 1..Len(runSteps) : runSteps[j].node = m => j <= i
    PROVE  LatestStepIndex(m) = i
  <1>1. Len(runSteps) \in Nat
    BY DEF StepTypes
  <1>q. QED
    BY <1>1, LatestIs

\* recordAttempt, as the steps and the outputs see it.
LEMMA Appended ==
    ASSUME ComTypes, NEW nd \in FlowNodes, NEW ok \in BOOLEAN, RecordAttempt(nd, ok)
    PROVE  /\ StepTypes' /\ Len(runSteps') = Len(runSteps) + 1
           /\ runSteps'[Len(runSteps) + 1] = [node |-> nd, ok |-> ok, value |-> Len(runSteps) + 1]
           /\ \A i \in 1..Len(runSteps) : runSteps'[i] = runSteps[i]
           /\ \A m \in FlowNodes :
                LatestStepIndex(m)' = IF m = nd THEN Len(runSteps) + 1 ELSE LatestStepIndex(m)
  <1> DEFINE new == [node |-> nd, ok |-> ok, value |-> Len(runSteps) + 1]
  <1>0. Len(runSteps) \in Nat /\ runSteps \in Seq(FlowSteps) /\ MaxRunSteps \in Nat /\ StepTypes
    BY CompositionAssumption DEF ComTypes, StepTypes
  <1>1. runSteps' = Append(runSteps, new) /\ Len(runSteps) < MaxRunSteps /\ new \in FlowSteps
    BY <1>0 DEF RecordAttempt, Value, FlowSteps
  <1>2. /\ runSteps' \in Seq(FlowSteps) /\ Len(runSteps') = Len(runSteps) + 1
        /\ runSteps'[Len(runSteps) + 1] = new /\ \A i \in 1..Len(runSteps) : runSteps'[i] = runSteps[i]
    <2> HIDE DEF new
    <2>q. QED
      BY <1>0, <1>1
  <1>3. StepTypes'
    <2>1. \A i \in 1..Len(runSteps') : runSteps'[i].value = i
      <3>1. new.value = Len(runSteps) + 1
        OBVIOUS
      <3> HIDE DEF new
      <3>q. QED
        BY <1>0, <1>2, <3>1 DEF StepTypes
    <2>q. QED
      BY <1>0, <1>1, <1>2, <2>1 DEF StepTypes
  <1>4. ASSUME NEW m \in FlowNodes
        PROVE  LatestStepIndex(m)' = IF m = nd THEN Len(runSteps) + 1 ELSE LatestStepIndex(m)
    <2> DEFINE L == LatestStepIndex(m)'
    <2>1. /\ L \in 0..Len(runSteps')
          /\ L # 0 => runSteps'[L].node = m
          /\ \A j \in 1..Len(runSteps') : runSteps'[j].node = m => j <= L
      BY <1>2, LatestOf DEF LatestStepIndex
    <2>2. runSteps'[Len(runSteps) + 1].node = nd
      BY <1>2
    <2> HIDE DEF L, new
    <2>3. CASE m = nd
      BY <1>0, <1>2, <2>1, <2>2, <2>3 DEF L
    <2>4. CASE m # nd
      <3>1. L \in 0..Len(runSteps) /\ (L # 0 => runSteps[L].node = m)
        BY <1>0, <1>2, <2>1, <2>2, <2>4
      <3>2. \A j \in 1..Len(runSteps) : runSteps[j].node = m => j <= L
        BY <1>0, <1>2, <2>1
      <3>3. LatestStepIndex(m) = L
        BY <1>0, <3>1, <3>2, LatestUnique
      <3>q. QED
        BY <2>4, <3>3 DEF L
    <2>q. QED
      BY <2>3, <2>4
  <1>q. QED
    BY <1>2, <1>3, <1>4

LEMMA OutputsAre ==
    ASSUME ComTypes, NEW nd \in FlowNodes, NEW ok \in BOOLEAN, RecordAttempt(nd, ok)
    PROVE  /\ outputs' \in [FlowNodes -> Nat] /\ \A m \in FlowNodes : outputs'[m] <= Len(runSteps) + 1
           /\ nd.name \notin {"entry", "exit"} => outputs'[nd] = IF ok THEN Len(runSteps) + 1 ELSE 0
           /\ nd.name \in {"entry", "exit"} => outputs'[EntryNode(nd.scope)] = Len(runSteps) + 1
           /\ \A m \in FlowNodes : m # nd /\ m # EntryNode(nd.scope) => outputs'[m] = outputs[m]
           /\ nd.name \notin {"entry", "exit"} => outputs'[EntryNode(nd.scope)] = outputs[EntryNode(nd.scope)]
  <1> DEFINE en == EntryNode(nd.scope)  v == Len(runSteps) + 1
  <1>0. /\ Len(runSteps) \in Nat /\ outputs \in [FlowNodes -> Nat] /\ en \in FlowNodes /\ v \in Nat
        /\ \A m \in FlowNodes : outputs[m] <= Len(runSteps)
        /\ nd.name \notin {"entry", "exit"} => nd # en
    BY DEF ComTypes, StepTypes, EntryNode, Node, FlowNodes
  <1>1. outputs' = [outputs EXCEPT ![nd] = IF ok THEN v ELSE 0,
                                   ![en] = IF nd.name \in {"entry", "exit"} THEN v ELSE @]
    BY DEF RecordAttempt, Value
  <1>2. PICK a \in {0, v} : a = IF ok THEN v ELSE 0
    OBVIOUS
  <1> HIDE DEF en
  <1>3. /\ outputs' \in [FlowNodes -> Nat]
        /\ \A m \in FlowNodes : outputs'[m] = IF m = en /\ nd.name \in {"entry", "exit"} THEN v
                                             ELSE IF m = nd THEN a ELSE outputs[m]
    <2>1. (IF ok THEN v ELSE 0) = a
      BY <1>2
    <2>2. outputs' = [outputs EXCEPT ![nd] = a, ![en] = IF nd.name \in {"entry", "exit"} THEN v ELSE @]
      BY <1>1, <2>1
    <2> HIDE DEF v
    <2>3. CASE nd.name \in {"entry", "exit"}
      BY <1>0, <1>2, <2>2, <2>3
    <2>4. CASE nd.name \notin {"entry", "exit"}
      BY <1>0, <1>2, <2>2, <2>4
    <2>q. QED
      BY <2>3, <2>4
  <1>q. QED
    BY <1>0, <1>2, <1>3 DEF en

-----------------------------------------------------------------------------
(* The steps of one invocation *)

LEMMA SinceAre ==
    ASSUME StepTypes, NEW d \in Scopes
    PROVE  /\ EntryIndex(d) \in 0..Len(runSteps) /\ LocalSince(d) \in SUBSET (1..Len(runSteps))
           /\ IsFiniteSet(LocalSince(d)) /\ Cardinality(LocalSince(d)) \in Nat
  <1>1. Len(runSteps) \in Nat
    BY DEF StepTypes
  <1>2. EntryIndex(d) \in 0..Len(runSteps)
    BY <1>1, LatestIs DEF EntryIndex
  <1>3. LocalSince(d) \in SUBSET (1..Len(runSteps))
    BY <1>1, <1>2 DEF LocalSince
  <1>4. IsFiniteSet(1..Len(runSteps))
    BY <1>1, FS_Interval
  <1>5. IsFiniteSet(LocalSince(d))
    BY <1>3, <1>4, FS_Subset, Zenon
  <1>q. QED
    BY <1>2, <1>3, <1>5, FS_CardinalityType

\* A step of a scope's own joins its invocation; only the entry starts another.
LEMMA SinceStep ==
    ASSUME ComTypes, NEW nd \in FlowNodes, NEW ok \in BOOLEAN, RecordAttempt(nd, ok),
           NEW d \in Scopes, d = 0 \/ nd # EntryNode(d)
    PROVE  /\ EntryIndex(d)' = EntryIndex(d)
           /\ LocalSince(d)' = LocalSince(d) \cup (IF nd \in Own(d) THEN {Len(runSteps) + 1} ELSE {})
  <1>0. StepTypes /\ Len(runSteps) \in Nat
    BY DEF ComTypes, StepTypes
  <1>1. EntryIndex(d)' = EntryIndex(d)
    <2>1. CASE d = 0
      BY <2>1 DEF EntryIndex
    <2>2. CASE d # 0 /\ nd # EntryNode(d)
      <3>1. EntryNode(d) \in FlowNodes
        BY DEF EntryNode, Node, FlowNodes
      <3>2. LatestStepIndex(EntryNode(d))' = LatestStepIndex(EntryNode(d))
        BY <2>2, <3>1, Appended
      <3>q. QED
        BY <2>2, <3>2 DEF EntryIndex
    <2>q. QED
      BY <2>1, <2>2
  <1>2. EntryIndex(d) \in 0..Len(runSteps)
    BY <1>0, SinceAre
  <1>3. LocalSince(d)' = {i \in EntryIndex(d) + 1..Len(runSteps) + 1 : runSteps'[i].node \in Own(d)}
    BY <1>1, Appended DEF LocalSince, IsLocalStep, Own
  <1>4. LocalSince(d) = {i \in EntryIndex(d) + 1..Len(runSteps) : runSteps[i].node \in Own(d)}
    BY DEF LocalSince, IsLocalStep, Own
  <1>5. /\ runSteps'[Len(runSteps) + 1].node = nd
        /\ \A i \in 1..Len(runSteps) : runSteps'[i] = runSteps[i]
    <2>1. runSteps'[Len(runSteps) + 1] = [node |-> nd, ok |-> ok, value |-> Len(runSteps) + 1]
      BY Appended
    <2>2. \A i \in 1..Len(runSteps) : runSteps'[i] = runSteps[i]
      BY Appended
    <2>q. QED
      BY <2>1, <2>2
  <1>6. LocalSince(d)' = LocalSince(d) \cup (IF nd \in Own(d) THEN {Len(runSteps) + 1} ELSE {})
    <2>1. ASSUME NEW i
          PROVE  i \in LocalSince(d)' <=> i \in LocalSince(d) \/ (nd \in Own(d) /\ i = Len(runSteps) + 1)
      <3>1. CASE i = Len(runSteps) + 1
        BY <1>0, <1>2, <1>3, <1>4, <1>5, <3>1
      <3>2. CASE i # Len(runSteps) + 1
        BY <1>0, <1>2, <1>3, <1>4, <1>5, <3>2
      <3>q. QED
        BY <3>1, <3>2
    <2>q. QED
      BY <2>1
  <1>q. QED
    BY <1>1, <1>6

-----------------------------------------------------------------------------
(* A frame under recordAttempt *)

LEMMA ListKept ==
    ASSUME ComTypes, NEW nd \in FlowNodes, NEW ok \in BOOLEAN, RecordAttempt(nd, ok),
           NEW d \in Scopes, d = 0 \/ nd # EntryNode(d), nd \notin Own(d),
           FrameLists(d), frames'[d + 1] = frames[d + 1]
    PROVE  FrameLists(d)'
  <1>0. StepTypes
    BY DEF ComTypes
  <1>1. LocalSince(d)' = LocalSince(d)
    BY SinceStep
  <1>2. \A i \in LocalSince(d) : runSteps'[i] = runSteps[i]
    BY <1>0, Appended, SinceAre
  <1>3. \A i \in LocalSince(d) : LocalStep(runSteps'[i]) = LocalStep(runSteps[i])
    BY <1>2
  <1>4. FrameLists(d)' <=>
          /\ Len(frames[d + 1].steps) = Cardinality(LocalSince(d))
          /\ \A k \in 1..Len(frames[d + 1].steps) : \E i \in LocalSince(d) :
               /\ Cardinality({j \in LocalSince(d) : j <= i}) = k
               /\ frames[d + 1].steps[k] = LocalStep(runSteps'[i])
    BY <1>1 DEF FrameLists
  <1>q. QED
    BY <1>3, <1>4 DEF FrameLists

LEMMA ListGrows ==
    ASSUME ComTypes, NEW nd \in FlowNodes, NEW ok \in BOOLEAN, RecordAttempt(nd, ok),
           NEW d \in Scopes, d = 0 \/ nd # EntryNode(d), nd \in Own(d),
           FrameLists(d), frames[d + 1].steps \in Seq(FrameSteps),
           frames'[d + 1].steps = Append(frames[d + 1].steps, LocalStep(runSteps'[Len(runSteps) + 1]))
    PROVE  FrameLists(d)'
  <1> DEFINE L == Len(runSteps) + 1  S == LocalSince(d)  T == S \cup {L}  s == frames[d + 1].steps
             t == frames'[d + 1].steps  new == LocalStep(runSteps'[L])
  <1>0. StepTypes /\ Len(runSteps) \in Nat
    BY DEF ComTypes, StepTypes
  <1>1. LocalSince(d)' = T
    BY SinceStep
  <1>2. S \in SUBSET (1..Len(runSteps)) /\ IsFiniteSet(S) /\ Cardinality(S) \in Nat
    BY <1>0, SinceAre
  <1>3. Cardinality(T) = Cardinality(S) + 1
    <2>1. L \notin S
      BY <1>0, <1>2
    <2> HIDE DEF L, S
    <2>q. QED
      BY <1>2, <2>1, FS_AddElement
  <1>4. \A i \in S : runSteps'[i] = runSteps[i]
    BY <1>2, Appended
  <1>5. /\ Len(s) = Cardinality(S)
        /\ \A k \in 1..Len(s) : \E i \in S : /\ Cardinality({j \in S : j <= i}) = k
                                             /\ s[k] = LocalStep(runSteps[i])
    BY DEF FrameLists
  <1>6. Len(t) = Cardinality(S) + 1 /\ t[Len(s) + 1] = new /\ \A k \in 1..Len(s) : t[k] = s[k]
    <2>1. t = Append(s, new) /\ s \in Seq(FrameSteps) /\ Len(s) \in Nat
      OBVIOUS
    <2> HIDE DEF s, t, new
    <2>q. QED
      BY <1>5, <2>1
  <1>7. \A i \in S : {j \in T : j <= i} = {j \in S : j <= i}
    BY <1>0, <1>2
  <1>8. {j \in T : j <= L} = T
    BY <1>0, <1>2
  <1>9. \A k \in 1..Len(t) : \E i \in T : /\ Cardinality({j \in T : j <= i}) = k
                                           /\ t[k] = LocalStep(runSteps'[i])
    <2> SUFFICES ASSUME NEW k \in 1..Len(t)
                 PROVE  \E i \in T : /\ Cardinality({j \in T : j <= i}) = k
                                      /\ t[k] = LocalStep(runSteps'[i])
      OBVIOUS
    <2>1. CASE k = Cardinality(S) + 1
      <3>1. L \in T /\ Cardinality({j \in T : j <= L}) = k
        BY <1>3, <1>8, <2>1
      <3>2. t[k] = LocalStep(runSteps'[L])
        BY <1>5, <1>6, <2>1
      <3> HIDE DEF T, t, L
      <3>q. QED
        BY <3>1, <3>2
    <2>2. CASE k # Cardinality(S) + 1
      <3>1. k \in 1..Len(s)
        <4> HIDE DEF S, s, t
        <4>q. QED
          BY <1>2, <1>5, <1>6, <2>2
      <3>2. PICK i \in S : Cardinality({j \in S : j <= i}) = k /\ s[k] = LocalStep(runSteps[i])
        BY <1>5, <3>1
      <3>3. t[k] = LocalStep(runSteps'[i])
        BY <1>4, <1>6, <3>1, <3>2
      <3>4. i \in T /\ Cardinality({j \in T : j <= i}) = k
        BY <1>7, <3>2
      <3> HIDE DEF S, T, s, t, L
      <3>q. QED
        BY <3>3, <3>4
    <2>q. QED
      BY <2>1, <2>2
  <1> HIDE DEF S, T, s
  <1>q. QED
    BY <1>1, <1>3, <1>6, <1>9 DEF FrameLists

\* A step of one node changes no output of another.
LEMMA ShowOne ==
    ASSUME ComTypes, NEW nd \in FlowNodes, NEW ok \in BOOLEAN, RecordAttempt(nd, ok),
           NEW d \in Scopes, d = 0 \/ nd # EntryNode(d), NEW n \in Names, nd # Node(d, n)
    PROVE  ProjectedOutputs(d)'[n] = ProjectedOutputs(d)[n]
  <1>1. EntryIndex(d)' = EntryIndex(d)
    BY SinceStep
  <1>2. /\ Node(d, n) \in FlowNodes /\ Node(d, n) # nd /\ Node(d, n) # EntryNode(nd.scope)
        /\ n # "child" /\ n \in Locals
    BY CompositionAssumption DEF Node, EntryNode, FlowNodes, Locals
  <1>3. LatestStepIndex(Node(d, n))' = LatestStepIndex(Node(d, n))
    BY <1>2, Appended
  <1>4. outputs'[Node(d, n)] = outputs[Node(d, n)]
    BY <1>2, OutputsAre
  <1>5. Shown(d, Node(d, n))' <=> Shown(d, Node(d, n))
    BY <1>1, <1>3, <1>4 DEF Shown
  <1>q. QED
    BY <1>2, <1>4, <1>5 DEF ProjectedOutputs

\* A suspended scope is shown what it was shown.
LEMMA ShowKept ==
    ASSUME ComTypes, NEW nd \in FlowNodes, NEW ok \in BOOLEAN, RecordAttempt(nd, ok),
           NEW d \in Scopes, d = 0 \/ nd # EntryNode(d), nd \notin Own(d), d # scope',
           FrameShows(d), frames'[d + 1] = frames[d + 1]
    PROVE  FrameShows(d)'
  <1>1. EntryIndex(d)' = EntryIndex(d)
    BY SinceStep
  <1>2. ASSUME NEW n \in Names
        PROVE  frames'[d + 1].out[n] = ProjectedOutputs(d)'[n]
    <2>1. nd # Node(d, n)
      BY DEF Own
    <2>2. ProjectedOutputs(d)'[n] = ProjectedOutputs(d)[n]
      BY <2>1, ShowOne
    <2>q. QED
      BY <2>2 DEF FrameShows
  <1>q. QED
    BY <1>1, <1>2 DEF FrameShows

LEMMA FrameIs ==
    ASSUME ComTypes, NEW d \in 0..scope
    PROVE  /\ frames[d + 1] \in CallFrames /\ d + 1 \in 1..Len(frames) /\ d \in Scopes
           /\ frames[d + 1].out \in [Locals -> Nat] /\ frames[d + 1].steps \in Seq(FrameSteps)
  <1>1. scope \in Nat /\ d \in Scopes
    BY CompositionAssumption DEF ComTypes, Scopes
  <1>2. d + 1 \in 1..Len(frames) /\ frames \in Seq(CallFrames)
    BY <1>1 DEF ComTypes
  <1>3. frames[d + 1] \in CallFrames
    <2> HIDE DEF CallFrames
    <2>q. QED
      BY <1>2
  <1>q. QED
    BY <1>1, <1>2, <1>3 DEF CallFrames

-----------------------------------------------------------------------------
(* The steps of the run *)

LEMMA ComRunNode ==
    ASSUME ComInv, NEW n \in Names, RunNode(n)
    PROVE  ComInv'
  <1>1. ComTypes /\ Entered /\ \A d \in 0..scope : FrameShows(d) /\ FrameLists(d)
    BY DEF ComInv
  <1>2. PICK s \in Scopes : s = scope
    BY <1>1 DEF ComTypes
  <1>3. PICK ok \in BOOLEAN : /\ RecordAttempt(Node(s, n), ok)
                             /\ frames' = [frames EXCEPT ![s + 1] = Local(n, ok, Value)]
    BY <1>2 DEF RunNode
  <1> DEFINE nd == Node(s, n)  L == Len(runSteps) + 1
  <1>4. scope' = s /\ s \in Nat /\ Depth \in Nat /\ \A d \in 0..s : d \in Scopes /\ d \in Nat
    BY <1>2, CompositionAssumption DEF RunNode, Scopes
  <1>5. /\ nd \in FlowNodes /\ nd.scope = s /\ nd.name = n /\ n \in Locals /\ n # "child"
        /\ n \notin {"entry", "exit"} /\ \A d \in Scopes : nd # EntryNode(d)
    BY CompositionAssumption DEF FlowNodes, Node, EntryNode, Locals
  <1>6. RecordAttempt(nd, ok)
    BY <1>3
  <1>7. Len(runSteps) \in Nat /\ StepTypes' /\ Len(runSteps') = L
    <2>1. Len(runSteps) \in Nat
      BY <1>1 DEF ComTypes, StepTypes
    <2> HIDE DEF nd
    <2>q. QED
      BY <1>1, <1>5, <1>6, <2>1, Appended
  <1>8. /\ frames \in Seq(CallFrames) /\ Len(frames) = s + 1 /\ frames[s + 1] \in CallFrames
        /\ frames[s + 1].out \in [Locals -> Nat] /\ frames[s + 1].steps \in Seq(FrameSteps)
    BY <1>1, <1>2, <1>4, FrameIs DEF ComTypes
  <1> DEFINE f == frames[s + 1]  new == [name |-> n, ok |-> ok, value |-> L]
             g == [f EXCEPT !.out[n] = IF ok THEN L ELSE 0, !.steps = Append(@, new)]
  <1>9. frames' = [frames EXCEPT ![s + 1] = g]
    BY <1>2, <1>3 DEF Local, Value
  <1>10. /\ g.input = f.input /\ g.out = [f.out EXCEPT ![n] = IF ok THEN L ELSE 0]
         /\ g.steps = Append(f.steps, new) /\ g \in CallFrames
    <2>1. f \in [input : Nat, out : [Locals -> Nat], steps : Seq(FrameSteps)]
      BY <1>8 DEF CallFrames
    <2>2. new \in FrameSteps
      BY <1>5, <1>7 DEF FrameSteps
    <2>v. PICK v \in Nat : v = IF ok THEN L ELSE 0
      BY <1>7
    <2> HIDE DEF f, new
    <2>3. Append(f.steps, new) \in Seq(FrameSteps) /\ [f.out EXCEPT ![n] = v] \in [Locals -> Nat]
      <3>1. f.steps \in Seq(FrameSteps) /\ f.out \in [Locals -> Nat]
        BY <2>1
      <3>2. Append(f.steps, new) \in Seq(FrameSteps)
        BY <2>2, <3>1
      <3>3. [f.out EXCEPT ![n] = v] \in [Locals -> Nat]
        BY <3>1, Zenon
      <3>q. QED
        BY <3>2, <3>3
    <2>4. g = [f EXCEPT !.out[n] = v, !.steps = Append(@, new)]
      BY <2>v
    <2>5. g.input = f.input /\ g.out = [f.out EXCEPT ![n] = v] /\ g.steps = Append(f.steps, new) /\ g \in CallFrames
      <3> HIDE DEF g
      <3>q. QED
        BY <2>1, <2>3, <2>4 DEF CallFrames
    <2> HIDE DEF g
    <2>q. QED
      BY <2>v, <2>5
  <1> HIDE DEF nd, f, g, L, new
  <1>11. ComTypes'
    <2>1. frames' \in Seq(CallFrames) /\ Len(frames') = s + 1
      <3> HIDE DEF CallFrames
      <3>q. QED
        BY <1>4, <1>8, <1>9, <1>10
    <2>2. outputs' \in [FlowNodes -> Nat] /\ \A m \in FlowNodes : outputs'[m] <= Len(runSteps')
      BY <1>1, <1>5, <1>6, <1>7, OutputsAre DEF L
    <2>q. QED
      BY <1>2, <1>4, <1>7, <2>1, <2>2 DEF ComTypes
  <1>12. Entered'
    <2>1. \A d \in 1..s : EntryIndex(d)' = EntryIndex(d)
      BY <1>1, <1>4, <1>5, <1>6, SinceStep
    <2>q. QED
      BY <1>1, <1>2, <1>4, <2>1 DEF Entered
  <1>13. ASSUME NEW d \in 0..s, d # s
         PROVE  FrameShows(d)' /\ FrameLists(d)'
    <2>1. nd \notin Own(d)
      BY <1>5, <1>13 DEF nd, Own, Node, ExitNode
    <2>2. frames'[d + 1] = frames[d + 1]
      BY <1>4, <1>8, <1>9, <1>13
    <2>3. d \in Scopes /\ nd # EntryNode(d) /\ d # scope' /\ FrameShows(d) /\ FrameLists(d)
      BY <1>1, <1>2, <1>4, <1>5, <1>13
    <2>q. QED
      BY <1>1, <1>5, <1>6, <2>1, <2>2, <2>3, ShowKept, ListKept
  <1>14. frames'[s + 1] = g
    BY <1>4, <1>8, <1>9
  <1>15. FrameLists(s)'
    <2>1. nd \in Own(s)
      BY DEF nd, Own
    <2>2. frames'[s + 1].steps = Append(frames[s + 1].steps, LocalStep(runSteps'[Len(runSteps) + 1]))
      <3>1. runSteps'[Len(runSteps) + 1] = [node |-> nd, ok |-> ok, value |-> L]
        BY <1>1, <1>5, <1>6, Appended DEF L
      <3>2. LocalStep(runSteps'[Len(runSteps) + 1]) = new
        BY <1>5, <3>1 DEF LocalStep, new
      <3>q. QED
        BY <1>10, <1>14, <3>2 DEF f
    <2>3. FrameLists(s) /\ nd # EntryNode(s)
      BY <1>1, <1>2, <1>4, <1>5
    <2>q. QED
      BY <1>1, <1>5, <1>6, <1>8, <2>1, <2>2, <2>3, ListGrows
  <1>16. FrameShows(s)'
    <2>0. FrameShows(s) /\ EntryIndex(s)' = EntryIndex(s) /\ EntryIndex(s) <= Len(runSteps) /\ EntryIndex(s) \in Nat
      BY <1>1, <1>2, <1>4, <1>5, <1>6, SinceStep, SinceAre DEF ComTypes
    <2>1. frames'[s + 1].input = EntryIndex(s)'
      BY <1>10, <1>14, <2>0 DEF FrameShows, f
    <2>2. ASSUME NEW m \in Names PROVE frames'[s + 1].out[m] = ProjectedOutputs(s)'[m]
      <3>0. m \in Locals /\ m # "child"
        BY CompositionAssumption DEF Locals
      <3>1. CASE m = n
        <4>1. frames'[s + 1].out[m] = IF ok THEN L ELSE 0
          BY <1>5, <1>8, <1>10, <1>14, <3>1 DEF f
        <4>2. outputs'[nd] = IF ok THEN L ELSE 0
          BY <1>1, <1>5, <1>6, OutputsAre DEF L
        <4>3. LatestStepIndex(nd)' = L
          BY <1>1, <1>5, <1>6, Appended DEF L
        <4>4. L > EntryIndex(s)
          BY <1>7, <2>0 DEF L
        <4>5. ProjectedOutputs(s)'[m] = IF LatestStepIndex(nd)' > EntryIndex(s)' /\ outputs'[nd] # 0
                                        THEN outputs'[nd] ELSE 0
          BY <3>0, <3>1 DEF ProjectedOutputs, Shown, nd
        <4>q. QED
          BY <2>0, <4>1, <4>2, <4>3, <4>4, <4>5
      <3>2. CASE m # n
        <4>1. nd # Node(s, m)
          BY <3>2 DEF nd, Node
        <4>2. ProjectedOutputs(s)'[m] = ProjectedOutputs(s)[m]
          BY <1>1, <1>5, <1>6, <4>1, ShowOne
        <4>3. frames'[s + 1].out[m] = frames[s + 1].out[m]
          BY <1>5, <1>8, <1>10, <1>14, <3>0, <3>2 DEF f
        <4>q. QED
          BY <2>0, <4>2, <4>3 DEF FrameShows
      <3>q. QED
        BY <3>1, <3>2
    <2>3. frames'[s + 1].out["child"] = ProjectedOutputs(s)'["child"]
      <3>1. frames'[s + 1].out["child"] = frames[s + 1].out["child"]
        BY <1>5, <1>8, <1>10, <1>14 DEF f, Locals
      <3>2. frames[s + 1].out["child"] = ProjectedOutputs(s)["child"]
        BY <1>2, <2>0 DEF FrameShows
      <3>3. /\ ProjectedOutputs(s)["child"] = IF s < Depth /\ LatestStepIndex(ExitNode(s + 1)) > EntryIndex(s)
                                              THEN outputs[EntryNode(s + 1)] ELSE 0
            /\ ProjectedOutputs(s)'["child"] = IF s < Depth /\ LatestStepIndex(ExitNode(s + 1))' > EntryIndex(s)'
                                               THEN outputs'[EntryNode(s + 1)] ELSE 0
        BY DEF ProjectedOutputs, Locals
      <3>4. CASE s < Depth
        <4>1. /\ ExitNode(s + 1) \in FlowNodes /\ EntryNode(s + 1) \in FlowNodes
              /\ ExitNode(s + 1) # nd /\ EntryNode(s + 1) # nd /\ EntryNode(s + 1) # EntryNode(nd.scope)
          BY <1>4, <1>5, <3>4, CompositionAssumption DEF ExitNode, EntryNode, Node, FlowNodes, Scopes
        <4>2. LatestStepIndex(ExitNode(s + 1))' = LatestStepIndex(ExitNode(s + 1))
          BY <1>1, <1>5, <1>6, <4>1, Appended
        <4>3. outputs'[EntryNode(s + 1)] = outputs[EntryNode(s + 1)]
          BY <1>1, <1>5, <1>6, <4>1, OutputsAre
        <4>q. QED
          BY <2>0, <3>1, <3>2, <3>3, <4>2, <4>3
      <3>5. CASE ~(s < Depth)
        BY <3>1, <3>2, <3>3, <3>5
      <3>q. QED
        BY <3>4, <3>5
    <2>q. QED
      BY <2>1, <2>2, <2>3 DEF FrameShows
  <1>q. QED
    BY <1>4, <1>11, <1>12, <1>13, <1>15, <1>16 DEF ComInv

LEMMA ComEnterInclude ==
    ASSUME ComInv, EnterInclude
    PROVE  ComInv'
  <1>1. ComTypes /\ Entered /\ \A d \in 0..scope : FrameShows(d) /\ FrameLists(d)
    BY DEF ComInv
  <1>2. PICK s \in Scopes : s = scope
    BY <1>1 DEF ComTypes
  <1> DEFINE t == s + 1  nd == EntryNode(t)  L == Len(runSteps) + 1
  <1>3. /\ s < Depth /\ scope' = t /\ s \in Nat /\ Depth \in Nat /\ t \in Scopes
        /\ \A d \in 0..t : d \in Scopes /\ d \in Nat
    BY <1>2, CompositionAssumption DEF EnterInclude, Scopes
  <1>4. PICK ok \in BOOLEAN : RecordAttempt(nd, ok) /\ frames' = Append(frames, EmptyFrame(L))
    BY <1>2, <1>3 DEF EnterInclude, Value
  <1>5. /\ nd \in FlowNodes /\ nd.scope = t /\ nd.name = "entry"
        /\ \A d \in 0..s : nd # EntryNode(d) /\ nd \notin Own(d)
    <2>1. nd \in FlowNodes /\ nd.scope = t /\ nd.name = "entry"
      BY <1>3 DEF FlowNodes, Node, EntryNode
    <2>2. \A d \in 0..s : EntryNode(d).scope # t
      BY <1>3 DEF Node, EntryNode
    <2>3. \A d \in 0..s, n \in Names : Node(d, n).scope # t
      BY <1>3 DEF Node
    <2>4. \A d \in 0..s : ExitNode(d + 1).name # "entry"
      BY DEF Node, ExitNode
    <2> HIDE DEF nd
    <2>q. QED
      BY <2>1, <2>2, <2>3, <2>4 DEF Own
  <1>6. Len(runSteps) \in Nat /\ StepTypes' /\ Len(runSteps') = L
    <2>1. Len(runSteps) \in Nat
      BY <1>1 DEF ComTypes, StepTypes
    <2> HIDE DEF nd
    <2>q. QED
      BY <1>1, <1>4, <1>5, <2>1, Appended
  <1>7. /\ frames \in Seq(CallFrames) /\ Len(frames) = s + 1 /\ EmptyFrame(L) \in CallFrames
    BY <1>1, <1>2, <1>6 DEF ComTypes, EmptyFrame, CallFrames
  <1> HIDE DEF nd, L
  <1>8. /\ frames' \in Seq(CallFrames) /\ Len(frames') = t + 1 /\ frames'[t + 1] = EmptyFrame(L)
        /\ \A d \in 0..s : frames'[d + 1] = frames[d + 1]
    <2> HIDE DEF CallFrames
    <2>q. QED
      BY <1>3, <1>4, <1>7
  <1>9. ComTypes'
    <2>1. outputs' \in [FlowNodes -> Nat] /\ \A m \in FlowNodes : outputs'[m] <= Len(runSteps')
      BY <1>1, <1>4, <1>5, <1>6, OutputsAre DEF L
    <2>q. QED
      BY <1>3, <1>6, <1>8, <2>1 DEF ComTypes
  <1>10. EntryIndex(t)' = L
    <2>1. LatestStepIndex(EntryNode(t))' = L
      BY <1>1, <1>4, <1>5, Appended DEF L, nd
    <2>q. QED
      BY <1>3, <2>1 DEF EntryIndex
  <1>11. Entered'
    <2>1. ASSUME NEW d \in 1..s PROVE EntryIndex(d)' = EntryIndex(d)
      <3>1. d \in Scopes /\ nd # EntryNode(d)
        BY <1>3, <1>5
      <3>q. QED
        BY <1>1, <1>4, <1>5, <3>1, SinceStep
    <2>2. L # 0
      BY <1>6 DEF L
    <2>q. QED
      BY <1>1, <1>2, <1>3, <1>10, <2>1, <2>2 DEF Entered
  <1>12. ASSUME NEW d \in 0..s
         PROVE  FrameShows(d)' /\ FrameLists(d)'
    <2>1. d \in Scopes /\ d # scope' /\ FrameShows(d) /\ FrameLists(d)
      BY <1>1, <1>2, <1>3
    <2>q. QED
      BY <1>1, <1>4, <1>5, <1>8, <2>1, ShowKept, ListKept
  <1>13. FrameLists(t)'
    <2>1. LocalSince(t)' = {}
      BY <1>6, <1>10 DEF LocalSince, L
    <2>2. Cardinality({}) = 0 /\ Len(<<>>) = 0
      BY FS_EmptySet
    <2>3. frames'[t + 1].steps = <<>>
      BY <1>8 DEF EmptyFrame
    <2>4. Len(frames'[t + 1].steps) = Cardinality(LocalSince(t)') /\ 1..Len(frames'[t + 1].steps) = {}
      <3>1. Len(<<>>) = 0 /\ 1..0 = {}
        OBVIOUS
      <3>2. Len(frames'[t + 1].steps) = 0
        BY <2>3, <3>1, Zenon
      <3>3. Cardinality(LocalSince(t)') = 0
        BY <2>1, <2>2, Zenon
      <3>q. QED
        BY <3>1, <3>2, <3>3
    <2>q. QED
      BY <2>4 DEF FrameLists
  <1>14. FrameShows(t)'
    <2>1. frames'[t + 1].input = L /\ \A m \in Locals : frames'[t + 1].out[m] = 0
      BY <1>8 DEF EmptyFrame
    <2>2. ASSUME NEW m \in FlowNodes, m # nd PROVE ~(LatestStepIndex(m)' > EntryIndex(t)')
      <3>1. LatestStepIndex(m)' = LatestStepIndex(m)
        BY <1>1, <1>4, <1>5, <2>2, Appended
      <3>2. LatestStepIndex(m) \in 0..Len(runSteps)
        BY <1>1, LatestIs DEF ComTypes
      <3>q. QED
        BY <1>6, <1>10, <3>1, <3>2 DEF L
    <2>3. ASSUME NEW n \in Names PROVE ProjectedOutputs(t)'[n] = 0
      <3>1. Node(t, n) \in FlowNodes /\ Node(t, n) # nd /\ n # "child" /\ n \in Locals
        BY <1>3, CompositionAssumption DEF Node, nd, EntryNode, FlowNodes, Locals
      <3>2. ~Shown(t, Node(t, n))'
        BY <2>2, <3>1 DEF Shown
      <3>q. QED
        BY <3>1, <3>2 DEF ProjectedOutputs
    <2>4. ProjectedOutputs(t)'["child"] = 0
      <3>1. t < Depth => ExitNode(t + 1) \in FlowNodes /\ ExitNode(t + 1) # nd
        BY <1>3 DEF ExitNode, Node, nd, EntryNode, FlowNodes, Scopes
      <3>2. ~(t < Depth /\ LatestStepIndex(ExitNode(t + 1))' > EntryIndex(t)')
        BY <2>2, <3>1
      <3>q. QED
        BY <3>2 DEF ProjectedOutputs, Locals
    <2>5. \A n \in Names : n \in Locals
      BY DEF Locals
    <2>6. "child" \in Locals
      BY DEF Locals
    <2>q. QED
      BY <1>10, <2>1, <2>3, <2>4, <2>5, <2>6 DEF FrameShows
  <1>q. QED
    <2>1. \A d \in 0..t : d \in 0..s \/ d = t
      BY <1>3
    <2>q. QED
      BY <1>3, <1>9, <1>11, <1>12, <1>13, <1>14, <2>1 DEF ComInv

LEMMA ComExitInclude ==
    ASSUME ComInv, ExitInclude
    PROVE  ComInv'
  <1>1. ComTypes /\ Entered /\ \A d \in 0..scope : FrameShows(d) /\ FrameLists(d)
    BY DEF ComInv
  <1>2. PICK t \in Scopes : t = scope
    BY <1>1 DEF ComTypes
  <1>0. t > 0 /\ scope' = t - 1 /\ t \in Nat /\ Depth \in Nat /\ t <= Depth
    <2>1. scope > 0 /\ scope' = scope - 1
      BY DEF ExitInclude
    <2>2. t \in Nat /\ Depth \in Nat /\ t <= Depth
      BY CompositionAssumption DEF Scopes
    <2>q. QED
      BY <1>2, <2>1, <2>2
  <1>p. PICK s \in Nat : s = t - 1
    BY <1>0
  <1>a. PICK ok \in BOOLEAN : ok = TRUE
    OBVIOUS
  <1> DEFINE nd == ExitNode(t)  L == Len(runSteps) + 1
             new == [name |-> "child", ok |-> ok, value |-> L]
  <1>3. /\ t > 0 /\ scope' = s /\ s \in Nat /\ t \in Nat /\ Depth \in Nat /\ t <= Depth /\ s + 1 = t
        /\ \A d \in 0..t : d \in Scopes /\ d \in Nat
    BY <1>0, <1>p DEF Scopes
  <1>4. RecordAttempt(nd, ok)
    BY <1>2, <1>a DEF ExitInclude
  <1>5. /\ nd \in FlowNodes /\ nd.scope = t /\ nd.name = "exit" /\ \A d \in Scopes : nd # EntryNode(d)
        /\ \A d \in 0..s : d # s => nd \notin Own(d)
    <2>1. nd \in FlowNodes /\ nd.scope = t /\ nd.name = "exit"
      BY <1>3 DEF FlowNodes, Node, ExitNode
    <2>2. \A d \in Scopes : EntryNode(d).name # "exit"
      BY DEF Node, EntryNode
    <2>3. \A d \in 0..s : d # s => ExitNode(d + 1).scope # t /\ \A n \in Names : Node(d, n).scope # t
      BY <1>3 DEF Node, ExitNode
    <2> HIDE DEF nd
    <2>q. QED
      BY <2>1, <2>2, <2>3 DEF Own
  <1>6. Len(runSteps) \in Nat /\ StepTypes' /\ Len(runSteps') = L
    <2>1. Len(runSteps) \in Nat
      BY <1>1 DEF ComTypes, StepTypes
    <2> HIDE DEF nd
    <2>q. QED
      BY <1>1, <1>4, <1>5, <2>1, Appended
  <1>7. /\ frames \in Seq(CallFrames) /\ Len(frames) = t + 1 /\ frames[t] \in CallFrames
        /\ frames[t].out \in [Locals -> Nat] /\ frames[t].steps \in Seq(FrameSteps)
    <2>1. s \in 0..scope
      BY <1>2, <1>3
    <2>q. QED
      BY <1>1, <1>2, <1>3, <2>1, FrameIs DEF ComTypes
  <1> DEFINE f == frames[t]
             g == [f EXCEPT !.out["child"] = L, !.steps = Append(@, new)]
  <1>8. frames' = [d \in 1..t |-> IF d < t THEN frames[d] ELSE [frames[d] EXCEPT !.out["child"] = L, !.steps = Append(@, new)]]
    BY <1>2, <1>a DEF ExitInclude, Value
  <1>9. frames'[t] = g /\ \A d \in 1..t : d < t => frames'[d] = frames[d]
    <2>1. t \in 1..t /\ ~(t < t)
      BY <1>3
    <2> HIDE DEF new, L
    <2>q. QED
      BY <1>8, <2>1
  <1>10. /\ g.input = f.input /\ g.out = [f.out EXCEPT !["child"] = L]
         /\ g.steps = Append(f.steps, new) /\ g \in CallFrames
    <2>1. f \in [input : Nat, out : [Locals -> Nat], steps : Seq(FrameSteps)]
      BY <1>7 DEF CallFrames
    <2>2. new \in FrameSteps /\ L \in Nat
      BY <1>6 DEF FrameSteps, Locals
    <2> HIDE DEF f, new, L
    <2>3. Append(f.steps, new) \in Seq(FrameSteps) /\ [f.out EXCEPT !["child"] = L] \in [Locals -> Nat]
      <3>1. f.steps \in Seq(FrameSteps) /\ f.out \in [Locals -> Nat]
        BY <2>1
      <3>2. Append(f.steps, new) \in Seq(FrameSteps)
        BY <2>2, <3>1
      <3>3. [f.out EXCEPT !["child"] = L] \in [Locals -> Nat]
        BY <2>2, <3>1, Zenon
      <3>q. QED
        BY <3>2, <3>3
    <2>q. QED
      BY <2>1, <2>3 DEF CallFrames
  <1> HIDE DEF nd, f, g, L, new
  <1>11. ComTypes'
    <2>1. frames' \in Seq(CallFrames) /\ Len(frames') = t
      <3>1. \A d \in 1..t : frames'[d] \in CallFrames
        <4>1. \A d \in 1..t : frames[d] \in CallFrames /\ (d = t \/ d < t)
          <5> HIDE DEF CallFrames
          <5>q. QED
            BY <1>3, <1>7
        <4>q. QED
          BY <1>9, <1>10, <4>1
      <3>2. DOMAIN frames' = 1..t /\ frames' = [d \in 1..t |-> frames'[d]]
        BY <1>8
      <3> HIDE DEF CallFrames
      <3>q. QED
        BY <1>3, <3>1, <3>2
    <2>2. outputs' \in [FlowNodes -> Nat] /\ \A m \in FlowNodes : outputs'[m] <= Len(runSteps')
      BY <1>1, <1>4, <1>5, <1>6, OutputsAre DEF L
    <2>3. s \in Scopes
      BY <1>3
    <2>q. QED
      BY <1>3, <1>6, <2>1, <2>2, <2>3 DEF ComTypes
  <1>12. Entered'
    <2>1. ASSUME NEW d \in 1..t PROVE EntryIndex(d)' = EntryIndex(d)
      <3>1. d \in Scopes /\ nd # EntryNode(d)
        BY <1>3, <1>5
      <3>q. QED
        BY <1>1, <1>4, <1>5, <3>1, SinceStep
    <2>2. 1..s \in SUBSET (1..t)
      BY <1>3
    <2>q. QED
      BY <1>1, <1>2, <1>3, <2>1, <2>2 DEF Entered
  <1>13. ASSUME NEW d \in 0..s, d # s
         PROVE  FrameShows(d)' /\ FrameLists(d)'
    <2>1. nd \notin Own(d) /\ frames'[d + 1] = frames[d + 1]
      BY <1>3, <1>5, <1>9, <1>13
    <2>2. d \in Scopes /\ nd # EntryNode(d) /\ d # scope' /\ FrameShows(d) /\ FrameLists(d)
      BY <1>1, <1>2, <1>3, <1>5, <1>13
    <2>q. QED
      BY <1>1, <1>4, <1>5, <2>1, <2>2, ShowKept, ListKept
  <1>14. FrameShows(s) /\ FrameLists(s) /\ s \in Scopes /\ nd # EntryNode(s)
    BY <1>1, <1>2, <1>3, <1>5
  <1>15. FrameLists(s)'
    <2>1. nd \in Own(s)
      BY <1>3 DEF nd, Own
    <2>2. frames'[s + 1].steps = Append(frames[s + 1].steps, LocalStep(runSteps'[Len(runSteps) + 1]))
      <3>1. runSteps'[Len(runSteps) + 1] = [node |-> nd, ok |-> ok, value |-> L]
        BY <1>1, <1>4, <1>5, Appended DEF L
      <3>2. LocalStep(runSteps'[Len(runSteps) + 1]) = new
        BY <1>5, <3>1 DEF LocalStep, new
      <3>q. QED
        BY <1>3, <1>9, <1>10, <3>2 DEF f
    <2>3. frames[s + 1].steps \in Seq(FrameSteps)
      BY <1>3, <1>7
    <2>q. QED
      BY <1>1, <1>4, <1>5, <1>14, <2>1, <2>2, <2>3, ListGrows
  <1>16. FrameShows(s)'
    <2>0. EntryIndex(s)' = EntryIndex(s) /\ EntryIndex(s) <= Len(runSteps) /\ EntryIndex(s) \in Nat
      <3>1. EntryIndex(s) \in 0..Len(runSteps)
        BY <1>1, <1>14, SinceAre DEF ComTypes
      <3>q. QED
        BY <1>1, <1>4, <1>5, <1>6, <1>14, <3>1, SinceStep
    <2>1. frames'[s + 1].input = EntryIndex(s)'
      BY <1>3, <1>9, <1>10, <1>14, <2>0 DEF FrameShows, f
    <2>2. ASSUME NEW m \in Names PROVE frames'[s + 1].out[m] = ProjectedOutputs(s)'[m]
      <3>0. m \in Locals /\ m # "child" /\ m # "exit"
        BY CompositionAssumption DEF Locals
      <3>1. nd # Node(s, m)
        BY <1>5, <3>0 DEF Node
      <3>2. ProjectedOutputs(s)'[m] = ProjectedOutputs(s)[m]
        <4>q. QED
          BY <1>1, <1>4, <1>5, <1>14, <3>1, ShowOne
      <3>3. frames'[s + 1].out[m] = frames[s + 1].out[m]
        BY <1>3, <1>7, <1>9, <1>10, <3>0 DEF f
      <3>q. QED
        BY <1>14, <3>2, <3>3 DEF FrameShows
    <2>3. frames'[s + 1].out["child"] = ProjectedOutputs(s)'["child"]
      <3>1. frames'[s + 1].out["child"] = L
        <4>1. "child" \in Locals
          BY DEF Locals
        <4>q. QED
          BY <1>3, <1>7, <1>9, <1>10, <4>1 DEF f
      <3>2. LatestStepIndex(nd)' = L
        BY <1>1, <1>4, <1>5, Appended DEF L
      <3>3. outputs'[EntryNode(t)] = L
        BY <1>1, <1>4, <1>5, OutputsAre DEF L
      <3>4. L > EntryIndex(s)' /\ s < Depth
        BY <1>3, <1>6, <2>0 DEF L
      <3>5. ProjectedOutputs(s)'["child"] = IF s < Depth /\ LatestStepIndex(ExitNode(s + 1))' > EntryIndex(s)'
                                           THEN outputs'[EntryNode(s + 1)] ELSE 0
        BY DEF ProjectedOutputs, Locals
      <3>q. QED
        BY <1>3, <3>1, <3>2, <3>3, <3>4, <3>5 DEF nd
    <2>q. QED
      BY <2>1, <2>2, <2>3 DEF FrameShows
  <1>q. QED
    BY <1>3, <1>11, <1>12, <1>13, <1>15, <1>16 DEF ComInv

LEMMA ComInvInit == ComInit => ComInv
  <1> SUFFICES ASSUME ComInit PROVE ComInv
    OBVIOUS
  <1>1. /\ scope = 0 /\ runSteps = <<>> /\ frames = <<EmptyFrame(0)>> /\ Len(<<>>) = 0
        /\ outputs = [m \in FlowNodes |-> 0] /\ 0 \in Scopes /\ Depth \in Nat /\ MaxRunSteps \in Nat
    BY CompositionAssumption DEF ComInit, FlowNodes, Scopes
  <1>2. EmptyFrame(0) \in CallFrames
    BY DEF EmptyFrame, CallFrames
  <1>3. ComTypes
    <2>1. frames \in Seq(CallFrames) /\ Len(frames) = 1
      BY <1>1, <1>2
    <2>2. StepTypes
      BY <1>1 DEF StepTypes
    <2>q. QED
      BY <1>1, <2>1, <2>2 DEF ComTypes
  <1>4. Entered
    BY <1>1 DEF Entered
  <1>5. frames[1] = EmptyFrame(0) /\ EntryIndex(0) = 0
    BY <1>1 DEF EntryIndex
  <1>6. FrameLists(0)
    <2>1. LocalSince(0) = {}
      BY <1>1, <1>5 DEF LocalSince
    <2>2. frames[1].steps = <<>> /\ Cardinality({}) = 0
      BY <1>5, FS_EmptySet DEF EmptyFrame
    <2>3. frames[0 + 1].steps = <<>>
      BY <2>2
    <2>4. Len(frames[0 + 1].steps) = Cardinality(LocalSince(0)) /\ 1..Len(frames[0 + 1].steps) = {}
      <3>1. Len(<<>>) = 0 /\ 1..0 = {}
        OBVIOUS
      <3>2. Len(frames[0 + 1].steps) = 0
        BY <2>3, <3>1, Zenon
      <3>3. Cardinality(LocalSince(0)) = 0
        BY <2>1, <2>2, Zenon
      <3>q. QED
        BY <3>1, <3>2, <3>3
    <2>q. QED
      BY <2>4 DEF FrameLists
  <1>7. FrameShows(0)
    <2>1. \A m \in FlowNodes : outputs[m] = 0
      BY <1>1
    <2>2. \A n \in Names : Node(0, n) \in FlowNodes /\ n # "child" /\ n \in Locals
      BY <1>1, CompositionAssumption DEF Node, FlowNodes, Locals
    <2>3. \A n \in Names : ProjectedOutputs(0)[n] = 0
      BY <2>1, <2>2 DEF ProjectedOutputs, Shown
    <2>4. 0 < Depth => EntryNode(0 + 1) \in FlowNodes
      BY <1>1 DEF EntryNode, Node, FlowNodes, Scopes
    <2>5. ProjectedOutputs(0)["child"] = 0 /\ "child" \in Locals
      BY <2>1, <2>4 DEF ProjectedOutputs, Locals
    <2>q. QED
      BY <1>5, <2>2, <2>3, <2>5 DEF FrameShows, EmptyFrame
  <1>q. QED
    BY <1>1, <1>3, <1>4, <1>6, <1>7 DEF ComInv

LEMMA ComInvNext == ComInv /\ [ComNext]_comVars => ComInv'
  <1> SUFFICES ASSUME ComInv, [ComNext]_comVars PROVE ComInv'
    OBVIOUS
  <1>1. CASE \E n \in Names : RunNode(n)
    BY <1>1, ComRunNode
  <1>2. CASE EnterInclude
    BY <1>2, ComEnterInclude
  <1>3. CASE ExitInclude
    BY <1>3, ComExitInclude
  <1>4. CASE UNCHANGED comVars
    <2>1. scope' = scope /\ runSteps' = runSteps /\ outputs' = outputs /\ frames' = frames
      BY <1>4 DEF comVars
    <2>2. ASSUME NEW m PROVE LatestStepIndex(m)' = LatestStepIndex(m)
      BY <2>1 DEF LatestStepIndex
    <2>3. ASSUME NEW d
          PROVE  /\ EntryIndex(d)' = EntryIndex(d) /\ ProjectedOutputs(d)' = ProjectedOutputs(d)
                 /\ LocalSince(d)' = LocalSince(d)
      <3>1. EntryIndex(d)' = EntryIndex(d)
        BY <2>2 DEF EntryIndex
      <3>2. ProjectedOutputs(d)' = ProjectedOutputs(d)
        BY <2>1, <2>2, <3>1 DEF ProjectedOutputs, Shown
      <3>3. LocalSince(d)' = LocalSince(d)
        BY <2>1, <3>1 DEF LocalSince, IsLocalStep
      <3>q. QED
        BY <3>1, <3>2, <3>3
    <2>4. ASSUME NEW d PROVE FrameShows(d)' <=> FrameShows(d)
      BY <2>1, <2>3 DEF FrameShows
    <2>5. ASSUME NEW d PROVE FrameLists(d)' <=> FrameLists(d)
      <3>1. LocalSince(d)' = LocalSince(d)
        BY <2>3
      <3>2. ASSUME NEW i PROVE LocalStep(runSteps[i])' = LocalStep(runSteps[i])
        BY <2>1 DEF LocalStep
      <3>q. QED
        BY <2>1, <3>1, <3>2 DEF FrameLists
    <2>6. Entered' <=> Entered
      BY <2>1, <2>3 DEF Entered
    <2>7. ComTypes' <=> ComTypes
      BY <2>1 DEF ComTypes, StepTypes
    <2>q. QED
      BY <2>1, <2>4, <2>5, <2>6, <2>7 DEF ComInv
  <1>q. QED
    BY <1>1, <1>2, <1>3, <1>4 DEF ComNext

LEMMA ComInvShows == ComInv => IncludesAreFrames
  <1> SUFFICES ASSUME ComInv PROVE IncludesAreFrames
    OBVIOUS
  <1>1. ComTypes /\ StepTypes /\ Entered
    BY DEF ComInv, ComTypes
  <1>2. PICK s \in Scopes : s = scope
    BY <1>1 DEF ComTypes
  <1>3. s \in Nat /\ s \in 0..scope
    BY <1>2, CompositionAssumption DEF Scopes
  <1>4. FrameShows(s) /\ FrameLists(s)
    BY <1>3 DEF ComInv
  <1>5. PICK f \in CallFrames : f = frames[s + 1]
    BY <1>1, <1>3, FrameIs
  <1>6. f.out \in [Locals -> Nat] /\ f.steps \in Seq(FrameSteps)
    BY <1>5 DEF CallFrames
  <1>7. (IF s = 0 THEN 0 ELSE runSteps[EntryIndex(s)].value) = f.input
    <2>1. f.input = EntryIndex(s)
      BY <1>4, <1>5 DEF FrameShows
    <2>2. CASE s = 0
      BY <2>1, <2>2 DEF EntryIndex
    <2>3. CASE s # 0
      <3>1. EntryIndex(s) # 0
        BY <1>1, <1>2, <1>3, <2>3 DEF Entered
      <3>2. EntryIndex(s) \in 1..Len(runSteps)
        BY <1>1, <3>1, SinceAre DEF StepTypes
      <3>q. QED
        BY <1>1, <2>1, <2>3, <3>2 DEF StepTypes
    <2>q. QED
      BY <2>2, <2>3
  <1>8. ProjectedOutputs(s) = f.out
    <2>1. \A n \in Locals : f.out[n] = ProjectedOutputs(s)[n]
      BY <1>2, <1>4, <1>5 DEF FrameShows, Locals
    <2>2. ProjectedOutputs(s) = [n \in Locals |-> ProjectedOutputs(s)[n]]
      BY DEF ProjectedOutputs
    <2>q. QED
      BY <1>6, <2>1, <2>2
  <1>9. ProjectedSteps(s) = f.steps
    <2>1. /\ Len(f.steps) = Cardinality(LocalSince(s))
          /\ \A k \in 1..Len(f.steps) : \E i \in LocalSince(s) :
               /\ Cardinality({j \in LocalSince(s) : j <= i}) = k
               /\ f.steps[k] = LocalStep(runSteps[i])
      BY <1>4, <1>5 DEF FrameLists
    <2>2. LocalSince(s) \in SUBSET (1..Len(runSteps)) /\ Len(runSteps) \in Nat /\ Len(f.steps) \in Nat
      BY <1>1, <1>6, SinceAre DEF StepTypes
    <2>3. \A k \in 1..Len(f.steps) : f.steps[k] = LocalStep(runSteps[Ranked(LocalSince(s), k)])
      <3> SUFFICES ASSUME NEW k \in 1..Len(f.steps)
                   PROVE  f.steps[k] = LocalStep(runSteps[Ranked(LocalSince(s), k)])
        OBVIOUS
      <3>1. PICK i \in LocalSince(s) : /\ Cardinality({j \in LocalSince(s) : j <= i}) = k
                                       /\ f.steps[k] = LocalStep(runSteps[i])
        BY <2>1
      <3>2. Ranked(LocalSince(s), k) = i
        <4>1. k \in Nat
          BY <2>2
        <4>q. QED
          BY <2>2, <3>1, <4>1, RankedIs
      <3>q. QED
        BY <3>1, <3>2
    <2>4. f.steps = [k \in 1..Len(f.steps) |-> f.steps[k]]
      BY <1>6
    <2>5. ProjectedSteps(s) = [k \in 1..Len(f.steps) |-> LocalStep(runSteps[Ranked(LocalSince(s), k)])]
      BY <2>1 DEF ProjectedSteps
    <2>q. QED
      BY <2>3, <2>4, <2>5
  <1>10. ProjectWorkflowContext(s) = [input |-> f.input, out |-> f.out, steps |-> f.steps]
    BY <1>7, <1>8, <1>9 DEF ProjectWorkflowContext
  <1>11. f = [input |-> f.input, out |-> f.out, steps |-> f.steps]
    BY DEF CallFrames
  <1>q. QED
    BY <1>2, <1>5, <1>10, <1>11 DEF IncludesAreFrames

LEMMA ComInvTypes == ComInv => ComTypeOK
  <1> SUFFICES ASSUME ComInv PROVE ComTypeOK
    OBVIOUS
  <1>1. ComTypes /\ StepTypes /\ MaxRunSteps \in Nat
    BY CompositionAssumption DEF ComInv, ComTypes
  <1>2. \A i \in DOMAIN runSteps : runSteps[i].node \in FlowNodes
    <2>1. \A st \in FlowSteps : st.node \in FlowNodes
      BY DEF FlowSteps
    <2>2. \A i \in DOMAIN runSteps : runSteps[i] \in FlowSteps
      BY <1>1 DEF StepTypes
    <2>q. QED
      BY <2>1, <2>2
  <1>3. Len(runSteps) \in 0..MaxRunSteps
    BY <1>1 DEF StepTypes
  <1>4. \A m \in DOMAIN outputs : outputs[m] \in 0..Len(runSteps)
    BY <1>1, <1>3 DEF ComTypes
  <1>q. QED
    BY <1>1, <1>2, <1>3, <1>4 DEF ComTypeOK, ComTypes, FlowNodes

-----------------------------------------------------------------------------
(* Types of the graphs *)

\* A challenge and a fallback are begun below their limits.
AutTypes ==
    /\ AutTypeOK
    /\ node = "challengeBlocker" => tried.challenges < MaxChallenges
    /\ node = "timeoutFallback" => tried.fallbacks < MaxFallbacks

\* The names of the graph's nodes.
LEMMA EdgeNodes ==
    ASSUME NEW a, NEW b, <<a, b>> \in Edges
    PROVE  a \in AutNodes /\ b \in AutNodes
  <1> DEFINE e == <<a, b>>
  <1>1. e \in Edges /\ e[1] = a /\ e[2] = b
    OBVIOUS
  <1> HIDE DEF e
  <1>q. QED
    BY <1>1, Zenon DEF AutNodes

LEMMA NodeNames ==
    {"findPlan", "routeFoundPlan", "workspace", "routeWorkspace", "documentation", "redesign",
     "adoptPlan", "classifyImplementation", "selectVerificationPath", "challengeBlockerGuard",
     "reviewAssessmentRecoveryBlocked", "triageReview", "trackCi", "assessTrackedCi",
     "repairCiCommand", "blocked", "finalize", "failed", "implement", "fix", "addressP2",
     "planVerification", "publish", "verifyP2", "inspectComments", "inspectCi",
     "opportunisticTest", "finalizeDefaultBranch", "finalizeDelivery", "routeReviewAssessment",
     "routeVerifyP2Result", "routeInspectCommentsResult", "routeInspectCiResult",
     "routeFinalizeDeliveryResult", "routeFinalizeDefaultBranchResult", "prepare",
     "localVerification", "routeVerifiedWorkspace", "selectReviewCommands", "runReview",
     "repairReviewCommand", "assessReview", "recoverReviewAssessment", "classifyCi",
     "timeoutFallbackGuard", "timeoutFallback", "routeTimeoutFallback",
     "propagateSupportedFailure", "challengeBlocker", "routeBlockerRecovery"} \in SUBSET AutNodes
  <1>1. AutEnds \cup Sources \cup DOMAIN Switches \in SUBSET AutNodes
    BY Zenon DEF AutNodes
  <1>2. {"prepare", "selectVerificationPath", "localVerification", "routeVerifiedWorkspace",
         "selectReviewCommands", "runReview", "repairReviewCommand", "assessReview",
         "recoverReviewAssessment", "classifyCi", "timeoutFallbackGuard", "timeoutFallback",
         "routeTimeoutFallback", "propagateSupportedFailure", "challengeBlocker",
         "routeBlockerRecovery"} \in SUBSET AutNodes
    BY Zenon DEF AutNodes
  <1>3. DOMAIN Switches = {"routeReviewAssessment", "routeVerifyP2Result",
          "routeInspectCommentsResult", "routeInspectCiResult",
          "routeFinalizeDeliveryResult", "routeFinalizeDefaultBranchResult"}
    BY DEF Switches
  <1>4. /\ <<"findPlan", "routeFoundPlan">> \in Edges /\ <<"workspace", "routeWorkspace">> \in Edges
        /\ <<"documentation", "implement">> \in Edges /\ <<"redesign", "adoptPlan">> \in Edges
        /\ <<"classifyImplementation", "challengeBlockerGuard">> \in Edges
        /\ <<"reviewAssessmentRecoveryBlocked", "blocked">> \in Edges
        /\ <<"triageReview", "redesign">> \in Edges /\ <<"trackCi", "assessTrackedCi">> \in Edges
        /\ <<"repairCiCommand", "trackCi">> \in Edges
    BY DEF Edges
  <1>5. {"findPlan", "routeFoundPlan", "workspace", "routeWorkspace", "documentation", "redesign",
         "adoptPlan", "classifyImplementation", "challengeBlockerGuard",
         "reviewAssessmentRecoveryBlocked", "triageReview", "trackCi", "assessTrackedCi",
         "repairCiCommand"} \in SUBSET AutNodes
    <2>1. /\ "findPlan" \in AutNodes /\ "routeFoundPlan" \in AutNodes /\ "workspace" \in AutNodes
          /\ "routeWorkspace" \in AutNodes /\ "documentation" \in AutNodes
          /\ "redesign" \in AutNodes /\ "adoptPlan" \in AutNodes
          /\ "classifyImplementation" \in AutNodes /\ "challengeBlockerGuard" \in AutNodes
          /\ "reviewAssessmentRecoveryBlocked" \in AutNodes /\ "triageReview" \in AutNodes
          /\ "trackCi" \in AutNodes /\ "assessTrackedCi" \in AutNodes /\ "repairCiCommand" \in AutNodes
      BY <1>4, EdgeNodes
    <2>q. QED
      BY <2>1
  <1>q. QED
    BY <1>1, <1>2, <1>3, <1>5 DEF AutEnds, Sources, WorkNodes

LEMMA AutTypesInit == AutInit => AutTypes
  <1> SUFFICES ASSUME AutInit PROVE AutTypes
    OBVIOUS
  <1>1. node \in AutNodes
    BY NodeNames DEF AutInit
  <1>2. tried \in [challenges : 0..MaxChallenges, fallbacks : 0..MaxFallbacks, repair : BOOLEAN]
    BY AutAssumption DEF AutInit
  <1>3. job \in [plan : BOOLEAN, checks : BOOLEAN, mode : {"pullRequest", "defaultBranch"}]
    BY DEF AutInit
  <1>4. {published, comments, verified, moved} \subseteq BOOLEAN
    BY DEF AutInit
  <1>q. QED
    BY <1>1, <1>2, <1>3, <1>4 DEF AutInit, AutTypes, AutTypeOK

\* Where each node may lead; a challenge and a fallback are begun by their guards only.
LEMMA AutNodesReached ==
    ASSUME AutInv, AutTypeOK, AutNext
    PROVE  /\ node' \in AutNodes
           /\ node' = "challengeBlocker" => ChallengeGuard
           /\ node' = "timeoutFallback" => FallbackGuard
  <1>1. CASE Walk
    <2>1. PICK n \in AutNodes : <<node, n>> \in Edges /\ node' = n
      BY <1>1 DEF Walk, Go
    <2>2. n \notin {"challengeBlocker", "timeoutFallback"}
      BY <2>1 DEF Edges
    <2>q. QED
      BY <2>1, <2>2
  <1>2. CASE FollowRoute
    <2>1. node \in DOMAIN Switches /\ answer \in DOMAIN Switches[node] /\ node' = Switches[node][answer]
      BY <1>2 DEF FollowRoute, Go, AutInv, RouteKnown
    <2>2. node' \in {"repairReviewCommand", "blocked", "triageReview", "addressP2", "inspectComments",
                     "fix", "redesign", "inspectCi", "challengeBlockerGuard", "finalizeDelivery",
                     "classifyCi", "trackCi", "finalize"}
      BY <2>1 DEF Switches
    <2>q. QED
      BY <2>2, NodeNames
  <1>3. CASE Prepare \/ SelectVerificationPath \/ RouteVerifiedWorkspace \/ RunStops
    BY <1>3, NodeNames DEF Prepare, SelectVerificationPath, RouteVerifiedWorkspace, RunStops, Go
  <1>4. CASE StepTimesOut \/ StepFails
    BY <1>4, NodeNames DEF StepTimesOut, StepFails, Go
  <1>5. CASE AcceptWork
    BY <1>5, NodeNames DEF AcceptWork, WorkNodes, Go
  <1>6. CASE PlanVerification \/ LocalVerification \/ Publish \/ VerifyP2
    BY <1>6, NodeNames DEF PlanVerification, LocalVerification, Publish, VerifyP2, Go
  <1>7. CASE SelectReviewCommands \/ RunReview \/ RepairReviewCommand \/ AssessReview
    BY <1>7, NodeNames DEF SelectReviewCommands, RunReview, RepairReviewCommand, AssessReview, Go
  <1>8. CASE InspectComments \/ InspectCi \/ AssessTrackedCi \/ OpportunisticTest \/ ClassifyCi \/ Finalize
    <2>1. node' \in {"routeInspectCommentsResult", "routeInspectCiResult", "finalizeDelivery",
                     "classifyCi", "opportunisticTest", "challengeBlockerGuard", "inspectCi",
                     "redesign", "fix", "routeFinalizeDeliveryResult",
                     "routeFinalizeDefaultBranchResult"}
      BY <1>8 DEF InspectComments, InspectCi, AssessTrackedCi, OpportunisticTest, ClassifyCi, Finalize, Go
    <2>q. QED
      BY <2>1, NodeNames
  <1>9. CASE ChallengeGuard \/ ChallengeBlocker \/ FallbackGuard \/ TimeoutFallback
    BY <1>9, NodeNames DEF ChallengeGuard, ChallengeBlocker, FallbackGuard, TimeoutFallback, Go
  <1>10. CASE RouteBlockerRecovery
    <2>1. node' \in RecoveryNodes
      BY <1>10 DEF RouteBlockerRecovery, Go, AutInv, Recoverable
    <2>q. QED
      BY <2>1, NodeNames DEF RecoveryNodes
  <1>11. CASE FallbackTarget
    <2>1. timedOut \in Sources
      BY <1>11 DEF FallbackTarget, AutInv, Recoverable
    <2>2. node' \in {"selectVerificationPath", "selectReviewCommands", "inspectCi",
                     "finalizeDelivery", "redesign", "blocked", timedOut}
      BY <1>11 DEF FallbackTarget, Go
    <2>q. QED
      BY <2>1, <2>2, NodeNames DEF Sources, WorkNodes
  <1>q. QED
    BY <1>1, <1>2, <1>3, <1>4, <1>5, <1>6, <1>7, <1>8, <1>9, <1>10, <1>11 DEF AutNext

LEMMA AutTypesStep == AutInv /\ AutTypes /\ [AutNext]_autVars => AutTypes'
  <1> SUFFICES ASSUME AutInv, AutTypes, [AutNext]_autVars PROVE AutTypes'
    OBVIOUS
  <1>0. AutTypeOK
    BY DEF AutTypes
  <1>1. CASE UNCHANGED autVars
    BY <1>1 DEF autVars, histVars, AutTypes, AutTypeOK
  <1>2. CASE AutNext
    <2>1. /\ node' \in AutNodes
          /\ node' = "challengeBlocker" => ChallengeGuard
          /\ node' = "timeoutFallback" => FallbackGuard
      BY <1>0, <1>2, AutNodesReached
    <2>2. previous' \in {node, "none"}
      BY <1>2 DEF AutNext, Walk, FollowRoute, Prepare, SelectVerificationPath, RouteVerifiedWorkspace,
           StepTimesOut, StepFails, RunStops, AcceptWork, PlanVerification, LocalVerification, Publish,
           VerifyP2, SelectReviewCommands, RunReview, RepairReviewCommand, AssessReview, InspectComments,
           InspectCi, AssessTrackedCi, OpportunisticTest, ClassifyCi, Finalize, ChallengeGuard,
           ChallengeBlocker, RouteBlockerRecovery, FallbackGuard, TimeoutFallback, FallbackTarget, Go
    <2>3. job' = job /\ (timedOut' \in {timedOut, "none"} \/ (node \in Sources /\ timedOut' = node))
      BY <1>2 DEF AutNext, Walk, FollowRoute, Prepare, SelectVerificationPath, RouteVerifiedWorkspace,
           StepTimesOut, StepFails, RunStops, AcceptWork, PlanVerification, LocalVerification, Publish,
           VerifyP2, SelectReviewCommands, RunReview, RepairReviewCommand, AssessReview, InspectComments,
           InspectCi, AssessTrackedCi, OpportunisticTest, ClassifyCi, Finalize, ChallengeGuard,
           ChallengeBlocker, RouteBlockerRecovery, FallbackGuard, TimeoutFallback, FallbackTarget, Quiet
    <2>4. tried' = tried \/ RepairReviewCommand \/ ChallengeBlocker \/ TimeoutFallback
      BY <1>2 DEF AutNext, Walk, FollowRoute, Prepare, SelectVerificationPath, RouteVerifiedWorkspace,
           StepTimesOut, StepFails, RunStops, AcceptWork, PlanVerification, LocalVerification, Publish,
           VerifyP2, SelectReviewCommands, RunReview, AssessReview, InspectComments, InspectCi,
           AssessTrackedCi, OpportunisticTest, ClassifyCi, Finalize, ChallengeGuard,
           RouteBlockerRecovery, FallbackGuard, FallbackTarget, Quiet
    <2>5. /\ tried' \in [challenges : 0..MaxChallenges, fallbacks : 0..MaxFallbacks, repair : BOOLEAN]
          /\ ChallengeGuard /\ node' = "challengeBlocker" => tried'.challenges < MaxChallenges
          /\ FallbackGuard /\ node' = "timeoutFallback" => tried'.fallbacks < MaxFallbacks
      <3>1. /\ tried \in [challenges : 0..MaxChallenges, fallbacks : 0..MaxFallbacks, repair : BOOLEAN]
            /\ MaxChallenges \in Nat /\ MaxFallbacks \in Nat
        BY <1>0, AutAssumption DEF AutTypeOK
      <3>2. CASE tried' = tried
        BY <3>1, <3>2 DEF ChallengeGuard, FallbackGuard, Go
      <3>3. CASE RepairReviewCommand
        BY <3>1, <3>3 DEF RepairReviewCommand, ChallengeGuard, FallbackGuard
      <3>4. CASE ChallengeBlocker
        <4>1. tried.challenges < MaxChallenges /\ tried' = [tried EXCEPT !.challenges = @ + 1]
              /\ node = "challengeBlocker"
          BY <3>4 DEF ChallengeBlocker, AutTypes
        <4>q. QED
          BY <3>1, <4>1 DEF ChallengeGuard, FallbackGuard
      <3>5. CASE TimeoutFallback
        <4>1. tried.fallbacks < MaxFallbacks /\ tried' = [tried EXCEPT !.fallbacks = @ + 1]
              /\ node = "timeoutFallback"
          BY <3>5 DEF TimeoutFallback, AutTypes
        <4>q. QED
          BY <3>1, <4>1 DEF ChallengeGuard, FallbackGuard
      <3>q. QED
        BY <2>4, <3>2, <3>3, <3>4, <3>5
    <2>6. /\ lastWork' \in {"none", "ok", "unfinished"} /\ ci' \in CiRoutes \cup {"none", "unrelated"}
          /\ review' \in {"none", "error", "critical", "p2", "clean"}
      <3>1. /\ lastWork' \in {lastWork, "ok", "unfinished"}
            /\ ci' \in CiRoutes \cup {"none", "unrelated", ci}
            /\ review' \in {"none", "error", "critical", "p2", "clean", review}
        BY <1>2 DEF AutNext, Walk, FollowRoute, Prepare, SelectVerificationPath, RouteVerifiedWorkspace,
             StepTimesOut, StepFails, RunStops, AcceptWork, PlanVerification, LocalVerification, Publish,
             VerifyP2, SelectReviewCommands, RunReview, RepairReviewCommand, AssessReview, InspectComments,
             InspectCi, AssessTrackedCi, OpportunisticTest, ClassifyCi, Finalize, ChallengeGuard,
             ChallengeBlocker, RouteBlockerRecovery, FallbackGuard, TimeoutFallback, FallbackTarget, Quiet,
             Unfinished, Attempt, histVars
      <3>q. QED
        BY <1>0, <3>1 DEF AutTypeOK
    <2>7. moved' \in BOOLEAN
      <3>1. moved' \in {moved, TRUE, FALSE}
        BY <1>2 DEF AutNext, Walk, FollowRoute, Prepare, SelectVerificationPath, RouteVerifiedWorkspace,
             StepTimesOut, StepFails, RunStops, AcceptWork, PlanVerification, LocalVerification, Publish,
             VerifyP2, SelectReviewCommands, RunReview, RepairReviewCommand, AssessReview, InspectComments,
             InspectCi, AssessTrackedCi, OpportunisticTest, ClassifyCi, Finalize, ChallengeGuard,
             ChallengeBlocker, RouteBlockerRecovery, FallbackGuard, TimeoutFallback, FallbackTarget, Quiet,
             Unfinished, Attempt, histVars
      <3>q. QED
        BY <1>0, <3>1 DEF AutTypeOK
    <2>8. {published', comments', verified'} \subseteq BOOLEAN
      BY AutInvStep DEF AutInv, Evidence
    <2>9. AutTypeOK'
      <3>1. previous' \in AutNodes \cup {"none"} /\ timedOut' \in Sources \cup {"none"}
            /\ job' \in [plan : BOOLEAN, checks : BOOLEAN, mode : {"pullRequest", "defaultBranch"}]
        BY <1>0, <2>2, <2>3 DEF AutTypeOK
      <3>q. QED
        BY <2>1, <2>5, <2>6, <2>7, <2>8, <3>1 DEF AutTypeOK
    <2>q. QED
      BY <2>1, <2>5, <2>9 DEF AutTypes
  <1>q. QED
    BY <1>1, <1>2

-----------------------------------------------------------------------------

\* A run that may check again has had fewer checks than allowed.
MonTypes ==
    /\ MonTypeOK
    /\ monNode \in Going \cup Repairing \cup {"repairGuard"} => Cardinality(Positions("check")) < MaxChecks

\* The names of the graph's nodes.
LEMMA MonNodeNames ==
    {"finish", "finishCheckTimeout", "finishCheckFailure", "failed", "prepare", "act", "sleep",
     "check", "schedule", "checkTimeoutRetryReport", "checkTimeoutStopReport", "recordCheckFailure",
     "checkFailureReport", "estimate", "publish_progress", "report", "decide", "planChange",
     "implementation", "repairBlocked", "repairReport", "recordCheckTimeout", "repairGuard"}
    \in SUBSET MonNodes
  <1>1. ASSUME NEW a, NEW b, <<a, b>> \in MonEdges
        PROVE  a \in MonNodes /\ b \in MonNodes
    <2> DEFINE e == <<a, b>>
    <2>1. e \in MonEdges /\ e[1] = a /\ e[2] = b
      BY <1>1
    <2> HIDE DEF e
    <2>q. QED
      BY <2>1, Zenon DEF MonNodes
  <1>2. {"finish", "finishCheckTimeout", "finishCheckFailure", "failed", "recordCheckTimeout",
         "repairGuard"} \in SUBSET MonNodes
    BY Zenon DEF MonNodes, MonEnds
  <1>3. /\ <<"prepare", "check">> \in MonEdges /\ <<"act", "check">> \in MonEdges
        /\ <<"sleep", "check">> \in MonEdges /\ <<"checkTimeoutRetryReport", "schedule">> \in MonEdges
        /\ <<"checkTimeoutStopReport", "finishCheckTimeout">> \in MonEdges
        /\ <<"recordCheckFailure", "checkFailureReport">> \in MonEdges
        /\ <<"estimate", "publish_progress">> \in MonEdges /\ <<"report", "decide">> \in MonEdges
        /\ <<"planChange", "implementation">> \in MonEdges
        /\ <<"repairBlocked", "repairReport">> \in MonEdges
    BY DEF MonEdges
  <1>4. /\ "prepare" \in MonNodes /\ "check" \in MonNodes /\ "act" \in MonNodes /\ "sleep" \in MonNodes
        /\ "checkTimeoutRetryReport" \in MonNodes /\ "schedule" \in MonNodes
        /\ "checkTimeoutStopReport" \in MonNodes /\ "recordCheckFailure" \in MonNodes
        /\ "checkFailureReport" \in MonNodes /\ "estimate" \in MonNodes
        /\ "publish_progress" \in MonNodes /\ "report" \in MonNodes /\ "decide" \in MonNodes
        /\ "planChange" \in MonNodes /\ "implementation" \in MonNodes
        /\ "repairBlocked" \in MonNodes /\ "repairReport" \in MonNodes
    BY <1>1, <1>3
  <1>q. QED
    BY <1>2, <1>4

LEMMA MonTypesInit == MonInit => MonTypes
  <1> SUFFICES ASSUME MonInit PROVE MonTypes
    OBVIOUS
  <1>1. Positions("check") = {} /\ DOMAIN monSteps = {} /\ monNode = "prepare" /\ mayRepair \in BOOLEAN
    BY DEF MonInit, Positions
  <1>2. Cardinality(Positions("check")) = 0
    BY <1>1, FS_EmptySet
  <1>q. QED
    BY <1>1, <1>2, MonNodeNames, MonitorAssumption DEF MonTypes, MonTypeOK

\* One more record is at most one check more.
LEMMA ChecksGrow ==
    ASSUME monSteps \in Seq(MonRecords), NEW e \in MonRecords, monSteps' = Append(monSteps, e)
    PROVE  /\ Cardinality(Positions("check")) \in Nat /\ Cardinality(Positions("check"))' \in Nat
           /\ Cardinality(Positions("check"))' <= Cardinality(Positions("check")) + 1
           /\ e.kind # "check" => Cardinality(Positions("check"))' = Cardinality(Positions("check"))
  <1> DEFINE S == Positions("check")  T == Positions("check")'
  <1>1. /\ monSteps' \in Seq(MonRecords) /\ Last \in Nat /\ Last' = Last + 1
        /\ monSteps'[Last + 1] = e /\ \A i \in 1..Last : monSteps'[i] = monSteps[i]
    BY AppendedStep
  <1>2. DOMAIN monSteps = 1..Last /\ DOMAIN monSteps' = 1..(Last + 1)
    BY <1>1 DEF Last
  <1>3. T = S \cup (IF e.kind = "check" THEN {Last + 1} ELSE {}) /\ S \in SUBSET (1..Last)
    <2>1. T = {i \in 1..(Last + 1) : monSteps'[i].kind = "check"}
      BY <1>2 DEF Positions
    <2>2. S = {i \in 1..Last : monSteps[i].kind = "check"}
      BY <1>2 DEF Positions
    <2>3. 1..(Last + 1) = 1..Last \cup {Last + 1}
      BY <1>1
    <2> HIDE DEF S, T
    <2>4. CASE e.kind = "check"
      BY <1>1, <2>1, <2>2, <2>3, <2>4
    <2>5. CASE e.kind # "check"
      BY <1>1, <2>1, <2>2, <2>3, <2>5
    <2>q. QED
      BY <2>4, <2>5
  <1>4. IsFiniteSet(S) /\ Cardinality(S) \in Nat
    <2>1. IsFiniteSet(1..Last)
      BY <1>1, FS_Interval
    <2> HIDE DEF S
    <2>2. IsFiniteSet(S)
      BY <1>3, <2>1, FS_Subset, Zenon
    <2>q. QED
      BY <2>2, FS_CardinalityType
  <1>5. Cardinality(S \cup {Last + 1}) = Cardinality(S) + 1
    <2>1. Last + 1 \notin S
      BY <1>1, <1>3
    <2> HIDE DEF S
    <2>q. QED
      BY <1>4, <2>1, FS_AddElement
  <1> HIDE DEF S, T
  <1>6. /\ Cardinality(T) \in Nat /\ Cardinality(T) <= Cardinality(S) + 1
        /\ (e.kind # "check" => Cardinality(T) = Cardinality(S))
    <2>1. CASE e.kind = "check"
      BY <1>3, <1>4, <1>5, <2>1
    <2>2. CASE e.kind # "check"
      <3>1. T = S
        BY <1>3, <2>2
      <3>q. QED
        BY <1>4, <2>2, <3>1
    <2>q. QED
      BY <2>1, <2>2
  <1>q. QED
    BY <1>4, <1>6 DEF S, T

LEMMA MonTypesStep == MonInv /\ MonTypes /\ [MonNext]_monVars => MonTypes'
  <1> SUFFICES ASSUME MonInv, MonTypes, [MonNext]_monVars PROVE MonTypes'
    OBVIOUS
  <1> DEFINE count == Cardinality(Positions("check"))
  <1>0. /\ MonTypeOK /\ monSteps \in Seq(MonRecords) /\ count <= MaxChecks /\ MaxChecks \in Nat
        /\ monNode \in Going \cup Repairing \cup {"repairGuard"} => count < MaxChecks
    BY MonitorAssumption DEF MonInv, RepairsFollowChecks, MonTypes, MonTypeOK
  <1>k. \A r \in MonRecords : r.kind \in {"check", "timeout", "implementation"}
    BY DEF MonRecords, TimedOut, Implemented
  <1>n. count \in Nat
    <2>1. IsFiniteSet(1..Len(monSteps))
      BY <1>0, FS_Interval
    <2>2. Positions("check") \in SUBSET (1..Len(monSteps))
      BY <1>0 DEF Positions
    <2>q. QED
      BY <2>1, <2>2, FS_Subset, FS_CardinalityType, Zenon
  \* A step that records nothing.
  <1>a. ASSUME UNCHANGED <<mayRepair, monSteps>>, monNode' \in MonNodes,
               monNode' \in Going \cup Repairing \cup {"repairGuard"} => count < MaxChecks
        PROVE  MonTypes'
    <2>1. Positions("check")' = Positions("check")
      BY <1>a DEF Positions
    <2>q. QED
      BY <1>0, <1>a, <2>1 DEF MonTypes, MonTypeOK, Going, Repairing
  \* A step that records one attempt.
  <1>b. ASSUME NEW e \in MonRecords, monSteps' = Append(monSteps, e), UNCHANGED mayRepair,
               count < MaxChecks, monNode' \in MonNodes,
               monNode' \in Going \cup Repairing \cup {"repairGuard"} => e.kind # "check"
        PROVE  MonTypes'
    <2>1. count' \in Nat /\ count' <= count + 1 /\ (e.kind # "check" => count' = count)
      BY <1>0, <1>b, ChecksGrow
    <2>2. \A i \in DOMAIN monSteps' : monSteps'[i].kind \in {"check", "timeout", "implementation"}
      <3>1. \A i \in DOMAIN monSteps' : monSteps'[i] \in MonRecords
        <4>1. PICK t \in Seq(MonRecords) : t = monSteps'
          BY <1>0, <1>b
        <4>2. \A i \in DOMAIN t : t[i] \in MonRecords
          OBVIOUS
        <4>q. QED
          BY <4>1, <4>2
      <3>q. QED
        BY <1>k, <3>1
    <2>3. count' <= MaxChecks /\ (monNode' \in Going \cup Repairing \cup {"repairGuard"} => count' < MaxChecks)
      <3> HIDE DEF count
      <3>q. QED
        BY <1>0, <1>b, <1>n, <2>1
    <2>q. QED
      BY <1>0, <1>b, <2>2, <2>3 DEF MonTypes, MonTypeOK, Going, Repairing
  <1> HIDE DEF count
  <1>1. CASE MonWalk
    <2>1. PICK n \in MonNodes : <<monNode, n>> \in MonEdges /\ monNode' = n /\ UNCHANGED <<mayRepair, monSteps>>
      BY <1>1 DEF MonWalk
    <2>2. n \in Going \cup Repairing \cup {"repairGuard"} => monNode \in Going \cup Repairing \cup {"repairGuard"}
      BY <2>1 DEF MonEdges, Going, Repairing
    <2>q. QED
      BY <1>0, <1>a, <2>1, <2>2
  <1>2. CASE ObserveTarget
    <2>1. monNode = "check" /\ UNCHANGED mayRepair /\ count < MaxChecks
      BY <1>0, <1>2 DEF ObserveTarget, Going
    <2>2. CASE \E r \in Reports :
            /\ monSteps' = Append(monSteps, [kind |-> "check", report |-> r])
            /\ monNode' = "estimate"
      <3>1. PICK r \in Reports : monSteps' = Append(monSteps, [kind |-> "check", report |-> r])
        BY <2>2
      <3>2. r \in [route : {"wait", "act", "stop"}, repair : SUBSET MonFailures]
        BY DEF Reports
      <3>3. [kind |-> "check", report |-> r] \in MonRecords
        BY <3>2 DEF MonRecords
      <3>4. "estimate" \notin Going \cup Repairing \cup {"repairGuard"}
        BY DEF Going, Repairing
      <3>q. QED
        BY <1>b, <2>1, <2>2, <3>1, <3>3, <3>4, MonNodeNames
    <2>3. CASE monSteps' = Append(monSteps, TimedOut) /\ monNode' = "recordCheckTimeout"
      <3>1. TimedOut \in MonRecords /\ TimedOut.kind # "check"
        BY DEF MonRecords, TimedOut
      <3>q. QED
        BY <1>b, <2>1, <2>3, <3>1, MonNodeNames
    <2>4. CASE UNCHANGED monSteps /\ monNode' = "recordCheckFailure"
      BY <1>a, <2>1, <2>4, MonNodeNames
    <2>q. QED
      BY <1>2, <2>2, <2>3, <2>4 DEF ObserveTarget
  <1>3. CASE RecordCheckTimeout
    BY <1>0, <1>3, <1>a, MonNodeNames DEF RecordCheckTimeout, Going
  <1>4. CASE Decide
    <2>1. /\ UNCHANGED <<mayRepair, monSteps>> /\ monNode' \in {"finish", "schedule", "act", "repairGuard"}
          /\ monNode' # "finish" => ~(count >= MaxChecks)
      BY <1>4 DEF Decide, count
    <2>2. count < MaxChecks \/ monNode' = "finish"
      BY <1>0, <1>n, <2>1
    <2>3. "finish" \notin Going \cup Repairing \cup {"repairGuard"}
      BY DEF Going, Repairing
    <2>q. QED
      BY <1>a, <2>1, <2>2, <2>3, MonNodeNames
  <1>5. CASE RepairGuard
    BY <1>0, <1>5, <1>a, MonNodeNames DEF RepairGuard
  <1>6. CASE Implementation
    <2>1. Implemented \in MonRecords /\ Implemented.kind # "check"
      BY DEF MonRecords, Implemented
    <2>2. count < MaxChecks
      BY <1>0, <1>6 DEF Implementation, Repairing
    <2>q. QED
      BY <1>6, <1>b, <2>1, <2>2, MonNodeNames DEF Implementation
  <1>7. CASE MonStops
    <2>1. "failed" \notin Going \cup Repairing \cup {"repairGuard"}
      BY DEF Going, Repairing
    <2>q. QED
      BY <1>7, <1>a, <2>1, MonNodeNames DEF MonStops
  <1>8. CASE UNCHANGED monVars
    BY <1>0, <1>8, <1>a DEF monVars, MonTypeOK
  <1>q. QED
    BY <1>1, <1>2, <1>3, <1>4, <1>5, <1>6, <1>7, <1>8 DEF MonNext

-----------------------------------------------------------------------------

LEMMA VerTypesInit == VerInit => VerTypeOK
  <1> SUFFICES ASSUME VerInit PROVE VerTypeOK
    OBVIOUS
  <1>1. NoCheckResults \in [VerChecks -> CheckResults \cup {"none"}]
    BY DEF NoCheckResults
  <1>q. QED
    BY <1>1 DEF VerInit, VerTypeOK

LEMMA VerTypesStep == VerTypeOK /\ [VerNext]_verVars => VerTypeOK'
  <1> SUFFICES ASSUME VerTypeOK, [VerNext]_verVars PROVE VerTypeOK'
    OBVIOUS
  <1>1. CASE SelectChecks \/ PlanChecks \/ Classify \/ VerRepairGuard \/ VerStops
    <2>1. UNCHANGED <<request, candidate, base, cleanup, judgment>>
      BY <1>1 DEF SelectChecks, PlanChecks, Classify, VerRepairGuard, VerStops
    <2>2. verNode' \in {"runCandidate", "planChecks", "blocked", "judge", "ready", "repairGuard",
                        "mechanicalRepair", "semanticRepair", "stopped"}
      BY <1>1 DEF SelectChecks, PlanChecks, Classify, VerRepairGuard, VerStops, VerGo, VerRoute
    <2>q. QED
      BY <2>1, <2>2 DEF VerTypeOK, VerEnds
  <1>2. CASE RunCandidate
    <2>1. \A f \in [VerChecks -> CheckResults] : f \in [VerChecks -> CheckResults \cup {"none"}]
      OBVIOUS
    <2>q. QED
      BY <1>2, <2>1 DEF RunCandidate, VerGo, VerTypeOK
  <1>3. CASE RunBase
    <2>1. PICK f \in [Comparable -> (CheckResults \ {"partial"}) \cup {"none"}] :
            base' = [c \in VerChecks |-> IF c \in Comparable THEN f[c] ELSE "none"]
      BY <1>3 DEF RunBase
    <2>2. base' \in [VerChecks -> CheckResults \cup {"none"}]
      BY <2>1
    <2>3. cleanup' \in BOOLEAN
      BY <1>3 DEF RunBase
    <2>q. QED
      BY <1>3, <2>2, <2>3 DEF RunBase, VerGo, VerTypeOK
  <1>4. CASE MechanicalRepair \/ SemanticRepair
    BY <1>4 DEF MechanicalRepair, SemanticRepair, Repaired, VerGo, VerTypeOK
  <1>5. CASE Judge
    BY <1>5 DEF Judge, VerGo, VerTypeOK, VerEnds
  <1>6. CASE UNCHANGED verVars
    BY <1>6 DEF verVars, VerTypeOK
  <1>q. QED
    BY <1>1, <1>2, <1>3, <1>4, <1>5, <1>6 DEF VerNext

-----------------------------------------------------------------------------

\* A round under way is one that may be answered.
PlanTypes ==
    /\ PlanTypeOK
    /\ planNode \notin {"continued", "replanGuard"} \cup PlanEnds => Len(answers) < MaxRounds

LEMMA PlanTypesInit == PlanInit => PlanTypes
  <1> SUFFICES ASSUME PlanInit PROVE PlanTypes
    OBVIOUS
  <1>1. Len(answers) = 0 /\ MaxRounds \in Nat \ {0}
    BY PlanAssumption DEF PlanInit
  <1>2. planNode \in {e[1] : e \in AutoplanEdges}
    <2>1. \E e \in AutoplanEdges : e[1] = "captureIntent"
      BY DEF AutoplanEdges
    <2>q. QED
      BY <2>1 DEF PlanInit
  <1>3. {designed, documented, canonical} \subseteq Plans \cup {NoPlan}
    BY DEF PlanInit, Inputs
  <1>q. QED
    BY <1>1, <1>2, <1>3 DEF PlanInit, PlanTypes, PlanTypeOK

LEMMA PlanTypesStep == PlanInv /\ PlanTypes /\ [PlanNext]_planVars => PlanTypes'
  <1> SUFFICES ASSUME PlanInv, PlanTypes, [PlanNext]_planVars PROVE PlanTypes'
    OBVIOUS
  <1>0. /\ PlanTypeOK /\ Len(answers) \in Nat /\ Len(answers) <= MaxRounds /\ MaxRounds \in Nat
        /\ planNode \notin {"continued", "replanGuard"} \cup PlanEnds => Len(answers) < MaxRounds
    BY PlanAssumption DEF PlanInv, PlanTypes, PlanTypeOK
  \* Where the run goes is a node of the graph.
  <1>n. planNode' \in PlanEnds \cup {e[1] : e \in AutoplanEdges} \cup
          {"plan", "prepare", "inspectDocumentation", "updateDocumentation", "verification",
           "routePolicy", "approve", "continued", "replanGuard"}
    <2>1. PlanInv'
      BY PlanInvStep
    <2>q. QED
      BY <2>1 DEF PlanInv, Designing, Documenting, Approving
  <1>a. ASSUME UNCHANGED <<asked, answers>>, {designed', documented', canonical'} \subseteq Plans \cup {NoPlan},
               \/ planNode' \in {"continued", "replanGuard"} \cup PlanEnds
               \/ Len(answers) < MaxRounds
        PROVE  PlanTypes'
    BY <1>0, <1>a, <1>n DEF PlanTypes, PlanTypeOK
  <1>b. ASSUME NEW r, answers' = Append(answers, r), UNCHANGED <<asked, designed, documented, canonical>>,
               planNode' \in {"continued", "replanGuard"} \cup PlanEnds, Len(answers) < MaxRounds
        PROVE  PlanTypes'
    <2>1. Len(answers') = Len(answers) + 1
      BY <1>b, AppendedAnswer DEF PlanInv
    <2>q. QED
      BY <1>0, <1>b, <1>n, <2>1 DEF PlanTypes, PlanTypeOK, PlanEnds
  <1>1. CASE AutoplanWalk
    <2>1. planNode \in {"captureIntent", "frame", "solutions", "holyGrail", "select"}
      BY <1>1 DEF AutoplanWalk, AutoplanEdges
    <2>q. QED
      BY <1>0, <1>1, <1>a, <2>1 DEF AutoplanWalk, PlanTypeOK, PlanEnds
  <1>2. CASE SelectNothing \/ DocumentationBlocked \/ FinalizePlan \/ PlanStops
    BY <1>0, <1>2, <1>a DEF SelectNothing, DocumentationBlocked, FinalizePlan, PlanStops, PlanTypeOK, PlanEnds
  <1>3. CASE AssessPlan
    BY <1>0, <1>3, <1>a DEF AssessPlan, PlanTypeOK, PlanEnds
  <1>4. CASE PrepareDocumentation \/ InspectDocumentation \/ UpdateDocumentation \/ VerifyDocumentation
    BY <1>0, <1>4, <1>a DEF PrepareDocumentation, InspectDocumentation, UpdateDocumentation,
                            VerifyDocumentation, Documented, PlanTypeOK, PlanEnds
  <1>5. CASE RoutePolicy
    <2>1. planNode = "routePolicy" /\ UNCHANGED <<asked, designed, documented, canonical>>
          /\ Len(answers) < MaxRounds
      BY <1>0, <1>5 DEF RoutePolicy, PlanEnds
    <2>2. CASE asked.mode = "skip"
      BY <1>5, <1>b, <2>1, <2>2 DEF RoutePolicy
    <2>3. CASE asked.mode # "skip"
      BY <1>0, <1>5, <1>a, <2>1, <2>3 DEF RoutePolicy, PlanTypeOK
    <2>q. QED
      BY <2>2, <2>3
  <1>6. CASE Approve
    <2>1. PICK c \in Choices :
            /\ answers' = Append(answers, [plan |-> documented, by |-> c.by, choice |-> c.choice])
            /\ planNode' = CASE c.choice = "continue" -> "continued"
                             [] c.choice = "stop" -> "planBlocked"
                             [] c.choice = "replan" -> "replanGuard"
      BY <1>6 DEF Approve
    <2>2. planNode' \in {"continued", "planBlocked", "replanGuard"}
      BY <2>1 DEF Choices
    <2>q. QED
      BY <1>0, <1>6, <1>b, <2>1, <2>2 DEF Approve, PlanEnds
  <1>7. CASE ReplanGuard
    <2>1. planNode' \in PlanEnds \/ ~(Len(answers) >= MaxRounds)
      BY <1>7 DEF ReplanGuard, PlanEnds
    <2>2. planNode' \in PlanEnds \/ Len(answers) < MaxRounds
      BY <1>0, <2>1
    <2>q. QED
      BY <1>0, <1>7, <1>a, <2>2 DEF ReplanGuard, PlanTypeOK
  <1>8. CASE UNCHANGED planVars
    BY <1>0, <1>8 DEF planVars, PlanTypes, PlanTypeOK
  <1>q. QED
    BY <1>1, <1>2, <1>3, <1>4, <1>5, <1>6, <1>7, <1>8 DEF PlanNext

\* Whatever is in the repository is a branch, and a receipt is one of its requests.
LEMMA WorkTypes == WorkInv => WorkTypeOK
  <1> SUFFICES ASSUME WorkInv PROVE WorkTypeOK
    OBVIOUS
  <1>1. GitOK /\ WantedOK
    BY DEF WorkInv
  <1>2. /\ DOMAIN git.branches \cup DOMAIN git.trees \cup git.origin \subseteq Branches
        /\ git.dirty \in BOOLEAN /\ git.made \in Commits
    BY <1>1 DEF GitOK
  <1>3. Range(git.branches) \subseteq SUBSET Commits /\ Heads \subseteq DOMAIN git.branches
    BY <1>1 DEF GitOK, Range, Heads
  <1>q. QED
    BY <1>1, <1>2, <1>3 DEF WorkInv, WantedOK, Creating, WorkTypeOK

-----------------------------------------------------------------------------
(* The graphs together *)

\* repairGuard of monitor and of change-verification: whatever checks, waits, judgments
\* and other repairs lie between, no failure is repaired twice, for any failures and
\* limits; steps of the other graphs leave both alone.
THEOREM RepairedOnce == GrfSpec => []NoRepairTwice
  <1>1. GrfInit => MonInv /\ VerInv
    BY MonInvInit, VerInvInit DEF GrfInit
  <1>2. ASSUME MonInv, VerInv, [GrfNext]_grfVars  PROVE  MonInv' /\ VerInv'
    <2>1. [MonNext]_monVars /\ [VerNext]_verVars
      BY <1>2 DEF GrfNext, Of, grfVars, monVars, verVars
    <2>q. QED
      BY <1>2, <2>1, MonInvStep, VerInvStep
  <1>3. MonInv /\ VerInv => NoRepairTwice
    BY MonRepairs DEF NoRepairTwice, VerInv
  <1>q. QED
    BY <1>1, <1>2, <1>3, PTL DEF GrfSpec

\* The verdicts of autoimplement, change-verification, plan-change and workspace-preparation
\* (their finalize, ready and receipt): for any numbers of challenges, fallbacks, repairs,
\* plans and rounds, and whatever people do with the repository, a run that claims success
\* has what it claims: work checked, published, reviewed and found ready after its last
\* change; a change whose checks passed after the last repair; the plan that was
\* documented and approved last; the workspace the receipt describes.
THEOREM VerdictEarned == GrfSpec => []VerdictIsEarned
  <1> DEFINE Inv == AutInv /\ VerInv /\ PlanInv /\ WorkInv
  <1>1. GrfInit => Inv
    BY AutInvInit, VerInvInit, PlanInvInit, WorkInvInit DEF GrfInit
  <1>2. Inv /\ [GrfNext]_grfVars => Inv'
    <2> SUFFICES ASSUME Inv, [GrfNext]_grfVars  PROVE  Inv'
      OBVIOUS
    <2>1. [AutNext]_autVars /\ [VerNext]_verVars /\ [PlanNext]_planVars /\ [WorkNext]_workVars
      BY DEF GrfNext, Of, grfVars, autVars, verVars, planVars, workVars
    <2>q. QED
      BY <2>1, AutInvStep, VerInvStep, PlanInvStep, WorkInvStep
  <1>3. Inv => VerdictIsEarned
    <2> SUFFICES ASSUME Inv  PROVE  VerdictIsEarned
      OBVIOUS
    <2>1. CompletedMeansChecked
      BY DEF AutInv, Evidence, Earned, CompletedMeansChecked, CurrentReadyCi, WorkDone, WorkChecked,
             OnDefaultBranch, UnderReview, FixingP2, Commenting, WatchingCi, Delivering
    <2>2. ReadyMeansApproved
      BY DEF PlanInv, Finished, ReadyMeansApproved
    <2>3. ReadyMeansPassed /\ ReadyMeansOwned
      BY DEF VerInv, WorkInv
    <2>q. QED
      BY <2>1, <2>2, <2>3 DEF VerdictIsEarned
  <1>q. QED
    BY <1>1, <1>2, <1>3, PTL DEF GrfSpec

\* The projection of an included workflow (projectWorkflowContext): however deep includes
\* are nested and however often they are entered again, what a node is given of the one
\* flat state, its input, the outputs of the nodes beside it and the steps of its scope,
\* is what it would be given by a call frame of its own, made when the include was entered.
THEOREM IncludesHaveFrames == GrfSpec => []IncludesAreFrames
  <1>1. GrfInit => ComInv
    BY ComInvInit DEF GrfInit
  <1>2. ComInv /\ [GrfNext]_grfVars => ComInv'
    <2> SUFFICES ASSUME ComInv, [GrfNext]_grfVars  PROVE  ComInv'
      OBVIOUS
    <2>1. [ComNext]_comVars
      BY DEF GrfNext, Of, grfVars, comVars
    <2>q. QED
      BY <2>1, ComInvNext
  <1>q. QED
    BY <1>1, <1>2, ComInvShows, PTL DEF GrfSpec

\* The types and bounds of every part, for any graph and limits: the engine's bundle and
\* row, the state of the built-in workflows (challengeBlockerGuard, timeoutFallbackGuard,
\* repairGuard and replanGuard keep what they count within the limits), the flat
\* state of included workflows and a batch of commands.
THEOREM GraphTypes == GrfSpec => []GrfTypeOK
  <1> DEFINE Inv == /\ EngInv /\ AutInv /\ AutTypes /\ MonInv /\ MonTypes /\ VerTypeOK
                    /\ PlanInv /\ PlanTypes /\ WorkInv /\ ComInv /\ BatInv
  <1>1. GrfInit => Inv
    BY EngInvInit, AutInvInit, AutTypesInit, MonInvInit, MonTypesInit, VerTypesInit, PlanInvInit,
       PlanTypesInit, WorkInvInit, ComInvInit, BatInvInit DEF GrfInit
  <1>2. Inv /\ [GrfNext]_grfVars => Inv'
    <2> SUFFICES ASSUME Inv, [GrfNext]_grfVars  PROVE  Inv'
      OBVIOUS
    <2>1. [Next]_vars
      BY DEF GrfNext, Of, grfVars
    <2>2. /\ [AutNext]_autVars /\ [MonNext]_monVars /\ [VerNext]_verVars /\ [PlanNext]_planVars
          /\ [WorkNext]_workVars /\ [ComNext]_comVars /\ [BatNext]_batVars
      BY DEF GrfNext, Of, grfVars, autVars, monVars, verVars, planVars, workVars, comVars, batVars
    <2>q. QED
      BY <2>1, <2>2, EngInvStep, AutInvStep, AutTypesStep, MonInvStep, MonTypesStep, VerTypesStep,
         PlanInvStep, PlanTypesStep, WorkInvStep, ComInvNext, BatInvStep
  <1>3. Inv => GrfTypeOK
    <2> SUFFICES ASSUME Inv  PROVE  GrfTypeOK
      OBVIOUS
    <2>1. TypeOK /\ AutTypeOK /\ MonTypeOK /\ VerTypeOK /\ PlanTypeOK /\ BatTypeOK
      BY DEF EngInv, AutTypes, MonTypes, PlanTypes, BatInv
    <2>q. QED
      BY <2>1, WorkTypes, ComInvTypes DEF GrfTypeOK
  <1>q. QED
    BY <1>1, <1>2, <1>3, PTL DEF GrfSpec
=============================================================================
