---------------------------- MODULE CommandBatch ----------------------------
(***************************************************************************)
(* runCommandBatch and the runShellAction beneath it: a pool of workers runs *)
(* the commands of a batch, each after its Git preconditions.  A timeout or  *)
(* an abort sends SIGTERM to the child's process group and SIGKILL a second  *)
(* later; the result is made once the child's streams have closed and its    *)
(* last lines are handled.  Children and Git are external.                   *)
(***************************************************************************)
EXTENDS Integers, FiniteSets

CONSTANTS
    BatchSize,   \* commands are 1..BatchSize
    BatchWidth,  \* maxConcurrency
    Readers      \* commands whose lines are published while they run (onLine): those of
                 \* an engine's action nodes, which run one at a time

ASSUME BatchAssumption ==
    BatchSize \in Nat /\ BatchWidth \in Nat \ {0} /\ Readers \subseteq 1..BatchSize

VARIABLES
    stopping,  \* the batch's signal is aborted
    cursor,    \* nextIndex
    hands,     \* hands[k]: the command worker k runs, 0 at its loop's head, Through
    cmd,       \* cmd[i]: where runItem is
    shell,     \* shell[i]: "none", "alive", or how it exited: "zero", "nonzero"
    killedBy,  \* killedBy[i]: "none", "timeout", "abort"
    lineError, \* lineError[i]: handling a line has failed
    results,   \* results[i]: the outcome recorded for i
    stray      \* commands whose group was signalled after their child had closed (ghost)

batVars == <<stopping, cursor, hands, cmd, shell, killedBy, lineError, results, stray>>

Commands == 1..BatchSize
Crew == 1..BatchWidth
Through == BatchSize + 1
Outcome == {"succeeded", "failed", "timedOut", "cancelled"}
Exited == {"zero", "nonzero"}
\* The timer and the abort listener are installed.
Watched == {"running", "flushing"}

SettledAs(i, outcome) ==
    cmd' = [cmd EXCEPT ![i] = "over"] /\ results' = [results EXCEPT ![i] = outcome]

\* Killed: the first reason sticks; the group is signalled in any case.
Killed(targets, why) ==
    /\ killedBy' = [i \in Commands |-> IF i \in targets /\ killedBy[i] = "none"
                                       THEN why ELSE killedBy[i]]
    /\ stray' = stray \cup {i \in targets : shell[i] \in Exited}

----------------------------------------------------------------------------
TakeCommand(k) ==
    /\ hands[k] = 0
    /\ IF stopping \/ cursor > BatchSize
       THEN hands' = [hands EXCEPT ![k] = Through] /\ UNCHANGED <<cursor, cmd>>
       ELSE /\ hands' = [hands EXCEPT ![k] = cursor] /\ cursor' = cursor + 1
            /\ cmd' = [cmd EXCEPT ![cursor] = "checking"]
    /\ UNCHANGED <<stopping, shell, killedBy, lineError, results, stray>>

\* CheckGit: a failed precondition fails the command; an abort of the check cancels it.
CheckGit(i) ==
    /\ cmd[i] = "checking"
    /\ \/ SettledAs(i, "failed")
       \/ stopping /\ SettledAs(i, "cancelled")
       \/ cmd' = [cmd EXCEPT ![i] = "spawning"] /\ UNCHANGED results
    /\ UNCHANGED <<stopping, cursor, hands, shell, killedBy, lineError, stray>>

\* Spawn: an aborted batch starts nothing; a command that cannot be started has failed.
Spawn(i) ==
    /\ cmd[i] = "spawning"
    /\ \/ stopping /\ SettledAs(i, "cancelled") /\ UNCHANGED shell
       \/ ~stopping /\ SettledAs(i, "failed") /\ UNCHANGED shell
       \/ /\ ~stopping /\ cmd' = [cmd EXCEPT ![i] = "running"]
          /\ shell' = [shell EXCEPT ![i] = "alive"] /\ UNCHANGED results
    /\ UNCHANGED <<stopping, cursor, hands, killedBy, lineError, stray>>

ShellTimesOut(i) ==
    /\ cmd[i] \in Watched /\ killedBy[i] = "none" /\ Killed({i}, "timeout")
    /\ i \in Readers \/ shell[i] = "alive"
    /\ UNCHANGED <<stopping, cursor, hands, cmd, shell, lineError, results>>

BatchAborts ==
    /\ ~stopping /\ stopping' = TRUE
    /\ Killed({i \in Commands : cmd[i] \in Watched}, "abort")
    /\ UNCHANGED <<cursor, hands, cmd, shell, lineError, results>>

\* LineFails: the command is killed as if it were aborted, and fails with that error;
\* a failure of the unfinished last line kills nothing.
LineFails(i) ==
    /\ i \in Readers /\ cmd[i] \in Watched /\ ~lineError[i]
    /\ lineError' = [lineError EXCEPT ![i] = TRUE]
    /\ \/ Killed({i}, "abort")
       \/ shell[i] \in Exited /\ UNCHANGED <<killedBy, stray>>
    /\ UNCHANGED <<stopping, cursor, hands, cmd, shell, results>>

\* ChildCloses: by itself, on SIGTERM, which it may answer with status 0, or killed.
ChildCloses(i) ==
    /\ shell[i] = "alive"
    /\ shell' \in {[shell EXCEPT ![i] = e] : e \in Exited}
    /\ cmd' = [cmd EXCEPT ![i] = "flushing"]
    /\ UNCHANGED <<stopping, cursor, hands, killedBy, lineError, results, stray>>

\* Variant: the exit status is looked at before the reason of the kill.
StatusFirst(i) ==
    IF lineError[i] THEN "failed"
    ELSE IF shell[i] = "zero" THEN "succeeded"
    ELSE IF killedBy[i] = "timeout" THEN "timedOut"
    ELSE IF killedBy[i] = "abort" THEN "cancelled"
    ELSE "failed"

\* ShellFailure: what a closed command amounts to.
ShellFailure(i) ==
    IF lineError[i] THEN "failed"
    ELSE IF killedBy[i] = "timeout" THEN "timedOut"
    ELSE IF killedBy[i] = "abort" THEN "cancelled"
    ELSE IF shell[i] = "zero" THEN "succeeded"
    ELSE "failed"

FlushLines(i) ==
    /\ cmd[i] = "flushing" /\ SettledAs(i, ShellFailure(i))
    /\ UNCHANGED <<stopping, cursor, hands, shell, killedBy, lineError, stray>>

ItemSettles(k) ==
    /\ hands[k] \in Commands /\ cmd[hands[k]] = "over"
    /\ hands' = [hands EXCEPT ![k] = 0]
    /\ UNCHANGED <<stopping, cursor, cmd, shell, killedBy, lineError, results, stray>>

\* BatchReturns: what nobody started is reported as cancelled.
BatchReturns ==
    /\ \A k \in Crew : hands[k] = Through
    /\ \E i \in Commands : results[i] = "none"
    /\ results' = [i \in Commands |-> IF results[i] = "none" THEN "cancelled" ELSE results[i]]
    /\ UNCHANGED <<stopping, cursor, hands, cmd, shell, killedBy, lineError, stray>>

----------------------------------------------------------------------------
BatInit ==
    /\ stopping = FALSE /\ cursor = 1 /\ hands = [k \in Crew |-> 0]
    /\ cmd = [i \in Commands |-> "waiting"] /\ shell = [i \in Commands |-> "none"]
    /\ killedBy = [i \in Commands |-> "none"] /\ lineError = [i \in Commands |-> FALSE]
    /\ results = [i \in Commands |-> "none"] /\ stray = {}

CommandNext(i) ==
    CheckGit(i) \/ Spawn(i) \/ ShellTimesOut(i) \/ LineFails(i) \/ ChildCloses(i)
    \/ FlushLines(i)

BatNext ==
    \/ BatchAborts \/ BatchReturns
    \/ \E k \in Crew : TakeCommand(k) \/ ItemSettles(k)
    \/ \E i \in Commands : CommandNext(i)

BatSpec == BatInit /\ [][BatNext]_batVars

BatTypeOK ==
    /\ stopping \in BOOLEAN /\ cursor \in 1..Through /\ hands \in [Crew -> 0..Through]
    /\ cmd \in [Commands -> Watched \cup {"waiting", "checking", "spawning", "over"}]
    /\ shell \in [Commands -> Exited \cup {"none", "alive"}]
    /\ killedBy \in [Commands -> {"none", "timeout", "abort"}]
    /\ lineError \in [Commands -> BOOLEAN] /\ results \in [Commands -> Outcome \cup {"none"}]
    /\ stray \subseteq Commands

\* BatchTellsTheTruth (runCommandBatch, runShellAction): a command that is reported is
\* not running any more; one reported as succeeded exited with status 0, was not killed
\* and had its lines handled; one that nobody started is reported as failed or
\* cancelled; and when the workers are through, no child is left and no command is
\* skipped but by an abort.
BatchTellsTheTruth ==
    /\ \A i \in Commands : results[i] # "none" =>
         /\ shell[i] # "alive"
         /\ results[i] = "succeeded" =>
                shell[i] = "zero" /\ killedBy[i] = "none" /\ ~lineError[i]
         /\ shell[i] = "none" => results[i] \in {"failed", "cancelled"}
    /\ (\A k \in Crew : hands[k] = Through) =>
         \A i \in Commands : shell[i] # "alive" /\ (results[i] = "none" => stopping)

\* NoSignalAfterClose (runShellAction): no signal is sent to the process group of a
\* command that has closed, whose id may belong to others by now.
NoSignalAfterClose == stray = {}

=============================================================================
