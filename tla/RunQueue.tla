------------------------------ MODULE RunQueue ------------------------------
(***************************************************************************)
(* The durable workflow run queue: the workflow_run_queue table of the     *)
(* project store and the statements SqliteControllerStore runs on it.      *)
(*                                                                         *)
(* Every statement is a single UPDATE/INSERT/DELETE or a BEGIN IMMEDIATE   *)
(* transaction, so each is one atomic step here.  A statement is given by  *)
(* the condition of its WHERE clause and the row it leaves; the modules    *)
(* that call it say what happens when the condition does not hold.         *)
(*                                                                         *)
(* A row keeps what the callers can tell apart:                            *)
(*   status  the launch state, "absent" before the INSERT and "deleted"    *)
(*           after the DELETE;                                             *)
(*   token   the claim token.  A token is drawn at random for each claim;  *)
(*           here it is the asynchronous task (worker) that made the       *)
(*           claim, which holds one claim at a time;                       *)
(*   live    claim_expires_at > now.  Real time is not modelled: a lease   *)
(*           runs out in the step Expire of the composing module;          *)
(*   slot    parent_run_id is set: the row occupies its parent's single    *)
(*           continuation slot.                                            *)
(* created_at follows the run number: a run is inserted only when all      *)
(* smaller ones were.  affinity_runner_id is left out: it is a random id   *)
(* of one process, so it only reorders rows that the same process made.    *)
(***************************************************************************)
EXTENDS Integers

CONSTANTS
    NumRuns,    \* runs are numbered in order of creation
    Sessions,   \* interactive sessions, by their session id
    Workers,    \* asynchronous tasks that claim rows
    OriginOf,   \* the session that starts each run (origin_session_id)
    ParentOf,   \* the checkpointed run each continuation answers, or NoRun
    NoRun,      \* "no run"
    Nobody      \* "no claim token"

Runs == 1..NumRuns

ASSUME QueueAssumption ==
    /\ NumRuns \in Nat
    /\ NoRun \notin Runs
    /\ OriginOf \in [Runs -> Sessions]
    /\ ParentOf \in [Runs -> Runs \union {NoRun}]
    /\ Nobody \notin Workers

VARIABLE queue  \* the table: run -> row

Status == {"absent", "queued", "starting", "running", "parked",
           "done", "failed", "cancelled", "deleted"}

\* A claim token is set exactly while the row is claimed.
Rows == {row \in [status : Status, token : Workers \union {Nobody},
                  live : BOOLEAN, slot : BOOLEAN] :
           row.token # Nobody <=> row.status \in {"starting", "running"}}

AbsentRow == [status |-> "absent", token |-> Nobody, live |-> FALSE, slot |-> FALSE]

QueueInit == queue = [r \in Runs |-> AbsentRow]

QueueTypeOK == queue \in [Runs -> Rows]

-----------------------------------------------------------------------------
(* Unique indexes *)

\* Rows that the partial index workflow_run_queue_session_reservation covers.
Reserving(row) == row.status \in {"queued", "starting", "running"}

\* Variant: the index is not UNIQUE.
SessionUnchecked(r) == TRUE

\* No other row of r's session is in that index.
SessionFree(r) ==
    \A o \in Runs \ {r} : OriginOf[o] = OriginOf[r] => ~Reserving(queue[o])

\* The index workflow_run_queue_parent admits another row for r's parent.
ParentFree(r) ==
    ParentOf[r] = NoRun \/ \A o \in Runs : ParentOf[o] = ParentOf[r] => ~queue[o].slot

\* findSessionReservation: the indexed row of session s, if there is one.
ReservedRuns(s) == {r \in Runs : OriginOf[r] = s /\ Reserving(queue[r])}

-----------------------------------------------------------------------------
(* Conditions of the statements *)

\* The row is the next to be inserted and both indexes admit it.
CanInsert(r) ==
    /\ queue[r].status = "absent"
    /\ \A o \in Runs : o < r => queue[o].status # "absent"
    /\ SessionFree(r)
    /\ ParentFree(r)

\* A claim that was taken and has not been released.
Claimed(r) == queue[r].status \in {"starting", "running"}

\* token = ? AND status IN ('starting', 'running'): what releasing needs.
HoldsRow(w, r) == Claimed(r) /\ queue[r].token = w

\* Variant: the fence does not compare the token.
SomeClaimIsLive(w, r) == Claimed(r) /\ queue[r].live

\* verifyWorkflowRunClaim, the fence: the same claim, and its lease is live.
ClaimIsLive(w, r) == HoldsRow(w, r) /\ queue[r].live

\* Variant: WHERE run_id = ? without the claim.
CanMarkUnclaimed(w, r) == queue[r].status # "running"

\* markWorkflowRunRunning
CanMarkRunning(w, r) == queue[r].status = "starting" /\ queue[r].token = w

\* claimWorkflowRun, by run id
CanClaim(r) ==
    \/ queue[r].status \in {"queued", "parked"}
    \/ queue[r].status = "starting" /\ ~queue[r].live

\* Variant: the lease is not looked at.
ClaimableAnyClaim(r) == queue[r].status \in {"queued", "parked", "starting", "running"}

\* The rows claimNextWorkflowRun considers: free, or with a lease run out.
Claimable(r) ==
    \/ queue[r].status \in {"queued", "parked"}
    \/ Claimed(r) /\ ~queue[r].live

\* Variant: a host takes parked rows only, not those of dead runners.
HostParkedOnly(r) == queue[r].status = "parked"

\* ... for a detached host.  Every row of the current program has an origin
\* session, so a host skips rows in "starting" as well as queued ones.
HostCandidate(r) == Claimable(r) /\ queue[r].status \notin {"queued", "starting"}

\* ... for an interactive session: rows that the session started.
SessionCandidate(s, r) == Claimable(r) /\ OriginOf[r] = s

\* ORDER BY created_at ASC LIMIT 1
IsOldest(r, S) == r \in S /\ \A o \in S : r <= o

-----------------------------------------------------------------------------
(* The rows the statements leave *)

HasParent(r) == ParentOf[r] # NoRun

\* reserveWorkflowRun
QueuedRow(r) == [status |-> "queued", token |-> Nobody, live |-> FALSE,
                 slot |-> HasParent(r)]

\* enqueueWorkflowRun: born claimed
EnqueuedRow(r, w) == [status |-> "starting", token |-> w, live |-> TRUE,
                      slot |-> HasParent(r)]

\* claimWorkflowRun, claimNextWorkflowRun
ClaimedRow(row, w) == [row EXCEPT !.status = "starting", !.token = w, !.live = TRUE]

\* markWorkflowRunRunning
RunningRow(row) == [row EXCEPT !.status = "running"]

\* Time: claim_expires_at is reached.
ExpiredRow(row) == [row EXCEPT !.live = FALSE]

\* Clearing the claim on the way to a state without one.
ReleasedRow(row, status) ==
    [row EXCEPT !.status = status, !.token = Nobody, !.live = FALSE]

\* Variant: parks the row whoever holds it.
ParkedByAnyone(row, w) ==
    IF row.status \in {"starting", "running"} THEN ReleasedRow(row, "parked") ELSE row

\* parkWorkflowRun, completeWorkflowRun: only the token is compared.
ParkedRow(row, w) ==
    IF row.status \in {"starting", "running"} /\ row.token = w
    THEN ReleasedRow(row, "parked") ELSE row

CompletedRow(row, w) ==
    IF row.status \in {"starting", "running"} /\ row.token = w
    THEN ReleasedRow(row, "done") ELSE row

\* failWorkflowRun with a token: gives the parent's slot back.
FailedRow(row, w) ==
    IF row.status \in {"queued", "starting", "running"} /\ row.token = w
    THEN [ReleasedRow(row, "failed") EXCEPT !.slot = FALSE] ELSE row

\* cancelWorkflowRun without a token: the parent's slot stays taken.
CancelledRow(row) ==
    IF row.status \in {"queued", "starting"} THEN ReleasedRow(row, "cancelled") ELSE row

\* deleteWorkflowRun: the row goes, and with it the parent's slot.
DeletedRow(row, w) ==
    IF row.token = w
    THEN [ReleasedRow(row, "deleted") EXCEPT !.slot = FALSE] ELSE row

\* repairCanonicalWorkflowSourceRun followed by parkWorkflowRun, in one
\* synchronous stretch at the start of a process, for a bundle that is not
\* terminal: an expired "starting" row is claimed and parked.
RepairedRow(row) ==
    IF row.status = "starting" /\ ~row.live THEN ReleasedRow(row, "parked") ELSE row

Put(r, row) == queue' = [queue EXCEPT ![r] = row]
=============================================================================
