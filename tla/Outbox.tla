------------------------------- MODULE Outbox -------------------------------
(* The notification outbox: a notify node of the engine stores its message,   *)
(* the origin session's sync pass shows it. A notification is one pass of the *)
(* node, numbered as the engine counts them.                                  *)
EXTENDS Integers

CONSTANTS MaxNotes,   \* bound: times the notify node is visited
          MaxCrashes  \* bound: crashes of runner and session

ASSUME OutboxAssumption == {MaxNotes, MaxCrashes} \subseteq Nat

VARIABLES
    okSteps,   \* steps of the notify node that are recorded ok
    notifying, \* the runner: "away", "sending", "sent", before node_finished
    note,      \* note[k]: the row of notification index k
    noteClaim, \* noteClaim[k]: its delivery claim is live
    batch,     \* the rows the session's pass has claimed and not yet handled
    known,     \* alreadyDelivered: what the pass found in the branch
    shown,     \* shown[k]: messages of the branch with its id
    crashes

outVars == <<okSteps, notifying, note, noteClaim, batch, known, shown, crashes>>

Notes == 1..MaxNotes

OutTypeOK ==
    /\ okSteps \in 0..MaxNotes
    /\ notifying \in {"away", "sending", "sent"}
    /\ note \in [Notes -> {"none", "queued", "delivered"}]
    /\ noteClaim \in [Notes -> BOOLEAN]
    /\ batch \subseteq Notes /\ known \subseteq Notes
    /\ shown \in [Notes -> 0..MaxCrashes + 1]
    /\ crashes \in 0..MaxCrashes

OutInit ==
    /\ okSteps = 0 /\ notifying = "away"
    /\ note = [k \in Notes |-> "none"] /\ noteClaim = [k \in Notes |-> FALSE]
    /\ batch = {} /\ known = {}
    /\ shown = [k \in Notes |-> 0] /\ crashes = 0

-----------------------------------------------------------------------------
(* The engine's notify node *)

EnterNotify ==
    /\ notifying = "away" /\ okSteps < MaxNotes
    /\ notifying' = "sending"
    /\ UNCHANGED <<okSteps, note, noteClaim, batch, known, shown, crashes>>

\* Variant: every visit, a repeated one too, has a number of its own.
NextAfterAll == 1 + CHOOSE n \in 0..MaxNotes : \A k \in Notes : (note[k] # "none") = (k <= n)

\* The index counts the node's recorded ok steps: a repeated visit has the same.
NoteIndex == okSteps + 1

\* enqueueWorkflowNotification: an existing row of run, node and index stays.
Enqueue ==
    /\ notifying = "sending" /\ NoteIndex \in Notes
    /\ note' = IF note[NoteIndex] = "none" THEN [note EXCEPT ![NoteIndex] = "queued"] ELSE note
    /\ notifying' = "sent"
    /\ UNCHANGED <<okSteps, noteClaim, batch, known, shown, crashes>>

StepRecorded ==
    /\ notifying = "sent"
    /\ notifying' = "away" /\ okSteps' = okSteps + 1
    /\ UNCHANGED <<note, noteClaim, batch, known, shown, crashes>>

\* The runner dies; the run is resumed at the node it was in.
RunnerDies ==
    /\ notifying # "away" /\ crashes < MaxCrashes
    /\ notifying' = "away" /\ crashes' = crashes + 1
    /\ UNCHANGED <<okSteps, note, noteClaim, batch, known, shown>>

-----------------------------------------------------------------------------
(* The session's sync pass; it has no await, but it can die inside *)

PendingNotes == {k \in Notes : note[k] = "queued" /\ ~noteClaim[k]}

\* deliveredNotificationIds
DeliveredIds == {k \in Notes : shown[k] > 0}

\* claimPendingWorkflowNotifications
ClaimNotes ==
    /\ batch = {} /\ PendingNotes # {}
    /\ batch' = PendingNotes
    /\ noteClaim' = [k \in Notes |-> noteClaim[k] \/ k \in PendingNotes]
    /\ known' = DeliveredIds
    /\ UNCHANGED <<okSteps, notifying, note, shown, crashes>>

ShowNote(k) ==
    /\ k \in batch \ known
    /\ shown' = [shown EXCEPT ![k] = @ + 1] /\ known' = known \union {k}
    /\ UNCHANGED <<okSteps, notifying, note, noteClaim, batch, crashes>>

\* markWorkflowNotificationDelivered
MarkDelivered(k) ==
    /\ k \in batch \intersect known
    /\ note' = [note EXCEPT ![k] = "delivered"] /\ noteClaim' = [noteClaim EXCEPT ![k] = FALSE]
    /\ batch' = batch \ {k}
    /\ UNCHANGED <<okSteps, notifying, known, shown, crashes>>

\* The session dies, or a call throws: its claims stay until they run out.
SessionDies ==
    /\ batch # {} /\ crashes < MaxCrashes
    /\ batch' = {} /\ known' = {} /\ crashes' = crashes + 1
    /\ UNCHANGED <<okSteps, notifying, note, noteClaim, shown>>

\* Variant: a claim has no lease.
NoteClaimStays(k) == FALSE /\ UNCHANGED outVars

NoteClaimRunsOut(k) ==
    /\ noteClaim[k] /\ k \notin batch
    /\ noteClaim' = [noteClaim EXCEPT ![k] = FALSE]
    /\ UNCHANGED <<okSteps, notifying, note, batch, known, shown, crashes>>
-----------------------------------------------------------------------------
OutGoesOn ==
    \/ EnterNotify \/ Enqueue \/ StepRecorded \/ ClaimNotes
    \/ \E k \in Notes : ShowNote(k) \/ MarkDelivered(k) \/ NoteClaimRunsOut(k)

OutNext == OutGoesOn \/ RunnerDies \/ SessionDies

OutSpec == OutInit /\ [][OutNext]_outVars

-----------------------------------------------------------------------------
(* Properties *)

\* A visit of the notify node shows one message, however often the runner
\* repeats the node and the session its pass: never more messages than visits,
\* and none twice.
NotifiedOnce ==
    /\ \A k \in Notes : shown[k] <= 1
    /\ \A k \in Notes : note[k] # "none" => k <= okSteps + 1

\* What the node has stored reaches the branch, whoever dies in between.
NoteIsShown == []<>(\A k \in Notes : note[k] = "queued" => shown[k] > 0)
=============================================================================
