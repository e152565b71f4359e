--------------------------- MODULE HumanDecisions ---------------------------
(* One human decision: the immutable files of HumanDecisionStore, the people  *)
(* and the recovery timers of several sessions that race to resolve it, and   *)
(* the one continuation run it may have. A file is written with link(2), so   *)
(* the first writer wins and every file step is atomic; between two steps of  *)
(* a thread any other thread may move, or its session may die.                *)
EXTENDS Integers, Sequences, FiniteSets

CONSTANTS Sessions,   \* interactive sessions of the project
          Answers,    \* idempotency keys, each of another choice
          MaxActs     \* bound: answers, cancellations and deaths of sessions

ASSUME DecisionAssumption == IsFiniteSet(Sessions) /\ MaxActs \in Nat /\ Sessions # {}

VARIABLES
    policy,     \* "required", "expires" or "auto": expiresAt, defaultResponse
    late,       \* the deadline has passed
    resolution, \* resolution.json
    accepted,   \* accepted.json
    tombstone,  \* cancelled.json
    receipt,    \* continuation.json: what it was recorded for
    origin,     \* originSessionId of the waiting run's row
    slot,       \* the queue row of the continuation: "free", "claimed", "queued"
    runs,       \* what each started continuation was started with
    hand,       \* hand[s]: the answer or cancellation a person has given in s
    timer,      \* timer[s]: the recovery pass of s
    dialog,     \* dialog[s]: the decision is open on the screen of s
    busy,       \* busy[s]: another run is active in s
    acts

files == <<resolution, accepted, tombstone, receipt>>
decVars == <<policy, late, files, origin, slot, runs, hand, timer, dialog, busy, acts>>

Absent == "none"

ASSUME AnswerAssumption == Absent \notin Answers

Timeout == "timeout"
Tombstones == {"cancelled", "expired"}
Decisions == Answers \union {Timeout}
Idle == [pc |-> "idle", by |-> Absent]
Pcs == {"idle", "check", "claim", "confirm", "own", "record", "start", "run",
        "unless", "cancel", "bury", "settle"}

DecTypeOK ==
    /\ policy \in {"required", "expires", "auto"} /\ late \in BOOLEAN
    /\ resolution \in Decisions \union Tombstones \union {Absent}
    /\ accepted \in Decisions \union {Absent}
    /\ tombstone \in Tombstones \union {Absent}
    /\ receipt \in Decisions \union {Absent}
    /\ origin \in Sessions \union {Absent}
    /\ slot \in {"free", "claimed", "queued"}
    /\ \A k \in DOMAIN runs : runs[k] \in Decisions
    /\ \A th \in {hand, timer} :
          th \in [Sessions -> [pc : Pcs, by : Decisions \union Tombstones \union {Absent}]]
    /\ dialog \in [Sessions -> BOOLEAN] /\ busy \in [Sessions -> BOOLEAN]
    /\ acts \in 0..MaxActs

\* The engine has written the request and parked the run; its session holds it.
DecInit ==
    /\ policy \in {"required", "expires", "auto"} /\ late = FALSE
    /\ resolution = Absent /\ accepted = Absent /\ tombstone = Absent /\ receipt = Absent
    /\ origin = (CHOOSE s \in Sessions : TRUE) /\ slot = "free" /\ runs = <<>>
    /\ hand = [s \in Sessions |-> Idle] /\ timer = [s \in Sessions |-> Idle]
    /\ dialog = [s \in Sessions |-> s = origin] /\ busy \in {[s \in Sessions |-> FALSE], dialog}
    /\ acts = 0

Expire ==
    /\ policy # "required" /\ ~late /\ late' = TRUE
    /\ UNCHANGED <<policy, files, origin, slot, runs, hand, timer, dialog, busy, acts>>

-----------------------------------------------------------------------------
(* Files: written once, and the two derived ones repaired by whoever reads *)

\* Variant: rename(2) in place of link(2).
Replaced(file, v) == v

WriteOnce(file, v) == IF file = Absent THEN v ELSE file

IsCancelled == tombstone # Absent \/ resolution \in Tombstones
IsResolved == tombstone = Absent /\ (accepted # Absent \/ resolution \in Decisions)

ReadCancellation ==
    tombstone' = IF resolution \in Tombstones THEN WriteOnce(tombstone, resolution) ELSE tombstone

ReadResolved ==
    accepted' = IF tombstone = Absent /\ resolution \in Decisions
                THEN WriteOnce(accepted, resolution) ELSE accepted

-----------------------------------------------------------------------------
(* The steps of a thread th of session s, from pc a to pc b *)

Threads == {"hand", "timer"}
ThreadOf(th, s) == IF th = "hand" THEN hand[s] ELSE timer[s]

Moves(th, s, next) ==
    IF th = "hand" THEN hand' = [hand EXCEPT ![s] = next] /\ UNCHANGED timer
                   ELSE timer' = [timer EXCEPT ![s] = next] /\ UNCHANGED hand

Goes(th, s, pc) == Moves(th, s, [ThreadOf(th, s) EXCEPT !.pc = pc])
Stops(th, s) == Moves(th, s, Idle)
AtPc(th, s, pc) == ThreadOf(th, s).pc = pc

Act == acts < MaxActs /\ acts' = acts + 1

\* A person answers in a dialog of s or, by Telegram, in any session; an update
\* delivered twice repeats its key.
Answer(s, key) ==
    /\ hand[s] = Idle /\ Act
    /\ Moves("hand", s, [pc |-> "check", by |-> key])
    /\ dialog' \in {dialog, [dialog EXCEPT ![s] = FALSE]}
    /\ UNCHANGED <<policy, late, files, origin, slot, runs, busy>>

\* accept, up to the answer attempt
Check(s) ==
    /\ AtPc("hand", s, "check")
    /\ ReadCancellation
    /\ IF IsCancelled \/ late THEN Stops("hand", s) ELSE Goes("hand", s, "claim")
    /\ UNCHANGED <<policy, late, resolution, accepted, receipt, origin, slot, runs, dialog, busy, acts>>

\* accept and resolveTimeout: the one file that decides
Claim(th, s) ==
    /\ AtPc(th, s, "claim")
    /\ resolution' = WriteOnce(resolution, ThreadOf(th, s).by)
    /\ Goes(th, s, "confirm")
    /\ UNCHANGED <<policy, late, accepted, tombstone, receipt, origin, slot, runs, dialog, busy, acts>>

\* The winner's record; a losing answer throws, a losing timeout takes the winner.
Confirm(th, s) ==
    /\ AtPc(th, s, "confirm")
    /\ ReadCancellation
    /\ IF IsCancelled
       THEN /\ (IF th = "hand" THEN Stops(th, s) ELSE Goes(th, s, "settle"))
            /\ UNCHANGED accepted
       ELSE /\ accepted' = WriteOnce(accepted, resolution)
            /\ IF th = "hand" /\ resolution # hand[s].by
               THEN Stops(th, s)
               ELSE Moves(th, s, [pc |-> "own", by |-> resolution])
    /\ UNCHANGED <<policy, late, resolution, receipt, origin, slot, runs, dialog, busy, acts>>

\* adoptRunOriginSession: compare-and-set on an unbound row
Own(th, s) ==
    /\ AtPc(th, s, "own")
    /\ origin' = IF origin = Absent THEN s ELSE origin
    /\ IF origin' = s THEN Goes(th, s, "record") /\ UNCHANGED dialog
       ELSE /\ Stops(th, s)
            /\ dialog' = IF th = "hand" THEN [dialog EXCEPT ![s] = FALSE] ELSE dialog
    /\ UNCHANGED <<policy, late, files, slot, runs, busy, acts>>

\* recordContinuation, then the look at the continuation's bundle
Record(th, s) ==
    /\ AtPc(th, s, "record")
    /\ receipt' = WriteOnce(receipt, ThreadOf(th, s).by)
    /\ Goes(th, s, IF runs # <<>> \/ (th = "timer" /\ busy[s]) THEN "settle" ELSE "start")
    /\ UNCHANGED <<policy, late, resolution, accepted, tombstone, origin, slot, runs, dialog, busy, acts>>

\* enqueueWorkflowRun: the run id and the parent's slot are unique
SlotIsFree == slot = "free"

Start(th, s) ==
    /\ AtPc(th, s, "start")
    /\ IF busy[s] \/ ~SlotIsFree
       THEN Stops(th, s) /\ UNCHANGED slot
       ELSE Goes(th, s, "run") /\ slot' = "claimed"
    /\ UNCHANGED <<policy, late, files, origin, runs, dialog, busy, acts>>

\* markWorkflowRunRunning and continueRun, which reads the decision again
Run(th, s) ==
    /\ AtPc(th, s, "run")
    /\ ReadResolved
    /\ runs' = IF IsResolved /\ accepted' = ThreadOf(th, s).by
               THEN Append(runs, accepted') ELSE runs
    /\ Goes(th, s, "settle")
    /\ UNCHANGED <<policy, late, resolution, tombstone, receipt, origin, slot, dialog, busy, acts>>

\* Variant: only the dialog that was answered closes.
SettleNothing(th, s) ==
    /\ AtPc(th, s, "settle")
    /\ Stops(th, s)
    /\ UNCHANGED <<policy, late, files, origin, slot, runs, dialog, busy, acts>>

\* settleHumanDecisionChannels aborts the dialogs of its own session.
Settle(th, s) ==
    /\ AtPc(th, s, "settle")
    /\ dialog' = [dialog EXCEPT ![s] = FALSE]
    /\ Stops(th, s)
    /\ UNCHANGED <<policy, late, files, origin, slot, runs, busy, acts>>

-----------------------------------------------------------------------------
(* cancel: by a person, or by the recovery of a request without a default *)

Cancel(s) ==
    /\ hand[s] = Idle /\ Act
    /\ Moves("hand", s, [pc |-> "unless", by |-> "cancelled"])
    /\ UNCHANGED <<policy, late, files, origin, slot, runs, dialog, busy>>

UnlessResolved(th, s) ==
    /\ AtPc(th, s, "unless")
    /\ ReadResolved
    /\ IF IsResolved THEN Stops(th, s) ELSE Goes(th, s, "cancel")
    /\ UNCHANGED <<policy, late, resolution, tombstone, receipt, origin, slot, runs, dialog, busy, acts>>

ClaimCancellation(th, s) ==
    /\ AtPc(th, s, "cancel")
    /\ resolution' = WriteOnce(resolution, ThreadOf(th, s).by)
    /\ IF resolution' = ThreadOf(th, s).by THEN Goes(th, s, "bury") ELSE Stops(th, s)
    /\ UNCHANGED <<policy, late, accepted, tombstone, receipt, origin, slot, runs, dialog, busy, acts>>

Bury(th, s) ==
    /\ AtPc(th, s, "bury")
    /\ tombstone' = WriteOnce(tombstone, resolution)
    /\ Goes(th, s, "settle")
    /\ UNCHANGED <<policy, late, resolution, accepted, receipt, origin, slot, runs, dialog, busy, acts>>

-----------------------------------------------------------------------------
(* recoverHumanDecisions, every second in every session; a pass that would     *)
(* change nothing is left out                                                 *)

Unresolved == ~IsCancelled /\ ~IsResolved

PassIsDue(s) == accepted = Absent \/ (origin \in {s, Absent} /\ (runs = <<>> \/ dialog[s]))

\* Variant: the timer looks after open requests only.
RecoverOpenOnly(s) ==
    /\ timer[s] = Idle /\ Unresolved /\ late
    /\ Moves("timer", s, [pc |-> "claim", by |-> Timeout])
    /\ UNCHANGED <<policy, late, files, origin, slot, runs, dialog, busy, acts>>

Recover(s) ==
    /\ timer[s] = Idle
    /\ \/ /\ IsResolved /\ PassIsDue(s)
          /\ ReadResolved
          /\ Moves("timer", s, [pc |-> "own", by |-> accepted'])
          /\ UNCHANGED tombstone
       \/ /\ IsCancelled /\ (dialog[s] \/ tombstone = Absent)
          /\ ReadCancellation
          /\ Moves("timer", s, [pc |-> "settle", by |-> tombstone'])
          /\ UNCHANGED accepted
       \/ /\ Unresolved /\ late
          /\ Moves("timer", s, IF policy = "auto" THEN [pc |-> "claim", by |-> Timeout]
                                                  ELSE [pc |-> "unless", by |-> "expired"])
          /\ UNCHANGED <<accepted, tombstone>>
    /\ UNCHANGED <<policy, late, resolution, receipt, origin, slot, runs, dialog, busy, acts>>

\* The first pass of a session, and /hitl: an open request is adopted and shown.
Present(s) ==
    /\ Unresolved /\ ~late /\ ~dialog[s] /\ origin \in {s, Absent}
    /\ origin' = s /\ dialog' = [dialog EXCEPT ![s] = TRUE]
    /\ UNCHANGED <<policy, late, files, slot, runs, hand, timer, busy, acts>>

\* activatePreparedLaunch or a host claims the row a dead session left.
QueueResumes ==
    /\ slot = "queued" /\ runs = <<>>
    /\ ReadResolved
    /\ runs' = IF IsResolved THEN <<accepted'>> ELSE runs
    /\ slot' = "claimed"
    /\ UNCHANGED <<policy, late, resolution, tombstone, receipt, origin, hand, timer, dialog, busy, acts>>

OtherRunEnds(s) ==
    /\ busy[s] /\ busy' = [busy EXCEPT ![s] = FALSE]
    /\ UNCHANGED <<policy, late, files, origin, slot, runs, hand, timer, dialog, acts>>

\* A crash, or a shutdown, which unbinds the session's rows.
Die(s) ==
    /\ Act
    /\ origin' \in {origin, IF origin = s THEN Absent ELSE origin}
    /\ slot' = IF \E th \in Threads : AtPc(th, s, "run") THEN "queued" ELSE slot
    /\ hand' = [hand EXCEPT ![s] = Idle] /\ timer' = [timer EXCEPT ![s] = Idle]
    /\ dialog' = [dialog EXCEPT ![s] = FALSE] /\ busy' = [busy EXCEPT ![s] = FALSE]
    /\ UNCHANGED <<policy, late, files, runs>>

-----------------------------------------------------------------------------
ThreadStep(th, s) ==
    \/ Claim(th, s) \/ Confirm(th, s) \/ Own(th, s) \/ Record(th, s)
    \/ Start(th, s) \/ Run(th, s) \/ Settle(th, s)
    \/ UnlessResolved(th, s) \/ ClaimCancellation(th, s) \/ Bury(th, s)

HandStep(s) == Check(s) \/ ThreadStep("hand", s)
TimerStep(s) == Recover(s) \/ ThreadStep("timer", s)

DecNext ==
    \/ Expire \/ QueueResumes
    \/ \E s \in Sessions : \/ HandStep(s) \/ TimerStep(s) \/ Cancel(s) \/ Present(s)
                          \/ OtherRunEnds(s) \/ Die(s)
                          \/ \E key \in Answers : Answer(s, key)

DecSpec == DecInit /\ [][DecNext]_decVars

-----------------------------------------------------------------------------
(* Properties *)

\* However answers, the timeout and cancellations race, one outcome wins: every
\* record that exists is the winner's, and at most one continuation is ever
\* started, with the winner's response; a cancelled decision has none.
OneOutcome ==
    /\ accepted \in {Absent, resolution} /\ tombstone \in {Absent, resolution}
    /\ receipt \in {Absent, resolution}
    /\ Len(runs) <= 1 /\ \A k \in DOMAIN runs : runs[k] = resolution

\* An accepted response or timeout continues the run in the end, whichever
\* session accepted it and whoever died in between.
DecisionContinues == []<>(resolution \in Decisions => runs # <<>>)

\* Once decided, a dialog that is still open in some session is closed.
DialogsClose == []<>(resolution # Absent => \A s \in Sessions : ~dialog[s])
=============================================================================
