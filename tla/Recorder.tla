------------------------------- MODULE Recorder --------------------------------
(***************************************************************************)
(* Capture of a session's conversation into the bundle of its run.  Pi's    *)
(* hooks stamp events and queue them; a flush appends them to the journal   *)
(* in batches, a chain of its own appends the session's entries, and the    *)
(* end of a message waits in the queue until its entry is known.  Pi waits  *)
(* for a hook before it emits the next; the engine, the flush, timers and   *)
(* the death of the process come in between.  Turns that serve no attempt   *)
(* are not recorded, and of the entries those of recorded messages count.   *)
(***************************************************************************)
EXTENDS Integers, Sequences, FiniteSets

CONSTANTS
    MaxAttempts, MaxTurns, MaxMessages,
    FlushMax,    \* FLUSH_MAX_RECORDS
    QueueMax,    \* QUEUE_MAX_RECORDS
    MaxTroubles  \* writes that fail, timeouts and crashes

ASSUME RecorderAssumption ==
    /\ {MaxAttempts, MaxTurns, MaxMessages, MaxTroubles} \subseteq Nat
    /\ FlushMax \in Nat \ {0} /\ QueueMax \in Nat

VARIABLES
    agentRuns, inTurn, asked,      \* Pi: an agent run, a turn of it, a prompt it has not taken up
    hook,                          \* the hook that awaits its synchronize
    turns, messages, branched,     \* turns and messages so far, messages that have an entry
    active, began,                 \* the installed step, the attempts so far
    abortingTurn, heldPrompt,      \* its turn is being aborted; a prompt that waits for that
    attempt, turn, finished,       \* currentAttempt, owner of currentTurn, lastFinishedAttempt
    message,                       \* currentMessage
    queue, pendingEnds, appending, \* eventQueue, pendingMessageEnds, what is being appended
    journal, torn, entries,        \* events.ndjson and its tail, entries.ndjson
    entryChain,                    \* "idle", "busy", or "failed" until its hook goes on
    observed,                      \* events up to the stop, recorded or not (ghost)
    failure, capture,              \* captureFailure, capture.json
    stage, counts,                 \* where finish and stop are
    recTroubles

stepVars == <<active, began, abortingTurn, heldPrompt>>
piVars == <<agentRuns, inTurn, asked, turns, branched, stepVars>>
ownVars == <<attempt, turn, finished, message, messages>>
eventVars == <<queue, pendingEnds, observed, failure>>
fileVars == <<appending, journal, torn, entries, capture>>
stopVars == <<stage, counts>>
recVars == <<piVars, ownVars, eventVars, fileVars, stopVars, hook, entryChain, recTroubles>>

Listening == stage \in {"open", "waiting"}
Trouble == recTroubles < MaxTroubles /\ recTroubles' = recTroubles + 1
FailCapture(code) == IF failure = "none" THEN code ELSE failure

----------------------------------------------------------------------------
Stamped(kind, of) == [seq |-> observed + 1, kind |-> kind, of |-> of, entry |-> 0]
Full == Len(queue) + Len(appending) >= QueueMax

\* EnqueueEvent: an event of a hook, after the events of q.
EnqueueEvent(kind, of, q) ==
    /\ observed' = observed + (IF Listening THEN 1 ELSE 0)
    /\ queue' = IF Listening /\ failure = "none" /\ ~Full THEN Append(q, Stamped(kind, of))
              ELSE q
    /\ failure' = IF Listening /\ Full THEN FailCapture("event_queue_overflow") ELSE failure

\* Linked: the queue with the ends of messages linked to the entries recorded.
Linked == [i \in DOMAIN queue |->
    IF queue[i].kind = "messageEnd" /\ queue[i].of \in pendingEnds /\ queue[i].of <= entries
    THEN [queue[i] EXCEPT !.entry = queue[i].of] ELSE queue[i]]

\* Await: a hook that synchronizes: the entry chain starts if an end is pending.
Await(h) ==
    /\ hook = "none" /\ hook' = h
    /\ entryChain' = IF pendingEnds # {} /\ Listening THEN "busy" ELSE entryChain

Synchronized(h) == hook = h /\ hook' = "none" /\ entryChain # "busy" /\ entryChain' = "idle"
PendingAfterSync == IF entryChain = "failed" THEN pendingEnds ELSE {}
QueueAfterSync == IF entryChain = "failed" THEN queue ELSE Linked

RecordEntries ==
    /\ entryChain = "busy"
    /\ \/ entryChain' = "idle" /\ entries' = branched /\ UNCHANGED <<failure, recTroubles>>
       \/ /\ Trouble /\ entryChain' = "failed" /\ failure' = FailCapture("entry_write_failed")
          /\ UNCHANGED entries
    /\ UNCHANGED <<piVars, ownVars, queue, pendingEnds, observed, appending, journal, torn,
                   capture, stopVars, hook>>

----------------------------------------------------------------------------
(***************************************************************************)
(* The steps of the run, as far as the recorder sees them.                  *)
(***************************************************************************)
StepBegins ==
    /\ active = 0 /\ began < MaxAttempts /\ stage = "open"
    /\ began' = began + 1 /\ active' = began' /\ attempt' = began'
    /\ IF abortingTurn THEN heldPrompt' = TRUE /\ UNCHANGED asked
       ELSE asked' = TRUE /\ UNCHANGED heldPrompt
    /\ UNCHANGED <<agentRuns, inTurn, turns, branched, abortingTurn, turn, finished, message,
                   messages, eventVars, fileVars, stopVars, hook, entryChain, recTroubles>>

ActiveStepTimesOut ==
    /\ active # 0 /\ active' = 0 /\ abortingTurn' = agentRuns
    /\ UNCHANGED <<agentRuns, inTurn, asked, turns, branched, began, heldPrompt, ownVars,
                   eventVars, fileVars, stopVars, hook, entryChain, recTroubles>>

\* SubmitAwaits: the tool call records what is there before it synchronizes.
SubmitAwaits ==
    /\ active # 0 /\ inTurn /\ hook = "none" /\ hook' = "record"
    /\ entryChain' = IF Listening THEN "busy" ELSE entryChain
    /\ UNCHANGED <<piVars, ownVars, eventVars, fileVars, stopVars, recTroubles>>

SubmitSynchronizes ==
    /\ hook = "record" /\ entryChain # "busy" /\ hook' = "submit"
    /\ entryChain' = IF pendingEnds # {} /\ Listening THEN "busy" ELSE "idle"
    /\ UNCHANGED <<piVars, ownVars, eventVars, fileVars, stopVars, recTroubles>>

Submitted ==
    /\ Synchronized("submit") /\ queue' = QueueAfterSync /\ pendingEnds' = PendingAfterSync
    /\ active' \in {active, 0}
    /\ UNCHANGED <<agentRuns, inTurn, asked, turns, branched, began, abortingTurn, heldPrompt,
                   ownVars, observed, failure, fileVars, stopVars, recTroubles>>

UserPrompts ==
    /\ ~asked /\ turns < MaxTurns /\ asked' = TRUE /\ Listening
    /\ UNCHANGED <<agentRuns, inTurn, turns, branched, stepVars, ownVars,
                   eventVars, fileVars, stopVars, hook, entryChain, recTroubles>>

----------------------------------------------------------------------------
(***************************************************************************)
(* Pi's hooks.                                                              *)
(***************************************************************************)
\* HandleTurnStart: also while agent_settled, which may have sent the prompt, goes on.
HandleTurnStart ==
    /\ hook \in {"none", "settled", "flushed"} /\ (asked \/ (hook = "none" /\ agentRuns))
    /\ ~inTurn /\ ~abortingTurn /\ turns < MaxTurns
    /\ turns' = turns + 1 /\ inTurn' = TRUE /\ agentRuns' = TRUE /\ asked' = FALSE
    /\ IF attempt = 0 THEN UNCHANGED <<turn, eventVars>>
       ELSE turn' = attempt /\ EnqueueEvent("turnStart", turns', queue) /\ UNCHANGED pendingEnds
    /\ UNCHANGED <<branched, stepVars, attempt, finished, message, messages,
                   fileVars, stopVars, hook, entryChain, recTroubles>>

MessageStartAwaits ==
    /\ inTurn /\ turn # 0 /\ message = 0 /\ messages < MaxMessages /\ Await("messageStart")
    /\ UNCHANGED <<piVars, ownVars, eventVars, fileVars, stopVars, recTroubles>>

HandleMessageStart ==
    /\ Synchronized("messageStart") /\ pendingEnds' = PendingAfterSync
    /\ IF entryChain = "failed"
       THEN UNCHANGED <<message, messages, queue, observed, failure>>
       ELSE /\ messages' = messages + 1 /\ message' = messages'
            /\ EnqueueEvent("messageStart", messages', QueueAfterSync)
    /\ UNCHANGED <<piVars, attempt, turn, finished, fileVars, stopVars, recTroubles>>

\* HandleMessageEnd: Pi appends the entry once the hook has returned.
HandleMessageEnd ==
    /\ hook = "none" /\ inTurn /\ message # 0 /\ message' = 0 /\ branched' = message
    /\ EnqueueEvent("messageEnd", message, queue)
    /\ pendingEnds' = IF queue' = queue THEN pendingEnds ELSE pendingEnds \cup {message}
    /\ UNCHANGED <<agentRuns, inTurn, asked, turns, stepVars, attempt, turn,
                   finished, messages, fileVars, stopVars, hook, entryChain, recTroubles>>

TurnEndAwaits ==
    /\ inTurn /\ inTurn' = FALSE
    /\ IF turn = 0 THEN hook = "none" /\ UNCHANGED <<hook, entryChain>> ELSE Await("turnEnd")
    /\ UNCHANGED <<agentRuns, asked, turns, branched, stepVars, ownVars,
                   eventVars, fileVars, stopVars, recTroubles>>

HandleTurnEnd ==
    /\ Synchronized("turnEnd")
    /\ pendingEnds' = IF stage = "waiting" THEN {} ELSE PendingAfterSync
    /\ IF entryChain = "failed" THEN UNCHANGED <<queue, observed, failure>>
       ELSE EnqueueEvent("turnEnd", turns, QueueAfterSync)
    /\ turn' = 0 /\ message' = 0 /\ finished' = turn
    /\ stage' = IF stage = "waiting" THEN "draining" ELSE stage
    /\ UNCHANGED <<piVars, attempt, messages, fileVars, counts, recTroubles>>

\* SettleAwaits: the prompt that waited for the aborted turn is sent; one that this turn
\* should have taken up is left for the next.
SettleAwaits ==
    /\ agentRuns /\ ~inTurn /\ (asked => abortingTurn)
    /\ agentRuns' = FALSE /\ abortingTurn' = FALSE /\ heldPrompt' = FALSE
    /\ asked' = (asked \/ heldPrompt)
    /\ Await(IF heldPrompt THEN "flushed" ELSE "settled")
    /\ UNCHANGED <<inTurn, turns, branched, active, began, ownVars, eventVars, fileVars, stopVars,
                   recTroubles>>

\* SettleAttempt, and the executor's nudge of a step that is still unanswered.
SettleAttempt ==
    /\ hook \in {"settled", "flushed"} /\ Synchronized(hook)
    /\ queue' = QueueAfterSync /\ pendingEnds' = PendingAfterSync /\ finished' = 0
    /\ \/ /\ hook = "settled" /\ active # 0 /\ attempt' = active /\ asked' = TRUE
       \/ /\ attempt' = IF turn = 0 /\ finished \in {0, attempt} THEN 0 ELSE attempt
          /\ hook = "settled" => active = 0
          /\ UNCHANGED asked
    /\ UNCHANGED <<agentRuns, inTurn, turns, branched, stepVars, turn, message,
                   messages, observed, failure, fileVars, stopVars, recTroubles>>

----------------------------------------------------------------------------
(***************************************************************************)
(* The flush, and the end of the capture.                                   *)
(***************************************************************************)
StartFlush == \E n \in 1..FlushMax :
    /\ pendingEnds = {} /\ appending = <<>> /\ n <= Len(queue)
    /\ appending' = SubSeq(queue, 1, n) /\ queue' = SubSeq(queue, n + 1, Len(queue))
    /\ UNCHANGED <<piVars, ownVars, pendingEnds, observed, failure, journal, torn, entries, capture,
                   stopVars, hook, entryChain, recTroubles>>

\* Variant: only the batch is lost.
StillQueued(q) == q

\* Left: what is left of the queue once an append has failed.
Left(q) == <<>>

EndFlush ==
    /\ appending # <<>> /\ appending' = <<>>
    /\ \/ journal' = journal \o appending /\ UNCHANGED <<queue, torn, failure, recTroubles>>
       \/ /\ Trouble /\ failure' = FailCapture("event_write_failed")
          /\ queue' = Left(queue)
          /\ \E n \in 0..Len(appending) - 1 : journal' = journal \o SubSeq(appending, 1, n)
          /\ torn' \in BOOLEAN
    /\ UNCHANGED <<piVars, ownVars, pendingEnds, observed, entries, capture, stopVars, hook,
                   entryChain>>

\* Variant: ends that wait for their entry go on waiting.
StopWaiting == stage' = "draining" /\ UNCHANGED pendingEnds

StopRecording == stage' = "draining" /\ pendingEnds' = {}

\* FinishCapture: the engine is about to end the run.
FinishCapture ==
    /\ stage = "open" /\ active = 0
    /\ IF turn = 0 THEN StopRecording ELSE stage' = "waiting" /\ UNCHANGED pendingEnds
    /\ UNCHANGED <<piVars, ownVars, queue, observed, failure, fileVars, counts, hook, entryChain,
                   recTroubles>>

FinishTimesOut ==
    /\ stage = "waiting" /\ StopRecording /\ failure' = FailCapture("turn_settle_timeout")
    /\ UNCHANGED <<piVars, ownVars, queue, observed, fileVars, counts, hook, entryChain, recTroubles>>

\* StopCapture: the session is shut down, or the run is parked or has lost its claim.
StopCapture ==
    /\ Listening /\ StopRecording
    /\ failure' = IF turn # 0 THEN FailCapture("turn_interrupted") ELSE failure
    /\ UNCHANGED <<piVars, ownVars, queue, observed, fileVars, counts, hook, entryChain, recTroubles>>

SessionCounts ==
    /\ stage = "draining" /\ queue = <<>> /\ appending = <<>> /\ entryChain # "busy"
    /\ stage' = "counted" /\ counts' = <<Len(journal), entries>>
    /\ UNCHANGED <<piVars, ownVars, eventVars, fileVars, hook, entryChain, recTroubles>>

\* WriteCapture: a first failure is written down, a second leaves the file as it is.
WriteCapture ==
    /\ stage \in {"counted", "retry"} /\ UNCHANGED counts
    /\ \/ /\ stage' = "done" /\ UNCHANGED <<failure, recTroubles>>
          /\ capture' = [status |-> IF failure = "none" THEN "complete" ELSE "failed", of |-> counts]
       \/ /\ Trouble /\ stage' = (IF stage = "counted" THEN "retry" ELSE "done")
          /\ failure' = FailCapture("capture_finalize_failed") /\ UNCHANGED capture
    /\ UNCHANGED <<piVars, ownVars, queue, pendingEnds, observed, appending, journal, torn, entries,
                   hook, entryChain>>

ProcessDies ==
    /\ Trouble /\ stage # "dead" /\ stage' = "dead" /\ hook' = "dead" /\ entryChain' = "idle"
    /\ queue' = <<>> /\ pendingEnds' = {} /\ appending' = <<>>
    /\ \/ UNCHANGED <<journal, torn>>
       \/ \E n \in 0..Len(appending) :
             journal' = journal \o SubSeq(appending, 1, n) /\ torn' = (n < Len(appending))
    /\ UNCHANGED <<piVars, ownVars, observed, failure, entries, capture, counts>>

\* FinalizeRecordingCaptures: by the next runner of the run.
FinalizeRecordingCaptures ==
    /\ stage = "dead" /\ capture.status = "recording"
    /\ capture' = [status |-> "failed", of |-> <<Len(journal), entries>>]
    /\ UNCHANGED <<piVars, ownVars, eventVars, appending, journal, torn, entries, stopVars, hook,
                   entryChain, recTroubles>>

----------------------------------------------------------------------------
RecInit ==
    /\ agentRuns = FALSE /\ inTurn = FALSE /\ asked = FALSE /\ abortingTurn = FALSE
    /\ heldPrompt = FALSE /\ torn = FALSE
    /\ turns = 0 /\ messages = 0 /\ branched = 0 /\ active = 0 /\ began = 0
    /\ attempt = 0 /\ turn = 0 /\ finished = 0 /\ message = 0
    /\ queue = <<>> /\ pendingEnds = {} /\ appending = <<>> /\ journal = <<>> /\ entries = 0
    /\ observed = 0 /\ failure = "none" /\ capture = [status |-> "recording", of |-> <<0, 0>>]
    /\ stage = "open" /\ counts = <<0, 0>> /\ hook = "none" /\ entryChain = "idle"
    /\ recTroubles = 0

\* What the store has been asked to do, and the timers.
CaptureGoesOn ==
    \/ RecordEntries \/ StartFlush \/ EndFlush \/ FinishTimesOut \/ SessionCounts \/ WriteCapture

RecNext ==
    \/ CaptureGoesOn
    \/ StepBegins \/ ActiveStepTimesOut \/ SubmitAwaits \/ SubmitSynchronizes \/ Submitted \/ UserPrompts
    \/ HandleTurnStart \/ MessageStartAwaits \/ HandleMessageStart \/ HandleMessageEnd
    \/ TurnEndAwaits \/ HandleTurnEnd \/ SettleAwaits \/ SettleAttempt
    \/ FinishCapture \/ StopCapture \/ ProcessDies \/ FinalizeRecordingCaptures

RecSpec == RecInit /\ [][RecNext]_recVars /\ WF_recVars(CaptureGoesOn)

----------------------------------------------------------------------------
RecTypeOK ==
    /\ {agentRuns, inTurn, asked, abortingTurn, heldPrompt, torn} \subseteq BOOLEAN
    /\ turns \in 0..MaxTurns /\ {messages, branched, message, entries} \subseteq 0..MaxMessages
    /\ {active, began, attempt, turn, finished} \subseteq 0..MaxAttempts
    /\ Len(queue) + Len(appending) <= QueueMax /\ Len(appending) <= FlushMax
    /\ pendingEnds \subseteq 1..messages /\ entryChain \in {"idle", "busy", "failed"}
    /\ hook \in {"none", "record", "submit", "messageStart", "turnEnd", "settled", "flushed", "dead"}
    /\ stage \in {"open", "waiting", "draining", "counted", "retry", "done", "dead"}
    /\ capture.status \in {"recording", "complete", "failed"}

Before(i, kind) == \E j \in 1..i - 1 : journal[j].kind = kind /\ journal[j].of = journal[i].of

\* CaptureIsHonest (flush, stop, finish): however hooks, flushes, failures and the end of the
\* run interleave, the journal is a gapless prefix in order in which every end has its start
\* and names no entry that is not on disk; a capture that has ended counts exactly what is
\* on disk and stays; and one that is complete lacks nothing that was observed, and has
\* every message linked to its entry.
CaptureIsHonest ==
    /\ \A i \in DOMAIN journal :
         /\ journal[i].seq = i /\ journal[i].entry <= entries
         /\ journal[i].kind = "turnEnd" => Before(i, "turnStart")
         /\ journal[i].kind = "messageEnd" => Before(i, "messageStart")
    /\ capture.status # "recording" => capture.of = <<Len(journal), entries>>
    /\ capture.status = "complete" =>
         /\ ~torn /\ Len(journal) = observed
         /\ \A i \in DOMAIN journal : journal[i].kind = "messageEnd" => journal[i].entry # 0

\* CaptureEnds ("so it cannot hold workflow persistence indefinitely"): once the run is about
\* to end or the session shuts down, the capture ends, whether or not the turn does.
CaptureEnds == []<>(stage \in {"open", "done", "dead"})

\* AttemptIsRecorded ("takes ownership from the active agent-step contract when the turn ...
\* starts"): a turn that starts while a step is active is recorded as that step's.
AttemptIsRecorded ==
    [][HandleTurnStart /\ active # 0 /\ Listening /\ failure = "none" => turn' = active]_recVars

=============================================================================
