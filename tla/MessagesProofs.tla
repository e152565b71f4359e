--------------------------- MODULE MessagesProofs ---------------------------
(* Proofs about what is put into a conversation, the notes of the outbox and  *)
(* the messages of agent steps and turn intents, and about what the recorder  *)
(* takes down of it; and the types of all the services that MCServices runs.  *)
EXTENDS MCServices, ControllersProofs, HostOwnershipProofs

-----------------------------------------------------------------------------
(* The notification outbox *)

\* A visit is in progress only while one is left; a row is of a visit that was
\* begun; the session's pass holds rows that exist, and knows those of them that
\* the branch shows.
OutInv ==
    /\ OutTypeOK
    /\ notifying # "away" => okSteps < MaxNotes
    /\ NotifiedOnce
    /\ \A k \in batch : note[k] # "none" /\ (shown[k] > 0 => k \in known)

LEMMA OutInvInit == OutInit => OutInv
  BY OutboxAssumption DEF OutInit, OutInv, OutTypeOK, NotifiedOnce, Notes

\* The runner's side: rows appear in the order of the visits.
LEMMA RunnerStep ==
    ASSUME OutInv, EnterNotify \/ Enqueue \/ StepRecorded \/ RunnerDies
    PROVE  OutInv'
  <1> USE OutboxAssumption DEF OutInv, OutTypeOK, NotifiedOnce, Notes
  <1>1. CASE EnterNotify
    BY <1>1 DEF EnterNotify
  <1>2. CASE Enqueue
    BY <1>2 DEF Enqueue, NoteIndex
  <1>3. CASE StepRecorded
    BY <1>3 DEF StepRecorded
  <1>4. CASE RunnerDies
    BY <1>4 DEF RunnerDies
  <1>q. QED
    BY <1>1, <1>2, <1>3, <1>4

\* The session's side: a row is shown by the pass that found it unshown.
LEMMA SessionStep ==
    ASSUME OutInv,
           \/ ClaimNotes \/ SessionDies
           \/ \E k \in Notes : ShowNote(k) \/ MarkDelivered(k) \/ NoteClaimRunsOut(k)
    PROVE  OutInv'
  <1> USE OutboxAssumption DEF OutInv, OutTypeOK, NotifiedOnce, Notes
  <1>1. CASE ClaimNotes
    BY <1>1 DEF ClaimNotes, PendingNotes, DeliveredIds
  <1>2. CASE SessionDies
    BY <1>2 DEF SessionDies
  <1>3. ASSUME NEW k \in Notes, ShowNote(k)  PROVE OutInv'
    <2>1. /\ k \in batch \ known /\ shown' = [shown EXCEPT ![k] = @ + 1] /\ known' = known \union {k}
          /\ UNCHANGED <<okSteps, notifying, note, noteClaim, batch, crashes>>
      BY <1>3 DEF ShowNote
    <2>2. shown[k] = 0
      BY <2>1
    <2>3. shown'[k] = 1 /\ \A j \in Notes \ {k} : shown'[j] = shown[j]
      BY <2>1, <2>2
    <2>4. shown' \in [Notes -> 0..MaxCrashes + 1]
      BY <2>1, <2>2
    <2>q. QED
      BY <2>1, <2>3, <2>4
  <1>4. ASSUME NEW k \in Notes, MarkDelivered(k)  PROVE OutInv'
    BY <1>4 DEF MarkDelivered
  <1>5. ASSUME NEW k \in Notes, NoteClaimRunsOut(k)  PROVE OutInv'
    BY <1>5 DEF NoteClaimRunsOut
  <1>q. QED
    BY <1>1, <1>2, <1>3, <1>4, <1>5

LEMMA OutInvStep == OutInv /\ [OutNext]_outVars => OutInv'
  <1> SUFFICES ASSUME OutInv, [OutNext]_outVars  PROVE OutInv'
    OBVIOUS
  <1>1. CASE OutNext
    BY <1>1, RunnerStep, SessionStep DEF OutNext, OutGoesOn
  <1>2. CASE UNCHANGED outVars
    BY <1>2 DEF OutInv, OutTypeOK, NotifiedOnce, outVars
  <1>q. QED
    BY <1>1, <1>2

\* The inductive invariant of the outbox.
THEOREM OutInvariance == OutSpec => []OutInv
  BY OutInvInit, OutInvStep, PTL DEF OutSpec

\* However often the runner repeats the notify node and the session its pass, a
\* visit shows one message: enqueueWorkflowNotification's row is keyed by the
\* visit, and a pass looks at the branch before it shows what a dead one left.
THEOREM OneNote == OutSpec => []NotifiedOnce
  <1>1. OutInv => NotifiedOnce
    BY DEF OutInv
  <1>q. QED
    BY <1>1, OutInvariance, PTL

-----------------------------------------------------------------------------
(* Agent steps and turn intents *)

StepRecords == [on : BOOLEAN, nudges : 0..MaxNudges, provider : 0..MaxRetries,
                activation : 0..MaxRetries, delivered : BOOLEAN, seen : BOOLEAN, timer : BOOLEAN]

\* A prompt is watched for only while it is delivered and not seen.
Watched(s) == s.timer => s.on /\ s.delivered /\ ~s.seen

IntentRecords == [state : {"none", "pending", "resolved"}, eligible : BOOLEAN, claimed : BOOLEAN]

\* The executor's step is installed exactly while the engine waits for it, its
\* promise is open, and so is that of every attempt still to come.
StepOK ==
    /\ phase \in {"between", "starting", "agent", "ended"}
    /\ tries \in 0..MaxSteps
    /\ outcome \in [Attempts -> {"none", "accepted", "failed", "aborted"}]
    /\ step \in StepRecords /\ Watched(step)
    /\ step.on <=> phase = "agent"
    /\ phase \in {"starting", "agent"} => tries \in Attempts /\ outcome[tries] = "none"
    /\ \A a \in Attempts : a > tries => outcome[a] = "none"

EndOK ==
    /\ status \in Ends \union {"running"} /\ (status = "running" <=> phase # "ended")
    /\ reported \in BOOLEAN

\* A run has one pending intent at most, and an intent one message.
IntentsOK ==
    /\ intent \in [Intents -> IntentRecords]
    /\ \A i, j \in PendingIntents : i = j
    /\ branch \in [Intents -> {0, 1}]
    /\ deferred \in {None, Presentation} \union Attempts
    /\ swallowed \in BOOLEAN /\ inbox \in BOOLEAN

SessionOK ==
    /\ checking \in 0..MaxSteps
    /\ settling \in Outcomes \union {"none"}
    /\ agent \in {"idle", "active"}
    /\ provenance \in Intents \union {None}
    /\ held \in BOOLEAN /\ again \in BOOLEAN /\ paused \in BOOLEAN
    /\ aborting \in BOOLEAN /\ suppress \in BOOLEAN
    /\ events \in 0..MaxEvents

ConvInv == StepOK /\ EndOK /\ IntentsOK /\ SessionOK

\* The prompt of an installed step, delivered or not.
LEMMA StepUpdates ==
    ASSUME NEW s \in StepRecords, s.on, NEW h \in BOOLEAN
    PROVE  /\ Sent(s, h) \in StepRecords /\ Sent(s, h).on /\ Watched(Sent(s, h))
           /\ Unsent(s) \in StepRecords /\ Unsent(s).on /\ Watched(Unsent(s))
  <1>1. /\ Sent(s, h) \in StepRecords /\ Sent(s, h).on
        /\ Sent(s, h).delivered /\ Sent(s, h).seen = (~h /\ agent = "active")
        /\ Sent(s, h).timer = (~h /\ agent = "idle")
    BY DEF StepRecords, Sent
  <1>2. Unsent(s) \in StepRecords /\ Unsent(s).on /\ ~Unsent(s).timer
    BY DEF StepRecords, Unsent
  <1>q. QED
    BY <1>1, <1>2 DEF Watched

LEMMA NoStepTypes == NoStep \in StepRecords /\ ~NoStep.on /\ Watched(NoStep)
  BY ConversationAssumption DEF NoStep, StepRecords, Watched

\* Storing, resolving and showing an intent.
LEMMA IntentUpdates ==
    ASSUME IntentsOK, NEW i \in Intents
    PROVE  /\ Ensured(i) \in [Intents -> IntentRecords]
           /\ \A j, k \in Intents : Ensured(i)[j].state = "pending" /\ Ensured(i)[k].state = "pending"
                                    => j = k
           /\ Resolved(i) \in [Intents -> IntentRecords]
           /\ \A j \in Intents : Resolved(i)[j].state = "pending" => intent[j].state = "pending"
           /\ branch[i] = 0 => [branch EXCEPT ![i] = @ + 1] \in [Intents -> {0, 1}]
  <1>1. /\ Ensured(i) \in [Intents -> IntentRecords]
        /\ \A j, k \in Intents : Ensured(i)[j].state = "pending" /\ Ensured(i)[k].state = "pending"
                                    => j = k
    BY DEF IntentsOK, Ensured, IntentRecords, PendingIntents
  <1>2. /\ Resolved(i) \in [Intents -> IntentRecords]
        /\ \A j \in Intents : Resolved(i)[j].state = "pending" => intent[j].state = "pending"
    <2>1. intent \in [Intents -> IntentRecords]
      BY DEF IntentsOK
    <2>q. QED
      BY <2>1 DEF Resolved, IntentRecords
  <1>3. branch[i] = 0 => [branch EXCEPT ![i] = @ + 1] \in [Intents -> {0, 1}]
    BY DEF IntentsOK
  <1>q. QED
    BY <1>1, <1>2, <1>3

\* A delivery, at once or deferred, resolves the pending intent with its message.
LEMMA Sending ==
    ASSUME IntentsOK, aborting \in BOOLEAN,
           NEW what \in {Presentation} \union Attempts, SendNatural(what)
    PROVE  IntentsOK'
  <1>1. CASE PendingIntents = {}
    BY <1>1 DEF SendNatural, Trigger, IntentsOK, PendingIntents
  <1>2. ASSUME NEW i \in PendingIntents,
               deferred' = what /\ UNCHANGED <<inbox, intent, branch, swallowed>>
        PROVE  IntentsOK'
    BY <1>2 DEF IntentsOK, PendingIntents
  <1>3. ASSUME NEW i \in PendingIntents, intent' = Resolved(i),
               IF NotInBranch(i)
               THEN /\ branch' = [branch EXCEPT ![i] = @ + 1]
                    /\ Trigger
                    /\ UNCHANGED <<deferred, swallowed>>
               ELSE /\ swallowed' = (swallowed \/ what # Presentation)
                    /\ UNCHANGED <<branch, inbox, deferred>>
        PROVE  IntentsOK'
    <2>1. i \in Intents
      BY DEF PendingIntents
    <2>2. branch' \in [Intents -> {0, 1}]
      BY <1>3, <2>1, IntentUpdates DEF NotInBranch, IntentsOK
    <2>3. intent' \in [Intents -> IntentRecords] /\ PendingIntents' \subseteq PendingIntents
      BY <1>3, <2>1, IntentUpdates DEF PendingIntents
    <2>4. /\ deferred' \in {None, Presentation} \union Attempts
          /\ swallowed' \in BOOLEAN /\ inbox' \in BOOLEAN
      BY <1>3 DEF IntentsOK, Trigger
    <2>q. QED
      BY <2>2, <2>3, <2>4 DEF IntentsOK
  <1>q. QED
    BY <1>1, <1>2, <1>3 DEF SendNatural

LEMMA Delivering ==
    ASSUME ConvInv, NEW s \in StepRecords, s.on, NEW h \in BOOLEAN, tries \in Attempts,
           DeliverPrompt(s, h)
    PROVE  IntentsOK' /\ step' \in StepRecords /\ Watched(step') /\ step'.on
  <1>1. IntentsOK'
    BY Sending DEF ConvInv, SessionOK, DeliverPrompt
  <1>2. step' \in {Sent(s, h), Unsent(s)}
    BY DEF DeliverPrompt
  <1>q. QED
    BY <1>1, <1>2, StepUpdates

\* What the coordinator kept goes out.
LEMMA Flushing ==
    ASSUME ConvInv, NEW idle, FlushNatural(idle)
    PROVE  IntentsOK' /\ step' \in StepRecords /\ Watched(step') /\ (step'.on <=> step.on)
  <1>1. step \in StepRecords /\ Watched(step) /\ held \in BOOLEAN
    BY DEF ConvInv, StepOK, SessionOK
  <1>2. CASE UNCHANGED <<step, intentVars, inbox>>
    BY <1>1, <1>2 DEF ConvInv, IntentsOK, PendingIntents, intentVars
  <1>3. CASE deferred' = None /\ UNCHANGED <<step, intent, branch, inbox, swallowed>>
    BY <1>1, <1>3 DEF ConvInv, IntentsOK, PendingIntents
  <1>4. ASSUME NEW i \in PendingIntents, deferred' = None, intent' = Resolved(i),
               IF NotInBranch(i)
               THEN /\ branch' = [branch EXCEPT ![i] = @ + 1]
                    /\ inbox' = TRUE
                    /\ step' = IF step.on /\ deferred = tries /\ ~step.delivered
                               THEN Sent(step, held) ELSE step
                    /\ UNCHANGED swallowed
               ELSE /\ swallowed' = (swallowed \/ deferred # Presentation)
                    /\ UNCHANGED <<branch, inbox, step>>
        PROVE  IntentsOK' /\ step' \in StepRecords /\ Watched(step') /\ (step'.on <=> step.on)
    <2>1. i \in Intents /\ IntentsOK
      BY DEF ConvInv, PendingIntents
    <2>2. branch' \in [Intents -> {0, 1}]
      BY <1>4, <2>1, IntentUpdates DEF NotInBranch, IntentsOK
    <2>3. intent' \in [Intents -> IntentRecords] /\ PendingIntents' \subseteq PendingIntents
      BY <1>4, <2>1, IntentUpdates DEF PendingIntents
    <2>4. swallowed' \in BOOLEAN /\ inbox' \in BOOLEAN
      BY <1>4, <2>1 DEF IntentsOK
    <2>5. IntentsOK'
      BY <1>4, <2>1, <2>2, <2>3, <2>4 DEF IntentsOK
    <2>6. step' = step \/ (step.on /\ step' = Sent(step, held))
      BY <1>4
    <2>q. QED
      BY <1>1, <2>5, <2>6, StepUpdates
  <1>q. QED
    BY <1>2, <1>3, <1>4 DEF FlushNatural

LEMMA AbortingTurn ==
    ASSUME ConvInv, NEW stores \in BOOLEAN, AbortTurn(stores),
           UNCHANGED <<branch, deferred, swallowed, inbox>>
    PROVE  IntentsOK' /\ aborting' \in BOOLEAN /\ provenance' \in Intents \union {None}
  <1>1. tries \in Intents /\ IntentsOK
    BY DEF ConvInv, StepOK, Intents
  <1>2. intent' = intent \/ intent' = Ensured(tries)
    BY DEF AbortTurn
  <1>3. IntentsOK'
    <2>1. CASE intent' = intent
      BY <1>1, <2>1 DEF IntentsOK, PendingIntents
    <2>2. CASE intent' = Ensured(tries)
      <3>1. /\ intent' \in [Intents -> IntentRecords]
            /\ \A i, j \in Intents : intent'[i].state = "pending" /\ intent'[j].state = "pending" => i = j
        BY <1>1, <2>2, IntentUpdates
      <3>2. \A i, j \in PendingIntents' : i = j
        BY <3>1 DEF PendingIntents
      <3>q. QED
        BY <1>1, <3>1, <3>2 DEF IntentsOK
    <2>q. QED
      BY <1>2, <2>1, <2>2
  <1>4. aborting' \in BOOLEAN /\ provenance' \in Intents \union {None}
    BY <1>1 DEF ConvInv, SessionOK, AbortTurn
  <1>q. QED
    BY <1>3, <1>4

\* The engine keeps waiting for the same step.
LEMMA StepInstalled ==
    ASSUME StepOK, UNCHANGED <<phase, tries, outcome>>, step' \in StepRecords, Watched(step'),
           step'.on <=> step.on
    PROVE  StepOK'
  BY DEF StepOK, Watched

\* The attempt ends, and its promise settles: it was open.
LEMMA StepCleared ==
    ASSUME ConvInv, phase \in {"starting", "agent"},
           NEW how \in {"accepted", "failed", "aborted"}, Clear(how)
    PROVE  StepOK' /\ EndOK'
  <1>1. step' = NoStep /\ outcome' = [outcome EXCEPT ![tries] = how] /\ phase' = "between"
        /\ UNCHANGED <<status, reported, tries>>
    BY DEF Clear
  <1>2. outcome' \in [Attempts -> {"none", "accepted", "failed", "aborted"}]
    BY <1>1 DEF ConvInv, StepOK
  <1>3. \A a \in Attempts : a > tries => outcome'[a] = "none"
    BY <1>1 DEF ConvInv, StepOK, Attempts
  <1>4. step' \in StepRecords /\ Watched(step') /\ ~step'.on
    BY <1>1, NoStepTypes
  <1>5. StepOK'
    BY <1>1, <1>2, <1>3, <1>4 DEF ConvInv, StepOK, Watched
  <1>6. EndOK'
    BY <1>1 DEF ConvInv, EndOK
  <1>q. QED
    BY <1>5, <1>6

LEMMA IntentsKept ==
    ASSUME IntentsOK, UNCHANGED intentVars, inbox' \in BOOLEAN
    PROVE  IntentsOK'
  BY DEF IntentsOK, PendingIntents, intentVars

LEMMA EngineKept ==
    ASSUME StepOK, EndOK, UNCHANGED <<engineVars, step>>
    PROVE  StepOK' /\ EndOK'
  BY DEF StepOK, EndOK, Watched, engineVars

LEMMA EventTypes ==
    ASSUME SessionOK, Event \/ UNCHANGED events
    PROVE  events' \in 0..MaxEvents
  BY ConversationAssumption DEF SessionOK, Event

\* The executor's own steps: a prompt goes out, or the promise settles.
LEMMA ExecutorStep ==
    ASSUME ConvInv,
           \/ RunAgentStep \/ DeliveryThrows \/ ActivationTimeout
           \/ \E a \in Attempts : Submit(a) \/ Validated(a)
    PROVE  ConvInv'
  <1>0. StepOK /\ EndOK /\ IntentsOK /\ SessionOK
    BY DEF ConvInv
  <1>1. CASE RunAgentStep
    <2> DEFINE new == [NoStep EXCEPT !.on = TRUE]
    <2>1. tries \in Attempts /\ outcome[tries] = "none"
      BY <1>0, <1>1 DEF StepOK, RunAgentStep
    <2>2. new \in StepRecords /\ new.on
      BY NoStepTypes DEF StepRecords
    <2>3. held \in BOOLEAN /\ DeliverPrompt(new, held)
      BY <1>0, <1>1 DEF SessionOK, RunAgentStep
    <2> HIDE DEF new
    <2>4. IntentsOK' /\ step' \in StepRecords /\ Watched(step') /\ step'.on
      BY <2>1, <2>2, <2>3, Delivering
    <2>5. phase' = "agent" /\ UNCHANGED <<status, reported, tries, outcome>>
      BY <1>1 DEF RunAgentStep
    <2>6. StepOK' /\ EndOK'
      BY <1>0, <1>1, <2>1, <2>4, <2>5 DEF StepOK, EndOK, Watched, RunAgentStep
    <2>7. SessionOK'
      BY <1>0, <1>1 DEF SessionOK, RunAgentStep, holdVars
    <2>q. QED
      BY <2>4, <2>6, <2>7 DEF ConvInv
  <1>2. CASE DeliveryThrows
    <2>1. StepOK' /\ EndOK'
      BY <1>2, StepCleared DEF DeliveryThrows
    <2>2. IntentsOK'
      BY <1>0, <1>2, IntentsKept DEF DeliveryThrows, turnVars, IntentsOK
    <2>3. SessionOK'
      BY <1>0, <1>2, EventTypes DEF SessionOK, DeliveryThrows, turnVars, holdVars
    <2>q. QED
      BY <2>1, <2>2, <2>3 DEF ConvInv
  <1>3. CASE ActivationTimeout
    <2>1. tries \in Attempts /\ phase = "agent" /\ step \in StepRecords /\ step.on
      BY <1>0, <1>3 DEF StepOK, ActivationTimeout
    <2>2. SessionOK'
      BY <1>0, <1>3 DEF SessionOK, ActivationTimeout, holdVars
    <2>3. CASE step.activation < MaxRetries
      <3> DEFINE new == [step EXCEPT !.activation = @ + 1]
      <3>1. new \in StepRecords /\ new.on
        BY <2>1, <2>3, ConversationAssumption DEF StepRecords
      <3>2. DeliverPrompt(new, FALSE) /\ UNCHANGED engineVars
        BY <1>3, <2>3 DEF ActivationTimeout
      <3> HIDE DEF new
      <3>3. IntentsOK' /\ step' \in StepRecords /\ Watched(step') /\ step'.on
        BY <2>1, <3>1, <3>2, Delivering
      <3>4. StepOK' /\ EndOK'
        BY <1>0, <2>1, <3>2, <3>3, StepInstalled DEF EndOK, engineVars
      <3>q. QED
        BY <2>2, <3>3, <3>4 DEF ConvInv
    <2>4. CASE ~(step.activation < MaxRetries)
      <3>1. StepOK' /\ EndOK'
        BY <1>3, <2>1, <2>4, StepCleared DEF ActivationTimeout
      <3>2. IntentsOK'
        BY <1>0, <1>3, <2>4, IntentsKept DEF ActivationTimeout, IntentsOK
      <3>q. QED
        BY <2>2, <3>1, <3>2 DEF ConvInv
    <2>q. QED
      BY <2>3, <2>4
  <1>4. ASSUME NEW a \in Attempts, Submit(a)  PROVE  ConvInv'
    <2>1. SessionOK'
      BY <1>0, <1>4 DEF SessionOK, Submit, holdVars, turnVars, Attempts
    <2>2. IntentsOK'
      BY <1>0, <1>4, IntentsKept DEF Submit, turnVars, IntentsOK
    <2>q. QED
      BY <1>0, <1>4, <2>1, <2>2, EngineKept DEF Submit, ConvInv
  <1>5. ASSUME NEW a \in Attempts, Validated(a)  PROVE  ConvInv'
    <2>1. SessionOK'
      BY <1>0, <1>5, ConversationAssumption DEF SessionOK, Validated, holdVars, turnVars
    <2>2. IntentsOK'
      BY <1>0, <1>5, IntentsKept DEF Validated, turnVars, IntentsOK
    <2>3. CASE step.on /\ Clear("accepted")
      <3>1. phase = "agent"
        BY <1>0, <2>3 DEF StepOK
      <3>2. StepOK' /\ EndOK'
        BY <2>3, <3>1, StepCleared
      <3>q. QED
        BY <2>1, <2>2, <3>2 DEF ConvInv
    <2>4. CASE UNCHANGED <<step, engineVars>>
      BY <1>0, <2>1, <2>2, <2>4, EngineKept DEF ConvInv
    <2>q. QED
      BY <1>5, <2>3, <2>4 DEF Validated
  <1>q. QED
    BY <1>1, <1>2, <1>3, <1>4, <1>5

\* The engine's steps, aborts and the report of the run's end.
LEMMA EngineActs ==
    ASSUME ConvInv,
           \/ StartNode \/ StepTimesOut \/ FinishRun
           \/ \E by \in {"agent", "user"} : Cancel(by)
           \/ \E s \in Ends \ {"cancelled"} : RunEnd(s)
    PROVE  ConvInv'
  <1>0. StepOK /\ EndOK /\ IntentsOK /\ SessionOK
    BY DEF ConvInv
  <1>1. CASE StartNode
    <2>1. IntentsOK' /\ SessionOK'
      BY <1>0, <1>1, IntentsKept DEF StartNode, turnVars, holdVars, IntentsOK, SessionOK
    <2>2. tries' \in Attempts /\ tries' > tries /\ tries \in Nat
      BY <1>0, <1>1, ConversationAssumption DEF StartNode, StepOK, Attempts
    <2>3. /\ phase = "between" /\ phase' = "starting" /\ tries' = tries + 1
          /\ UNCHANGED <<status, reported, outcome, step>>
      BY <1>1 DEF StartNode
    <2>4. \A a \in Attempts : a > tries' => outcome'[a] = "none"
      BY <1>0, <2>2, <2>3 DEF StepOK, Attempts
    <2>5. outcome'[tries'] = "none"
      BY <1>0, <2>2, <2>3 DEF StepOK
    <2>6. tries' \in 0..MaxSteps
      BY <2>2 DEF Attempts
    <2>7. StepOK' /\ EndOK'
      BY <1>0, <2>2, <2>3, <2>4, <2>5, <2>6 DEF StepOK, EndOK, Watched
    <2>q. QED
      BY <2>1, <2>7 DEF ConvInv
  <1>2. CASE StepTimesOut
    <2>1. StepOK' /\ EndOK'
      BY <1>2, StepCleared DEF StepTimesOut
    <2>2. IntentsOK' /\ aborting' \in BOOLEAN /\ provenance' \in Intents \union {None}
      BY <1>2, AbortingTurn DEF StepTimesOut
    <2>3. SessionOK'
      BY <1>0, <1>2, <2>2, EventTypes DEF SessionOK, StepTimesOut, holdVars
    <2>q. QED
      BY <2>1, <2>2, <2>3 DEF ConvInv
  <1>3. ASSUME NEW by \in {"agent", "user"}, Cancel(by)  PROVE  ConvInv'
    <2>1. IntentsOK' /\ aborting' \in BOOLEAN /\ provenance' \in Intents \union {None}
      <3>1. CASE step.on
        <4>1. (by = "agent") \in BOOLEAN /\ AbortTurn(by = "agent")
          BY <1>3, <3>1 DEF Cancel
        <4>q. QED
          BY <1>3, <4>1, AbortingTurn DEF Cancel
      <3>2. CASE ~step.on
        BY <1>0, <1>3, <3>2 DEF Cancel, IntentsOK, PendingIntents, SessionOK
      <3>q. QED
        BY <3>1, <3>2
    <2>2. SessionOK'
      BY <1>0, <1>3, <2>1, EventTypes DEF SessionOK, Cancel
    <2>3. /\ phase' = "ended" /\ status' = "cancelled" /\ step' = NoStep
          /\ UNCHANGED <<reported, tries>>
          /\ outcome' \in {outcome, [outcome EXCEPT ![tries] = "aborted"]}
      BY <1>3 DEF Cancel
    <2>4. outcome' \in [Attempts -> {"none", "accepted", "failed", "aborted"}]
      BY <1>0, <2>3 DEF StepOK
    <2>5. \A a \in Attempts : a > tries => outcome'[a] = "none"
      <3>1. CASE outcome' = outcome
        BY <1>0, <3>1 DEF StepOK
      <3>2. CASE outcome' = [outcome EXCEPT ![tries] = "aborted"]
        BY <1>0, <2>3, <3>2 DEF StepOK, Attempts
      <3>q. QED
        BY <2>3, <3>1, <3>2
    <2>6. StepOK' /\ EndOK'
      BY <1>0, <2>3, <2>4, <2>5, NoStepTypes DEF StepOK, EndOK, Watched, Ends
    <2>q. QED
      BY <2>1, <2>2, <2>6 DEF ConvInv
  <1>4. ASSUME NEW s \in Ends \ {"cancelled"}, RunEnd(s)  PROVE  ConvInv'
    <2>1. IntentsOK' /\ SessionOK'
      BY <1>0, <1>4, IntentsKept DEF RunEnd, turnVars, holdVars, IntentsOK, SessionOK
    <2>2. StepOK' /\ EndOK'
      BY <1>0, <1>4 DEF RunEnd, StepOK, EndOK, Watched, Ends
    <2>q. QED
      BY <2>1, <2>2 DEF ConvInv
  <1>5. CASE FinishRun
    <2>1. StepOK' /\ EndOK'
      BY <1>0, <1>5 DEF FinishRun, StepOK, EndOK, Watched
    <2>2. CASE MakeEligible /\ UNCHANGED <<inbox, branch, deferred, swallowed>>
      <3>1. EndIntent \in Intents
        <4>1. PendingIntents # {} => (CHOOSE i \in PendingIntents : TRUE) \in Intents
          BY DEF PendingIntents
        <4>2. provenance \in Intents \union {None} /\ 0 \in Intents
          BY <1>0, ConversationAssumption DEF SessionOK, Intents
        <4>q. QED
          BY <4>1, <4>2 DEF EndIntent
      <3>2. ASSUME UNCHANGED <<intent, provenance>>
            PROVE  IntentsOK' /\ SessionOK'
        <4>1. IntentsOK'
          BY <1>0, <2>2, <3>2 DEF IntentsOK, PendingIntents
        <4>2. SessionOK'
          BY <1>0, <1>5, <3>2 DEF FinishRun, SessionOK, holdVars
        <4>q. QED
          BY <4>1, <4>2
      <3>3. ASSUME provenance' = EndIntent,
                   intent' = IF Ensured(EndIntent)[EndIntent].state = "pending"
                             THEN [Ensured(EndIntent) EXCEPT ![EndIntent].eligible = TRUE]
                             ELSE Ensured(EndIntent)
            PROVE  IntentsOK' /\ SessionOK'
        <4>1. PICK stored : stored = Ensured(EndIntent)
          OBVIOUS
        <4>2. /\ stored \in [Intents -> IntentRecords]
              /\ \A j, k \in Intents : stored[j].state = "pending" /\ stored[k].state = "pending"
                                       => j = k
          BY <1>0, <3>1, <4>1, IntentUpdates
        <4>3. intent' \in {stored, [stored EXCEPT ![EndIntent].eligible = TRUE]}
          BY <3>3, <4>1
        <4>4. intent' \in [Intents -> IntentRecords] /\ \A i \in Intents : intent'[i].state = stored[i].state
          <5>1. CASE intent' = stored
            BY <4>2, <5>1
          <5>2. CASE intent' = [stored EXCEPT ![EndIntent].eligible = TRUE]
            BY <3>1, <4>2, <5>2 DEF IntentRecords
          <5>q. QED
            BY <4>3, <5>1, <5>2
        <4>5. IntentsOK'
          BY <1>0, <2>2, <4>2, <4>4 DEF IntentsOK, PendingIntents
        <4>6. SessionOK'
          BY <1>0, <1>5, <3>1, <3>3 DEF FinishRun, SessionOK, holdVars
        <4>q. QED
          BY <4>5, <4>6
      <3>4. IntentsOK' /\ SessionOK'
        BY <2>2, <3>2, <3>3 DEF MakeEligible
      <3>q. QED
        BY <2>1, <3>4 DEF ConvInv
    <2>3. CASE SendNatural(Presentation) /\ UNCHANGED provenance
      <3>1. IntentsOK'
        BY <1>0, <2>3, Sending DEF SessionOK
      <3>2. SessionOK'
        BY <1>0, <1>5, <2>3 DEF FinishRun, SessionOK, holdVars
      <3>q. QED
        BY <2>1, <3>1, <3>2 DEF ConvInv
    <2>4. CASE UNCHANGED <<inbox, intentVars, provenance>>
      <3>1. IntentsOK'
        BY <1>0, <2>4, IntentsKept DEF IntentsOK
      <3>2. SessionOK'
        BY <1>0, <1>5, <2>4 DEF FinishRun, SessionOK, holdVars
      <3>q. QED
        BY <2>1, <3>1, <3>2 DEF ConvInv
    <2>q. QED
      BY <1>5, <2>2, <2>3, <2>4 DEF FinishRun
  <1>q. QED
    BY <1>1, <1>2, <1>3, <1>4, <1>5

\* The agent's turns, up to the await of agent_settled.
LEMMA TurnStep ==
    ASSUME ConvInv,
           \/ AgentStart \/ TurnIsLost \/ Pause \/ \E o \in Outcomes : AgentSettles(o)
    PROVE  ConvInv'
  <1>0. StepOK /\ EndOK /\ IntentsOK /\ SessionOK
    BY DEF ConvInv
  <1>1. CASE AgentStart
    <2>1. SessionOK'
      BY <1>0, <1>1, EventTypes DEF SessionOK, AgentStart, holdVars
    <2>2. IntentsOK'
      BY <1>0, <1>1, IntentsKept DEF AgentStart
    <2>3. step' \in StepRecords /\ Watched(step') /\ (step'.on <=> step.on)
      BY <1>0, <1>1 DEF StepOK, AgentStart, StepRecords, Watched
    <2>4. StepOK' /\ EndOK'
      BY <1>0, <1>1, <2>3, StepInstalled DEF EndOK, AgentStart, engineVars
    <2>q. QED
      BY <2>1, <2>2, <2>4 DEF ConvInv
  <1>2. CASE TurnIsLost
    <2>1. SessionOK'
      BY <1>0, <1>2, EventTypes DEF SessionOK, TurnIsLost, holdVars
    <2>2. IntentsOK'
      BY <1>0, <1>2, IntentsKept DEF TurnIsLost
    <2>q. QED
      BY <1>0, <1>2, <2>1, <2>2, EngineKept DEF TurnIsLost, ConvInv
  <1>3. CASE Pause
    <2>1. SessionOK'
      BY <1>0, <1>3, EventTypes DEF SessionOK, Pause, turnVars
    <2>2. IntentsOK'
      BY <1>0, <1>3, IntentsKept DEF Pause, turnVars, IntentsOK
    <2>3. step' \in StepRecords /\ Watched(step') /\ (step'.on <=> step.on)
      BY <1>0, <1>3 DEF StepOK, Pause, StepRecords, Watched
    <2>4. StepOK' /\ EndOK'
      BY <1>0, <1>3, <2>3, StepInstalled DEF EndOK, Pause, engineVars
    <2>q. QED
      BY <2>1, <2>2, <2>4 DEF ConvInv
  <1>4. ASSUME NEW o \in Outcomes, AgentSettles(o)  PROVE  ConvInv'
    <2>1. events' \in 0..MaxEvents
      <3>1. events' = events \/ (events < MaxEvents /\ events' = events + 1)
        BY <1>4 DEF AgentSettles
      <3>q. QED
        BY <1>0, <3>1, ConversationAssumption DEF SessionOK
    <2>2. SessionOK'
      BY <1>0, <1>4, <2>1 DEF SessionOK, AgentSettles, RunHeld
    <2>3. IntentsOK'
      BY <1>0, <1>4, IntentsKept DEF AgentSettles, IntentsOK
    <2>q. QED
      BY <1>0, <1>4, <2>2, <2>3, EngineKept DEF AgentSettles, ConvInv
  <1>q. QED
    BY <1>1, <1>2, <1>3, <1>4

\* The settled turn is judged, a step that settled badly is nudged or retried.
LEMMA SettlingStep ==
    ASSUME ConvInv, AgentSettled
    PROVE  ConvInv'
  <1>0. StepOK /\ EndOK /\ IntentsOK /\ SessionOK
    BY DEF ConvInv
  <1>1. CASE FlushNatural(TRUE) /\ UNCHANGED <<again, engineVars>>
    <2>1. IntentsOK' /\ step' \in StepRecords /\ Watched(step') /\ (step'.on <=> step.on)
      BY <1>1, Flushing
    <2>2. StepOK' /\ EndOK'
      BY <1>0, <1>1, <2>1, StepInstalled DEF EndOK, engineVars
    <2>3. SessionOK'
      BY <1>0, <1>1 DEF SessionOK, AgentSettled
    <2>q. QED
      BY <2>1, <2>2, <2>3 DEF ConvInv
  <1>2. ASSUME again' \in BOOLEAN, UNCHANGED <<step, engineVars, intentVars, inbox>>
        PROVE  ConvInv'
    <2>1. SessionOK'
      BY <1>0, <1>2 DEF SessionOK, AgentSettled
    <2>2. IntentsOK'
      BY <1>0, <1>2, IntentsKept DEF IntentsOK
    <2>q. QED
      BY <1>0, <1>2, <2>1, <2>2, EngineKept DEF ConvInv
  <1>3. ASSUME NEW s \in StepRecords, step.on, s.on, DeliverPrompt(s, FALSE),
               UNCHANGED <<again, engineVars>>
        PROVE  ConvInv'
    <2>1. tries \in Attempts
      BY <1>0, <1>3 DEF StepOK
    <2>2. IntentsOK' /\ step' \in StepRecords /\ Watched(step') /\ step'.on
      BY <1>3, <2>1, Delivering
    <2>3. StepOK' /\ EndOK'
      BY <1>0, <1>3, <2>2, StepInstalled DEF EndOK, engineVars
    <2>4. SessionOK'
      BY <1>0, <1>3 DEF SessionOK, AgentSettled
    <2>q. QED
      BY <2>2, <2>3, <2>4 DEF ConvInv
  <1>4. ASSUME step.on, Clear("failed"), UNCHANGED <<again, intentVars, inbox>>
        PROVE  ConvInv'
    <2>1. phase = "agent"
      BY <1>0, <1>4 DEF StepOK
    <2>2. StepOK' /\ EndOK'
      BY <1>4, <2>1, StepCleared
    <2>3. IntentsOK'
      BY <1>0, <1>4, IntentsKept DEF IntentsOK
    <2>4. SessionOK'
      BY <1>0, <1>4 DEF SessionOK, AgentSettled
    <2>q. QED
      BY <2>2, <2>3, <2>4 DEF ConvInv
  <1>5. CASE HandleAgentSettled(settling)
    <2>1. CASE ~step.on \/ ~step.seen \/ HeldByUser
      <3>1. again' \in BOOLEAN /\ UNCHANGED <<step, engineVars, intentVars, inbox>>
        BY <1>0, <1>5, <2>1 DEF HandleAgentSettled, SessionOK
      <3>q. QED
        BY <1>2, <3>1
    <2>2. CASE step.on /\ step.seen /\ ~HeldByUser
      <3> DEFINE Judged(o) ==
            CASE o = "user_abort" -> UNCHANGED <<step, engineVars, intentVars, inbox>>
              [] o = "semantic_settle" /\ step.nudges < MaxNudges ->
                   DeliverPrompt([step EXCEPT !.nudges = @ + 1], FALSE) /\ UNCHANGED engineVars
              [] o \in {"provider_retryable", "context_overflow"} /\ step.provider < MaxRetries ->
                   DeliverPrompt([step EXCEPT !.provider = @ + 1], FALSE) /\ UNCHANGED engineVars
              [] OTHER -> Clear("failed") /\ UNCHANGED <<intentVars, inbox>>
      <3>1. again' = again /\ again \in BOOLEAN /\ Judged(settling)
        BY <1>0, <1>5, <2>2 DEF HandleAgentSettled, SessionOK
      <3>2. step \in StepRecords
        BY <1>0 DEF StepOK
      <3>3. CASE settling = "user_abort"
        <4>1. UNCHANGED <<step, engineVars, intentVars, inbox>>
          BY <3>1, <3>3
        <4>q. QED
          BY <1>2, <3>1, <4>1
      <3>4. CASE settling = "semantic_settle" /\ step.nudges < MaxNudges
        <4>1. DeliverPrompt([step EXCEPT !.nudges = @ + 1], FALSE) /\ UNCHANGED engineVars
          BY <3>1, <3>4
        <4>2. [step EXCEPT !.nudges = @ + 1] \in StepRecords /\ [step EXCEPT !.nudges = @ + 1].on
          BY <2>2, <3>2, <3>4, ConversationAssumption DEF StepRecords
        <4>q. QED
          BY <1>3, <2>2, <3>1, <4>1, <4>2
      <3>5. CASE settling \in {"provider_retryable", "context_overflow"} /\ step.provider < MaxRetries
        <4>1. DeliverPrompt([step EXCEPT !.provider = @ + 1], FALSE) /\ UNCHANGED engineVars
          BY <3>1, <3>5
        <4>2. [step EXCEPT !.provider = @ + 1] \in StepRecords /\ [step EXCEPT !.provider = @ + 1].on
          BY <2>2, <3>2, <3>5, ConversationAssumption DEF StepRecords
        <4>q. QED
          BY <1>3, <2>2, <3>1, <4>1, <4>2
      <3>6. CASE /\ settling # "user_abort" /\ ~(settling = "semantic_settle" /\ step.nudges < MaxNudges)
                 /\ ~(/\ settling \in {"provider_retryable", "context_overflow"}
                      /\ step.provider < MaxRetries)
        <4>1. Clear("failed") /\ UNCHANGED <<intentVars, inbox>>
          BY <3>1, <3>6
        <4>q. QED
          BY <1>4, <2>2, <3>1, <4>1
      <3>q. QED
        BY <3>3, <3>4, <3>5, <3>6
    <2>q. QED
      BY <2>1, <2>2
  <1>q. QED
    BY <1>1, <1>5 DEF AgentSettled

\* The sync pass, resume and crash.
LEMMA PassStep ==
    ASSUME ConvInv,
           \/ SyncFlush \/ Resume \/ Crash
           \/ \E i \in Intents : SyncFallback(i) \/ ClaimRunsOut(i)
    PROVE  ConvInv'
  <1>0. StepOK /\ EndOK /\ IntentsOK /\ SessionOK
    BY DEF ConvInv
  <1>1. CASE SyncFlush
    <2>1. FlushNatural(SyncIdle) /\ UNCHANGED engineVars
      BY <1>1 DEF SyncFlush
    <2>2. PICK idle : FlushNatural(idle)
      BY <2>1
    <2>3. IntentsOK' /\ step' \in StepRecords /\ Watched(step') /\ (step'.on <=> step.on)
      BY <2>2, Flushing
    <2>4. StepOK' /\ EndOK'
      BY <1>0, <2>1, <2>3, StepInstalled DEF EndOK, engineVars
    <2>5. SessionOK'
      BY <1>0, <1>1 DEF SessionOK, SyncFlush, holdVars
    <2>q. QED
      BY <2>3, <2>4, <2>5 DEF ConvInv
  <1>2. CASE Resume
    <2>1. SessionOK'
      BY <1>0, <1>2 DEF SessionOK, Resume, Release
    <2>2. UNCHANGED engineVars
      BY <1>2 DEF Resume
    <2>3. CASE held /\ step.on /\ again
      <3>1. tries \in Attempts /\ step \in StepRecords
        BY <1>0, <2>3 DEF StepOK
      <3>2. DeliverPrompt(step, FALSE)
        BY <1>2, <2>3 DEF Resume, Release
      <3>3. IntentsOK' /\ step' \in StepRecords /\ Watched(step') /\ step'.on
        BY <2>3, <3>1, <3>2, Delivering
      <3>4. StepOK' /\ EndOK'
        BY <1>0, <2>2, <2>3, <3>3, StepInstalled DEF EndOK, engineVars
      <3>q. QED
        BY <2>1, <3>3, <3>4 DEF ConvInv
    <2>4. CASE ~(held /\ step.on /\ again)
      <3>1. /\ UNCHANGED <<intentVars, inbox>>
            /\ step' = [step EXCEPT !.timer = @ \/ (held /\ step.on /\ step.delivered /\ ~step.seen)]
        BY <1>2, <2>4 DEF Resume, Release
      <3>2. step' \in StepRecords /\ Watched(step') /\ (step'.on <=> step.on)
        BY <1>0, <3>1 DEF StepOK, SessionOK, StepRecords, Watched
      <3>3. StepOK' /\ EndOK'
        BY <1>0, <2>2, <3>2, StepInstalled DEF EndOK, engineVars
      <3>4. IntentsOK'
        BY <1>0, <3>1, IntentsKept DEF IntentsOK
      <3>q. QED
        BY <2>1, <3>3, <3>4 DEF ConvInv
    <2>q. QED
      BY <2>3, <2>4
  <1>3. CASE Crash
    <2>1. /\ intent' \in [Intents -> IntentRecords] /\ branch' \in [Intents -> {0, 1}]
          /\ \A i \in Intents : intent'[i].state = intent[i].state
      <3>1. CASE UNCHANGED <<intent, branch>>
        BY <1>0, <3>1 DEF IntentsOK
      <3>2. ASSUME NEW i \in Intents, branch[i] = 0,
                   intent' = [intent EXCEPT ![i].claimed = TRUE],
                   branch' \in {branch, [branch EXCEPT ![i] = @ + 1]}
            PROVE  /\ intent' \in [Intents -> IntentRecords] /\ branch' \in [Intents -> {0, 1}]
                   /\ \A k \in Intents : intent'[k].state = intent[k].state
        <4>1. branch' \in [Intents -> {0, 1}]
          BY <1>0, <3>2, IntentUpdates DEF IntentsOK
        <4>2. intent' = [intent EXCEPT ![i].claimed = TRUE] /\ intent \in [Intents -> IntentRecords]
          BY <1>0, <3>2 DEF IntentsOK
        <4>3. intent' \in [Intents -> IntentRecords]
          BY <4>2 DEF IntentRecords
        <4>4. \A k \in Intents : intent'[k].state = intent[k].state
          BY <4>2 DEF IntentRecords
        <4>q. QED
          BY <4>1, <4>3, <4>4
      <3>q. QED
        BY <1>3, <3>1, <3>2 DEF Crash, Dying, MaySend, NotInBranch
    <2>2. IntentsOK'
      BY <1>0, <1>3, <2>1 DEF IntentsOK, PendingIntents, Crash
    <2>3. SessionOK'
      <3>1. events' \in 0..MaxEvents
        BY <1>0, <1>3, EventTypes DEF Crash
      <3>2. 0 \in 0..MaxSteps
        BY ConversationAssumption
      <3>3. /\ checking' = 0 /\ settling' = "none" /\ agent' = "idle" /\ provenance' = None
            /\ held' = FALSE /\ again' = FALSE /\ paused' = FALSE
            /\ aborting' = FALSE /\ suppress' = FALSE
        BY <1>3 DEF Crash
      <3>q. QED
        BY <3>1, <3>2, <3>3 DEF SessionOK
    <2>4. /\ phase' = (IF phase = "ended" THEN "ended" ELSE "between")
          /\ outcome' = (IF phase \in {"starting", "agent"}
                         THEN [outcome EXCEPT ![tries] = "aborted"] ELSE outcome)
          /\ step' = NoStep /\ UNCHANGED <<tries, status, reported>>
      BY <1>3 DEF Crash
    <2>5. outcome' \in [Attempts -> {"none", "accepted", "failed", "aborted"}]
      BY <1>0, <2>4 DEF StepOK
    <2>6. \A a \in Attempts : a > tries => outcome'[a] = "none"
      BY <1>0, <2>4 DEF StepOK, Attempts
    <2>7. StepOK' /\ EndOK'
      BY <1>0, <2>4, <2>5, <2>6, NoStepTypes DEF StepOK, EndOK, Watched
    <2>q. QED
      BY <2>2, <2>3, <2>7 DEF ConvInv
  <1>4. ASSUME NEW i \in Intents, SyncFallback(i)  PROVE  ConvInv'
    <2>1. /\ intent' \in [Intents -> IntentRecords] /\ PendingIntents' \subseteq PendingIntents
      BY <1>0, <1>4, IntentUpdates DEF SyncFallback, PendingIntents
    <2>2. branch' \in [Intents -> {0, 1}] /\ inbox' \in BOOLEAN
      <3>1. CASE NotInBranch(i)
        <4>1. branch' = [branch EXCEPT ![i] = @ + 1] /\ inbox' = TRUE /\ branch[i] = 0
          BY <1>4, <3>1 DEF SyncFallback, NotInBranch
        <4>q. QED
          BY <1>0, <4>1, IntentUpdates
      <3>2. CASE ~NotInBranch(i)
        <4>1. UNCHANGED <<branch, inbox>>
          BY <1>4, <3>2 DEF SyncFallback
        <4>q. QED
          BY <1>0, <4>1 DEF IntentsOK
      <3>q. QED
        BY <3>1, <3>2
    <2>3. IntentsOK'
      BY <1>0, <1>4, <2>1, <2>2 DEF IntentsOK, SyncFallback
    <2>4. SessionOK'
      BY <1>0, <1>4 DEF SessionOK, SyncFallback, holdVars
    <2>q. QED
      BY <1>0, <1>4, <2>3, <2>4, EngineKept DEF SyncFallback, ConvInv
  <1>5. ASSUME NEW i \in Intents, ClaimRunsOut(i)  PROVE  ConvInv'
    <2>1. /\ intent' \in [Intents -> IntentRecords]
          /\ \A k \in Intents : intent'[k].state = intent[k].state
      <3>1. intent \in [Intents -> IntentRecords] /\ intent' = [intent EXCEPT ![i].claimed = FALSE]
        BY <1>0, <1>5 DEF ClaimRunsOut, IntentsOK
      <3>2. /\ [intent[i] EXCEPT !.claimed = FALSE] \in IntentRecords
            /\ [intent[i] EXCEPT !.claimed = FALSE].state = intent[i].state
        BY <3>1 DEF IntentRecords
      <3>q. QED
        BY <3>1, <3>2
    <2>2. IntentsOK'
      BY <1>0, <1>5, <2>1 DEF IntentsOK, PendingIntents, ClaimRunsOut, turnVars
    <2>3. SessionOK'
      BY <1>0, <1>5 DEF SessionOK, ClaimRunsOut, holdVars, turnVars
    <2>q. QED
      BY <1>0, <1>5, <2>2, <2>3, EngineKept DEF ClaimRunsOut, ConvInv
  <1>q. QED
    BY <1>1, <1>2, <1>3, <1>4, <1>5

LEMMA ConvInvInit == ConvInit => ConvInv
  <1> SUFFICES ASSUME ConvInit  PROVE  ConvInv
    OBVIOUS
  <1>1. StepOK
    <2>1. 0 \in 0..MaxSteps
      BY ConversationAssumption
    <2>q. QED
      BY <2>1, NoStepTypes DEF ConvInit, StepOK, Watched
  <1>2. EndOK
    BY DEF ConvInit, EndOK
  <1>3. IntentsOK
    <2>1. intent \in [Intents -> IntentRecords] /\ PendingIntents = {}
      BY DEF ConvInit, NoIntent, IntentRecords, PendingIntents
    <2>2. branch \in [Intents -> {0, 1}]
      BY DEF ConvInit
    <2>q. QED
      BY <2>1, <2>2 DEF ConvInit, IntentsOK
  <1>4. SessionOK
    <2>1. 0 \in 0..MaxSteps /\ 0 \in 0..MaxEvents
      BY ConversationAssumption
    <2>q. QED
      BY <2>1 DEF ConvInit, SessionOK
  <1>q. QED
    BY <1>1, <1>2, <1>3, <1>4 DEF ConvInv

LEMMA ConvInvStep == ConvInv /\ [ConvNext]_convVars => ConvInv'
  <1> SUFFICES ASSUME ConvInv, [ConvNext]_convVars  PROVE  ConvInv'
    OBVIOUS
  <1>1. CASE UNCHANGED convVars
    BY <1>1 DEF convVars, ConvInv, StepOK, Watched, EndOK, IntentsOK, PendingIntents, SessionOK
  <1>2. CASE SessionGoesOn
    BY <1>2, ExecutorStep, EngineActs, SettlingStep, PassStep DEF SessionGoesOn
  <1>3. CASE ConvNext /\ ~SessionGoesOn
    BY <1>3, ExecutorStep, EngineActs, TurnStep, PassStep DEF ConvNext
  <1>q. QED
    BY <1>1, <1>2, <1>3

\* Conversation: at every moment the executor's step, the deferred turn intents and the hooks'
\* memory agree as ConvInv says.
THEOREM ConvInvariance == ConvSpec => []ConvInv
  <1>1. ConvInit => ConvInv
    BY ConvInvInit
  <1>2. ConvInv /\ [ConvNext]_convVars => ConvInv'
    BY ConvInvStep
  <1>q. QED
    BY <1>1, <1>2, PTL DEF ConvSpec

\* runAgentStep, submit, handleAgentSettled, handleActivationTimeout, abort: the engine never
\* waits for a step the executor has forgotten.
THEOREM StepIsKept == ConvSpec => []NoStepForgotten
  <1>1. ConvInv => NoStepForgotten
    BY DEF ConvInv, StepOK, NoStepForgotten
  <1>q. QED
    BY <1>1, ConvInvariance, PTL

\* deliverNatural, flushNatural, deliverFallbacks: an intent puts at most one message into the
\* session's branch, crashes between the send and the resolution included.
THEOREM OneMessage == ConvSpec => []OneSuccessorMessage
  <1>1. ConvInv => OneSuccessorMessage
    BY DEF ConvInv, IntentsOK, OneSuccessorMessage
  <1>q. QED
    BY <1>1, ConvInvariance, PTL

\* What a step may do to the promises: settle that of the attempt in progress.
Settles == /\ phase \in {"starting", "agent"}
           /\ \E how \in {"accepted", "failed", "aborted"} :
                outcome' = [outcome EXCEPT ![tries] = how]

LEMMA OnlyTheOpenPromise ==
    ASSUME ConvInv, [ConvNext]_convVars
    PROVE  UNCHANGED outcome \/ Settles
  <1>0. step.on <=> phase = "agent"
    BY DEF ConvInv, StepOK
  <1>1. CASE UNCHANGED convVars
    BY <1>1 DEF convVars
  <1>2. CASE RunAgentStep \/ FinishRun \/ SyncFlush
    BY <1>2 DEF RunAgentStep, FinishRun, SyncFlush, engineVars
  <1>3. CASE ActivationTimeout
    BY <1>0, <1>3 DEF ActivationTimeout, Clear, Settles, engineVars
  <1>4. CASE AgentSettled
    <2>1. UNCHANGED engineVars \/ (step.on /\ Clear("failed"))
      <3>1. CASE UNCHANGED engineVars
        BY <3>1
      <3>2. CASE HandleAgentSettled(settling)
        BY <3>2 DEF HandleAgentSettled
      <3>q. QED
        BY <1>4, <3>1, <3>2 DEF AgentSettled
    <2>q. QED
      BY <1>0, <2>1 DEF Clear, Settles, engineVars
  <1>5. CASE \E i \in Intents : SyncFallback(i) \/ ClaimRunsOut(i)
    BY <1>5 DEF SyncFallback, ClaimRunsOut, engineVars
  <1>6. CASE \E a \in Attempts : Validated(a) \/ Submit(a)
    BY <1>0, <1>6 DEF Validated, Submit, Clear, Settles, engineVars
  <1>7. CASE Resume \/ StartNode \/ AgentStart \/ TurnIsLost \/ Pause
    BY <1>7 DEF Resume, StartNode, AgentStart, TurnIsLost, Pause, engineVars
  <1>8. CASE DeliveryThrows \/ StepTimesOut
    BY <1>8 DEF DeliveryThrows, StepTimesOut, Clear, Settles
  <1>9. CASE \/ \E o \in Outcomes : AgentSettles(o)
             \/ \E s \in Ends \ {"cancelled"} : RunEnd(s)
    BY <1>9 DEF AgentSettles, RunEnd, engineVars
  <1>10. CASE \E by \in {"agent", "user"} : Cancel(by)
    BY <1>0, <1>10 DEF Cancel, Settles
  <1>11. CASE Crash
    BY <1>11 DEF Crash, Settles
  <1>q. QED
    BY <1>1, <1>2, <1>3, <1>4, <1>5, <1>6, <1>7, <1>8, <1>9, <1>10, <1>11 DEF ConvNext, SessionGoesOn

\* submit's late validation, a timeout, a cancellation, a dead process: the promise of an attempt
\* settles once and is not settled again by what comes later.
THEOREM PromisesSettleOnce == ConvSpec => OutcomeIsFinal
  <1>1. ConvInv /\ [ConvNext]_convVars
        => [\A a \in Attempts : outcome[a] # "none" => outcome'[a] = outcome[a]]_convVars
    <2> SUFFICES ASSUME ConvInv, [ConvNext]_convVars, NEW a \in Attempts, outcome[a] # "none"
                 PROVE  outcome'[a] = outcome[a]
      OBVIOUS
    <2>1. CASE UNCHANGED outcome
      BY <2>1
    <2>2. CASE Settles
      <3>1. outcome[tries] = "none" /\ tries \in Attempts
            /\ outcome \in [Attempts -> {"none", "accepted", "failed", "aborted"}]
        BY <2>2 DEF ConvInv, StepOK, Settles
      <3>2. a # tries
        BY <3>1
      <3>q. QED
        BY <2>2, <3>1, <3>2 DEF Settles
    <2>q. QED
      BY <2>1, <2>2, OnlyTheOpenPromise
  <1>q. QED
    BY <1>1, ConvInvariance, PTL DEF ConvSpec, OutcomeIsFinal

\* At most one intent of a run is pending, so their number is at most one.
LEMMA OnePending == IntentsOK => Cardinality(PendingIntents) <= 1
  <1> SUFFICES ASSUME IntentsOK  PROVE  Cardinality(PendingIntents) <= 1
    OBVIOUS
  <1>1. CASE PendingIntents = {}
    BY <1>1, FS_EmptySet
  <1>2. CASE PendingIntents # {}
    <2>1. PICK i \in PendingIntents : TRUE
      BY <1>2
    <2>2. PendingIntents = {i}
      BY <2>1 DEF IntentsOK
    <2>q. QED
      BY <2>2, FS_Singleton
  <1>q. QED
    BY <1>1, <1>2

LEMMA ConvTypes == ConvInv => ConvTypeOK
  <1> SUFFICES ASSUME ConvInv  PROVE  ConvTypeOK
    OBVIOUS
  <1>1. Cardinality(PendingIntents) <= 1
    BY OnePending DEF ConvInv
  <1>2. branch \in [Intents -> 0..MaxEvents + 1]
    <2>1. {0, 1} \subseteq 0..MaxEvents + 1
      BY ConversationAssumption
    <2>q. QED
      BY <2>1 DEF ConvInv, IntentsOK
  <1>3. step.timer => step.on /\ step.delivered /\ ~step.seen
    BY DEF ConvInv, StepOK, Watched
  <1>4. (status = "running") = (phase # "ended")
    BY DEF ConvInv, EndOK
  <1>5. /\ phase \in {"between", "starting", "agent", "ended"}
        /\ status \in Ends \union {"running"}
        /\ tries \in 0..MaxSteps
        /\ outcome \in [Attempts -> {"none", "accepted", "failed", "aborted"}]
        /\ step \in StepRecords
    BY DEF ConvInv, StepOK, EndOK
  <1>6. /\ checking \in 0..MaxSteps /\ settling \in Outcomes \union {"none"}
        /\ agent \in {"idle", "active"} /\ provenance \in Intents \union {None}
        /\ events \in 0..MaxEvents
    BY DEF ConvInv, SessionOK
  <1>7. intent \in [Intents -> IntentRecords] /\ deferred \in {None, Presentation} \union Attempts
    BY DEF ConvInv, IntentsOK
  <1>8. {reported, held, again, paused, inbox, aborting, suppress, swallowed} \subseteq BOOLEAN
    BY DEF ConvInv, EndOK, IntentsOK, SessionOK
  <1>q. QED
    BY <1>1, <1>2, <1>3, <1>4, <1>5, <1>6, <1>7, <1>8
       DEF ConvTypeOK, StepRecords, IntentRecords, PendingIntents

\* Conversation: every variable keeps its type and a run has one pending intent at most, the
\* unique index of the turn intents' table.
THEOREM ConvTypeCorrect == ConvSpec => []ConvTypeOK
  BY ConvTypes, ConvInvariance, PTL

-----------------------------------------------------------------------------
(* The recorder: the events of the journal, of the append under way and of the *)
(* queue are one log *)

Kinds == {"turnStart", "turnEnd", "messageStart", "messageEnd"}
Events == [seq : Nat, kind : Kinds, of : Nat, entry : Nat]

Written == Len(journal) + Len(appending)
LogLen == Written + Len(queue)
Logged(i) == IF i <= Len(journal) THEN journal[i]
             ELSE IF i <= Written THEN appending[i - Len(journal)]
             ELSE queue[i - Written]

SyncHooks == {"submit", "messageStart", "turnEnd", "settled", "flushed"}

PiFlags ==
    /\ agentRuns \in BOOLEAN /\ inTurn \in BOOLEAN /\ asked \in BOOLEAN
    /\ abortingTurn \in BOOLEAN /\ heldPrompt \in BOOLEAN

PiTypes ==
    /\ PiFlags
    /\ turns \in 0..MaxTurns /\ active \in 0..MaxAttempts /\ began \in 0..MaxAttempts
    /\ attempt \in 0..MaxAttempts /\ turn \in 0..MaxAttempts /\ finished \in 0..MaxAttempts

MessageTypes ==
    /\ messages \in 0..MaxMessages /\ branched \in 0..MaxMessages
    /\ message \in 0..MaxMessages /\ entries \in 0..MaxMessages
    /\ pendingEnds \subseteq Nat \ {0}
    /\ hook = "messageStart" => messages < MaxMessages

FileTypes ==
    /\ journal \in Seq(Events) /\ appending \in Seq(Events) /\ queue \in Seq(Events)
    /\ observed \in Nat
    /\ Len(queue) + Len(appending) <= QueueMax /\ Len(appending) <= FlushMax

CaptureTypes ==
    /\ torn \in BOOLEAN /\ entryChain \in {"idle", "busy", "failed"}
    /\ hook \in {"none", "record", "submit", "messageStart", "turnEnd", "settled", "flushed", "dead"}
    /\ stage \in {"open", "waiting", "draining", "counted", "retry", "done", "dead"}
    /\ capture.status \in {"recording", "complete", "failed"}

RecTypes == PiTypes /\ MessageTypes /\ FileTypes /\ CaptureTypes

\* An event has its place in the log as its number, names no entry that is not
\* on disk, and the end of a turn or message comes after its start.
LogFits ==
    \A i \in 1..LogLen :
      LET e == Logged(i) IN
      /\ e.seq = i /\ e.entry <= entries
      /\ e.kind = "turnEnd" =>
           \E j \in 1..i - 1 : Logged(j).kind = "turnStart" /\ Logged(j).of = e.of
      /\ e.kind = "messageEnd" =>
           \E j \in 1..i - 1 : Logged(j).kind = "messageStart" /\ Logged(j).of = e.of

\* Until a failure is on record the log is whole, the turn and the message that
\* are open have their start in it, and an end without its entry is in the
\* queue and known to be pending.
LogIsWhole ==
    failure = "none" =>
      /\ stage # "dead" => LogLen = observed /\ ~torn
      /\ \A i \in 1..LogLen :
           Logged(i).kind = "messageEnd" /\ Logged(i).entry = 0 =>
             i > Written /\ Logged(i).of \in pendingEnds
      /\ turn # 0 /\ Listening => \E j \in 1..LogLen : Logged(j).kind = "turnStart" /\ Logged(j).of = turns
      /\ message # 0 /\ Listening =>
           \E j \in 1..LogLen : Logged(j).kind = "messageStart" /\ Logged(j).of = message

\* Where Pi's hooks are, and what a hook that has synchronized may rely on.
HooksFit ==
    /\ turn # 0 => inTurn \/ hook \in {"turnEnd", "dead"}
    /\ hook = "turnEnd" => ~inTurn
    /\ hook \in {"turnEnd", "messageStart"} => turn # 0
    /\ message # 0 => turn # 0
    /\ message \in {0, messages} /\ entries <= branched /\ branched <= messages
    /\ pendingEnds # {} => Listening /\ (failure = "none" => turn # 0)
    /\ \A m \in pendingEnds : m <= branched
    /\ entryChain = "failed" => failure # "none"
    /\ hook \in SyncHooks /\ entryChain = "idle" /\ pendingEnds # {} /\ failure = "none" =>
         entries = branched

\* Once the files are counted nothing changes them.
CaptureFits ==
    /\ stage \in {"counted", "retry", "done"} =>
         /\ queue = <<>> /\ appending = <<>> /\ entryChain # "busy"
         /\ counts = <<Len(journal), entries>>
    /\ stage = "dead" =>
         queue = <<>> /\ appending = <<>> /\ pendingEnds = {} /\ entryChain = "idle" /\ hook = "dead"
    /\ capture.status # "recording" =>
         stage \in {"done", "dead"} /\ capture.of = <<Len(journal), entries>>
    /\ capture.status = "complete" =>
         /\ ~torn /\ Len(journal) = observed
         /\ \A i \in DOMAIN journal : journal[i].kind = "messageEnd" => journal[i].entry # 0

RecInv == RecTypes /\ LogFits /\ LogIsWhole /\ HooksFit /\ CaptureFits

-----------------------------------------------------------------------------
(* The log *)

LEMMA FailureSticks ==
    ASSUME NEW code \in {"event_queue_overflow", "entry_write_failed", "event_write_failed",
                         "turn_settle_timeout", "turn_interrupted", "capture_finalize_failed"}
    PROVE  FailCapture(code) # "none"
  BY DEF FailCapture

LEMMA LogTypes ==
    ASSUME RecTypes
    PROVE  /\ Written \in Nat /\ LogLen \in Nat /\ Written <= LogLen /\ Len(journal) <= Written
           /\ \A i \in 1..LogLen : Logged(i) \in Events
           /\ \A i \in 1..Len(journal) : Logged(i) = journal[i]
           /\ Len(journal) \in Nat /\ Len(appending) \in Nat /\ Len(queue) \in Nat
  <1>1. Len(journal) \in Nat /\ Len(appending) \in Nat /\ Len(queue) \in Nat
    BY DEF RecTypes, FileTypes
  <1>2. ASSUME NEW i \in 1..LogLen PROVE Logged(i) \in Events
    <2>1. CASE i <= Len(journal)
      BY <2>1, <1>1 DEF Logged, RecTypes, FileTypes
    <2>2. CASE i > Len(journal) /\ i <= Written
      <3>1. i - Len(journal) \in 1..Len(appending)
        BY <2>2, <1>1 DEF Written
      <3>2. Logged(i) = appending[i - Len(journal)]
        BY <2>2, <1>1 DEF Logged
      <3>q. QED
        BY <3>1, <3>2 DEF RecTypes, FileTypes
    <2>3. CASE i > Written
      <3>1. i - Written \in 1..Len(queue)
        BY <2>3, <1>1 DEF Written, LogLen
      <3>2. Logged(i) = queue[i - Written]
        BY <2>3, <1>1 DEF Logged, Written
      <3>q. QED
        BY <3>1, <3>2 DEF RecTypes, FileTypes
    <2>q. QED
      BY <2>1, <2>2, <2>3, <1>1 DEF LogLen, Written
  <1>q. QED
    BY <1>1, <1>2 DEF Written, LogLen, Logged

\* q is the queue with some of its events linked to their entries.
Relinked(q) ==
    /\ q \in Seq(Events) /\ Len(q) = Len(queue)
    /\ \A k \in 1..Len(queue) :
         /\ q[k].seq = queue[k].seq /\ q[k].kind = queue[k].kind /\ q[k].of = queue[k].of
         /\ \/ q[k].entry = queue[k].entry
            \/ q[k].entry = queue[k].of /\ queue[k].of <= entries /\ queue[k].of \in pendingEnds

AllLinked(q) ==
    \A k \in 1..Len(queue) :
      q[k].kind = "messageEnd" /\ q[k].of \in pendingEnds /\ q[k].of <= entries => q[k].entry = q[k].of

LEMMA QueueLinks ==
    ASSUME RecTypes
    PROVE  Relinked(Linked) /\ AllLinked(Linked) /\ (queue = <<>> => Linked = <<>>)
  <1>1. queue \in Seq(Events) /\ Len(queue) \in Nat /\ DOMAIN queue = 1..Len(queue)
    BY DEF RecTypes, FileTypes
  <1>2. \A k \in 1..Len(queue) : queue[k] \in Events
    BY <1>1
  <1>3. \A k \in 1..Len(queue) :
          Linked[k] = IF queue[k].kind = "messageEnd" /\ queue[k].of \in pendingEnds /\ queue[k].of <= entries
                      THEN [queue[k] EXCEPT !.entry = queue[k].of] ELSE queue[k]
    BY <1>1 DEF Linked
  <1>4. \A k \in 1..Len(queue) :
          /\ Linked[k] \in Events
          /\ Linked[k].seq = queue[k].seq /\ Linked[k].kind = queue[k].kind /\ Linked[k].of = queue[k].of
          /\ \/ Linked[k].entry = queue[k].entry
             \/ Linked[k].entry = queue[k].of /\ queue[k].of <= entries /\ queue[k].of \in pendingEnds
          /\ Linked[k].kind = "messageEnd" /\ Linked[k].of \in pendingEnds /\ Linked[k].of <= entries =>
               Linked[k].entry = Linked[k].of
    BY <1>2, <1>3 DEF Events
  <1>5. Linked \in [1..Len(queue) -> Events]
    BY <1>1, <1>4 DEF Linked
  <1>6. Linked \in Seq(Events) /\ Len(Linked) = Len(queue)
    BY <1>1, <1>5
  <1>7. queue = <<>> => Linked = <<>>
    <2> SUFFICES ASSUME queue = <<>> PROVE Linked = <<>>
      OBVIOUS
    <2>1. Len(Linked) = 0
      BY <1>6
    <2>q. QED
      BY <2>1, <1>6
  <1>q. QED
    BY <1>4, <1>6, <1>7 DEF Relinked, AllLinked

\* What a hook that has synchronized makes of the queue
LEMMA QueueAfter ==
    ASSUME RecTypes
    PROVE  /\ Relinked(queue) /\ Relinked(QueueAfterSync)
           /\ QueueAfterSync \in Seq(Events) /\ Len(QueueAfterSync) = Len(queue)
           /\ entryChain # "failed" => AllLinked(QueueAfterSync)
           /\ PendingAfterSync \in {pendingEnds, {}}
           /\ queue = <<>> => QueueAfterSync = <<>>
  <1>1. Relinked(queue)
    BY DEF Relinked, RecTypes, FileTypes
  <1>2. QueueAfterSync = IF entryChain = "failed" THEN queue ELSE Linked
    BY DEF QueueAfterSync
  <1>3. Relinked(QueueAfterSync) /\ (entryChain # "failed" => AllLinked(QueueAfterSync))
        /\ (queue = <<>> => QueueAfterSync = <<>>)
    BY <1>1, <1>2, QueueLinks
  <1>q. QED
    BY <1>1, <1>3 DEF Relinked, PendingAfterSync

\* An event is appended, or the queue stays as it is and a failure is on record or
\* nobody listens any more.
LEMMA Enqueued ==
    ASSUME RecTypes, NEW kind \in Kinds, NEW of \in Nat, NEW q \in Seq(Events),
           Len(q) = Len(queue), EnqueueEvent(kind, of, q)
    PROVE  /\ queue' \in Seq(Events) /\ observed' \in Nat /\ Len(queue') + Len(appending) <= QueueMax
           /\ \/ /\ Listening /\ failure = "none" /\ failure' = "none" /\ observed' = observed + 1
                 /\ queue' = Append(q, Stamped(kind, of)) /\ Len(queue') = Len(queue) + 1
              \/ /\ queue' = q
                 /\ failure' = "none" => failure = "none" /\ ~Listening
                 /\ ~Listening => failure' = failure /\ observed' = observed
  <1>1. Len(queue) \in Nat /\ Len(appending) \in Nat /\ observed \in Nat
        /\ Len(queue) + Len(appending) <= QueueMax
    BY DEF RecTypes, FileTypes
  <1>2. Stamped(kind, of) \in Events
    BY <1>1 DEF Stamped, Events, Kinds
  <1>3. CASE Listening /\ failure = "none" /\ ~Full
    <2>1. queue' = Append(q, Stamped(kind, of)) /\ observed' = observed + 1 /\ failure' = failure
      BY <1>3 DEF EnqueueEvent
    <2>2. queue' \in Seq(Events) /\ Len(queue') = Len(queue) + 1
      BY <2>1, <1>2
    <2>3. Len(queue) + Len(appending) < QueueMax
      BY <1>1, <1>3, RecorderAssumption DEF Full
    <2>q. QED
      BY <2>1, <2>2, <2>3, <1>1, <1>3, RecorderAssumption
  <1>4. CASE ~(Listening /\ failure = "none" /\ ~Full)
    <2>1. queue' = q /\ observed' \in Nat
      BY <1>4, <1>1 DEF EnqueueEvent
    <2>2. failure' = "none" => failure = "none" /\ ~Listening
      BY <1>4, FailureSticks DEF EnqueueEvent, FailCapture
    <2>3. ~Listening => failure' = failure /\ observed' = observed
      BY <1>1 DEF EnqueueEvent
    <2>q. QED
      BY <2>1, <2>2, <2>3, <1>1
  <1>q. QED
    BY <1>3, <1>4

-----------------------------------------------------------------------------
(* Types *)

LEMMA RecTypesInit == RecInit => RecTypes
  <1> SUFFICES ASSUME RecInit PROVE RecTypes
    OBVIOUS
  <1>1. <<>> \in Seq(Events) /\ Len(<<>>) = 0
    OBVIOUS
  <1> USE RecorderAssumption DEF RecInit
  <1>a. PiFlags
    BY Zenon DEF PiFlags
  <1>2. PiTypes
    BY <1>a DEF PiTypes
  <1>3. MessageTypes
    BY DEF MessageTypes
  <1>4. FileTypes
    BY <1>1 DEF FileTypes
  <1>5. CaptureTypes
    BY DEF CaptureTypes
  <1>q. QED
    BY <1>2, <1>3, <1>4, <1>5 DEF RecTypes

LEMMA PiFlagsNext == ASSUME PiFlags, RecNext PROVE PiFlags'
  <1> USE DEF piVars, stepVars
  <1>1. CASE UNCHANGED <<agentRuns, inTurn, asked, abortingTurn, heldPrompt>>
    BY <1>1, Zenon DEF PiFlags
  <1>2. CASE StepBegins
    BY <1>2, Zenon DEF StepBegins, PiFlags
  <1>3. CASE ActiveStepTimesOut \/ UserPrompts
    BY <1>3, Zenon DEF ActiveStepTimesOut, UserPrompts, PiFlags
  <1>4. CASE HandleTurnStart
    BY <1>4, Zenon DEF HandleTurnStart, PiFlags
  <1>5. CASE TurnEndAwaits
    BY <1>5, Zenon DEF TurnEndAwaits, PiFlags
  <1>6. CASE SettleAwaits
    <2>1. (asked \/ heldPrompt) \in BOOLEAN
      OBVIOUS
    <2>q. QED
      BY <1>6, <2>1, Zenon DEF SettleAwaits, PiFlags
  <1>7. CASE SettleAttempt
    BY <1>7, Zenon DEF SettleAttempt, PiFlags
  <1>q. QED
    BY <1>1, <1>2, <1>3, <1>4, <1>5, <1>6, <1>7
    DEF RecNext, CaptureGoesOn, RecordEntries, StartFlush, EndFlush, FinishTimesOut, SessionCounts,
        WriteCapture, SubmitAwaits, SubmitSynchronizes, Submitted, MessageStartAwaits,
        HandleMessageStart, HandleMessageEnd, HandleTurnEnd, FinishCapture, StopCapture, ProcessDies,
        FinalizeRecordingCaptures

LEMMA PiTypesNext == ASSUME PiTypes, RecNext PROVE PiTypes'
  <1> USE RecorderAssumption DEF piVars, ownVars, stepVars
  <1>0. PiFlags'
    BY PiFlagsNext DEF PiTypes
  <1>1. CASE UNCHANGED <<turns, active, began, attempt, turn, finished>>
    BY <1>0, <1>1 DEF PiTypes
  <1>2. CASE StepBegins
    <2>1. /\ began < MaxAttempts /\ began' = began + 1 /\ active' = began + 1 /\ attempt' = began + 1
          /\ UNCHANGED <<turns, turn, finished>>
      BY <1>2 DEF StepBegins
    <2>q. QED
      BY <2>1, <1>0 DEF PiTypes
  <1>3. CASE ActiveStepTimesOut \/ Submitted
    <2>1. active' \in {active, 0} /\ UNCHANGED <<turns, began, attempt, turn, finished>>
      BY <1>3 DEF ActiveStepTimesOut, Submitted
    <2>q. QED
      BY <2>1, <1>0 DEF PiTypes
  <1>4. CASE HandleTurnStart
    <2>1. /\ turns < MaxTurns /\ turns' = turns + 1 /\ turn' \in {turn, attempt}
          /\ UNCHANGED <<active, began, attempt, finished>>
      BY <1>4 DEF HandleTurnStart
    <2>q. QED
      BY <2>1, <1>0 DEF PiTypes
  <1>5. CASE HandleTurnEnd
    <2>1. turn' = 0 /\ finished' = turn /\ UNCHANGED <<turns, active, began, attempt>>
      BY <1>5 DEF HandleTurnEnd
    <2>q. QED
      BY <2>1, <1>0 DEF PiTypes
  <1>6. CASE SettleAttempt
    <2>1. finished' = 0 /\ attempt' \in {active, attempt, 0} /\ UNCHANGED <<turns, active, began, turn>>
      BY <1>6 DEF SettleAttempt
    <2>q. QED
      BY <2>1, <1>0 DEF PiTypes
  <1>q. QED
    BY <1>1, <1>2, <1>3, <1>4, <1>5, <1>6
    DEF RecNext, CaptureGoesOn, RecordEntries, StartFlush, EndFlush, FinishTimesOut, SessionCounts,
        WriteCapture, SubmitAwaits, SubmitSynchronizes, UserPrompts, MessageStartAwaits,
        HandleMessageStart, HandleMessageEnd, TurnEndAwaits, SettleAwaits, FinishCapture, StopCapture,
        ProcessDies, FinalizeRecordingCaptures

LEMMA MessageTypesNext == ASSUME RecTypes, HooksFit, RecNext PROVE MessageTypes'
  <1> USE RecorderAssumption DEF piVars, ownVars, stepVars, eventVars, fileVars
  <1>0. MessageTypes
    BY DEF RecTypes
  <1>1. ASSUME UNCHANGED <<messages, branched, message, entries>>, pendingEnds' \subseteq pendingEnds,
               hook' = "messageStart" => hook = "messageStart" \/ messages < MaxMessages
        PROVE  MessageTypes'
    BY <1>0, <1>1 DEF MessageTypes
  <1>2. CASE RecordEntries
    BY <1>0, <1>2 DEF RecordEntries, MessageTypes
  <1>3. CASE StepBegins \/ ActiveStepTimesOut \/ UserPrompts \/ SubmitAwaits \/ SubmitSynchronizes
    BY <1>1, <1>3 DEF StepBegins, ActiveStepTimesOut, UserPrompts, SubmitAwaits, SubmitSynchronizes
  <1>4. CASE MessageStartAwaits \/ TurnEndAwaits \/ SettleAwaits
    BY <1>1, <1>4 DEF MessageStartAwaits, TurnEndAwaits, SettleAwaits, Await
  <1>5. CASE Submitted \/ SettleAttempt
    BY <1>1, <1>5, QueueAfter DEF Submitted, SettleAttempt, Synchronized
  <1>6. CASE HandleTurnStart
    <2>1. UNCHANGED <<messages, branched, message, entries, pendingEnds, hook>>
      BY <1>6 DEF HandleTurnStart
    <2>q. QED
      BY <1>1, <2>1
  <1>7. CASE HandleMessageStart
    <2>1. hook = "messageStart" /\ hook' = "none" /\ UNCHANGED <<branched, entries>>
          /\ (UNCHANGED <<message, messages>> \/ (messages' = messages + 1 /\ message' = messages'))
      BY <1>7 DEF HandleMessageStart, Synchronized
    <2>2. pendingEnds' \subseteq pendingEnds
      BY <1>7, QueueAfter DEF HandleMessageStart
    <2>q. QED
      BY <2>1, <2>2, <1>0 DEF MessageTypes
  <1>8. CASE HandleMessageEnd
    <2>1. /\ message' = 0 /\ branched' = message /\ UNCHANGED <<messages, entries, hook>>
          /\ pendingEnds' \subseteq pendingEnds \cup {message} /\ message # 0
      BY <1>8 DEF HandleMessageEnd
    <2>q. QED
      BY <2>1, <1>0 DEF MessageTypes
  <1>9. CASE HandleTurnEnd
    <2>1. hook' = "none" /\ UNCHANGED <<branched, entries, messages>> /\ message' = 0
      BY <1>9 DEF HandleTurnEnd, Synchronized
    <2>2. pendingEnds' \subseteq pendingEnds
      BY <1>9, QueueAfter DEF HandleTurnEnd
    <2>q. QED
      BY <2>1, <2>2, <1>0 DEF MessageTypes
  <1>10. CASE FinishCapture \/ FinishTimesOut \/ StopCapture
    BY <1>1, <1>10 DEF FinishCapture, FinishTimesOut, StopCapture, StopRecording
  <1>11. CASE StartFlush \/ EndFlush \/ SessionCounts \/ WriteCapture \/ ProcessDies \/ FinalizeRecordingCaptures
    BY <1>1, <1>11 DEF StartFlush, EndFlush, SessionCounts, WriteCapture, ProcessDies, FinalizeRecordingCaptures
  <1>q. QED
    BY <1>2, <1>3, <1>4, <1>5, <1>6, <1>7, <1>8, <1>9, <1>10, <1>11 DEF RecNext, CaptureGoesOn

LEMMA CaptureTypesNext == ASSUME RecTypes, RecNext PROVE CaptureTypes'
  <1> USE DEF fileVars, stopVars, RecTypes
  <1>1. CASE RecordEntries \/ StepBegins \/ ActiveStepTimesOut \/ UserPrompts \/ StartFlush
    BY <1>1 DEF RecordEntries, StepBegins, ActiveStepTimesOut, UserPrompts, StartFlush, CaptureTypes
  <1>2. CASE SubmitAwaits \/ SubmitSynchronizes \/ MessageStartAwaits \/ TurnEndAwaits \/ SettleAwaits
    BY <1>2 DEF SubmitAwaits, SubmitSynchronizes, MessageStartAwaits, TurnEndAwaits, SettleAwaits, Await,
                CaptureTypes
  <1>3. CASE Submitted \/ SettleAttempt \/ HandleTurnStart \/ HandleMessageStart \/ HandleMessageEnd
    BY <1>3 DEF Submitted, SettleAttempt, Synchronized, HandleTurnStart, HandleMessageStart,
                HandleMessageEnd, CaptureTypes
  <1>4. CASE HandleTurnEnd \/ FinishCapture \/ FinishTimesOut \/ StopCapture
    BY <1>4 DEF HandleTurnEnd, Synchronized, FinishCapture, FinishTimesOut, StopCapture, StopRecording,
                CaptureTypes
  <1>5. CASE EndFlush \/ SessionCounts
    BY <1>5 DEF EndFlush, SessionCounts, CaptureTypes
  <1>6. CASE WriteCapture \/ FinalizeRecordingCaptures
    <2>1. capture'.status \in {"recording", "complete", "failed"}
      BY <1>6 DEF WriteCapture, FinalizeRecordingCaptures, CaptureTypes
    <2>q. QED
      BY <1>6, <2>1 DEF WriteCapture, FinalizeRecordingCaptures, CaptureTypes
  <1>7. CASE ProcessDies
    <2>1. torn' \in BOOLEAN
      <3>1. CASE UNCHANGED torn
        BY <3>1 DEF CaptureTypes
      <3>2. ASSUME NEW n \in 0..Len(appending), torn' = (n < Len(appending)) PROVE torn' \in BOOLEAN
        <4>1. n \in Int /\ Len(appending) \in Int
          BY DEF RecTypes, FileTypes
        <4>2. (n < Len(appending)) \in BOOLEAN
          BY <4>1
        <4>q. QED
          BY <4>2, <3>2, Zenon
      <3>q. QED
        BY <1>7, <3>1, <3>2, Zenon DEF ProcessDies
    <2>2. /\ entryChain' = "idle" /\ hook' = "dead" /\ stage' = "dead" /\ UNCHANGED capture
      BY <1>7 DEF ProcessDies
    <2>q. QED
      BY <2>1, <2>2 DEF CaptureTypes
  <1>q. QED
    BY <1>1, <1>2, <1>3, <1>4, <1>5, <1>6, <1>7 DEF RecNext, CaptureGoesOn

LEMMA FileTypesNext == ASSUME RecTypes, RecNext PROVE FileTypes'
  <1> USE RecorderAssumption DEF piVars, ownVars, stepVars, eventVars, fileVars
  <1>0. FileTypes /\ Len(queue) \in Nat /\ Len(appending) \in Nat /\ turns + 1 \in Nat
        /\ messages + 1 \in Nat /\ message \in Nat /\ turns \in Nat
    <2>1. FileTypes /\ Len(queue) \in Nat /\ Len(appending) \in Nat
      BY DEF RecTypes, FileTypes
    <2>2. turns \in Nat /\ messages \in Nat /\ message \in Nat
      BY DEF RecTypes, PiTypes, MessageTypes
    <2>q. QED
      BY <2>1, <2>2
  <1>1. CASE UNCHANGED <<journal, appending, queue, observed>>
    BY <1>0, <1>1 DEF FileTypes
  <1>2. ASSUME NEW kind \in Kinds, NEW of \in Nat, NEW q \in Seq(Events), Len(q) = Len(queue),
               EnqueueEvent(kind, of, q), UNCHANGED <<journal, appending>>
        PROVE  FileTypes'
    BY <1>0, <1>2, Enqueued DEF FileTypes
  <1>3. ASSUME queue' = QueueAfterSync, UNCHANGED <<journal, appending, observed>>
        PROVE  FileTypes'
    BY <1>0, <1>3, QueueAfter DEF FileTypes
  <1>4. CASE Submitted \/ SettleAttempt
    BY <1>3, <1>4 DEF Submitted, SettleAttempt
  <1>5. CASE HandleTurnStart
    BY <1>0, <1>1, <1>2, <1>5 DEF HandleTurnStart, Kinds, FileTypes
  <1>6. CASE HandleMessageStart
    BY <1>0, <1>1, <1>2, <1>6, QueueAfter DEF HandleMessageStart, Kinds
  <1>7. CASE HandleMessageEnd
    BY <1>0, <1>2, <1>7 DEF HandleMessageEnd, Kinds, FileTypes
  <1>8. CASE HandleTurnEnd
    BY <1>0, <1>1, <1>2, <1>8, QueueAfter DEF HandleTurnEnd, Kinds
  <1>9. CASE StartFlush
    <2>1. PICK n \in 1..FlushMax : /\ n <= Len(queue) /\ appending = <<>>
                                   /\ appending' = SubSeq(queue, 1, n)
                                   /\ queue' = SubSeq(queue, n + 1, Len(queue))
                                   /\ UNCHANGED <<journal, observed>>
      BY <1>9 DEF StartFlush
    <2>2. appending' \in Seq(Events) /\ Len(appending') = n
      BY <2>1, <1>0 DEF FileTypes
    <2>3. queue' \in Seq(Events) /\ Len(queue') = Len(queue) - n
      BY <2>1, <1>0 DEF FileTypes
    <2>4. Len(queue') + Len(appending') <= QueueMax /\ Len(appending') <= FlushMax
      BY <2>1, <2>2, <2>3, <1>0 DEF FileTypes
    <2>q. QED
      BY <1>0, <2>1, <2>2, <2>3, <2>4 DEF FileTypes
  <1>n. Len(<<>>) = 0 /\ <<>> \in Seq(Events)
    OBVIOUS
  <1>j. ASSUME NEW n \in 0..Len(appending), journal' = journal \o SubSeq(appending, 1, n)
        PROVE  journal' \in Seq(Events)
    <2>1. SubSeq(appending, 1, n) \in Seq(Events)
      BY <1>j, <1>0 DEF FileTypes
    <2>q. QED
      BY <2>1, <1>0, <1>j DEF FileTypes
  <1>10. CASE EndFlush
    <2>1. appending' = <<>> /\ queue' \in {queue, <<>>} /\ observed' = observed
      BY <1>10 DEF EndFlush, Left
    <2>2. journal' \in Seq(Events)
      <3>1. CASE journal' = journal \o appending
        BY <3>1, <1>0 DEF FileTypes
      <3>2. \A n \in 0..Len(appending) - 1 : n \in 0..Len(appending)
        BY <1>0
      <3>q. QED
        BY <3>1, <3>2, <1>j, <1>10 DEF EndFlush
    <2>q. QED
      <3>1. Len(queue') + Len(appending') <= QueueMax /\ Len(appending') <= FlushMax
        BY <2>1, <1>n, <1>0 DEF FileTypes
      <3>q. QED
        BY <2>1, <2>2, <3>1, <1>n, <1>0 DEF FileTypes
  <1>11. CASE ProcessDies
    <2>1. journal' \in Seq(Events)
      BY <1>11, <1>j, <1>0 DEF ProcessDies, FileTypes
    <2>2. queue' = <<>> /\ appending' = <<>> /\ observed' = observed
      BY <1>11 DEF ProcessDies
    <2>q. QED
      BY <2>1, <2>2, <1>n, <1>0 DEF FileTypes
  <1>q. QED
    BY <1>1, <1>4, <1>5, <1>6, <1>7, <1>8, <1>9, <1>10, <1>11
    DEF RecNext, CaptureGoesOn, RecordEntries, FinishTimesOut, SessionCounts, WriteCapture,
        StepBegins, ActiveStepTimesOut, SubmitAwaits, SubmitSynchronizes, UserPrompts,
        MessageStartAwaits, TurnEndAwaits, SettleAwaits, FinishCapture, StopCapture,
        FinalizeRecordingCaptures

LEMMA RecTypesNext == ASSUME RecTypes, HooksFit, RecNext PROVE RecTypes'
  BY PiTypesNext, MessageTypesNext, CaptureTypesNext, FileTypesNext DEF RecTypes

-----------------------------------------------------------------------------
(* Steps on the log *)

\* The log when the queue is q.
LogWith(q, i) == IF i <= Written THEN Logged(i) ELSE q[i - Written]

LEMMA QueueView ==
    ASSUME RecTypes, NEW q \in Seq(Events), Len(q) = Len(queue), UNCHANGED <<journal, appending>>
    PROVE  /\ Written' = Written
           /\ queue' = q => LogLen' = LogLen /\ \A i \in 1..LogLen : Logged(i)' = LogWith(q, i)
           /\ \A e \in Events : queue' = Append(q, e) =>
                 /\ LogLen' = LogLen + 1 /\ Logged(LogLen)' = e
                 /\ \A i \in 1..LogLen : Logged(i)' = LogWith(q, i)
  <1>0. /\ Written \in Nat /\ LogLen \in Nat /\ Len(journal) \in Nat /\ Len(appending) \in Nat
        /\ Len(q) \in Nat /\ LogLen = Written + Len(q) /\ Written = Len(journal) + Len(appending)
    BY LogTypes DEF LogLen, Written
  <1>1. Written' = Written
    BY DEF Written
  <1>2. ASSUME NEW i \in 1..LogLen, i <= Written PROVE Logged(i)' = LogWith(q, i)
    BY <1>0, <1>1, <1>2 DEF Logged, LogWith
  <1>3. ASSUME NEW i \in 1..LogLen, ~(i <= Written)
        PROVE  /\ i - Written \in 1..Len(q) /\ LogWith(q, i) = q[i - Written]
               /\ Logged(i)' = queue'[i - Written]
    BY <1>0, <1>1, <1>3 DEF Logged, LogWith
  <1>4. ASSUME queue' = q PROVE LogLen' = LogLen /\ \A i \in 1..LogLen : Logged(i)' = LogWith(q, i)
    BY <1>0, <1>1, <1>2, <1>3, <1>4 DEF LogLen
  <1>5. ASSUME NEW e \in Events, queue' = Append(q, e)
        PROVE  /\ LogLen' = LogLen + 1 /\ Logged(LogLen)' = e
               /\ \A i \in 1..LogLen : Logged(i)' = LogWith(q, i)
    <2>1. /\ Len(queue') = Len(q) + 1 /\ queue'[Len(q) + 1] = e
          /\ \A k \in 1..Len(q) : queue'[k] = q[k]
      BY <1>5, <1>0
    <2>2. LogLen' = LogLen + 1
      BY <2>1, <1>0, <1>1 DEF LogLen
    <2>3. Logged(LogLen)' = e
      <3>1. /\ ~(LogLen' <= Len(journal)) /\ ~(LogLen' <= Written') /\ LogLen' - Written' = Len(q) + 1
        BY <2>2, <1>0, <1>1
      <3>2. Logged(LogLen)' = queue'[LogLen' - Written']
        BY <3>1 DEF Logged
      <3>q. QED
        BY <3>1, <3>2, <2>1
    <2>q. QED
      BY <2>1, <2>2, <2>3, <1>2, <1>3
  <1>q. QED
    BY <1>1, <1>4, <1>5

\* Nothing is written or queued.
LEMMA SameLog ==
    ASSUME UNCHANGED <<journal, appending, queue>>
    PROVE  Written' = Written /\ LogLen' = LogLen /\ \A i \in Nat : Logged(i)' = Logged(i)
  BY DEF Written, LogLen, Logged

\* A batch leaves the queue.
LEMMA FlushStarts ==
    ASSUME RecTypes, StartFlush
    PROVE  /\ LogLen' = LogLen /\ Written' \in Nat
           /\ \A i \in 1..LogLen : Logged(i)' = Logged(i)
  <1>0. /\ journal \in Seq(Events) /\ queue \in Seq(Events)
        /\ Len(journal) \in Nat /\ Len(queue) \in Nat /\ FlushMax \in Nat
    BY RecorderAssumption DEF RecTypes, FileTypes
  <1>1. PICK n \in 1..FlushMax :
            /\ appending = <<>> /\ n <= Len(queue)
            /\ appending' = SubSeq(queue, 1, n) /\ queue' = SubSeq(queue, n + 1, Len(queue))
            /\ journal' = journal
    BY DEF StartFlush
  <1>2. n \in Nat /\ Len(appending) = 0
    BY <1>0, <1>1
  <1>3. Len(appending') = n /\ \A k \in 1..n : appending'[k] = queue[k]
    BY <1>0, <1>1, <1>2
  <1>4. Len(queue') = Len(queue) - n /\ \A k \in 1..Len(queue) - n : queue'[k] = queue[n + k]
    BY <1>0, <1>1, <1>2
  <1>5. /\ Written = Len(journal) /\ Written' = Len(journal) + n
        /\ LogLen = Len(journal) + Len(queue) /\ LogLen' = LogLen
    <2>1. Written = Len(journal) /\ LogLen = Len(journal) + Len(queue)
      BY <1>0, <1>2 DEF Written, LogLen
    <2>2. Written' = Len(journal) + n
      BY <1>1, <1>3 DEF Written
    <2>3. LogLen' = Written' + (Len(queue) - n)
      BY <1>4 DEF LogLen
    <2>q. QED
      BY <1>0, <1>2, <2>1, <2>2, <2>3
  <1>6. ASSUME NEW i \in 1..LogLen PROVE Logged(i)' = Logged(i)
    <2>1. CASE i <= Len(journal)
      BY <2>1, <1>1 DEF Logged
    <2>2. CASE ~(i <= Len(journal)) /\ i <= Len(journal) + n
      <3>1. Logged(i) = queue[i - Len(journal)]
        BY <2>2, <1>0, <1>5 DEF Logged
      <3>2. Logged(i)' = appending'[i - Len(journal)]
        BY <2>2, <1>1, <1>5 DEF Logged
      <3>3. i - Len(journal) \in 1..n
        BY <2>2, <1>0, <1>2
      <3>q. QED
        BY <3>1, <3>2, <3>3, <1>3
    <2>3. CASE ~(i <= Len(journal) + n)
      <3>0. ~(i <= Len(journal)) /\ i \in Int
        BY <2>3, <1>0, <1>2
      <3>1. Logged(i) = queue[i - Len(journal)]
        BY <3>0, <1>0, <1>5 DEF Logged
      <3>2. Logged(i)' = queue'[i - (Len(journal) + n)]
        BY <3>0, <2>3, <1>1, <1>5 DEF Logged
      <3>3. i - (Len(journal) + n) \in 1..Len(queue) - n /\ n + (i - (Len(journal) + n)) = i - Len(journal)
        BY <2>3, <1>0, <1>2, <1>5
      <3>q. QED
        BY <3>1, <3>2, <3>3, <1>4
    <2>q. QED
      BY <2>1, <2>2, <2>3, <1>0, <1>2
  <1>q. QED
    BY <1>0, <1>2, <1>5, <1>6

\* The batch has been appended to the journal.
LEMMA FlushEnds ==
    ASSUME RecTypes, journal' = journal \o appending, appending' = <<>>, queue' = queue
    PROVE  /\ LogLen' = LogLen /\ Written' = Written
           /\ \A i \in 1..LogLen : Logged(i)' = Logged(i)
  <1>0. /\ journal \in Seq(Events) /\ appending \in Seq(Events)
        /\ Len(journal) \in Nat /\ Len(appending) \in Nat /\ Len(queue) \in Nat
    BY DEF RecTypes, FileTypes
  <1>1. /\ Len(journal') = Len(journal) + Len(appending) /\ Len(appending') = 0
        /\ \A k \in 1..Len(journal) : journal'[k] = journal[k]
        /\ \A k \in 1..Len(appending) : journal'[Len(journal) + k] = appending[k]
    BY <1>0
  <1>2. Written' = Written /\ LogLen' = LogLen /\ Written = Len(journal) + Len(appending)
    BY <1>0, <1>1 DEF Written, LogLen
  <1>3. ASSUME NEW i \in 1..LogLen PROVE Logged(i)' = Logged(i)
    <2>1. CASE i <= Len(journal)
      <3>1. Logged(i) = journal[i] /\ Logged(i)' = journal'[i] /\ i \in 1..Len(journal)
        BY <2>1, <1>0, <1>1 DEF Logged
      <3>q. QED
        BY <3>1, <1>1
    <2>2. CASE ~(i <= Len(journal)) /\ i <= Written
      <3>1. Logged(i) = appending[i - Len(journal)]
        BY <2>2 DEF Logged
      <3>2. Logged(i)' = journal'[i]
        BY <2>2, <1>1, <1>2 DEF Logged
      <3>3. i - Len(journal) \in 1..Len(appending) /\ Len(journal) + (i - Len(journal)) = i
        BY <2>2, <1>0, <1>2
      <3>q. QED
        BY <3>1, <3>2, <3>3, <1>1
    <2>3. CASE ~(i <= Written)
      <3>1. ~(i <= Len(journal)) /\ ~(i <= Len(journal'))
        BY <2>3, <1>0, <1>1, <1>2
      <3>q. QED
        BY <2>3, <3>1, <1>2 DEF Logged
    <2>q. QED
      BY <2>1, <2>2, <2>3, <1>0, <1>2
  <1>q. QED
    BY <1>2, <1>3

\* Of the batch its first n events have been appended, and the rest is lost.
LEMMA LogIsCut ==
    ASSUME RecTypes, NEW n \in 0..Len(appending),
           journal' = journal \o SubSeq(appending, 1, n), appending' = <<>>, queue' = <<>>
    PROVE  /\ LogLen' = Len(journal) + n /\ Written' = LogLen' /\ LogLen' <= Written
           /\ \A i \in 1..Len(journal) + n : Logged(i)' = Logged(i)
           /\ Len(journal') = Len(journal) + n
  <1>0. /\ journal \in Seq(Events) /\ appending \in Seq(Events)
        /\ Len(journal) \in Nat /\ Len(appending) \in Nat /\ n \in Nat /\ n <= Len(appending)
    BY DEF RecTypes, FileTypes
  <1>a. /\ SubSeq(appending, 1, n) \in Seq(Events) /\ Len(SubSeq(appending, 1, n)) = n
        /\ \A k \in 1..n : SubSeq(appending, 1, n)[k] = appending[k]
    BY <1>0
  <1>1. /\ Len(journal') = Len(journal) + n /\ Len(appending') = 0 /\ Len(queue') = 0
        /\ \A k \in 1..Len(journal) : journal'[k] = journal[k]
        /\ \A k \in 1..n : journal'[Len(journal) + k] = appending[k]
    BY <1>0, <1>a
  <1>2. Written' = Len(journal) + n /\ LogLen' = Len(journal) + n /\ Written = Len(journal) + Len(appending)
    BY <1>0, <1>1 DEF Written, LogLen
  <1>3. ASSUME NEW i \in 1..Len(journal) + n PROVE Logged(i)' = Logged(i)
    <2>0. Logged(i)' = journal'[i]
      BY <1>1 DEF Logged
    <2>1. CASE i <= Len(journal)
      <3>1. Logged(i) = journal[i] /\ i \in 1..Len(journal)
        BY <2>1, <1>0 DEF Logged
      <3>q. QED
        BY <3>1, <1>1, <2>0
    <2>2. CASE ~(i <= Len(journal))
      <3>1. Logged(i) = appending[i - Len(journal)]
        BY <2>2, <1>0, <1>2 DEF Logged
      <3>3. i - Len(journal) \in 1..n /\ Len(journal) + (i - Len(journal)) = i
        BY <2>2, <1>0
      <3>q. QED
        BY <2>0, <3>1, <3>3, <1>1
    <2>q. QED
      BY <2>1, <2>2
  <1>q. QED
    BY <1>0, <1>1, <1>2, <1>3

\* Steps that keep the log, or its beginning, and may add an event to it
LEMMA LogStep ==
    ASSUME RecTypes, RecTypes', LogFits, entries <= entries',
           NEW n \in Nat, n <= LogLen, LogLen' \in {n, n + 1},
           \A i \in 1..n :
             /\ Logged(i)'.seq = Logged(i).seq /\ Logged(i)'.kind = Logged(i).kind
             /\ Logged(i)'.of = Logged(i).of
             /\ Logged(i)'.entry = Logged(i).entry \/ Logged(i)'.entry <= entries',
           LogLen' = n + 1 =>
             /\ Logged(LogLen)'.seq = n + 1 /\ Logged(LogLen)'.entry <= entries'
             /\ Logged(LogLen)'.kind = "turnEnd" =>
                  \E j \in 1..n : Logged(j).kind = "turnStart" /\ Logged(j).of = Logged(LogLen)'.of
             /\ Logged(LogLen)'.kind = "messageEnd" =>
                  \E j \in 1..n : Logged(j).kind = "messageStart" /\ Logged(j).of = Logged(LogLen)'.of
    PROVE  LogFits'
  <1>0. LogLen \in Nat /\ LogLen' \in Nat /\ entries \in Nat /\ entries' \in Nat
        /\ \A i \in 1..n : Logged(i) \in Events
    <2>1. LogLen \in Nat /\ \A i \in 1..LogLen : Logged(i) \in Events
      BY LogTypes
    <2>2. LogLen' \in Nat
      BY <2>1
    <2>3. entries \in Nat /\ entries' \in Nat
      BY DEF RecTypes, MessageTypes
    <2>q. QED
      BY <2>1, <2>2, <2>3
  <1>1. ASSUME NEW i \in 1..LogLen'
        PROVE  /\ Logged(i)'.seq = i /\ Logged(i)'.entry <= entries'
               /\ Logged(i)'.kind = "turnEnd" =>
                    \E j \in 1..i - 1 : Logged(j)'.kind = "turnStart" /\ Logged(j)'.of = Logged(i)'.of
               /\ Logged(i)'.kind = "messageEnd" =>
                    \E j \in 1..i - 1 : Logged(j)'.kind = "messageStart" /\ Logged(j)'.of = Logged(i)'.of
    <2>1. CASE i <= n
      <3>0. i \in 1..n /\ i \in 1..LogLen
        BY <2>1, <1>0
      <3>1. /\ Logged(i).seq = i /\ Logged(i).entry <= entries
            /\ Logged(i).kind = "turnEnd" =>
                 \E j \in 1..i - 1 : Logged(j).kind = "turnStart" /\ Logged(j).of = Logged(i).of
            /\ Logged(i).kind = "messageEnd" =>
                 \E j \in 1..i - 1 : Logged(j).kind = "messageStart" /\ Logged(j).of = Logged(i).of
        BY <3>0 DEF LogFits
      <3>2. Logged(i).entry \in Nat
        BY <3>0, <1>0 DEF Events
      <3>3. \A j \in 1..i - 1 : j \in 1..n
        BY <3>0
      <3>4. /\ Logged(i)'.seq = i /\ Logged(i)'.kind = Logged(i).kind /\ Logged(i)'.of = Logged(i).of
            /\ \A j \in 1..i - 1 : Logged(j)'.kind = Logged(j).kind /\ Logged(j)'.of = Logged(j).of
        BY <3>0, <3>1, <3>3
      <3>5. Logged(i)'.entry <= entries'
        BY <3>0, <3>1, <3>2, <1>0
      <3>q. QED
        BY <3>1, <3>4, <3>5
    <2>2. CASE ~(i <= n)
      <3>1. i = LogLen' /\ i = n + 1 /\ LogLen' = n + 1 /\ i - 1 = n
        BY <2>2, <1>0
      <3>2. Logged(i)' = Logged(LogLen)'
        BY <3>1 DEF Logged
      <3>q. QED
        BY <3>1, <3>2
    <2>q. QED
      BY <2>1, <2>2
  <1>q. QED
    BY <1>1 DEF LogFits

\* Linking changes nothing but the entries of ends that are pending.
LEMMA RelinkView ==
    ASSUME RecTypes, NEW q, Relinked(q), NEW i \in 1..LogLen
    PROVE  /\ LogWith(q, i).seq = Logged(i).seq /\ LogWith(q, i).kind = Logged(i).kind
           /\ LogWith(q, i).of = Logged(i).of
           /\ i <= Written => LogWith(q, i) = Logged(i)
           /\ \/ LogWith(q, i).entry = Logged(i).entry
              \/ /\ LogWith(q, i).entry = Logged(i).of /\ Logged(i).of <= entries
                 /\ Logged(i).of \in pendingEnds
           /\ AllLinked(q) /\ i > Written /\ Logged(i).kind = "messageEnd"
              /\ Logged(i).of \in pendingEnds /\ Logged(i).of <= entries =>
                LogWith(q, i).entry = Logged(i).of
  <1>0. Written \in Nat /\ Len(journal) \in Nat /\ Len(queue) \in Nat /\ LogLen = Written + Len(queue)
        /\ Len(journal) <= Written
    BY LogTypes DEF LogLen
  <1>1. CASE i <= Written
    BY <1>0, <1>1 DEF LogWith
  <1>2. CASE ~(i <= Written)
    <2>1. i - Written \in 1..Len(queue) /\ ~(i <= Len(journal))
      BY <1>0, <1>2
    <2>2. LogWith(q, i) = q[i - Written] /\ Logged(i) = queue[i - Written]
      BY <1>2, <2>1 DEF LogWith, Logged
    <2>q. QED
      BY <1>2, <2>1, <2>2 DEF Relinked, AllLinked
  <1>q. QED
    BY <1>1, <1>2

LEMMA FailureKept == ASSUME RecNext, failure' = "none" PROVE failure = "none"
  <1> USE DEF eventVars, FailCapture
  <1>1. CASE RecordEntries \/ EndFlush \/ FinishTimesOut \/ WriteCapture \/ StopCapture
    BY <1>1 DEF RecordEntries, EndFlush, FinishTimesOut, WriteCapture, StopCapture
  <1>2. CASE HandleTurnStart \/ HandleMessageStart \/ HandleMessageEnd \/ HandleTurnEnd
    BY <1>2 DEF HandleTurnStart, HandleMessageStart, HandleMessageEnd, HandleTurnEnd, EnqueueEvent
  <1>3. CASE failure' = failure
    BY <1>3
  <1>q. QED
    BY <1>1, <1>2, <1>3
    DEF RecNext, CaptureGoesOn, StartFlush, SessionCounts, StepBegins, ActiveStepTimesOut, SubmitAwaits,
        SubmitSynchronizes, Submitted, UserPrompts, MessageStartAwaits, TurnEndAwaits, SettleAwaits,
        SettleAttempt, FinishCapture, ProcessDies, FinalizeRecordingCaptures

\* A hook's event is appended: the log stays sound, and whole until a failure.
LEMMA EnqueueKeeps ==
    ASSUME RecTypes, RecTypes', LogFits, LogIsWhole,
           NEW kind \in Kinds, NEW of \in Nat, NEW q \in Seq(Events), Relinked(q),
           EnqueueEvent(kind, of, q), UNCHANGED <<journal, appending, entries>>,
           kind = "turnEnd" /\ Listening /\ failure = "none" =>
             \E j \in 1..LogLen : Logged(j).kind = "turnStart" /\ Logged(j).of = of,
           kind = "messageEnd" /\ Listening /\ failure = "none" =>
             \E j \in 1..LogLen : Logged(j).kind = "messageStart" /\ Logged(j).of = of
    PROVE  /\ LogFits'
           /\ Written' = Written /\ LogLen <= LogLen'
           /\ \A i \in 1..LogLen : Logged(i)' = LogWith(q, i)
           /\ failure' = "none" =>
                /\ failure = "none"
                /\ stage # "dead" => LogLen' = observed'
                /\ Listening => LogLen' = LogLen + 1 /\ Logged(LogLen)' = Stamped(kind, of)
                /\ ~Listening => LogLen' = LogLen
  <1>0. /\ LogLen \in Nat /\ LogLen' \in Nat /\ entries \in Nat /\ entries' = entries /\ observed \in Nat
        /\ Len(q) = Len(queue)
    <2>1. LogLen \in Nat /\ LogLen' \in Nat
      BY DEF RecTypes, FileTypes, LogLen, Written
    <2>q. QED
      BY <2>1 DEF RecTypes, MessageTypes, FileTypes, Relinked
  <1>1. ASSUME NEW i \in 1..LogLen
        PROVE  /\ LogWith(q, i).seq = Logged(i).seq /\ LogWith(q, i).kind = Logged(i).kind
               /\ LogWith(q, i).of = Logged(i).of
               /\ LogWith(q, i).entry = Logged(i).entry \/ LogWith(q, i).entry <= entries'
    BY RelinkView, <1>0
  <1>2. \/ /\ Listening /\ failure = "none" /\ failure' = "none" /\ observed' = observed + 1
           /\ queue' = Append(q, Stamped(kind, of))
        \/ /\ queue' = q
           /\ failure' = "none" => failure = "none" /\ ~Listening
           /\ ~Listening => failure' = failure /\ observed' = observed
    BY Enqueued, <1>0
  <1>3. CASE /\ Listening /\ failure = "none" /\ failure' = "none" /\ observed' = observed + 1
             /\ queue' = Append(q, Stamped(kind, of))
    <2>1. Stamped(kind, of) \in Events
      BY <1>0 DEF Stamped, Events, Kinds
    <2>2. /\ Written' = Written /\ LogLen' = LogLen + 1 /\ Logged(LogLen)' = Stamped(kind, of)
          /\ \A i \in 1..LogLen : Logged(i)' = LogWith(q, i)
      BY <1>0, <1>3, <2>1, QueueView
    <2>3. LogLen = observed
      BY <1>3 DEF LogIsWhole, Listening
    <2>4. /\ Logged(LogLen)'.seq = LogLen + 1 /\ Logged(LogLen)'.entry = 0
          /\ Logged(LogLen)'.kind = kind /\ Logged(LogLen)'.of = of
      BY <2>2, <2>3 DEF Stamped
    <2>5. LogFits'
      <3>1. PICK n \in Nat : n = LogLen
        BY <1>0
      <3>2. \A i \in 1..n :
              /\ Logged(i)'.seq = Logged(i).seq /\ Logged(i)'.kind = Logged(i).kind
              /\ Logged(i)'.of = Logged(i).of
              /\ Logged(i)'.entry = Logged(i).entry \/ Logged(i)'.entry <= entries'
        BY <3>1, <2>2, <1>1
      <3>3. n <= LogLen /\ LogLen' = n + 1 /\ entries <= entries' /\ 0 <= entries'
        BY <3>1, <2>2, <1>0
      <3>4. /\ Logged(LogLen)'.seq = n + 1 /\ Logged(LogLen)'.entry <= entries'
            /\ Logged(LogLen)'.kind = "turnEnd" =>
                 \E j \in 1..n : Logged(j).kind = "turnStart" /\ Logged(j).of = Logged(LogLen)'.of
            /\ Logged(LogLen)'.kind = "messageEnd" =>
                 \E j \in 1..n : Logged(j).kind = "messageStart" /\ Logged(j).of = Logged(LogLen)'.of
        BY <3>1, <3>3, <2>4, <1>3
      <3>q. QED
        BY <3>2, <3>3, <3>4, LogStep
    <2>q. QED
      BY <2>2, <2>3, <2>5, <1>0, <1>3
  <1>4. CASE /\ queue' = q
             /\ failure' = "none" => failure = "none" /\ ~Listening
             /\ ~Listening => failure' = failure /\ observed' = observed
    <2>2. Written' = Written /\ LogLen' = LogLen /\ \A i \in 1..LogLen : Logged(i)' = LogWith(q, i)
      BY <1>0, <1>4, QueueView
    <2>5. LogFits'
      <3>1. PICK n \in Nat : n = LogLen
        BY <1>0
      <3>2. \A i \in 1..n :
              /\ Logged(i)'.seq = Logged(i).seq /\ Logged(i)'.kind = Logged(i).kind
              /\ Logged(i)'.of = Logged(i).of
              /\ Logged(i)'.entry = Logged(i).entry \/ Logged(i)'.entry <= entries'
        BY <3>1, <2>2, <1>1
      <3>3. n <= LogLen /\ LogLen' = n /\ entries <= entries'
        BY <3>1, <2>2, <1>0
      <3>q. QED
        BY <3>2, <3>3, LogStep
    <2>q. QED
      BY <2>2, <2>5, <1>0, <1>4 DEF LogIsWhole
  <1>q. QED
    BY <1>2, <1>3, <1>4

\* A hook that has synchronized without a failure leaves no end without its entry.
LEMMA SyncLinksAll ==
    ASSUME RecInv, hook \in SyncHooks, entryChain # "busy", failure = "none"
    PROVE  /\ PendingAfterSync = {} /\ QueueAfterSync = Linked
           /\ \A i \in 1..LogLen :
                LogWith(QueueAfterSync, i).kind = "messageEnd" => LogWith(QueueAfterSync, i).entry # 0
  <1>1. entryChain = "idle"
    BY DEF RecInv, HooksFit, RecTypes, CaptureTypes
  <1>2. PendingAfterSync = {} /\ QueueAfterSync = Linked
    BY <1>1 DEF PendingAfterSync, QueueAfterSync
  <1>3. Relinked(Linked) /\ AllLinked(Linked)
    BY QueueLinks DEF RecInv
  <1>4. \A m \in pendingEnds : m # 0 /\ m <= entries
    BY <1>1 DEF RecInv, HooksFit, RecTypes, MessageTypes
  <1>5. ASSUME NEW i \in 1..LogLen, LogWith(Linked, i).kind = "messageEnd"
        PROVE  LogWith(Linked, i).entry # 0
    <2>1. /\ Logged(i).kind = "messageEnd"
          /\ i <= Written => LogWith(Linked, i) = Logged(i)
          /\ \/ LogWith(Linked, i).entry = Logged(i).entry
             \/ LogWith(Linked, i).entry = Logged(i).of /\ Logged(i).of \in pendingEnds
          /\ i > Written /\ Logged(i).of \in pendingEnds /\ Logged(i).of <= entries =>
               LogWith(Linked, i).entry = Logged(i).of
      BY <1>3, <1>5, RelinkView DEF RecInv
    <2>2. Logged(i).entry = 0 => i > Written /\ Logged(i).of \in pendingEnds
      BY <2>1 DEF RecInv, LogIsWhole
    <2>q. QED
      BY <2>1, <2>2, <1>4
  <1>q. QED
    BY <1>2, <1>5

\* A step that neither writes nor queues
LEMMA LogRests ==
    ASSUME RecInv, RecTypes', UNCHANGED <<journal, appending, queue, torn, observed>>, entries <= entries',
           failure' = "none" =>
             /\ failure = "none"
             /\ stage' # "dead" => stage # "dead"
             /\ pendingEnds' = pendingEnds
             /\ turn' # 0 /\ Listening' => turn' = turn /\ turns' = turns /\ Listening
             /\ message' # 0 /\ Listening' => message' = message /\ Listening
    PROVE  LogFits' /\ LogIsWhole'
  <1>0. LogLen \in Nat /\ \A i \in 1..LogLen : i \in Nat /\ Logged(i).entry \in Nat
    BY LogTypes DEF RecInv, Events
  <1>1. Written' = Written /\ LogLen' = LogLen /\ \A i \in 1..LogLen : Logged(i)' = Logged(i)
    BY <1>0, SameLog
  <1>2. LogFits'
    <2>1. PICK n \in Nat : n = LogLen
      BY <1>0
    <2>2. /\ n <= LogLen /\ LogLen' = n /\ n # n + 1
          /\ \A i \in 1..n : Logged(i)' = Logged(i)
      BY <2>1, <1>0, <1>1
    <2>q. QED
      BY <2>1, <2>2, LogStep DEF RecInv
  <1>3. LogIsWhole'
    <2> SUFFICES ASSUME failure' = "none" PROVE LogIsWhole'
      BY DEF LogIsWhole
    <2>0. /\ failure = "none" /\ (stage' # "dead" => stage # "dead") /\ pendingEnds' = pendingEnds
          /\ turn' # 0 /\ Listening' => turn' = turn /\ turns' = turns /\ Listening
          /\ message' # 0 /\ Listening' => message' = message /\ Listening
      OBVIOUS
    <2>1. stage' # "dead" => LogLen' = observed' /\ ~torn'
      BY <2>0, <1>1 DEF RecInv, LogIsWhole
    <2>2. \A i \in 1..LogLen' :
            Logged(i)'.kind = "messageEnd" /\ Logged(i)'.entry = 0 =>
              i > Written' /\ Logged(i)'.of \in pendingEnds'
      BY <2>0, <1>1 DEF RecInv, LogIsWhole
    <2>3. turn' # 0 /\ Listening' =>
            \E j \in 1..LogLen' : Logged(j)'.kind = "turnStart" /\ Logged(j)'.of = turns'
      BY <2>0, <1>1 DEF RecInv, LogIsWhole
    <2>4. message' # 0 /\ Listening' =>
            \E j \in 1..LogLen' : Logged(j)'.kind = "messageStart" /\ Logged(j)'.of = message'
      BY <2>0, <1>1 DEF RecInv, LogIsWhole
    <2>q. QED
      BY <2>1, <2>2, <2>3, <2>4 DEF LogIsWhole
  <1>q. QED
    BY <1>2, <1>3

\* A hook that has synchronized and queues nothing
LEMMA LogRelinks ==
    ASSUME RecInv, RecTypes', hook \in SyncHooks, entryChain # "busy", queue' = QueueAfterSync,
           UNCHANGED <<journal, appending, torn, observed, entries, failure, stage, turn, turns, message>>
    PROVE  LogFits' /\ LogIsWhole'
  <1>0. /\ LogLen \in Nat /\ entries \in Nat
        /\ Relinked(QueueAfterSync) /\ QueueAfterSync \in Seq(Events) /\ Len(QueueAfterSync) = Len(queue)
    BY LogTypes, QueueAfter DEF RecInv, RecTypes, MessageTypes
  <1>1. /\ Written' = Written /\ LogLen' = LogLen
        /\ \A i \in 1..LogLen : Logged(i)' = LogWith(QueueAfterSync, i)
    BY <1>0, QueueView DEF RecInv
  <1>2. \A i \in 1..LogLen :
          /\ Logged(i)'.seq = Logged(i).seq /\ Logged(i)'.kind = Logged(i).kind
          /\ Logged(i)'.of = Logged(i).of
          /\ Logged(i)'.entry = Logged(i).entry \/ Logged(i)'.entry <= entries'
    BY <1>0, <1>1, RelinkView DEF RecInv
  <1>3. LogFits'
    <2>1. PICK n \in Nat : n = LogLen
      BY <1>0
    <2>2. n <= LogLen /\ LogLen' = n /\ n # n + 1 /\ entries <= entries'
      BY <2>1, <1>0, <1>1
    <2>q. QED
      BY <2>1, <2>2, <1>2, LogStep DEF RecInv
  <1>4. LogIsWhole'
    <2> SUFFICES ASSUME failure = "none" PROVE LogIsWhole'
      BY DEF LogIsWhole
    <2>1. \A i \in 1..LogLen : Logged(i)'.kind = "messageEnd" => Logged(i)'.entry # 0
      BY <1>1, SyncLinksAll
    <2>2. Listening' = Listening
      BY DEF Listening
    <2>q. QED
      BY <1>1, <1>2, <2>1, <2>2 DEF RecInv, LogIsWhole
  <1>q. QED
    BY <1>3, <1>4

LEMMA LogFlushes ==
    ASSUME RecInv, RecTypes', RecNext, StartFlush \/ EndFlush \/ ProcessDies
    PROVE  LogFits' /\ LogIsWhole'
  <1>0. /\ LogLen \in Nat /\ Written \in Nat /\ Written <= LogLen /\ entries \in Nat
        /\ Len(journal) \in Nat /\ Len(appending) \in Nat /\ Written = Len(journal) + Len(appending)
    BY LogTypes DEF RecInv, RecTypes, MessageTypes, Written
  <1>1. ASSUME NEW n \in Nat, n <= LogLen, LogLen' = n, entries' = entries,
               \A i \in 1..n : Logged(i)' = Logged(i)
        PROVE  LogFits'
    <2>1. LogLen' # n + 1 /\ entries <= entries'
      BY <1>0, <1>1
    <2>q. QED
      BY <1>1, <2>1, LogStep DEF RecInv
  <1>2. CASE StartFlush
    <2>1. /\ LogLen' = LogLen /\ \A i \in 1..LogLen : Logged(i)' = Logged(i)
      BY <1>2, FlushStarts DEF RecInv
    <2>2. /\ pendingEnds = {}
          /\ UNCHANGED <<pendingEnds, observed, failure, torn, entries, stage, turn, turns, message>>
      BY <1>2 DEF StartFlush, piVars, ownVars, stopVars
    <2>3. LogFits'
      BY <1>0, <1>1, <2>1, <2>2
    <2>4. LogIsWhole'
      BY <2>1, <2>2 DEF RecInv, LogIsWhole, Listening
    <2>q. QED
      BY <2>3, <2>4
  <1>3. CASE EndFlush
    <2>1. /\ appending' = <<>>
          /\ UNCHANGED <<pendingEnds, observed, entries, stage, turn, turns, message>>
      BY <1>3 DEF EndFlush, piVars, ownVars, stopVars
    <2>2. CASE journal' = journal \o appending /\ UNCHANGED <<queue, torn, failure, recTroubles>>
      <3>1. LogLen' = LogLen /\ Written' = Written /\ \A i \in 1..LogLen : Logged(i)' = Logged(i)
        BY <2>1, <2>2, FlushEnds DEF RecInv
      <3>2. LogFits'
        BY <1>0, <1>1, <2>1, <3>1
      <3>3. LogIsWhole'
        BY <2>1, <2>2, <3>1 DEF RecInv, LogIsWhole, Listening
      <3>q. QED
        BY <3>2, <3>3
    <2>3. CASE ~(journal' = journal \o appending /\ UNCHANGED <<queue, torn, failure, recTroubles>>)
      <3>1. /\ failure' = FailCapture("event_write_failed") /\ queue' = <<>>
            /\ \E n \in 0..Len(appending) - 1 : journal' = journal \o SubSeq(appending, 1, n)
        BY <1>3, <2>3 DEF EndFlush, Left
      <3>2. PICK n \in 0..Len(appending) - 1 : journal' = journal \o SubSeq(appending, 1, n)
        BY <3>1
      <3>3. n \in 0..Len(appending) /\ n \in Nat
        BY <1>0
      <3>4. LogLen' = Len(journal) + n /\ \A i \in 1..Len(journal) + n : Logged(i)' = Logged(i)
        BY <2>1, <3>1, <3>2, <3>3, LogIsCut DEF RecInv
      <3>5. LogFits'
        BY <1>0, <1>1, <2>1, <3>3, <3>4
      <3>6. LogIsWhole'
        BY <3>1, FailureSticks DEF LogIsWhole
      <3>q. QED
        BY <3>5, <3>6
    <2>q. QED
      BY <2>2, <2>3
  <1>4. CASE ProcessDies
    <2>1. /\ appending' = <<>> /\ queue' = <<>> /\ stage' = "dead" /\ UNCHANGED <<failure, entries>>
      BY <1>4 DEF ProcessDies
    <2>2. \E n \in 0..Len(appending) : journal' = journal \o SubSeq(appending, 1, n)
      <3>1. CASE journal' = journal
        <4>1. journal \in Seq(Events) /\ appending \in Seq(Events) /\ 0 \in 0..Len(appending)
          BY <1>0 DEF RecInv, RecTypes, FileTypes
        <4>2. journal = journal \o SubSeq(appending, 1, 0)
          BY <4>1
        <4>q. QED
          BY <3>1, <4>1, <4>2
      <3>q. QED
        BY <1>4, <3>1 DEF ProcessDies
    <2>3. PICK n \in 0..Len(appending) : journal' = journal \o SubSeq(appending, 1, n)
      BY <2>2
    <2>4. /\ LogLen' = Len(journal) + n /\ LogLen' <= Written
          /\ \A i \in 1..Len(journal) + n : Logged(i)' = Logged(i)
      BY <2>1, <2>3, LogIsCut DEF RecInv
    <2>5. Len(journal) + n \in Nat /\ Len(journal) + n <= LogLen
      BY <1>0, <2>4
    <2>6. LogFits'
      BY <1>1, <2>1, <2>4, <2>5
    <2>7. LogIsWhole'
      <3>1. \A i \in 1..LogLen' : i \in 1..LogLen /\ ~(i > Written) /\ Logged(i)' = Logged(i)
        BY <1>0, <2>4, <2>5
      <3>2. ~Listening'
        BY <2>1 DEF Listening
      <3>q. QED
        BY <2>1, <3>1, <3>2 DEF RecInv, LogIsWhole
    <2>q. QED
      BY <2>6, <2>7
  <1>q. QED
    BY <1>2, <1>3, <1>4

\* A hook queues an event: what it owes to the log of the turn and message that are open.
LEMMA LogGrows ==
    ASSUME RecInv, RecTypes', NEW kind \in Kinds, NEW of \in Nat, NEW q \in Seq(Events), Relinked(q),
           EnqueueEvent(kind, of, q), UNCHANGED <<journal, appending, entries, torn>>,
           kind = "turnEnd" => turn # 0 /\ of = turns, kind = "messageEnd" => message # 0 /\ of = message,
           stage' # "dead" => stage # "dead",
           failure' = "none" =>
             /\ \A i \in 1..LogLen :
                  LogWith(q, i).kind = "messageEnd" /\ LogWith(q, i).entry = 0 =>
                    i > Written /\ LogWith(q, i).of \in pendingEnds'
             /\ kind = "messageEnd" /\ Listening => of \in pendingEnds'
             /\ turn' # 0 /\ Listening' =>
                  Listening /\ ((turn # 0 /\ turns' = turns) \/ (kind = "turnStart" /\ of = turns'))
             /\ message' # 0 /\ Listening' =>
                  Listening /\ (message' = message \/ (kind = "messageStart" /\ of = message'))
    PROVE  LogFits' /\ LogIsWhole'
  <1>0. LogLen \in Nat /\ Written \in Nat /\ Written <= LogLen
    BY LogTypes DEF RecInv
  <1>1. kind = "turnEnd" /\ Listening /\ failure = "none" =>
          \E j \in 1..LogLen : Logged(j).kind = "turnStart" /\ Logged(j).of = of
    BY DEF RecInv, LogIsWhole
  <1>2. kind = "messageEnd" /\ Listening /\ failure = "none" =>
          \E j \in 1..LogLen : Logged(j).kind = "messageStart" /\ Logged(j).of = of
    BY DEF RecInv, LogIsWhole
  <1>3. /\ LogFits' /\ Written' = Written /\ LogLen <= LogLen'
        /\ \A i \in 1..LogLen : Logged(i)' = LogWith(q, i)
        /\ failure' = "none" =>
             /\ failure = "none"
             /\ stage # "dead" => LogLen' = observed'
             /\ Listening => LogLen' = LogLen + 1 /\ Logged(LogLen)' = Stamped(kind, of)
             /\ ~Listening => LogLen' = LogLen
    BY <1>1, <1>2, EnqueueKeeps DEF RecInv
  <1>4. ASSUME failure' = "none" PROVE LogIsWhole'
    <2>0. /\ failure = "none"
          /\ stage # "dead" => LogLen' = observed'
          /\ Listening => LogLen' = LogLen + 1 /\ Logged(LogLen)' = Stamped(kind, of)
          /\ ~Listening => LogLen' = LogLen
      BY <1>3, <1>4
    <2>1. \A i \in 1..LogLen : /\ Logged(i)' = LogWith(q, i)
                               /\ Logged(i)'.kind = Logged(i).kind /\ Logged(i)'.of = Logged(i).of
      BY <1>3, RelinkView DEF RecInv
    <2>2. ASSUME Listening
          PROVE  \E n \in 1..LogLen' : /\ n = LogLen + 1 /\ n = LogLen' /\ n > Written'
                                       /\ Logged(n)'.kind = kind /\ Logged(n)'.of = of
      <3>1. LogLen + 1 \in 1..LogLen' /\ LogLen' = LogLen + 1 /\ LogLen + 1 > Written'
        BY <2>0, <2>2, <1>0, <1>3
      <3>2. PICK n \in 1..LogLen' : n = LogLen + 1
        BY <3>1
      <3>3. n = LogLen'
        BY <3>1, <3>2
      <3>4. Logged(n)' = Logged(LogLen)'
        BY <3>3 DEF Logged
      <3>5. Logged(n)'.kind = kind /\ Logged(n)'.of = of
        BY <3>4, <2>0, <2>2 DEF Stamped
      <3>q. QED
        BY <3>1, <3>2, <3>3, <3>5
    <2>3. ASSUME NEW i \in 1..LogLen', Logged(i)'.kind = "messageEnd", Logged(i)'.entry = 0
          PROVE  i > Written' /\ Logged(i)'.of \in pendingEnds'
      <3>1. CASE i \in 1..LogLen
        BY <1>3, <1>4, <2>1, <2>3, <3>1
      <3>2. CASE i \notin 1..LogLen
        <4>1. Listening
          BY <3>2, <2>0
        <4>2. PICK n \in 1..LogLen' : /\ n = LogLen + 1 /\ n = LogLen' /\ n > Written'
                                      /\ Logged(n)'.kind = kind /\ Logged(n)'.of = of
          BY <4>1, <2>2
        <4>3. i = n
          BY <3>2, <4>2, <1>0
        <4>q. QED
          BY <4>1, <4>2, <4>3, <2>3, <1>4
      <3>q. QED
        BY <3>1, <3>2
    <2>4. ASSUME turn' # 0, Listening'
          PROVE  \E j \in 1..LogLen' : Logged(j)'.kind = "turnStart" /\ Logged(j)'.of = turns'
      <3>1. Listening /\ ((turn # 0 /\ turns' = turns) \/ (kind = "turnStart" /\ of = turns'))
        BY <1>4, <2>4
      <3>2. CASE kind = "turnStart" /\ of = turns'
        BY <3>1, <3>2, <2>2
      <3>3. CASE turn # 0 /\ turns' = turns
        <4>1. PICK j \in 1..LogLen : Logged(j).kind = "turnStart" /\ Logged(j).of = turns
          BY <3>1, <3>3, <2>0 DEF RecInv, LogIsWhole
        <4>2. j \in 1..LogLen'
          BY <1>0, <1>3, <2>0
        <4>q. QED
          BY <4>1, <4>2, <2>1, <3>3
      <3>q. QED
        BY <3>1, <3>2, <3>3
    <2>5. ASSUME message' # 0, Listening'
          PROVE  \E j \in 1..LogLen' : Logged(j)'.kind = "messageStart" /\ Logged(j)'.of = message'
      <3>1. Listening /\ (message' = message \/ (kind = "messageStart" /\ of = message'))
        BY <1>4, <2>5
      <3>2. CASE kind = "messageStart" /\ of = message'
        BY <3>1, <3>2, <2>2
      <3>3. CASE message' = message
        <4>1. PICK j \in 1..LogLen : Logged(j).kind = "messageStart" /\ Logged(j).of = message
          BY <3>1, <3>3, <2>5, <2>0 DEF RecInv, LogIsWhole
        <4>2. j \in 1..LogLen'
          BY <1>0, <1>3, <2>0
        <4>q. QED
          BY <4>1, <4>2, <2>1, <3>3
      <3>q. QED
        BY <3>1, <3>2, <3>3
    <2>6. stage' # "dead" => LogLen' = observed' /\ ~torn'
      BY <2>0 DEF RecInv, LogIsWhole
    <2>q. QED
      BY <2>3, <2>4, <2>5, <2>6 DEF LogIsWhole
  <1>q. QED
    BY <1>3, <1>4 DEF LogIsWhole

LEMMA LogOfHooks ==
    ASSUME RecInv, RecTypes', RecNext,
           HandleTurnStart \/ HandleMessageStart \/ HandleMessageEnd \/ HandleTurnEnd
    PROVE  LogFits' /\ LogIsWhole'
  <1>0. /\ turns \in Nat /\ turns + 1 \in Nat /\ messages + 1 \in Nat /\ message \in Nat
        /\ entries \in Nat /\ Kinds = {"turnStart", "turnEnd", "messageStart", "messageEnd"}
    BY DEF RecInv, RecTypes, PiTypes, MessageTypes, Kinds
  <1>1. /\ queue \in Seq(Events) /\ Relinked(queue)
        /\ QueueAfterSync \in Seq(Events) /\ Relinked(QueueAfterSync)
    BY QueueAfter DEF RecInv, RecTypes, FileTypes
  <1>2. failure' = "none" => failure = "none"
    BY FailureKept
  <1>3. failure = "none" => \A i \in 1..LogLen : Logged(i).kind = "messageEnd" /\ Logged(i).entry = 0 =>
          i > Written /\ Logged(i).of \in pendingEnds
    BY DEF RecInv, LogIsWhole
  <1>4. \A i \in 1..LogLen : LogWith(queue, i) = Logged(i)
    BY LogTypes DEF RecInv, LogWith, Logged, Written
  <1>5. CASE HandleTurnStart
    <2>0. turn = 0 /\ message = 0
      BY <1>5 DEF RecInv, HooksFit, HandleTurnStart
    <2>1. UNCHANGED <<journal, appending, torn, entries, stage, message>> /\ turns' = turns + 1
      BY <1>5 DEF HandleTurnStart, fileVars, stopVars
    <2>2. CASE attempt = 0
      <3>1. UNCHANGED <<turn, queue, pendingEnds, observed, failure>>
        BY <1>5, <2>2 DEF HandleTurnStart, eventVars
      <3>q. QED
        BY <1>0, <2>0, <2>1, <3>1, LogRests
    <2>3. CASE attempt # 0
      <3>1. EnqueueEvent("turnStart", turns + 1, queue) /\ UNCHANGED pendingEnds
        BY <1>5, <2>1, <2>3 DEF HandleTurnStart
      <3>2. Listening' = Listening
        BY <2>1 DEF Listening
      <3>q. QED
        BY <1>0, <1>1, <1>2, <1>3, <1>4, <2>0, <2>1, <3>1, <3>2, LogGrows
    <2>q. QED
      BY <2>2, <2>3
  <1>6. CASE HandleMessageStart
    <2>1. /\ hook = "messageStart" /\ hook \in SyncHooks /\ entryChain # "busy" /\ pendingEnds' = PendingAfterSync
          /\ UNCHANGED <<journal, appending, torn, entries, stage, turn, turns>>
      BY <1>6 DEF HandleMessageStart, Synchronized, SyncHooks, fileVars, stopVars, piVars
    <2>2. CASE entryChain = "failed"
      <3>1. UNCHANGED <<message, queue, observed, failure, pendingEnds>>
        BY <1>6, <2>1, <2>2 DEF HandleMessageStart, PendingAfterSync
      <3>2. Listening' = Listening
        BY <2>1 DEF Listening
      <3>q. QED
        BY <1>0, <1>2, <2>1, <3>1, <3>2, LogRests
    <2>3. CASE entryChain # "failed"
      <3>1. message' = messages + 1 /\ EnqueueEvent("messageStart", messages + 1, QueueAfterSync)
        BY <1>6, <2>3 DEF HandleMessageStart
      <3>2. Listening' = Listening
        BY <2>1 DEF Listening
      <3>3. failure = "none" => \A i \in 1..LogLen :
              LogWith(QueueAfterSync, i).kind = "messageEnd" => LogWith(QueueAfterSync, i).entry # 0
        BY <2>1, SyncLinksAll
      <3>q. QED
        BY <1>0, <1>1, <1>2, <2>1, <3>1, <3>2, <3>3, LogGrows
    <2>q. QED
      BY <2>2, <2>3
  <1>7. CASE HandleMessageEnd
    <2>1. /\ message # 0 /\ message' = 0 /\ EnqueueEvent("messageEnd", message, queue)
          /\ pendingEnds' = (IF queue' = queue THEN pendingEnds ELSE pendingEnds \cup {message})
          /\ UNCHANGED <<journal, appending, torn, entries, stage, turn, turns>>
      BY <1>7 DEF HandleMessageEnd, fileVars, stopVars, stepVars
    <2>2. Listening' = Listening
      BY <2>1 DEF Listening
    <2>3. pendingEnds \subseteq pendingEnds'
      BY <2>1
    <2>4. failure' = "none" /\ Listening => message \in pendingEnds'
      <3>1. failure' = "none" /\ Listening => Len(queue') = Len(queue) + 1
        BY <1>0, <1>1, <2>1, Enqueued DEF RecInv
      <3>2. Len(queue) \in Nat
        BY LogTypes DEF RecInv
      <3>q. QED
        BY <2>1, <3>1, <3>2
    <2>q. QED
      BY <1>0, <1>1, <1>2, <1>3, <1>4, <2>1, <2>2, <2>3, <2>4, LogGrows
  <1>8. CASE HandleTurnEnd
    <2>1. /\ hook = "turnEnd" /\ hook \in SyncHooks /\ entryChain # "busy" /\ turn' = 0 /\ message' = 0
          /\ stage' = (IF stage = "waiting" THEN "draining" ELSE stage)
          /\ UNCHANGED <<journal, appending, torn, entries, turns>>
      BY <1>8 DEF HandleTurnEnd, Synchronized, SyncHooks, fileVars, piVars
    <2>2. turn # 0
      BY <2>1 DEF RecInv, HooksFit
    <2>3. CASE entryChain = "failed"
      <3>1. UNCHANGED <<queue, observed, failure>> /\ failure # "none"
        BY <1>8, <2>3 DEF HandleTurnEnd, RecInv, HooksFit
      <3>q. QED
        BY <1>0, <2>1, <3>1, LogRests
    <2>4. CASE entryChain # "failed"
      <3>1. EnqueueEvent("turnEnd", turns, QueueAfterSync)
        BY <1>8, <2>1, <2>4 DEF HandleTurnEnd
      <3>2. failure = "none" => \A i \in 1..LogLen :
              LogWith(QueueAfterSync, i).kind = "messageEnd" => LogWith(QueueAfterSync, i).entry # 0
        BY <2>1, SyncLinksAll
      <3>3. stage' # "dead" => stage # "dead"
        BY <2>1
      <3>q. QED
        BY <1>0, <1>1, <1>2, <2>1, <2>2, <3>1, <3>2, <3>3, LogGrows
    <2>q. QED
      BY <2>3, <2>4
  <1>q. QED
    BY <1>5, <1>6, <1>7, <1>8

LEMMA LogNext == ASSUME RecInv, RecTypes', RecNext PROVE LogFits' /\ LogIsWhole'
  <1>0. entries \in Nat /\ branched \in Nat /\ entries <= branched
    BY DEF RecInv, HooksFit, RecTypes, MessageTypes
  <1>1. failure' = "none" => failure = "none"
    BY FailureKept
  <1>2. CASE StepBegins \/ ActiveStepTimesOut \/ UserPrompts
    <2>1. UNCHANGED <<journal, appending, queue, torn, observed, entries, stage, pendingEnds, turn, turns, message>>
      BY <1>2 DEF StepBegins, ActiveStepTimesOut, UserPrompts, fileVars, eventVars, stopVars, ownVars
    <2>2. Listening' = Listening
      BY <2>1 DEF Listening
    <2>q. QED
      BY <1>0, <1>1, <2>1, <2>2, LogRests
  <1>3. CASE SubmitAwaits \/ SubmitSynchronizes \/ MessageStartAwaits \/ TurnEndAwaits \/ SettleAwaits
    <2>1. UNCHANGED <<journal, appending, queue, torn, observed, entries, stage, pendingEnds, turn, turns, message>>
      BY <1>3 DEF SubmitAwaits, SubmitSynchronizes, MessageStartAwaits, TurnEndAwaits, SettleAwaits, fileVars,
                  eventVars, stopVars, ownVars, piVars
    <2>2. Listening' = Listening
      BY <2>1 DEF Listening
    <2>q. QED
      BY <1>0, <1>1, <2>1, <2>2, LogRests
  <1>4. CASE RecordEntries
    <2>1. UNCHANGED <<journal, appending, queue, torn, observed, stage, pendingEnds, turn, turns, message>>
          /\ entries' \in {entries, branched}
      BY <1>4 DEF RecordEntries, stopVars, ownVars, piVars
    <2>2. Listening' = Listening
      BY <2>1 DEF Listening
    <2>q. QED
      BY <1>0, <1>1, <2>1, <2>2, LogRests
  <1>5. CASE SessionCounts \/ WriteCapture \/ FinalizeRecordingCaptures
    <2>1. UNCHANGED <<journal, appending, queue, torn, observed, entries, pendingEnds, turn, turns, message>>
      BY <1>5 DEF SessionCounts, WriteCapture, FinalizeRecordingCaptures, fileVars, eventVars, ownVars, piVars
    <2>2. ~Listening' /\ (stage' # "dead" => stage # "dead")
      BY <1>5 DEF SessionCounts, WriteCapture, FinalizeRecordingCaptures, stopVars, Listening
    <2>q. QED
      BY <1>0, <1>1, <2>1, <2>2, LogRests
  <1>6. CASE FinishCapture \/ FinishTimesOut \/ StopCapture
    <2>1. UNCHANGED <<journal, appending, queue, torn, observed, entries, turn, turns, message>>
      BY <1>6 DEF FinishCapture, FinishTimesOut, StopCapture, fileVars, ownVars, piVars
    <2>2. stage # "dead" /\ Listening
      BY <1>6 DEF FinishCapture, FinishTimesOut, StopCapture, Listening
    <2>3. failure' = "none" => pendingEnds' = pendingEnds
      <3>1. failure = "none" /\ turn = 0 => pendingEnds = {}
        BY DEF RecInv, HooksFit
      <3>2. CASE FinishCapture
        BY <1>1, <3>1, <3>2 DEF FinishCapture, StopRecording
      <3>3. CASE FinishTimesOut
        BY <3>3, FailureSticks DEF FinishTimesOut
      <3>4. CASE StopCapture
        BY <1>1, <3>1, <3>4, FailureSticks DEF StopCapture, StopRecording
      <3>q. QED
        BY <1>6, <3>2, <3>3, <3>4
    <2>q. QED
      BY <1>0, <1>1, <2>1, <2>2, <2>3, LogRests
  <1>7. CASE Submitted \/ SettleAttempt
    <2>1. /\ hook \in SyncHooks /\ entryChain # "busy" /\ queue' = QueueAfterSync
          /\ UNCHANGED <<journal, appending, torn, observed, entries, failure, stage, turn, turns, message>>
      BY <1>7 DEF Submitted, SettleAttempt, Synchronized, SyncHooks, fileVars, stopVars, ownVars
    <2>q. QED
      BY <2>1, LogRelinks
  <1>8. CASE StartFlush \/ EndFlush \/ ProcessDies
    BY <1>8, LogFlushes
  <1>9. CASE HandleTurnStart \/ HandleMessageStart \/ HandleMessageEnd \/ HandleTurnEnd
    BY <1>9, LogOfHooks
  <1>q. QED
    BY <1>2, <1>3, <1>4, <1>5, <1>6, <1>7, <1>8, <1>9 DEF RecNext, CaptureGoesOn

-----------------------------------------------------------------------------
(* The hooks *)

LEMMA HooksNext == ASSUME RecInv, RecTypes', RecNext PROVE HooksFit'
  <1> USE DEF piVars, ownVars, stepVars, eventVars, fileVars, stopVars
  <1>0. /\ HooksFit
        /\ messages \in Nat /\ branched \in Nat /\ message \in Nat /\ entries \in Nat
        /\ pendingEnds \subseteq Nat \ {0}
    BY DEF RecInv, RecTypes, MessageTypes
  <1>1. failure' = "none" => failure = "none"
    BY FailureKept
  <1>2. CASE StepBegins \/ ActiveStepTimesOut \/ UserPrompts
    <2>1. UNCHANGED <<hook, turn, inTurn, message, messages, branched, entries, pendingEnds, stage,
                      failure, entryChain>>
      BY <1>2 DEF StepBegins, ActiveStepTimesOut, UserPrompts
    <2>q. QED
      BY <1>0, <2>1 DEF HooksFit, Listening
  <1>3. CASE RecordEntries
    <2>1. UNCHANGED <<hook, turn, inTurn, message, messages, branched, pendingEnds, stage>>
      BY <1>3 DEF RecordEntries
    <2>2. \/ entryChain' = "idle" /\ entries' = branched
          \/ entryChain' = "failed" /\ failure' # "none" /\ entries' = entries
      BY <1>3, FailureSticks DEF RecordEntries
    <2>q. QED
      BY <1>0, <1>1, <2>1, <2>2 DEF HooksFit, Listening
  <1>4. CASE SubmitAwaits \/ SubmitSynchronizes
    <2>1. /\ UNCHANGED <<turn, inTurn, message, messages, branched, entries, pendingEnds, stage, failure>>
          /\ hook' \in {"record", "submit"} /\ hook \in {"none", "record"} /\ entryChain' \in {entryChain, "busy", "idle"}
          /\ hook' = "submit" /\ pendingEnds # {} /\ Listening => entryChain' = "busy"
      BY <1>4 DEF SubmitAwaits, SubmitSynchronizes
    <2>q. QED
      BY <1>0, <2>1 DEF HooksFit, Listening, SyncHooks
  <1>5. CASE Submitted \/ SettleAttempt
    <2>1. /\ UNCHANGED <<turn, inTurn, message, messages, branched, entries, stage, failure>>
          /\ hook \in {"submit", "settled", "flushed"} /\ hook' = "none" /\ entryChain' = "idle"
          /\ pendingEnds' = PendingAfterSync
      BY <1>5 DEF Submitted, SettleAttempt, Synchronized
    <2>2. pendingEnds' \in {pendingEnds, {}}
      BY <2>1 DEF PendingAfterSync
    <2>q. QED
      BY <1>0, <2>1, <2>2 DEF HooksFit, Listening, SyncHooks
  <1>6. CASE HandleTurnStart
    <2>1. /\ UNCHANGED <<hook, message, messages, branched, entries, pendingEnds, stage, entryChain>>
          /\ inTurn' = TRUE /\ turn = 0 /\ hook \in {"none", "settled", "flushed"}
      BY <1>0, <1>6 DEF HandleTurnStart, HooksFit
    <2>2. failure # "none" => failure' # "none"
      BY <1>1
    <2>q. QED
      BY <1>0, <1>1, <2>1 DEF HooksFit, Listening
  <1>7. CASE MessageStartAwaits \/ TurnEndAwaits \/ SettleAwaits
    <2>1. /\ UNCHANGED <<turn, message, messages, branched, entries, pendingEnds, stage, failure>>
          /\ hook = "none" /\ entryChain' \in {entryChain, "busy"}
          /\ hook' # "none" => (pendingEnds # {} => entryChain' = "busy")
          /\ hook' \in {"none", "messageStart", "turnEnd", "settled", "flushed"}
      BY <1>0, <1>7 DEF MessageStartAwaits, TurnEndAwaits, SettleAwaits, Await, HooksFit
    <2>2. /\ hook' = "turnEnd" => ~inTurn' /\ turn # 0
          /\ hook' = "messageStart" => inTurn' /\ turn # 0
          /\ turn # 0 => inTurn' \/ hook' = "turnEnd"
      BY <1>0, <1>7, <2>1 DEF MessageStartAwaits, TurnEndAwaits, SettleAwaits, Await, HooksFit
    <2>q. QED
      BY <1>0, <2>1, <2>2 DEF HooksFit, Listening, SyncHooks
  <1>8. CASE HandleMessageStart
    <2>1. /\ UNCHANGED <<turn, inTurn, branched, entries, stage>>
          /\ hook = "messageStart" /\ hook' = "none" /\ entryChain' = "idle"
          /\ pendingEnds' = PendingAfterSync
      BY <1>8 DEF HandleMessageStart, Synchronized
    <2>2. \/ UNCHANGED <<message, messages>>
          \/ messages' = messages + 1 /\ message' = messages'
      BY <1>8 DEF HandleMessageStart
    <2>3. pendingEnds' \in {pendingEnds, {}}
      BY <2>1 DEF PendingAfterSync
    <2>4. /\ turn # 0 /\ inTurn /\ branched' <= messages' /\ message' \in {0, messages'}
      BY <1>0, <2>1, <2>2 DEF HooksFit
    <2>5. pendingEnds' # {} => Listening' /\ \A m \in pendingEnds' : m <= branched'
      BY <1>0, <2>1, <2>3 DEF HooksFit, Listening
    <2>q. QED
      BY <1>0, <2>1, <2>4, <2>5 DEF HooksFit, SyncHooks
  <1>9. CASE HandleMessageEnd
    <2>1. /\ UNCHANGED <<turn, inTurn, messages, entries, stage, hook, entryChain>>
          /\ hook = "none" /\ message # 0 /\ message' = 0 /\ branched' = message
          /\ pendingEnds' = (IF queue' = queue THEN pendingEnds ELSE pendingEnds \cup {message})
          /\ EnqueueEvent("messageEnd", message, queue)
      BY <1>9 DEF HandleMessageEnd
    <2>2. queue' # queue => Listening
      BY <2>1 DEF EnqueueEvent
    <2>3. /\ pendingEnds' \subseteq pendingEnds \cup {message}
          /\ pendingEnds' # {} => Listening /\ turn # 0
      BY <1>0, <2>1, <2>2 DEF HooksFit
    <2>4. message = messages /\ branched <= message
      BY <1>0, <2>1 DEF HooksFit
    <2>5. \A m \in pendingEnds' : m <= branched'
      BY <1>0, <2>1, <2>3, <2>4 DEF HooksFit
    <2>q. QED
      BY <1>0, <1>1, <2>1, <2>3, <2>4, <2>5 DEF HooksFit, Listening, SyncHooks
  <1>10. CASE HandleTurnEnd
    <2>1. /\ UNCHANGED <<inTurn, messages, branched, entries>>
          /\ hook = "turnEnd" /\ hook' = "none" /\ entryChain' = "idle" /\ turn' = 0 /\ message' = 0
          /\ pendingEnds' = (IF stage = "waiting" THEN {} ELSE PendingAfterSync)
          /\ stage' = (IF stage = "waiting" THEN "draining" ELSE stage)
          /\ entryChain = "failed" => failure' = failure
      BY <1>10 DEF HandleTurnEnd, Synchronized
    <2>2. \/ pendingEnds' = {}
          \/ /\ entryChain = "failed" /\ pendingEnds' = pendingEnds /\ stage' = stage /\ failure' = failure
      BY <2>1 DEF PendingAfterSync
    <2>q. QED
      BY <1>0, <2>1, <2>2 DEF HooksFit, Listening, SyncHooks
  <1>11. CASE StartFlush \/ EndFlush
    <2>1. UNCHANGED <<hook, turn, inTurn, message, messages, branched, entries, pendingEnds, stage, entryChain>>
      BY <1>11 DEF StartFlush, EndFlush
    <2>q. QED
      BY <1>0, <1>1, <2>1 DEF HooksFit, Listening
  <1>12. CASE FinishCapture \/ FinishTimesOut \/ StopCapture
    <2>1. /\ UNCHANGED <<hook, turn, inTurn, message, messages, branched, entries, entryChain>>
          /\ \/ pendingEnds' = {}
             \/ pendingEnds' = pendingEnds /\ stage' = "waiting"
      BY <1>12 DEF FinishCapture, FinishTimesOut, StopCapture, StopRecording
    <2>q. QED
      BY <1>0, <1>1, <2>1 DEF HooksFit, Listening
  <1>13. CASE SessionCounts \/ WriteCapture \/ FinalizeRecordingCaptures
    <2>1. /\ UNCHANGED <<hook, turn, inTurn, message, messages, branched, entries, pendingEnds, entryChain>>
          /\ ~Listening
      BY <1>13 DEF SessionCounts, WriteCapture, FinalizeRecordingCaptures, Listening
    <2>2. pendingEnds = {}
      BY <1>0, <2>1 DEF HooksFit
    <2>q. QED
      BY <1>0, <1>1, <2>1, <2>2 DEF HooksFit
  <1>14. CASE ProcessDies
    <2>1. /\ UNCHANGED <<turn, inTurn, message, messages, branched, entries, failure>>
          /\ pendingEnds' = {} /\ hook' = "dead" /\ entryChain' = "idle"
      BY <1>14 DEF ProcessDies
    <2>q. QED
      BY <1>0, <2>1 DEF HooksFit, SyncHooks
  <1>q. QED
    BY <1>2, <1>3, <1>4, <1>5, <1>6, <1>7, <1>8, <1>9, <1>10, <1>11, <1>12, <1>13, <1>14
    DEF RecNext, CaptureGoesOn

-----------------------------------------------------------------------------
(* The capture *)

\* A step of Pi, the engine or a hook: once recording has stopped it queues nothing
\* and starts no chain of entries.
LEMMA CaptureKept ==
    ASSUME RecInv, UNCHANGED <<journal, appending, torn, entries, counts, capture>>,
           stage' = stage \/ (Listening /\ stage' \in {"waiting", "draining"}),
           ~Listening =>
             /\ queue = <<>> => queue' = <<>>
             /\ observed' = observed
             /\ entryChain' = "busy" => entryChain = "busy",
           stage = "dead" => pendingEnds' = {} /\ entryChain' = "idle" /\ hook' = "dead"
    PROVE  CaptureFits'
  <1>1. CaptureFits
    BY DEF RecInv
  <1>2. stage' \in {"counted", "retry", "done"} =>
          /\ queue' = <<>> /\ appending' = <<>> /\ entryChain' # "busy"
          /\ counts' = <<Len(journal'), entries'>>
    BY <1>1 DEF CaptureFits, Listening
  <1>3. stage' = "dead" =>
          /\ queue' = <<>> /\ appending' = <<>> /\ pendingEnds' = {}
          /\ entryChain' = "idle" /\ hook' = "dead"
    BY <1>1 DEF CaptureFits, Listening
  <1>4. capture'.status # "recording" =>
          stage' \in {"done", "dead"} /\ capture'.of = <<Len(journal'), entries'>>
    BY <1>1 DEF CaptureFits, Listening
  <1>5. capture'.status = "complete" =>
          /\ ~torn' /\ Len(journal') = observed'
          /\ \A i \in DOMAIN journal' : journal'[i].kind = "messageEnd" => journal'[i].entry # 0
    BY <1>1 DEF CaptureFits, Listening
  <1>q. QED
    BY <1>2, <1>3, <1>4, <1>5 DEF CaptureFits

\* An event queued once recording has stopped goes nowhere.
LEMMA NotQueued ==
    ASSUME NEW kind, NEW of, NEW q, EnqueueEvent(kind, of, q), ~Listening, observed \in Nat
    PROVE  queue' = q /\ observed' = observed
  BY DEF EnqueueEvent

LEMMA CaptureNext == ASSUME RecInv, RecTypes', RecNext PROVE CaptureFits'
  <1> USE DEF piVars, ownVars, stepVars, eventVars, fileVars, stopVars
  <1>0. CaptureFits /\ HooksFit /\ observed \in Nat
    BY DEF RecInv, RecTypes, FileTypes
  <1>d. stage = "dead" =>
          /\ queue = <<>> /\ appending = <<>> /\ pendingEnds = {} /\ entryChain = "idle" /\ hook = "dead"
    BY <1>0 DEF CaptureFits
  <1>s. (queue = <<>> => QueueAfterSync = <<>>)
    BY QueueAfter DEF RecInv
  <1>1. CASE StepBegins \/ ActiveStepTimesOut \/ UserPrompts
    <2>1. UNCHANGED <<journal, appending, torn, entries, counts, capture, stage, queue, observed, entryChain,
                      pendingEnds, hook>>
      BY <1>1 DEF StepBegins, ActiveStepTimesOut, UserPrompts
    <2>q. QED
      BY <1>d, <2>1, CaptureKept
  <1>2. CASE SubmitAwaits \/ SubmitSynchronizes \/ MessageStartAwaits \/ TurnEndAwaits \/ SettleAwaits
    <2>1. UNCHANGED <<journal, appending, torn, entries, counts, capture, stage, queue, observed, pendingEnds>>
      BY <1>2 DEF SubmitAwaits, SubmitSynchronizes, MessageStartAwaits, TurnEndAwaits, SettleAwaits
    <2>2. ~Listening /\ entryChain' = "busy" => entryChain = "busy"
      BY <1>2 DEF SubmitAwaits, SubmitSynchronizes, MessageStartAwaits, TurnEndAwaits, SettleAwaits, Await
    <2>3. stage # "dead"
      <3>1. hook # "dead"
        BY <1>2 DEF SubmitAwaits, SubmitSynchronizes, MessageStartAwaits, TurnEndAwaits, SettleAwaits, Await
      <3>q. QED
        BY <3>1, <1>d
    <2>q. QED
      BY <2>1, <2>2, <2>3, CaptureKept
  <1>3. CASE Submitted \/ SettleAttempt
    <2>1. /\ UNCHANGED <<journal, appending, torn, entries, counts, capture, stage, observed>>
          /\ queue' = QueueAfterSync /\ entryChain' = "idle" /\ hook # "dead"
      BY <1>3 DEF Submitted, SettleAttempt, Synchronized
    <2>q. QED
      BY <1>d, <1>s, <2>1, CaptureKept
  <1>4. CASE HandleTurnStart
    <2>1. /\ UNCHANGED <<journal, appending, torn, entries, counts, capture, stage, entryChain>>
          /\ hook # "dead"
      BY <1>4 DEF HandleTurnStart
    <2>2. ~Listening => queue' = queue /\ observed' = observed
      BY <1>0, <1>4, NotQueued DEF HandleTurnStart
    <2>q. QED
      BY <1>d, <2>1, <2>2, CaptureKept
  <1>5. CASE HandleMessageStart
    <2>1. /\ UNCHANGED <<journal, appending, torn, entries, counts, capture, stage>>
          /\ entryChain' = "idle" /\ hook # "dead"
      BY <1>5 DEF HandleMessageStart, Synchronized
    <2>2. ~Listening => queue' \in {queue, QueueAfterSync} /\ observed' = observed
      BY <1>0, <1>5, NotQueued DEF HandleMessageStart
    <2>q. QED
      BY <1>d, <1>s, <2>1, <2>2, CaptureKept
  <1>6. CASE HandleMessageEnd
    <2>1. /\ UNCHANGED <<journal, appending, torn, entries, counts, capture, stage, entryChain>>
          /\ hook # "dead"
      BY <1>6 DEF HandleMessageEnd
    <2>2. ~Listening => queue' = queue /\ observed' = observed
      BY <1>0, <1>6, NotQueued DEF HandleMessageEnd
    <2>q. QED
      BY <1>d, <2>1, <2>2, CaptureKept
  <1>7. CASE HandleTurnEnd
    <2>1. /\ UNCHANGED <<journal, appending, torn, entries, counts, capture>>
          /\ stage' = (IF stage = "waiting" THEN "draining" ELSE stage)
          /\ entryChain' = "idle" /\ hook # "dead"
      BY <1>7 DEF HandleTurnEnd, Synchronized
    <2>2. ~Listening => queue' \in {queue, QueueAfterSync} /\ observed' = observed
      BY <1>0, <1>7, NotQueued DEF HandleTurnEnd
    <2>3. stage' = stage \/ (Listening /\ stage' \in {"waiting", "draining"})
      BY <2>1 DEF Listening
    <2>q. QED
      BY <1>d, <1>s, <2>1, <2>2, <2>3, CaptureKept
  <1>8. CASE FinishCapture \/ FinishTimesOut \/ StopCapture
    <2>1. /\ UNCHANGED <<journal, appending, torn, entries, counts, capture, queue, observed, entryChain>>
          /\ Listening /\ stage' \in {"waiting", "draining"} /\ stage # "dead"
      BY <1>8 DEF FinishCapture, FinishTimesOut, StopCapture, StopRecording, Listening
    <2>q. QED
      BY <2>1, CaptureKept
  <1>r. capture.status # "recording" => stage \in {"done", "dead"}
    BY <1>0 DEF CaptureFits
  <1>9. CASE RecordEntries
    <2>1. /\ UNCHANGED <<journal, appending, torn, counts, capture, queue, observed, stage, hook, pendingEnds>>
          /\ entryChain = "busy"
      BY <1>9 DEF RecordEntries
    <2>2. stage \notin {"counted", "retry", "done", "dead"}
      BY <1>0, <1>d, <2>1 DEF CaptureFits
    <2>q. QED
      BY <1>r, <2>1, <2>2 DEF CaptureFits
  <1>10. CASE StartFlush \/ EndFlush
    <2>1. /\ UNCHANGED <<counts, capture, stage, hook, pendingEnds, entryChain, observed>>
          /\ queue # <<>> \/ appending # <<>>
      <3>1. StartFlush => Len(queue) # 0
        BY DEF StartFlush, RecInv, RecTypes, FileTypes
      <3>2. Len(<<>>) = 0
        OBVIOUS
      <3>3. StartFlush => queue # <<>>
        BY <3>1, <3>2
      <3>q. QED
        BY <1>10, <3>3 DEF StartFlush, EndFlush
    <2>2. stage \notin {"counted", "retry", "done", "dead"}
      BY <1>0, <1>d, <2>1 DEF CaptureFits
    <2>q. QED
      BY <1>r, <2>1, <2>2 DEF CaptureFits
  <1>11. CASE SessionCounts
    <2>1. /\ stage = "draining" /\ stage' = "counted" /\ queue = <<>> /\ appending = <<>>
          /\ entryChain # "busy" /\ counts' = <<Len(journal), entries>>
          /\ UNCHANGED <<journal, appending, queue, entries, entryChain, capture>>
      BY <1>11 DEF SessionCounts
    <2>q. QED
      BY <1>r, <2>1 DEF CaptureFits
  <1>12. CASE WriteCapture
    <2>1. /\ stage \in {"counted", "retry"} /\ stage' \in {"retry", "done"}
          /\ UNCHANGED <<journal, appending, torn, queue, entries, entryChain, counts, observed>>
      BY <1>12 DEF WriteCapture
    <2>2. /\ queue = <<>> /\ appending = <<>> /\ entryChain # "busy"
          /\ counts = <<Len(journal), entries>> /\ capture.status = "recording"
      BY <1>0, <2>1 DEF CaptureFits
    <2>3. \/ capture' = capture
          \/ /\ stage' = "done" /\ capture'.of = counts
             /\ capture'.status # "recording" /\ (capture'.status = "complete" => failure = "none")
      BY <1>12 DEF WriteCapture
    <2>4. failure = "none" =>
            /\ ~torn /\ Len(journal) = observed
            /\ \A i \in DOMAIN journal : journal[i].kind = "messageEnd" => journal[i].entry # 0
      <3> SUFFICES ASSUME failure = "none"
                   PROVE  /\ ~torn /\ Len(journal) = observed
                          /\ \A i \in DOMAIN journal : journal[i].kind = "messageEnd" => journal[i].entry # 0
        OBVIOUS
      <3>0. Len(<<>>) = 0
        OBVIOUS
      <3>1. Written = Len(journal) /\ LogLen = Len(journal) /\ DOMAIN journal = 1..Len(journal)
        BY <2>2, <3>0 DEF Written, LogLen, RecInv, RecTypes, FileTypes
      <3>2. \A i \in 1..Len(journal) : Logged(i) = journal[i] /\ ~(i > Written)
        BY <3>1, LogTypes DEF RecInv
      <3>3. LogLen = observed /\ ~torn
        BY <2>1 DEF RecInv, LogIsWhole
      <3>4. \A i \in 1..LogLen : Logged(i).kind = "messageEnd" /\ Logged(i).entry = 0 => i > Written
        BY DEF RecInv, LogIsWhole
      <3>q. QED
        BY <3>1, <3>2, <3>3, <3>4
    <2>q. QED
      BY <2>1, <2>2, <2>3, <2>4 DEF CaptureFits
  <1>13. CASE FinalizeRecordingCaptures
    <2>1. /\ stage = "dead" /\ capture'.status = "failed" /\ capture'.of = <<Len(journal), entries>>
          /\ UNCHANGED <<journal, appending, queue, pendingEnds, entries, entryChain, hook, stage>>
      BY <1>13 DEF FinalizeRecordingCaptures
    <2>q. QED
      BY <1>d, <2>1 DEF CaptureFits
  <1>14. CASE ProcessDies
    <2>1. /\ stage # "dead" /\ stage' = "dead" /\ hook' = "dead" /\ entryChain' = "idle"
          /\ queue' = <<>> /\ pendingEnds' = {} /\ appending' = <<>>
          /\ UNCHANGED <<observed, entries, capture>>
      BY <1>14 DEF ProcessDies
    <2>2. stage = "done" => journal' = journal /\ (~torn => ~torn')
      <3> SUFFICES ASSUME stage = "done" PROVE journal' = journal /\ (~torn => ~torn')
        OBVIOUS
      <3>1. appending = <<>> /\ Len(appending) = 0 /\ journal \in Seq(Events)
        BY <1>0 DEF CaptureFits, RecInv, RecTypes, FileTypes
      <3>2. CASE UNCHANGED <<journal, torn>>
        BY <3>2
      <3>3. ASSUME NEW n \in 0..Len(appending), journal' = journal \o SubSeq(appending, 1, n),
                   torn' = (n < Len(appending))
            PROVE  journal' = journal /\ ~torn'
        <4>1. n = 0
          BY <3>1
        <4>2. journal \o SubSeq(<<>>, 1, 0) = journal
          BY <3>1
        <4>3. ~(n < Len(appending))
          BY <3>1, <4>1
        <4>q. QED
          BY <3>1, <3>3, <4>1, <4>2, <4>3
      <3>q. QED
        BY <1>14, <3>2, <3>3 DEF ProcessDies
    <2>3. capture.status # "recording" => stage = "done"
      BY <1>r, <2>1
    <2>4. capture'.status # "recording" =>
            stage' \in {"done", "dead"} /\ capture'.of = <<Len(journal'), entries'>>
      BY <1>0, <2>1, <2>2, <2>3 DEF CaptureFits
    <2>5. capture'.status = "complete" =>
            /\ ~torn' /\ Len(journal') = observed'
            /\ \A i \in DOMAIN journal' : journal'[i].kind = "messageEnd" => journal'[i].entry # 0
      BY <1>0, <2>1, <2>2, <2>3 DEF CaptureFits
    <2>q. QED
      BY <2>1, <2>4, <2>5 DEF CaptureFits
  <1>q. QED
    BY <1>1, <1>2, <1>3, <1>4, <1>5, <1>6, <1>7, <1>8, <1>9, <1>10, <1>11, <1>12, <1>13, <1>14
    DEF RecNext, CaptureGoesOn

-----------------------------------------------------------------------------
(* The recorder's theorems *)

LEMMA RecInvInit == RecInit => RecInv
  <1> SUFFICES ASSUME RecInit PROVE RecInv
    OBVIOUS
  <1>0. RecTypes /\ Len(<<>>) = 0
    BY RecTypesInit
  <1>1. Written = 0 /\ LogLen = 0
    BY <1>0 DEF RecInit, Written, LogLen
  <1>2. LogFits
    BY <1>1 DEF LogFits
  <1>3. LogIsWhole
    <2>1. observed = 0 /\ turn = 0 /\ message = 0
      BY DEF RecInit
    <2>2. ~torn
      BY Zenon DEF RecInit
    <2>q. QED
      BY <1>1, <2>1, <2>2 DEF LogIsWhole
  <1>4. HooksFit
    BY DEF HooksFit, RecInit
  <1>5. CaptureFits
    BY <1>0 DEF CaptureFits, RecInit
  <1>q. QED
    BY <1>0, <1>2, <1>3, <1>4, <1>5 DEF RecInv

LEMMA RecInvStep == RecInv /\ [RecNext]_recVars => RecInv'
  <1> SUFFICES ASSUME RecInv, [RecNext]_recVars PROVE RecInv'
    OBVIOUS
  <1>1. CASE RecNext
    <2>1. RecTypes'
      BY <1>1, RecTypesNext DEF RecInv
    <2>q. QED
      BY <1>1, <2>1, LogNext, HooksNext, CaptureNext DEF RecInv
  <1>2. CASE UNCHANGED recVars
    <2>1. UNCHANGED <<agentRuns, inTurn, asked, hook, turns, messages, branched, active, began, abortingTurn,
                      heldPrompt, attempt, turn, finished, message, queue, pendingEnds, appending, journal,
                      torn, entries, entryChain, observed, failure, capture, stage, counts>>
      BY <1>2 DEF recVars, piVars, ownVars, stepVars, eventVars, fileVars, stopVars
    <2>2. RecTypes'
      BY <2>1 DEF RecInv, RecTypes, PiTypes, PiFlags, MessageTypes, FileTypes, CaptureTypes
    <2>3. LogFits' /\ LogIsWhole'
      <3>1. entries \in Nat /\ entries' = entries
        BY <2>1 DEF RecInv, RecTypes, MessageTypes
      <3>2. Listening' = Listening
        BY <2>1 DEF Listening
      <3>q. QED
        BY <2>1, <2>2, <3>1, <3>2, LogRests
    <2>4. HooksFit'
      BY <2>1 DEF RecInv, HooksFit, Listening
    <2>5. CaptureFits'
      BY <2>1 DEF RecInv, CaptureFits
    <2>q. QED
      BY <2>2, <2>3, <2>4, <2>5 DEF RecInv
  <1>q. QED
    BY <1>1, <1>2

\* The invariant of a recorder: journal, append and queue are one log without gaps, ends
\* whose entry is unknown wait in the queue, and a counted capture changes no more.
THEOREM RecInvariance == RecSpec => []RecInv
  BY RecInvInit, RecInvStep, PTL DEF RecSpec

LEMMA RecTyped == RecInv => RecTypeOK
  <1> SUFFICES ASSUME RecInv PROVE RecTypeOK
    OBVIOUS
  <1>1. {agentRuns, inTurn, asked, abortingTurn, heldPrompt, torn} \subseteq BOOLEAN
    BY Zenon DEF RecInv, RecTypes, PiTypes, PiFlags, CaptureTypes
  <1>2. /\ turns \in 0..MaxTurns /\ {messages, branched, message, entries} \subseteq 0..MaxMessages
        /\ {active, began, attempt, turn, finished} \subseteq 0..MaxAttempts
    BY DEF RecInv, RecTypes, PiTypes, MessageTypes
  <1>3. pendingEnds \subseteq 1..messages
    <2>1. \A m \in pendingEnds : m \in Nat /\ m # 0 /\ m <= branched /\ branched <= messages
      BY DEF RecInv, RecTypes, MessageTypes, HooksFit
    <2>2. messages \in Nat /\ branched \in Nat
      BY DEF RecInv, RecTypes, MessageTypes
    <2>q. QED
      BY <2>1, <2>2
  <1>q. QED
    BY <1>1, <1>2, <1>3 DEF RecInv, RecTypes, FileTypes, CaptureTypes, RecTypeOK

\* The variables of WorkflowRecorder keep their types, and its queue its limit.
THEOREM RecTypeCorrect == RecSpec => []RecTypeOK
  BY RecTyped, RecInvariance, PTL

\* flush, stop and finish, for any numbers of turns, messages and mishaps and any limits
\* of queue and batch: however hooks, flushes, entries, failures and the end of the run
\* interleave, the journal is a gapless prefix of what was observed, a capture that has
\* ended counts what is on disk, and one that is complete lacks nothing.
THEOREM CaptureHonest == RecSpec => []CaptureIsHonest
  <1>1. RecInv => CaptureIsHonest
    <2> SUFFICES ASSUME RecInv PROVE CaptureIsHonest
      OBVIOUS
    <2>1. /\ DOMAIN journal = 1..Len(journal) /\ Len(journal) \in Nat /\ LogLen \in Nat
          /\ Len(journal) <= LogLen
          /\ \A i \in 1..Len(journal) : Logged(i) = journal[i]
      BY LogTypes DEF RecInv, RecTypes, FileTypes
    <2>2. ASSUME NEW i \in DOMAIN journal
          PROVE  /\ journal[i].seq = i /\ journal[i].entry <= entries
                 /\ journal[i].kind = "turnEnd" => Before(i, "turnStart")
                 /\ journal[i].kind = "messageEnd" => Before(i, "messageStart")
      <3>1. i \in 1..LogLen /\ Logged(i) = journal[i]
        BY <2>1
      <3>2. \A j \in 1..i - 1 : Logged(j) = journal[j]
        BY <2>1
      <3>3. /\ journal[i].seq = i /\ journal[i].entry <= entries
            /\ journal[i].kind = "turnEnd" =>
                 \E j \in 1..i - 1 : Logged(j).kind = "turnStart" /\ Logged(j).of = journal[i].of
            /\ journal[i].kind = "messageEnd" =>
                 \E j \in 1..i - 1 : Logged(j).kind = "messageStart" /\ Logged(j).of = journal[i].of
        BY <3>1 DEF RecInv, LogFits
      <3>q. QED
        BY <3>2, <3>3 DEF Before
    <2>q. QED
      BY <2>2 DEF RecInv, CaptureFits, CaptureIsHonest
  <1>q. QED
    BY <1>1, RecInvariance, PTL

-----------------------------------------------------------------------------
(* The services together *)

\* deliverNatural and pollOutbox: a deferred prompt and a note are each sent once, whatever
\* crash comes between sending and settling. Steps of the other services leave both alone.
THEOREM SentOnce == SvcSpec => []NothingIsSentTwice
  <1>1. SvcInit => OutInv /\ ConvInv
    BY OutInvInit, ConvInvInit DEF SvcInit
  <1>2. ASSUME OutInv, ConvInv, [SvcNext]_svcVars  PROVE  OutInv' /\ ConvInv'
    <2>1. [OutNext]_outVars
      BY <1>2 DEF SvcNext, svcVars, OfControllers, OfConversation, OfOutbox, OfHost, OfRecorder
    <2>2. [ConvNext]_convVars
      BY <1>2 DEF SvcNext, svcVars, OfControllers, OfConversation, OfOutbox, OfHost, OfRecorder
    <2>q. QED
      BY <1>2, <2>1, <2>2, OutInvStep, ConvInvStep
  <1>3. OutInv /\ ConvInv => NothingIsSentTwice
    BY DEF OutInv, ConvInv, IntentsOK, NothingIsSentTwice, OneSuccessorMessage
  <1>q. QED
    BY <1>1, <1>2, <1>3, PTL DEF SvcSpec

\* Every variable of the controller runtime, the conversation, the outbox, the hosts'
\* ownership and the recorder keeps its type, whichever of them moves: a step of one
\* leaves what is the others' own alone.
THEOREM SvcTypes == SvcSpec => []SvcTypeOK
  <1> DEFINE Inv == CtlInv /\ CtlBounds /\ ConvInv /\ OutInv /\ HostInv /\ RecInv
  <1>1. SvcInit => Inv
    BY CtlInvInit, BoundsInit, ConvInvInit, OutInvInit, HostInvInit, RecInvInit DEF SvcInit
  <1>2. ASSUME Inv, [SvcNext]_svcVars  PROVE  Inv'
    <2>1. [CtlNext]_ctlVars
      BY <1>2 DEF SvcNext, svcVars, OfControllers, OfConversation, OfOutbox, OfHost, OfRecorder
    <2>2. [ConvNext]_convVars
      BY <1>2 DEF SvcNext, svcVars, OfControllers, OfConversation, OfOutbox, OfHost, OfRecorder
    <2>3. [OutNext]_outVars
      BY <1>2 DEF SvcNext, svcVars, OfControllers, OfConversation, OfOutbox, OfHost, OfRecorder
    <2>4. [HostNext]_hostVars
      BY <1>2 DEF SvcNext, svcVars, OfControllers, OfConversation, OfOutbox, OfHost, OfRecorder
    <2>5. [RecNext]_recVars
      BY <1>2 DEF SvcNext, svcVars, OfControllers, OfConversation, OfOutbox, OfHost, OfRecorder
    <2>q. QED
      BY <1>2, <2>1, <2>2, <2>3, <2>4, <2>5, CtlInvStep, BoundsStep, ConvInvStep, OutInvStep,
         HostInvStep, RecInvStep
  <1>3. Inv => SvcTypeOK
    BY CtlTyped, ConvTypes, RecTyped DEF OutInv, HostInv, SvcTypeOK
  <1> HIDE DEF Inv
  <1>q. QED
    BY <1>1, <1>2, <1>3, PTL DEF SvcSpec
=============================================================================
