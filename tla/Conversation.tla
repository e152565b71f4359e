---------------------------- MODULE Conversation ----------------------------
(* One run in one session: the ConversationStepExecutor that puts agent steps *)
(* into the conversation, the DeferredTurnCoordinator that every workflow     *)
(* message passes, the stored turn intents, and the hooks of the extension    *)
(* that tie them to the agent's turns. The engine is what calls the executor. *)
EXTENDS Integers, FiniteSets

CONSTANTS MaxSteps,    \* bound: agent steps (attempts) the run starts
          MaxNudges,   \* maxNudges
          MaxRetries,  \* maxActivationRetries and maxProviderRetries
          MaxEvents    \* bound: timeouts, user interventions, crashes, lost turns

ASSUME ConversationAssumption ==
    {MaxSteps, MaxNudges, MaxRetries, MaxEvents} \subseteq Nat

VARIABLES
    phase,      \* the engine: "between" nodes, "starting" an agent node, "agent", "ended"
    status,     \* how the run ended; "running" before
    reported,   \* finishRun has handled the end
    tries,      \* attempts so far; the pending step is attempt tries
    outcome,    \* outcome[a]: how attempt a's promise settled
    step,       \* the executor's pending step (on = FALSE: none)
    held, again,\* heldByUser, resumeRequiresPrompt
    paused,     \* the engine's pauseRequested
    checking,   \* the attempt a submission under validation belongs to (0: none)
    settling,   \* the outcome agent_settled carries over its await
    agent,      \* "idle" or "active": ctx.isIdle
    inbox,      \* a message waits to start a turn
    aborting,   \* systemTurnAbort
    intent,     \* intent[a]: the stored intent of attempt a's abort; 0: of the run's end
    branch,     \* branch[a]: messages of the session's branch that carry the intent
    deferred,   \* deferredNatural: a delivery the coordinator keeps
    provenance, \* abortProvenance: the attempt of its descriptor, None before
    suppress,   \* suppressTurnIntent
    events,     \* how many of the bounded events happened
    swallowed   \* a message was dropped, or sent into a turn being aborted (ghost)

convVars == <<phase, status, reported, tries, outcome, step, held, again, paused, checking,
              settling, agent, inbox, aborting, intent, branch, deferred, provenance,
              suppress, events, swallowed>>
engineVars == <<phase, status, reported, tries, outcome>>
holdVars == <<held, again, paused, suppress>>
turnVars == <<agent, inbox, aborting, settling>>
intentVars == <<intent, branch, deferred, swallowed>>

Attempts == 1..MaxSteps
Intents == 0..MaxSteps
None == -1
Presentation == 0   \* what a natural delivery carries, beside an attempt's prompt

NoStep == [on |-> FALSE, nudges |-> 0, provider |-> 0, activation |-> 0,
           delivered |-> FALSE, seen |-> FALSE, timer |-> FALSE]
NoIntent == [state |-> "none", eligible |-> FALSE, claimed |-> FALSE]

Ends == {"completed", "failed", "timed_out", "cancelled"}

-----------------------------------------------------------------------------
(* classifyAssistantTurn: what the last assistant message of a turn says *)

Turns == [aborted : BOOLEAN, assistant : BOOLEAN, error : BOOLEAN,
          codes : SUBSET {"context", "5xx", "denied", "transient"},
          statuses : SUBSET {"denied", "busy", "client"},
          text : {"context", "denied", "busy", "other"}]

ClassifyAssistantTurn(t) ==
    CASE t.aborted -> "user_abort"
      [] ~t.aborted /\ ~(t.assistant /\ t.error) -> "semantic_settle"
      [] OTHER ->
           IF "context" \in t.codes THEN "context_overflow"
           ELSE IF "denied" \in t.statuses THEN "provider_terminal"
           ELSE IF "busy" \in t.statuses \/ "5xx" \in t.codes THEN "provider_retryable"
           ELSE IF "denied" \in t.codes THEN "provider_terminal"
           ELSE IF "transient" \in t.codes THEN "provider_retryable"
           ELSE IF t.text = "context" THEN "context_overflow"
           ELSE IF "client" \in t.statuses \/ t.text = "denied" THEN "provider_terminal"
           ELSE IF t.text = "busy" THEN "provider_retryable"
           ELSE "provider_terminal"

Outcomes == {ClassifyAssistantTurn(t) : t \in Turns}
-----------------------------------------------------------------------------
ConvTypeOK ==
    /\ phase \in {"between", "starting", "agent", "ended"}
    /\ status \in Ends \union {"running"} /\ (status = "running") = (phase # "ended")
    /\ tries \in 0..MaxSteps
    /\ outcome \in [Attempts -> {"none", "accepted", "failed", "aborted"}]
    /\ step \in [on : BOOLEAN, nudges : 0..MaxNudges, provider : 0..MaxRetries,
                 activation : 0..MaxRetries, delivered : BOOLEAN, seen : BOOLEAN,
                 timer : BOOLEAN]
    /\ step.timer => step.on /\ step.delivered /\ ~step.seen
    /\ checking \in 0..MaxSteps
    /\ settling \in Outcomes \union {"none"}
    /\ agent \in {"idle", "active"}
    /\ intent \in [Intents -> [state : {"none", "pending", "resolved"}, eligible : BOOLEAN,
                               claimed : BOOLEAN]]
    /\ Cardinality({i \in Intents : intent[i].state = "pending"}) <= 1
    /\ branch \in [Intents -> 0..MaxEvents + 1]
    /\ deferred \in {None, Presentation} \union Attempts
    /\ provenance \in Intents \union {None}
    /\ {reported, held, again, paused, inbox, aborting, suppress, swallowed} \subseteq BOOLEAN
    /\ events \in 0..MaxEvents

ConvInit ==
    /\ phase = "between" /\ status = "running" /\ reported = FALSE
    /\ tries = 0 /\ outcome = [a \in Attempts |-> "none"]
    /\ step = NoStep /\ held = FALSE /\ again = FALSE /\ paused = FALSE
    /\ checking = 0 /\ settling = "none"
    /\ agent = "idle" /\ inbox = FALSE /\ aborting = FALSE
    /\ intent = [i \in Intents |-> NoIntent] /\ branch = [i \in Intents |-> 0]
    /\ deferred = None /\ provenance = None /\ suppress = FALSE
    /\ events = 0 /\ swallowed = FALSE

Event == events < MaxEvents /\ events' = events + 1

-----------------------------------------------------------------------------
(* Turn intents in the store *)

PendingIntents == {i \in Intents : intent[i].state = "pending"}

\* ensureWorkflowTurnIntent: an existing row stays; a second pending row of
\* the run breaks the unique index and is not stored.
Ensured(i) ==
    IF intent[i].state = "none" /\ PendingIntents = {}
    THEN [intent EXCEPT ![i].state = "pending"] ELSE intent

Resolved(i) == [intent EXCEPT ![i].state = "resolved", ![i].claimed = FALSE]

-----------------------------------------------------------------------------
(* DeferredTurnCoordinator *)

Idle == agent = "idle" /\ ~aborting
RunHeld == phase # "ended" /\ (paused \/ held)

\* A message that triggers a turn: it steers an active one or waits to start one.
Trigger == inbox' = (agent = "idle" \/ inbox)

\* Variant: the branch is not searched for the intent.
BranchUnread(i) == TRUE

\* deliverNatural can send: it claims the intent and the branch does not show it.
Claimable(i) == ~intent[i].claimed
NotInBranch(i) == branch[i] = 0
MaySend(i) == Claimable(i) /\ NotInBranch(i)

\* sendNatural of what (an attempt's prompt or the presentation) sends now.
SendsNow == \A i \in PendingIntents : Idle /\ MaySend(i)

SendNatural(what) ==
    IF PendingIntents = {}
    THEN /\ Trigger
         /\ swallowed' = (swallowed \/ aborting)
         /\ UNCHANGED <<intent, branch, deferred>>
    ELSE \E i \in PendingIntents :
           IF ~Idle \/ ~Claimable(i)
           THEN deferred' = what /\ UNCHANGED <<inbox, intent, branch, swallowed>>
           ELSE /\ intent' = Resolved(i)
                /\ IF NotInBranch(i)
                   THEN /\ branch' = [branch EXCEPT ![i] = @ + 1]
                        /\ Trigger
                        /\ UNCHANGED <<deferred, swallowed>>
                   ELSE /\ swallowed' = (swallowed \/ what # Presentation)
                        /\ UNCHANGED <<branch, inbox, deferred>>

-----------------------------------------------------------------------------
(* ConversationStepExecutor *)

\* Variant: nobody waits for the agent's start.
SentUnwatched(s, h) ==
    [s EXCEPT !.delivered = TRUE, !.seen = ~h /\ agent = "active", !.timer = FALSE]

\* handlePromptSent: the step waits for the agent's start unless it is active.
Sent(s, h) == [s EXCEPT !.delivered = TRUE, !.seen = ~h /\ agent = "active",
                        !.timer = ~h /\ agent = "idle"]
Unsent(s) == [s EXCEPT !.delivered = FALSE, !.seen = FALSE, !.timer = FALSE]

\* deliverPrompt: of step s while the hold is h.
DeliverPrompt(s, h) ==
    /\ step' = IF SendsNow THEN Sent(s, h) ELSE Unsent(s)
    /\ SendNatural(tries)

\* clearPending and the promise: the engine goes on.
Clear(how) ==
    /\ step' = NoStep
    /\ outcome' = [outcome EXCEPT ![tries] = how]
    /\ phase' = "between"
    /\ UNCHANGED <<status, reported, tries>>

\* The engine, not paused, comes to an agent node and starts an attempt; a
\* pause or cancellation that comes now is noticed after the step.
StartNode ==
    /\ phase = "between" /\ ~paused /\ tries < MaxSteps
    /\ phase' = "starting" /\ tries' = tries + 1
    /\ UNCHANGED <<status, reported, outcome, step, checking, provenance, events,
                   holdVars, turnVars, intentVars>>

\* runAgentStep
RunAgentStep ==
    /\ phase = "starting" /\ ~step.on
    /\ phase' = "agent"
    /\ DeliverPrompt([NoStep EXCEPT !.on = TRUE], held)
    /\ UNCHANGED <<status, reported, tries, outcome, checking, agent, aborting, settling,
                   provenance, events, holdVars>>

\* sendPrompt throws: the step is not left installed.
DeliveryThrows ==
    /\ phase = "starting" /\ Event
    /\ Clear("failed")
    /\ UNCHANGED <<checking, provenance, holdVars, turnVars, intentVars>>

\* submit, up to its await; another step or attempt is refused without effect.
Submit(a) ==
    /\ agent = "active" /\ checking = 0
    /\ step.on /\ step.delivered /\ a = tries
    /\ checking' = a
    /\ UNCHANGED <<step, provenance, events, engineVars, holdVars, turnVars, intentVars>>

\* Variant: the validated output goes to whichever step is pending.
ValidatedLate(a) ==
    /\ checking = a /\ checking' = 0
    /\ \/ /\ step' = NoStep
          /\ IF outcome[a] = "none"
             THEN /\ outcome' = [outcome EXCEPT ![a] = "accepted"] /\ phase' = "between"
             ELSE UNCHANGED <<outcome, phase>>
          /\ UNCHANGED <<status, reported, tries>>
       \/ UNCHANGED <<step, engineVars>>
    /\ UNCHANGED <<provenance, events, holdVars, turnVars, intentVars>>

\* Validation ends: rejected, or accepted if its step is still the pending one.
Validated(a) ==
    /\ checking = a /\ checking' = 0
    /\ \/ step.on /\ a = tries /\ Clear("accepted")
       \/ UNCHANGED <<step, engineVars>>
    /\ UNCHANGED <<provenance, events, holdVars, turnVars, intentVars>>

\* heldByUser, as the handlers that would deliver again see it.
HeldByUser == held

\* handleAgentSettled of a turn that ended with outcome o: nudge, retry or fail.
HandleAgentSettled(o) ==
    IF ~step.on \/ ~step.seen
    THEN UNCHANGED <<step, again, engineVars, intentVars, inbox>>
    ELSE IF HeldByUser
    THEN again' = (again \/ o # "user_abort") /\ UNCHANGED <<step, engineVars, intentVars, inbox>>
    ELSE /\ UNCHANGED again
         /\ CASE o = "user_abort" -> UNCHANGED <<step, engineVars, intentVars, inbox>>
              [] o = "semantic_settle" /\ step.nudges < MaxNudges ->
                   DeliverPrompt([step EXCEPT !.nudges = @ + 1], FALSE) /\ UNCHANGED engineVars
              [] o \in {"provider_retryable", "context_overflow"} /\ step.provider < MaxRetries ->
                   DeliverPrompt([step EXCEPT !.provider = @ + 1], FALSE) /\ UNCHANGED engineVars
              [] OTHER -> Clear("failed") /\ UNCHANGED <<intentVars, inbox>>

\* handleActivationTimeout: the delivered prompt started no turn.
ActivationTimeout ==
    /\ step.on /\ step.timer /\ ~HeldByUser
    /\ IF step.activation < MaxRetries
       THEN DeliverPrompt([step EXCEPT !.activation = @ + 1], FALSE) /\ UNCHANGED engineVars
       ELSE Clear("failed") /\ UNCHANGED <<intentVars, inbox>>
    /\ UNCHANGED <<checking, provenance, events, agent, aborting, settling, holdVars>>

\* release: an interrupted or settled step is delivered again.
Release ==
    /\ held' = FALSE /\ again' = FALSE
    /\ IF held /\ step.on /\ again THEN DeliverPrompt(step, FALSE)
       ELSE /\ step' = [step EXCEPT !.timer = @ \/ (held /\ step.on /\ step.delivered /\ ~step.seen)]
            /\ UNCHANGED <<intentVars, inbox>>

-----------------------------------------------------------------------------
(* Aborts and the run's end *)

\* ensureAbortTurnIntent: once per run object; then the turn is aborted.
AbortTurn(stores) ==
    IF held \/ agent = "idle" THEN UNCHANGED <<aborting, provenance, intent>>
    ELSE /\ aborting' = TRUE
         /\ IF stores /\ provenance = None
            THEN provenance' = tries /\ intent' = Ensured(tries)
            ELSE UNCHANGED <<provenance, intent>>

\* Variant: the aborted step stays installed.
StepTimesOutInstalled ==
    /\ phase = "agent" /\ step.on /\ Event
    /\ outcome' = [outcome EXCEPT ![tries] = "aborted"]
    /\ phase' = "between"
    /\ AbortTurn(TRUE)
    /\ UNCHANGED <<step, status, reported, tries, checking, agent, inbox, settling, branch,
                   deferred, swallowed, holdVars>>

\* The node's timeout: the step is cleared before the turn is aborted.
StepTimesOut ==
    /\ phase = "agent" /\ step.on /\ Event
    /\ Clear("aborted")
    /\ AbortTurn(TRUE)
    /\ UNCHANGED <<checking, agent, inbox, settling, branch, deferred, swallowed, holdVars>>

\* cancelWorkflowControl, from the agent's tool or the user's command.
Cancel(by) ==
    /\ phase # "ended" /\ (by = "agent" => agent = "active") /\ Event
    /\ suppress' = (by = "user")
    /\ phase' = "ended" /\ status' = "cancelled"
    /\ step' = NoStep
    /\ outcome' = IF step.on THEN [outcome EXCEPT ![tries] = "aborted"] ELSE outcome
    /\ IF step.on THEN AbortTurn(by = "agent") ELSE UNCHANGED <<aborting, provenance, intent>>
    /\ UNCHANGED <<reported, tries, checking, held, again, paused, agent, inbox, settling,
                   branch, deferred, swallowed>>

\* The engine ends the run between nodes.
RunEnd(s) ==
    /\ phase = "between" /\ ~paused
    /\ s = "timed_out" => tries > 0 /\ outcome[tries] = "aborted"
    /\ phase' = "ended" /\ status' = s
    /\ UNCHANGED <<reported, tries, outcome, step, checking, provenance, events, holdVars,
                   turnVars, intentVars>>

\* makeRunTurnIntentEligible's row: the pending one, else that of the earlier
\* abort, else one of the run's end.
EndIntent ==
    IF PendingIntents # {} THEN CHOOSE i \in PendingIntents : TRUE
    ELSE IF provenance # None THEN provenance ELSE 0

MakeEligible ==
    IF suppress \/ (status = "cancelled" /\ provenance = None /\ PendingIntents = {})
    THEN UNCHANGED <<intent, provenance>>
    ELSE LET stored == Ensured(EndIntent) IN
         /\ provenance' = EndIntent
         /\ intent' = IF stored[EndIntent].state = "pending"
                      THEN [stored EXCEPT ![EndIntent].eligible = TRUE] ELSE stored

\* finishRun: a failed end makes the intent eligible; a completed one is
\* presented, or makes it eligible if there was an abort.
FinishRun ==
    /\ phase = "ended" /\ ~reported
    /\ reported' = TRUE
    /\ \/ /\ status # "completed" \/ provenance # None
          /\ MakeEligible
          /\ UNCHANGED <<inbox, branch, deferred, swallowed>>
       \/ /\ status = "completed" /\ SendNatural(Presentation)
          /\ UNCHANGED provenance
       \/ /\ status = "completed" /\ provenance = None
          /\ UNCHANGED <<inbox, intentVars, provenance>>
    /\ UNCHANGED <<phase, status, tries, outcome, step, checking, events, agent, aborting,
                   settling, holdVars>>

-----------------------------------------------------------------------------
(* The agent's turns and the session's hooks *)

\* agent_start, of a workflow message or of the user's own
AgentStart ==
    /\ agent = "idle" /\ settling = "none"
    /\ IF inbox THEN UNCHANGED events ELSE Event
    /\ agent' = "active" /\ inbox' = FALSE
    /\ step' = IF step.on /\ step.delivered
               THEN [step EXCEPT !.seen = TRUE, !.timer = FALSE] ELSE step
    /\ UNCHANGED <<checking, aborting, settling, provenance, engineVars, holdVars, intentVars>>

\* The message starts no turn.
TurnIsLost ==
    /\ inbox /\ Event
    /\ inbox' = FALSE
    /\ UNCHANGED <<step, checking, agent, aborting, settling, provenance, engineVars, holdVars,
                   intentVars>>

\* flushNatural: what the coordinator kept goes out, or is dropped as resolved.
FlushNatural(idle) ==
    IF deferred = None \/ ~idle \/ \E i \in PendingIntents : ~Claimable(i)
    THEN UNCHANGED <<step, intentVars, inbox>>
    ELSE /\ deferred' = None
         /\ IF PendingIntents = {} THEN UNCHANGED <<step, intent, branch, inbox, swallowed>>
            ELSE \E i \in PendingIntents :
                   /\ intent' = Resolved(i)
                   /\ IF NotInBranch(i)
                      THEN /\ branch' = [branch EXCEPT ![i] = @ + 1]
                           /\ inbox' = TRUE
                           /\ step' = IF step.on /\ deferred = tries /\ ~step.delivered
                                      THEN Sent(step, held) ELSE step
                           /\ UNCHANGED swallowed
                      ELSE /\ swallowed' = (swallowed \/ deferred # Presentation)
                           /\ UNCHANGED <<branch, inbox, step>>

\* agent_end, then agent_settled up to its await. An aborted turn that the
\* workflow did not abort is the user's: the run is paused and held.
AgentSettles(o) ==
    /\ agent = "active" /\ checking = 0
    /\ aborting \/ (o = "user_abort" => events < MaxEvents)
    /\ agent' = "idle" /\ aborting' = FALSE /\ settling' = o
    /\ IF o # "user_abort" \/ aborting \/ phase = "ended"
       THEN UNCHANGED <<held, again, paused, suppress, events>>
       ELSE /\ events' = events + 1
            /\ held' = TRUE /\ again' = TRUE
            /\ paused' = TRUE /\ suppress' = (suppress \/ ~RunHeld)
    /\ UNCHANGED <<step, checking, inbox, provenance, engineVars, intentVars>>

\* The rest of agent_settled: flush, and only if nothing was flushed the
\* executor looks at the outcome; then the sync pass.
AgentSettled ==
    /\ settling # "none" /\ settling' = "none"
    /\ IF deferred # None /\ agent = "idle" /\ ~RunHeld
          /\ \E i \in PendingIntents : MaySend(i)
       THEN FlushNatural(TRUE) /\ UNCHANGED <<again, engineVars>>
       ELSE HandleAgentSettled(settling)
    /\ UNCHANGED <<checking, provenance, events, agent, aborting, held, paused, suppress>>

\* runSyncPass: kept deliveries first, then fallbacks of eligible intents.
SyncIdle == Idle /\ ~RunHeld /\ settling = "none"

SyncFlush ==
    /\ SyncIdle /\ deferred # None
    /\ FlushNatural(SyncIdle)
    /\ UNCHANGED <<checking, provenance, events, agent, aborting, settling, engineVars, holdVars>>

\* deliverFallbacks
SyncFallback(i) ==
    /\ SyncIdle /\ deferred = None
    /\ intent[i].state = "pending" /\ intent[i].eligible /\ Claimable(i)
    /\ intent' = Resolved(i)
    /\ IF NotInBranch(i)
       THEN branch' = [branch EXCEPT ![i] = @ + 1] /\ inbox' = TRUE
       ELSE UNCHANGED <<branch, inbox>>
    /\ UNCHANGED <<step, checking, deferred, swallowed, provenance, events, agent, aborting,
                   settling, engineVars, holdVars>>

\* pauseWorkflowControl and resumeWorkflowControl
Pause ==
    /\ phase # "ended" /\ ~RunHeld /\ Event
    /\ paused' = TRUE /\ held' = TRUE /\ suppress' = TRUE
    /\ step' = [step EXCEPT !.timer = FALSE]
    /\ UNCHANGED <<again, checking, provenance, engineVars, turnVars, intentVars>>

Resume ==
    /\ RunHeld
    /\ paused' = FALSE /\ suppress' = FALSE
    /\ Release
    /\ UNCHANGED <<checking, provenance, events, agent, aborting, settling, engineVars>>

\* The process dies; also between sendMessage and the intent's resolution,
\* which leaves a claim behind. A new process resumes the run at its node.
Dying(i) ==
    /\ intent[i].state = "pending" /\ Idle /\ MaySend(i)
    /\ phase = "starting" \/ deferred # None \/ intent[i].eligible
Crash ==
    /\ Event
    /\ \/ UNCHANGED <<intent, branch>>
       \/ \E i \in Intents :
            /\ Dying(i)
            /\ intent' = [intent EXCEPT ![i].claimed = TRUE]
            /\ branch' \in {branch, [branch EXCEPT ![i] = @ + 1]}
    /\ phase' = IF phase = "ended" THEN "ended" ELSE "between"
    /\ outcome' = IF phase \in {"starting", "agent"}
                  THEN [outcome EXCEPT ![tries] = "aborted"] ELSE outcome
    /\ step' = NoStep /\ held' = FALSE /\ again' = FALSE /\ paused' = FALSE
    /\ checking' = 0 /\ settling' = "none" /\ agent' = "idle" /\ inbox' = FALSE
    /\ aborting' = FALSE /\ deferred' = None /\ provenance' = None /\ suppress' = FALSE
    /\ UNCHANGED <<status, reported, tries, swallowed>>

ClaimRunsOut(i) ==
    /\ intent[i].claimed
    /\ intent' = [intent EXCEPT ![i].claimed = FALSE]
    /\ UNCHANGED <<step, checking, branch, deferred, swallowed, provenance, events, engineVars,
                   holdVars, turnVars>>
-----------------------------------------------------------------------------
SessionGoesOn ==
    \/ RunAgentStep \/ ActivationTimeout \/ FinishRun \/ AgentSettled \/ SyncFlush
    \/ \E i \in Intents : SyncFallback(i) \/ ClaimRunsOut(i)
    \/ \E a \in Attempts : Validated(a)

ConvNext ==
    \/ SessionGoesOn \/ Resume \/ StartNode \/ DeliveryThrows \/ AgentStart \/ TurnIsLost \/ StepTimesOut
    \/ \E a \in Attempts : Submit(a)
    \/ \E o \in Outcomes : AgentSettles(o)
    \/ \E by \in {"agent", "user"} : Cancel(by)
    \/ \E s \in Ends \ {"cancelled"} : RunEnd(s)
    \/ Pause \/ Crash

ConvSpec == ConvInit /\ [][ConvNext]_convVars

\* Timers fire and hooks finish (SessionGoesOn), a message starts its turn and
\* a turn ends. Nothing makes a step's timeout happen, and no user resumes.
AgentGoesOn == AgentStart /\ inbox
TurnEnds == \E o \in Outcomes : AgentSettles(o)

-----------------------------------------------------------------------------
(* Properties *)

\* The engine never waits for a step the executor has forgotten: whatever
\* submissions, timeouts and redeliveries overlap.
NoStepForgotten == phase = "agent" => step.on

\* A step's promise settles once, with the output of its own attempt.
OutcomeIsFinal ==
    [][\A a \in Attempts : outcome[a] # "none" => outcome'[a] = outcome[a]]_convVars

\* An intent puts one message into the session's branch, by prompt,
\* presentation or fallback, crashes between send and resolve included.
OneSuccessorMessage == \A i \in Intents : branch[i] <= 1

\* Without a node timeout, too, a step that the user does not hold ends:
\* nudges, provider and activation retries are bounded and every prompt is sent
\* in the end (unless it was swallowed, as a crash can make it).
StepEnds == []<>(phase # "agent" \/ held \/ paused \/ swallowed)

\* A run that failed keeps an intent for its successor turn or has sent it.
OwedTurnIsStored ==
    reported /\ status \in {"failed", "timed_out"} /\ ~suppress
    => \E i \in Intents : intent[i].eligible
=============================================================================
