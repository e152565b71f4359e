# A TLA+ model of omp-workflows

omp-workflows runs multi-step agent workflows that survive the process that
started them. An interactive session starts a run; a row in an SQLite table
says who may execute it; an engine walks the workflow's graph and writes every
step into a bundle of files; when the session closes or dies, the project's
detached host, or the session when it is opened again, takes the run up where
the bundle says it stopped. Around that core stand what serves a run (agent
steps and messages in the conversation, controllers, command batches, the
recorder) and what it is made of (human decisions, agent groups, composition,
the built-in workflows). This directory models all of these, checks the models
with TLC and proves the claim protocol and most of the other safety properties
with TLAPS. Paths below are relative to
the repository (`src/…` is its TypeScript source).

## 1. The system's parts

| Part | State | Operations | Interaction |
|---|---|---|---|
| Run queue (`controllers/sqlite.ts` 1055–1600) | table `workflow_run_queue`: status, claim token, lease, origin session, parent; unique indexes per session and per parent | reserve, enqueue, claim, mark running, renew, verify, park, complete, fail, cancel, delete, repair | every process of a project calls it; each call is one statement or one `BEGIN IMMEDIATE` transaction |
| Sessions (`extension/index.ts`) | `activeRun`, claim token, renew and sync timers | start, reserve and activate a launch, resume a parked run, cancel, pause, shut down | queue statements, engine calls, messages to the agent |
| Host (`host/runner.ts`, `host/ownership.ts`, …) | ownership of the project, `activeRuns`, `skippedRuns` | start, claim every 2 s, run, give up, drain | queue statements, engine calls, RPC children |
| Engine (`workflows/engine.ts`, `graph.ts`) | run state object, flags `cancelled`, `parked`, `paused` | run, continue, resume a run; cancel, park, pause, resume; publish an update | awaits the executor, the store and hooks |
| Bundle store (`workflows/store.ts`) | `trace.jsonl`, `state.json`, one lock per bundle, the fence | initialize, prepare resume, append and project, update, mark interrupted | called by engines and by hosts |
| Step executor (`extension/executor.ts`) | the pending step, holds | dispatch a prompt, submit, time out, cancel | engine, agent session |
| Turn intents and notifications (`sqlite.ts` 1646–2055, `deferred-turn-coordinator.ts`) | two outbox tables with leases | store, claim, send, resolve | sessions' sync pass every 3 s |
| Controllers (`controllers/*`) | resources with versions, reconcile queue, effects, child workflows | put, claim, reconcile, settle, requeue, effect, child | manager workers in sessions and host |
| Human decisions (`workflows/human-decision.ts`, channels) | immutable request, response and resolution files | create, answer, time out, cancel, recover | checkpoints and continuations |
| Telegram channel (`channels/decision-channels.ts`) | delivery and settlement records, update offset, a lease shared by hosts | deliver, poll, settle | hosts, the Bot API, decisions |
| Recorder (`extension/recorder.ts`) | event queue, journal, entries, capture | stamp, flush, settle, finish, stop | hooks of the session, the bundle |
| Command batches (`workflows/shell.ts`, `command-batch.ts`) | pool of workers, children, timers | run, kill, report | action nodes of the engine |
| Agent groups (`builtins/pi-agent-group.ts`) | pool of isolated agent sessions | create, prompt, abort, dispose | action nodes of the built-ins |
| Composition (`workflows/composition.ts`) | one state for a graph of included workflows | enter, leave, project | the engine's node context |
| Built-in workflows (`builtins/*.workflow.ts`) | the run's recorded steps and outputs | guards, fallbacks, verdicts | walked by the engine |
| Updates, views | – | – | follow a run, do not decide about it |

What makes it hard: several processes share the queue and the bundles and may
die at any point; a claim is a lease, so its holder can be overtaken; nearly
every decision is read before an `await` and used after it; the bundle is two
files that are not written together; cancel, park and pause reach an engine at
whatever it awaits. `PROJECT.json` lists the hazards line by line.

What makes each part correct:

* queue, sessions, host: one engine per run and per session; no write under
  somebody else's claim; a run whose runner is gone is taken up again; a
  cancelled launch never runs; a checkpoint is continued once;
* engine and store: the recorded steps are a path of the graph however often
  the run was interrupted; checkpoints are not passed; a terminal bundle is
  final; an engine stops when asked and a run ends;
* conversation: a step settles once, with its own outcome, and ends; a message
  to the session is sent, and sent once;
* controllers: no change of a resource is lost, no effect repeated, no child
  run twice at a time, whether passes end, time out or go on after their abort;
* decisions: one resolution, and the continuation uses it; no answer lost, no
  message sent twice blindly;
* recorder, batches, groups: the report says what happened and accounts for
  everything that was started;
* built-ins: success is claimed only for what was checked after the last change.

## 2. Modules

| Module | What it is |
|---|---|
| `RunQueue` | the table, its indexes, and every statement as a condition and the row it leaves |
| `RunLifecycle` | sessions, host and their tasks on top of `RunQueue`; the bundle reduced to its status; leases, crashes |
| `RunOwnership` | abstract: who works on a run, and what becomes of it |
| `Engine` | one run from its first to its last runner: graph, bundle files, flags, crashes |
| `Controllers` | one resource with its queue row, the workers, its effects and child workflows |
| `Conversation` | one run in one session: executor, turn coordinator, stored intents, hooks |
| `Outbox` | the notify node and the session's delivery of its messages |
| `HostOwnership` | hosts that start, stop and die; lock, lease, health, registry of children |
| `CommandBatch` | `runCommandBatch` over `runShellAction` |
| `Recorder` | capture of a session into the bundle |
| `HumanDecisions` | one decision in several sessions, and its continuation |
| `TelegramChannel` | one decision's delivery, polling and settlement |
| `AgentGroup` | `runPiAgentGroup` |
| `Autoimplement`, `Monitor`, `ChangeVerification`, `PlanChange` | graphs and guards of the built-in workflows |
| `WorkspacePreparation` | inspection, adoption and creation of a work branch, beside people who use git |
| `Composition` | what a node of an included workflow sees |
| `MCRunLifecycle`, `MCEngine`, `MCGraphs`, `MCServices`, `MCWorkflows` | values of the constants for TLC; the last three run several modules side by side |
| `RunLifecycleProofs` | theorems about `RunLifecycle`, its refinement of `RunOwnership` included |
| `EngineProofs`, `ControllersProofs`, `HostOwnershipProofs` | theorems about the module of that name |
| `MessagesProofs` | theorems about `Conversation`, `Outbox` and `Recorder`, and the types of `MCServices` |
| `HumanDecisionsProofs` | theorems about `HumanDecisions` and `TelegramChannel` |
| `AgentGroupProofs` | theorems about `AgentGroup`, and the types of `MCWorkflows` |
| `GraphsProofs` | theorems about `CommandBatch`, `Autoimplement`, `Monitor`, `ChangeVerification`, `PlanChange`, `WorkspacePreparation` and `Composition`, and the types of `MCGraphs` |

An operator that a comment calls a variant is the code with one plausible bug
in it; no specification uses it.

### RunQueue and RunLifecycle

`queue[r]` is the row of run `r`. A claim token is the task that drew it. Real
time is absent: `live` says whether the lease has time left, and `Expire` ends
it. `task[w]` is an asynchronous task of a process (`setup`, `begin`, `exec`,
`write`, `interrupt`, `ending`): the values of `pc` are the stretches between
two awaits at which others can interfere, so each action is one synchronous
stretch of `startRun`, `resumeParkedRun`, `activatePreparedLaunch`,
`runClaimed` or `failUnresumable`. The fence and the write behind it are two
steps (`PassFence`, `WriteBundle`), as in `withRunLock`; so are what
`markRunInterrupted` reads of a bundle and its write (`InspectBundle`,
`MarkInterrupted`), which has no fence.

`StallPoints` says where a living task may outlive its lease. A claim is not
renewed during set-up (`startRun` arms the timer after
`markWorkflowRunRunning`), so a set-up longer than the 30 s lease is overtaken;
nor is it while `failUnresumable` marks a bundle (set-up never armed a timer,
`runner.ts` 432 clears it). From `exec` on it is renewed every 10 s.
`RunLifecycleSafety` lets leases run out in set-up (`setup`), before the fence
of an engine's write (`begin`) and between a host's look at its claim and its
mark (`interrupt`). Nothing in the code forces a process to be scheduled in
time. What the rest takes to be in time is named: `FenceIsPrompt`, that a lease
outlives the gap between a passed fence and the write behind it; `LeaseIsKept`,
that besides an engine at work keeps its renewed lease; `MarkIsPrompt`, that a
lease outlives what is read before a mark.

Left out: affinity (it only reorders rows of one process), rows without an
origin session (only closed rows lose theirs), I/O errors of bundle writes,
migration of pre-canonical sources, and the warning about equal live runs.

### Engine

`mem` is the state object, `disk` is `state.json`, `tail` the trace event that
`state.json` does not show yet; `pc` is the await the engine is at. `Edge`
gives for each node and result where the compiled graph leads: a node, the end,
nowhere (`unrouted`) or into an exception (`error`). What nodes compute is
abstracted to results that routing tells apart. Persisting is `AppendEvent`
then `ReplaceState`, under the bundle's lock.

A node may write to the bundle while it is at work (`publishUpdate`,
`agent_prompt_sent`). `encodeRunState` reads the live object in three parts
across awaits: `BeginUpdate`, `EncodeUpdate`, `EndUpdate`. `Updaters` is the
set of nodes that do so; every agent node does. After a crash such a node may
run again although it had finished (`FinishedNodeReruns`). `OnlyUpdatersRelapse`
says that nothing worse happens: a recorded step follows an edge from the one
before, or repeats an updating node or what one led to earlier.

The row is what a runner makes of the engine's return (`Return`, `Unresumable`,
`Conclude`) and what the next does with it (`Resume`, `Close`, `Interrupt`).
That there is one runner at a time is `RunLifecycle`'s result and not modelled
again. `Return` waits for an update in flight: a begun file write is assumed to
end before the row changes hands. Left out: `include_entered`/`include_exited`,
per-invocation limits, I/O errors, lost claims.

### What serves a run

* `Controllers`: one key, since keys share only the workers. The reconciler is
  user code; it is the pattern `docs/CONTROLLERS.md` describes (clean up when
  deleting, else the child workflow, then the effect). `pass[w]` is what worker
  `w` has read; every await of it is a value of `pc`, at which a deadline, a
  stop, a crash, an expired lease or another worker can intervene. The manager
  stops waiting for a pass at its deadline or when its claim is lost
  (`raceWithAbort`), and the pass goes on by itself: `aborted` holds such passes,
  and the `Late…` actions take them through the reads and writes that do not look
  at the signal, beside the next pass of the same key. `overruled` remembers that
  one of them has recorded an interruption. Provider calls are given the signal
  and end with it. The child's engine writes its bundle at any moment, over an
  interruption mark too (`ChildWrites`). `performed` counts what the provider
  did. A child that ends waiting is left out.
* `Conversation`: the engine is the caller of `runAgentStep`; `step` is the
  pending step, `checking` a submission under validation, `intent[i]` the stored
  turn intent of an attempt's abort (0: of the run's end), `branch[i]` the
  messages of the session that carry it. Timeouts, holds, lost turns, crashes
  and expired claims are bounded together by `MaxEvents`.
* `Outbox`: the dedupe key counts recorded ok steps of the node, so a rerun
  after a crash enqueues the same row; the session claims rows, looks its branch
  up, sends and marks.
* `HostOwnership`: every file operation of `acquire`, `refresh` and `release` is
  a step and a kill may come between any two. A start has a nonce of its own.
  Spawning and registering a child are one step, and
  so is the release of the lock with the lease.
* `CommandBatch`: a child may exit with status 0 although it was signalled; git
  preconditions fail or are aborted; `stray` remembers signals after a close.
* `Recorder`: Pi awaits a hook before it goes on; flush, timers, writes that
  fail and the engine interleave with it. Failing fences of a lost claim are
  failing writes. `bind`, a second capture of a resumed run, tool executions,
  assistant deltas and navigation between branches are left out. (A crash in
  `bind`, between `writeSessionBinding` and the first `writeSessionCapture`,
  leaves a bundle without a capture for good: `finalizeRecordingCaptures` only
  ends those that exist.)

### What a run is made of

* `HumanDecisions`: a file is written with `link(2)`: the first writer wins.
  `hand[s]` and `timer[s]` are the threads of a session, the person's answer or
  cancellation and the recovery pass; each file step and each queue statement is
  an action. `policy` is required, expiring or automatic.
* `TelegramChannel`: a send may arrive and its answer be lost. Records are per
  part and never withdrawn; what `deliver` read of them is in `delivery`, since
  the host may die between any two calls.
* `AgentGroup`: an agent may be stopped by its timer, by the caller or, with
  fail-fast, by another's failure, while its session is still being created;
  the session's factory goes on by itself.
* `Autoimplement`, `Monitor`, `ChangeVerification`, `PlanChange`: agents answer
  anything their validators accept; guards read the recorded steps as the code
  does. Included workflows are one node with their exits, except in `PlanChange`,
  where autoplan's design, autodoc and plan-approval are walked through.
  autodoc's search for a plan (`locatePlan`) is left out.
* `WorkspacePreparation`: a revision is the set of commits in its history, so
  `merge-base --is-ancestor` is inclusion. The first git call of an inspection
  and the rest are two steps, the git command of `prepareWorkspace` and the
  return of its receipt two more, and people switch, commit, rebase, edit,
  delete branches and remove worktrees between any of them. Every git call may
  fail, and one that is killed by its timeout may have done its work. A crash
  runs `inspect` or `apply` again from recorded inputs. `calm` remembers that
  nobody has interfered since the request, which is what a receipt's promise is
  about. Later requests bring the receipt, as autoimplement does when it
  includes autodoc.
* `Composition`: `ProjectWorkflowContext` is the code's projection of the one
  flat state, `frames` the reference: a stack in which each invocation starts
  empty. The projected list of steps is given as the one sequence that lists the
  scope's steps since its last `@exit` by rank (`LocalSince`, `Ranked`).

## 3. Runs

| Run | Instance | Result |
|---|---|---|
| `RunLifecycleSafety` | 2 runs of one session, 2 session tasks, 1 host, 2 disruptions, stalls in set-up, before a fence and in a host's mark | `IInv`, `OneExecutionPerRun`, `OneExecutionPerSession`, `NoForeignWrite`, `CancelledLaunchNeverRuns` hold (774,000 states) |
| `RunLifecycleLiveness` | 2 runs of one session, its task, 2 hosts, checkpoints, sources may change, 2 disruptions, fairness | `StrandedRunTaken`, `EndedBundleIsFinal` and `ImplementsOwnership` hold (72,000 states) |
| `EngineSafety` | the engine (3 nodes, loop, checkpoint, failure route, throwing switch; `work` writes updates; fresh and continued runs; `maxSteps` 6; 3 crashes or parks), five built-in workflows, composition and command batches, one at a time (1.05 million states) | `GrfTypeOK`; `OnlyUpdatersRelapse`, `TerminalIsFinal`, `HistoryIsKept`, `NoWorkAfterStop`; `VerdictIsEarned`, `NoRepairTwice`; `IncludesAreFrames`; `BatchTellsTheTruth` hold |
| `EngineLiveness` | the same graph, `work` writes updates, `maxSteps` 4, 2 disruptions, fairness | `StopsWhenAsked`, `RunEnds` hold |
| `Services` | controllers, conversation, outbox, hosts, recorder, one at a time (576,000 states) | `SvcTypeOK`; `NoChangeLost`, `EffectOnce`, `OneChildEngine`, `Converges`; `NoStepForgotten`, `OutcomeIsFinal`, `StepEnds`; `NothingIsSentTwice`, `NoteIsShown`; `OneHostOwner`; `CaptureIsHonest`, `CaptureEnds` hold |
| `Workflows` | decisions, Telegram, agent group, one at a time (417,000 states) | `WflTypeOK`; `OneOutcome`, `DecisionSettles`; `NoBlindResend`, `NoUpdateSkipped`, `UpdateConsumed`; `GroupIsAccounted`, `GroupFinishes` hold |
| `DeadClaimTaken` | 1 run | violated: a row left in `starting` is skipped by hosts |
| `DoneMeansEnded` | 1 run | violated: a resumable run is activated as a new launch and closed |
| `OneContinuation` | 3 runs, two of them continuations of the first | violated: a failed activation frees the slot of a continuation that ran |
| `OneEngineWhateverAborts` | the constants of `Services` | violated: an aborted reconciliation goes on, marks its child's running bundle interrupted and lets a second engine start, no lease running out |
| `FinishedNodeReruns` | `PathIsLegal` with `work` writing updates, 1 crash | violated: an update's write mixes two states, the finished node runs again |
| `ParkKeepsRunClaimable` | fresh run, 1 park | violated: a park during an unrouted timeout closes the row of a running bundle |

The violated runs state what a comment or document of the repository says;
`findings` in `PROJECT.json` quotes it.

`EngineSafety`, `Services` and `Workflows` check modules that share no state. A
behaviour chooses one part and the others rest, so state spaces add and do not multiply;
properties of parts that say the same of different parts are one conjunction.

**Bounds.** Two runs of one session are the least that compete for a
reservation, and two tasks of that session the least that race for it; the
oldest-first claim needs two rows, and one that is refused needs them in one
session, as `RunLifecycleLiveness` has them: `StrandedRunTaken` excepts a run
while it, or an older one before it, is refused, and a run whose source a host
found edited. Two hosts there let one start while the other drains. Two
disruptions allow a crash of the runner
and then one of its successor. In the engine, `maxSteps` 6 lets the loop go
round twice, the continuation carry three steps and still be stopped by the
limit; three disruptions interrupt a resumed resume. A run that has ended stays
so, hence no deadlock check in the engine's runs; in `RunLifecycle` sessions can
always be opened or closed until the disruptions are used up. The parts of
`Services` and `Workflows`, and those that `EngineSafety` runs beside the
engine, end their bounded work, so those runs have no deadlock check either.

* Controllers are run twice: one worker with generations, wake-ups and mishaps that
  come to three together, none a stall, and one aborted pass beside it in the first
  generation; and two workers that overtake each other, with one generation, one
  mishap, a recreated resource and no wake-up. An aborted pass and the two passes
  after it are what a second engine takes, as `OneEngineWhateverAborts` shows.
* Conversation: three steps (one times out, the next waits for the aborted turn,
  the third follows), one nudge and one retry each, four events.
* Outbox: two visits of the node and three crashes: of runner, session, and the
  successor of one. Hosts: two with three starts, so one owner's successor meets
  its late release. Batch: three commands, two at a time, one with published
  lines.
* Recorder: two attempts, one recorded turn of two messages, batches of two in a
  queue of three, so the limit is reached while a batch is written; one write
  that fails, timeout or crash. On its own it was run with two turns and longer
  queues (3.1 million states). Once a capture drains Pi rests: its hooks change
  nothing of it any more.
* Decisions: two sessions and two answers besides the timeout, two acts or
  deaths. Telegram: two parts, two hosts, two presses, two troubles, of which one
  once updates exist (also run without this restriction, 577,000 states).
* Agent group: two agents, both at a time, one with a provider. Autoimplement:
  one challenge and two fallbacks (3 and 3 run on their own). Monitor: four
  checks, two of which may time out, two failures. Change verification: one
  check (two on their own), two repairs. Plan change: two plans, so a redesign can
  return to the first, four rounds. Workspace preparation: the default branch and
  one task branch, one further commit, two requests, two acts of people or crashes
  (two task branches on their own). Composition: two nested includes, eight
  steps: each include is entered twice.

**Fairness.** In `RunLifecycle`: timers fire and I/O completes in a process
that is up, the supervised host is started again, a lease that nobody renews
runs out, and an engine in the host ends, since `maxSteps` and node timeouts
bound it (strong fairness, as it is able to end only between two writes).
Nothing makes a user open, start, cancel or close. In `Engine`: writes and
hooks end, nodes end by their timeouts (15 minutes unless the workflow opts
out), a claimable run is claimed again; the workflow's input function is
unbounded and has no fairness. In `Controllers` (weak): the poll timer lets some
worker go on, delays and leases pass, the supervised process is started again,
children's engines go on. In `Conversation`: the session's timers and sync pass
go on and a message starts its turn (weak), and turns end (strong: a hook that is
handling the last turn's end disables it again and again). No step timeout is
assumed to happen, no user to resume. In `Outbox`: the sync pass, the runner, and leases. In `Recorder`:
writes and timers only; that hooks go on is not assumed. In `HumanDecisions`:
the threads of every session, its recovery timer, the end of other active runs,
and the queue's resumption of a run. In `TelegramChannel`: the delivery, each
host's poll, and the expiry of a dead host's lease. In `AgentGroup`: the pool
and the timers of each agent; not factories and prompts, which may hang.
`CommandBatch`, `HostOwnership`, `Composition` and the built-in workflows have
safety properties only. The conjuncts of `SvcFairness` and `WflFairness` hold
conditions of different parts together, which is the same since only one part
takes steps.

**Stated and violated, without a run of their own.** Modules keep formulas that
a document or comment suggests and TLC refutes, next to what holds instead;
each can be checked under its module's specification with the constants of the
run's `.cfg`:

| Formula | What happens |
|---|---|
| `DeadRunTaken` (`RunLifecycle`, constants of `RunLifecycleLiveness`) | a run that died at work holds its session's reservation; an older parked run of that session is always tried first and refused, and the dead one waits behind it for ever |
| `NoForeignMark` (`RunLifecycle`, constants of `RunLifecycleSafety`) | the lease runs out while a host reads what it is about to mark: the unfenced mark ends a run that somebody else has claimed |
| `NoFollowupAfterCancel` (`RunLifecycle`, constants of `DeadClaimTaken`) | a launch that is cancelled while its activation sets up is reported as failed |
| `OwedTurnIsStored` (`Conversation`) | the intent of a first, resolved abort is reused for the run's end: the failed run owes a turn that nobody stores |
| `PartSentOnce` (`TelegramChannel`) | an earlier attempt's failure settles a later attempt's open intent |
| `NoCriticalDelivered` (`Autoimplement`) | a review with P0 or P1 findings is reused for an unchanged head |
| `NoSignalAfterClose` (`CommandBatch`) | timers stay armed while a closed command's last lines are handled |
| `ReapsOrphansOnly`, `ChildrenAreFound` (`HostOwnership`) | a draining host's children are reaped by its successor; a refused start empties the owner's registry |
| `NoLastingRefusal` (`HostOwnership`) | a crash while the lease is created leaves a file nobody may break; `docs/workflows.md` 129–131 accepts refusals of inconsistent state |
| `GuardDecides` (`Monitor`) | the guard throws on a check that timed out |
| `VerdictIsExplained` (`ChangeVerification`) | a ready result carries the reason of a judgment older than the repair |
| `ReplansAreBounded` (`PlanChange`) | the guard counts steps that projection hides from it |
| `DirectWorkIsAuthorised` (`WorkspacePreparation`) | a request with another base branch adopts the default branch, in use, as its task branch without authority |
| `ReadyMeansDocumented` (`PlanChange`) | the caller's receipt is believed after the documents were rewritten |
| `AttemptIsRecorded` (`Recorder`, with two turns) | an attempt announced by a deferred prompt is cleared before its turn starts |

Met on the way, without a formula: `prepareWorkspace` cannot be run twice: after
a crash behind `git switch -c` its second attempt finds the branch it has made
itself (`ValidateBranchName`) and is blocked; a receipt's list of earlier changes
dates from the inspection, and an adopted branch is checked against whatever is
checked out after its name was read, so neither is promised unless `calm`;
since a second abort of a run stores no intent
of its own, the prompt after it can be sent into the turn that is being aborted,
and after a crash between the send of a deferred prompt and the resolution of its
intent the resumed run's prompt is suppressed (`swallowed` in `Conversation`,
which `StepEnds` excepts; `docs/DEFERRED_TURNS.md` 205); a delivery
the coordinator keeps is dropped at `session_shutdown` only, so one kept through
a pause or cancellation may still be sent (ibid. 295); an update whose handling
throws again and again keeps the offset where it is (`Refused` in
`TelegramChannel`, which `UpdateConsumed` excepts).

## 4. Proofs

Every theorem holds for all values of the constants that satisfy the modules'
named assumptions, and every proof is checked to its leaves by `tlapm`.

| Module | Theorems | States the run's property |
|---|---|---|
| `RunLifecycleProofs` | `Invariance`, `TypeCorrectness`, `ExecutionPerRun`, `ExecutionPerSession`, `WriteUnderClaim`, `MarkUnderClaim`, `FinalBundles`, `CancelIsFinal`, `Refinement` | `IInv`, `OneExecutionPerRun`, `OneExecutionPerSession`, `NoForeignWrite`, `EndedBundleIsFinal`, `CancelledLaunchNeverRuns`, `ImplementsOwnership` |
| `EngineProofs` | `EngInvariance`, `TypeCorrect`, `EndedBundleIsFinal`, `HistoryOnlyGrows`, `StoppedEngineDoesNotWork`, `PathCorrect` | `TypeOK` (part of `GrfTypeOK`), `TerminalIsFinal`, `HistoryIsKept`, `NoWorkAfterStop`, `OnlyUpdatersRelapse` |
| `GraphsProofs` | `BatInvariance`, `ResultsAreTrue`, `RepairedOnce`, `VerdictEarned`, `IncludesHaveFrames`, `GraphTypes` | `BatchTellsTheTruth`, `NoRepairTwice`, `VerdictIsEarned`, `IncludesAreFrames`, `GrfTypeOK` |
| `ControllersProofs` | `CtlInvariance`, `NoChangeIsLost`, `EffectsOnce`, `OneEngineEach`, `CtlTypeCorrect` | `NoChangeLost`, `EffectOnce`, `OneChildEngine` |
| `MessagesProofs` | `ConvInvariance`, `ConvTypeCorrect`, `StepIsKept`, `OneMessage`, `PromisesSettleOnce`, `OutInvariance`, `OneNote`, `SentOnce`, `RecInvariance`, `RecTypeCorrect`, `CaptureHonest`, `SvcTypes` | `NoStepForgotten`, `OutcomeIsFinal`, `NothingIsSentTwice`, `CaptureIsHonest`, `SvcTypeOK` |
| `HostOwnershipProofs` | `HostInvariance`, `OneOwner` | `OneHostOwner` |
| `HumanDecisionsProofs` | `DecInvariance`, `DecTypeCorrect`, `OneDecision`, `NoUpdateLost`, `NoPartTwice`, `TelTypeCorrect` | `OneOutcome`, `NoUpdateSkipped`, `NoBlindResend` |
| `AgentGroupProofs` | `GroupTypes`, `GroupAccounts`, `WflTypeCorrect` | `GroupIsAccounted`, `WflTypeOK` |

**Assumptions.** Beside the types of the bounds:

* Leases (`RunLifecycle`, see 2). `Invariance` and `TypeCorrectness` have no such
  assumption. `WriteUnderClaim` and `CancelIsFinal` assume `FenceIsPrompt` only:
  the fence stops a runner that has stalled anywhere else. `ExecutionPerRun` and
  `ExecutionPerSession` assume `LeaseIsKept`, `FinalBundles` and `Refinement`
  `MarkIsPrompt` too. A host's mark is not fenced: `WriteUnderClaim` leaves it
  out, and `MarkUnderClaim` holds by `MarkIsPrompt` alone, which nothing in the
  code ensures (`NoForeignMark` in 3).
* `GraphAssumption`, `CarriedAssumption` (`Engine`): what compilation and the
  continuation of a checkpoint guarantee: edges lead to nodes, carried steps
  follow them.
* `ControllerAssumption`: among others a resource has at least one generation, and
  the workers are finitely many.
* `AnswerAssumption`, `ReceiptAssumption`, `PlanAssumption`: the value for "no
  answer", "no receipt", "no plan" is not one of them; a plan change allows at
  least one round.
* `CompositionAssumption`: no node is named like the nodes inclusion adds
  (`@entry`, `@exit`) or like the mount.

**Arguments.** The properties alone are never inductive. What each invariant
adds:

* `RunLifecycle`, `IInv`. `ClaimsHeld`: what each task holds of its run. A task
  that claims, releases or cancels a row finds it unclaimed, expired, not yet
  running or claimed by itself; and, each part under the lease assumption it
  needs, an engine at work holds a live claim on a row in `running`, and a host
  that is about to mark a bundle holds the claim or the row was cancelled
  meanwhile. This makes two engines on one run impossible, since a row has one
  token. `BundlesHeld` is what their bundles are as long as that is so.
  `OneReservation` is the unique index: a session's two engines would hold the
  same row. `TypeOK` carries the fact that a row has a token exactly while it is
  claimed. Every statement is handled by a lemma about the row it leaves
  (`RowTypes`, …). The refinement proof shows each action to be an `Acquire`,
  `Publish`, `Leave`, `Abandon` or a stutter under `IInv`.
* `Engine`, `EngInv`: at every await, who holds the row, what the bundle's status
  is and which prefix of the recorded steps `mem`, `disk` and `tail` have. The
  recorded steps are then a path because a node's step is appended only by the
  engine that entered it from the last recorded one, or from a resume that read
  it back; `PathCorrect` follows a step through the append, the replacement and
  the repair of a crash between both. An update's write takes results and node in
  flight from different moments, so behind a node of `Updaters` a resume may find
  that node again, or an earlier result of it; `OnlyUpdatersRelapse` is what is
  left, for any `Updaters`, and with none the steps are a path.
* `Controllers`, `CtlInv`: queue row, claim and what a pass has read agree with
  the resource; a change that happens while a pass runs has marked the row
  (`QueueStep` is the view of a statement this needs). Reservations agree with
  performed effects until some pass outlives its lease, and child requests with
  engines until, besides, an aborted pass records an interruption (`overruled`):
  after that the code promises neither, and the properties say so. That all other
  late steps keep it is the point of `OneEngineEach`: a late `ensure` gives a
  request its next attempt only when nobody works on it, and starts no engine.
  `CtlBounds` is the account behind the numbers of `CtlTypeOK`, and holds whether
  passes outlive their leases or not. The passes that have lost their claim are no
  more than the mishaps so far (`LostFits`). A version is a change of a caller, the
  one status write that still follows it, or a late write of a pass of an earlier
  incarnation (`VersionFits`), so a mishap costs two: the late write, and the write
  that corrects it. A call of the provider begins only when the effect was not
  performed, so calls under way and effects performed are together at most as many
  as workers (`CallsFit`). No bound on the attempts of a child
  is proved: in the types they are natural numbers.
* `Conversation` and `Outbox`, `ConvInv` and `OutInv`: the executor's step, the
  coordinator's memory, the stored intents and the session's branch agree on the
  attempt; at most one intent is pending; the rows a pass holds exist, and it knows
  which of them the branch shows already.
* `HostOwnership`, `HostInv`: at every file operation the lock, the lease and the
  health file carry the nonce of one start, and that start is the one whose
  process is between the operations.
* `HumanDecisions`, `DecInv`: a record behind the claim agrees with
  `resolution.json`, which never changes; at most one thread has passed the
  queue's check of the parent and not yet started the continuation.
* `TelegramChannel`. `PollHandles`: every update before the stored offset, and before
  a host's place in its batch, has been handled; since this holds of every host
  alike, it does not matter whose lease runs out when. `SendInv`: the intent of a part
  is on record before it is sent, and an attempt has read what the records say of the
  parts it has not come to, so a part with a bare intent or a confirmation is never
  sent again. `CopiesCounted` and `UpdatesFit` bound the copies by the mishaps and the
  offset by the updates, for the types.
* `AgentGroup`, `GrpInv`: for each place of an agent what its session may be
  (`AgentsFit`) and what it has told (`AgentsTell`); every agent at work is some
  worker's, and the failure that made a worker leave is known or about to be
  (`PoolFits`); the end of the group speaks for the requests nobody took (`EndFits`).
* `Recorder`, `RecInv`: the journal, the append under way and the queue are
  one log. It has no gaps, an end comes after its start (`LogFits`), and all that was
  observed is in it unless a failure is on record (`LogIsWhole`). A hook that
  runs while no entry is being written finds every entry of the branch on disk
  (`HooksFit`), which is why a message's end gets its entry before it is appended. A capture that ended has counted the journal and
  nothing appends to it any more (`CaptureFits`).
* `CommandBatch`, `BatInv`: every index below the cursor belongs to one worker or
  is over, and where a command is tells what its shell and its result may be.
* Monitor and change-verification, `MonInv` and `VerInv`: an implementation
  follows, with nothing between, the check that asked for it, and the guard has
  compared this check with every implemented one; the fingerprints of repairs are
  distinct, and a repair is under way only for a new one.
* Verdicts. Autoimplement, `AutInv`: for each node what must have been earned when
  the run comes to it (`Earned`); a timeout or a challenged blocker keeps what its
  node had, and every fallback and recovery leads where no more is needed. A
  current publication is one of checked work, and current comments belong to a
  reviewed publication. Plan change, `PlanInv`: until somebody decides to go on,
  all answers are replans, and the documents hold what documentation was ready
  with except while an update is verified (or the caller's receipt speaks for
  them). Workspace preparation, `WorkInv`: what an inspection has read, and what
  a creation has made, is still so while `calm`; a receipt for the base branch is
  one of direct work, also when a later request brings it.

* Composition, `ComInv`: each frame on the stack shows what the flat state, projected
  for its scope, shows (a suspended scope has not yet recorded its mount), and an
  included scope that is not on the stack has nothing recorded since its last
  `@exit`. A projected list is known by its length and by which step has which
  rank, so one recorded step changes it in one place and no induction over the
  sequence is needed.
* Types of the graphs. A counter stays below its limit at every node that will
  still count: the rounds of a verdict (`AutTypes`), the waits of the monitor
  (`MonTypes`), the replans of a plan change (`PlanTypes`).

Three things came up in the proofs and changed modules. `SettledRow` of
`Controllers` and `ShellFailure` of `CommandBatch` had `CASE`s whose guards
overlapped: TLC takes the first, TLA+ any, so they were rewritten in the order of
the code's conditions. `Controllers` lacked the assumption that a generation
exists, and the bounds of its types, once generous guesses, are now what the account
of mishaps comes to. And the operators `@@` and `:>` of the module TLC have no definition for the
provers, so `WorkspacePreparation` extends functions with one of its own. Where
`EngineProofs` speaks of the latest step of a node, it is the one with the least
number of steps behind it (`LeastNumber`).

**Only model-checked.**

* Liveness, which needs fairness and ENABLED, out of the prover's reach:
  `StrandedRunTaken`, `StopsWhenAsked`, `RunEnds`, `Converges`, `StepEnds`,
  `NoteIsShown`, `CaptureEnds`, `DecisionSettles`, `UpdateConsumed`,
  `GroupFinishes`.

Every invariant of a passing run is stated by a theorem.

## 5. Plan

Done: all modules above, their runs, and the theorems of section 4. Left:

1. An abstract outbox (stored, sent at most once per branch) that `Outbox` and
   the intents of `Conversation` both implement.
2. `Recorder`: `bind` and the capture of a resumed run.

## 6. Not modelled

* Views (graph rendering, viewer, widgets, the Rust viewer): read-only.
* Compilation and validation of definitions, the loader and the catalog: pure,
  ahead of a run. The engine takes the compiled graph as a constant.
* sanity-check, and of autoplan what its agents pass on: straight graphs of
  agent steps.
* The service installer, the RPC protocol of the host's child sessions, the
  one-time migration of old sources, presentation of decisions and prompts.
* Cancellation of a run queued as a continuation is in `RunQueue`; whether such
  a checkpoint may be continued again (`parent_run_id` stays set) no document
  says, so no property is stated. The same holds for `paused` in a terminal
  bundle, for a cancel followed by a park, and for a cancel before the input
  function has returned, all of which `Engine` shows.
