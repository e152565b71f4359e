---------------------------- MODULE RunLifecycle ----------------------------
(***************************************************************************)
(* Who runs a workflow: the interactive sessions (extension/index.ts) and  *)
(* the project host (host/runner.ts) that claim rows of the run queue,     *)
(* execute the run's engine, write its bundle and release the row.         *)
(*                                                                         *)
(* Each asynchronous task of a process is a worker:                        *)
(*   resolve    startRun for a /workflow command, nothing claimed yet      *)
(*   setup      a row is claimed; reading the bundle, resolving the source *)
(*   begin      the row is "running"; the engine has not written yet       *)
(*   exec       the engine is between two bundle writes                    *)
(*   write      the fence has passed, the bundle write has not landed      *)
(*   interrupt  failUnresumable: the claim was verified, the bundle is     *)
(*              read and then marked; nothing renews the claim             *)
(*   ending     the engine returned or threw, the row is not yet released  *)
(* "via" tells how the worker came to its run: a launch the tool reserved  *)
(* (activatePreparedLaunch), a parked run found by a reopened session      *)
(* (resumeParkedRun), a /workflow command (startRun) or the host.          *)
(*                                                                         *)
(* A bundle is reduced to state.json's status: none, running, waiting (at  *)
(* a checkpoint) or ended (completed, failed, timed_out, cancelled).       *)
(* Renewal is not a step: while a worker renews in time its lease stays    *)
(* live, and where it may fail to do so is the constant StallPoints.       *)
(***************************************************************************)
EXTENDS RunQueue, FiniteSets

CONSTANTS
    Hosts,            \* the project's host processes, one an owner at a time
    ProcOf,           \* the process each worker runs in
    StallPoints,      \* where a living worker may outlive its lease
    HasCheckpoints,   \* the workflows have checkpoints to wait at
    SourceMayChange,  \* a workflow source may be edited under a parked run
    MaxDisruptions    \* bound: how often processes crash, close or are stopped

Procs == Sessions \union Hosts

PCs == {"idle", "resolve", "setup", "begin", "exec", "write", "interrupt", "ending"}

Vias == {"none", "launch", "reopen", "start", "host"}

Whats == {"none", "running", "waiting", "ended", "done", "park", "delete"}

ASSUME LifecycleAssumption ==
    /\ Sessions \intersect Hosts = {}
    /\ ProcOf \in [Workers -> Procs]
    /\ StallPoints \subseteq PCs
    /\ HasCheckpoints \in BOOLEAN
    /\ SourceMayChange \in BOOLEAN
    /\ MaxDisruptions \in Nat

VARIABLES
    bundle,      \* run -> status of its bundle
    task,        \* worker -> what it is doing
    proc,        \* process -> down, booting, up, stopping or closing
    skipped,     \* host -> runs it will not try again (skippedRuns)
    followup,    \* runs for which a launch_failed turn intent was stored
    disruptions  \* crashes, closes and stops so far

vars == <<queue, bundle, task, proc, skipped, followup, disruptions>>

Idle == [pc |-> "idle", run |-> NoRun, via |-> "none", what |-> "none"]

Init ==
    /\ QueueInit
    /\ bundle = [r \in Runs |-> "none"]
    /\ task = [w \in Workers |-> Idle]
    /\ proc = [p \in Procs |-> "down"]
    /\ skipped = [h \in Hosts |-> {}]
    /\ followup = {}
    /\ disruptions = 0

-----------------------------------------------------------------------------
(* Workers *)

\* activeRun is set from the engine's start to its end; the engine has passed
\* its first fence, and has begun to act, only after "begin".
Active == {"begin", "exec", "write"}

Executing == {"exec", "write"}

\* The engine of worker w is at work on run r.
Executes(w, r) == task[w].pc \in Executing /\ task[w].run = r

WorkersOf(p) == {w \in Workers : ProcOf[w] = p}

\* activeRun # null in session s.
HasActiveRun(s) == \E w \in WorkersOf(s) : task[w].pc \in Active

IsHostWorker(w) == ProcOf[w] \in Hosts

Assign(w, pc, r, via) ==
    task' = [task EXCEPT ![w] = [pc |-> pc, run |-> r, via |-> via, what |-> "none"]]

Go(w, pc, what) ==
    task' = [task EXCEPT ![w] = [pc |-> pc, run |-> @.run, via |-> "none", what |-> what]]

Dismiss(w) == task' = [task EXCEPT ![w] = Idle]

\* A process that is gone takes its tasks and its memory along; what its tasks
\* hold in the queue stays.
Forget(p) ==
    /\ proc' = [proc EXCEPT ![p] = "down"]
    /\ task' = [w \in Workers |-> IF ProcOf[w] = p THEN Idle ELSE task[w]]
    /\ skipped' = [h \in Hosts |-> IF h = p THEN {} ELSE skipped[h]]

\* A process that ends counts against the bound.
Disrupt == disruptions < MaxDisruptions /\ disruptions' = disruptions + 1

\* A continuation is admitted while its parent waits at a checkpoint.
ParentWaiting(r) == HasParent(r) => bundle[ParentOf[r]] = "waiting"

\* The engine is asked for a new run (run, continueRun) and not resumeRun.
StartsFresh(w) ==
    \/ task[w].via \in {"launch", "start"}
    \/ task[w].via = "reopen" /\ bundle[task[w].run] = "none"

\* Variant: a resume does not look at the bundle's status.
AcceptsAnyBundle(w) == StartsFresh(w) => bundle[task[w].run] = "none"

\* initializeRunBundle makes the run's directory, which must not exist;
\* prepareRunResume accepts a running bundle only.
AcceptsBundle(w) ==
    bundle[task[w].run] = IF StartsFresh(w) THEN "none" ELSE "running"

-----------------------------------------------------------------------------
(* Interactive sessions *)

\* migrateLegacyWorkflowSources, run by every starting process.
RepairQueue ==
    queue' = [r \in Runs |-> IF bundle[r] \in {"running", "waiting"}
                             THEN RepairedRow(queue[r]) ELSE queue[r]]

\* session_start up to the recovery of its runs; the sync timer is armed.
OpenSession(s) ==
    /\ proc[s] = "down"
    /\ proc' = [proc EXCEPT ![s] = "booting"]
    /\ RepairQueue
    /\ UNCHANGED <<bundle, task, skipped, followup, disruptions>>

PreparedRuns(s) == {r \in ReservedRuns(s) : queue[r].status \in {"queued", "starting"}}

\* resumeParkedRun: claim the session's oldest claimable run.  The UNIQUE
\* index makes the claim throw when the session has another reservation.
Reopens(s, w, r) ==
    /\ PreparedRuns(s) = {}
    /\ ~HasActiveRun(s)
    /\ task[w].pc = "idle"
    /\ IsOldest(r, {o \in Runs : SessionCandidate(s, o)})
    /\ SessionFree(r)

\* The end of session_start.  A prepared launch is left to ActivatePrepared.
RecoverSession(s) ==
    /\ proc[s] = "booting"
    /\ proc' = [proc EXCEPT ![s] = "up"]
    /\ \/ \E w \in WorkersOf(s), r \in Runs :
            /\ Reopens(s, w, r)
            /\ Put(r, ClaimedRow(queue[r], w))
            /\ Assign(w, "setup", r, "reopen")
       \/ /\ \A w \in WorkersOf(s), r \in Runs : ~Reopens(s, w, r)
          /\ UNCHANGED <<queue, task>>
    /\ UNCHANGED <<bundle, skipped, followup, disruptions>>

\* activatePreparedLaunch, called on session_start, agent_settled and every
\* sync pass while no run is active; a second call loses the claim.
ActivatePrepared(s, w, r) ==
    /\ proc[s] \in {"booting", "up"}
    /\ ~HasActiveRun(s)
    /\ r \in PreparedRuns(s)
    /\ CanClaim(r)
    /\ task[w].pc = "idle"
    /\ Put(r, ClaimedRow(queue[r], w))
    /\ Assign(w, "setup", r, "launch")
    /\ UNCHANGED <<bundle, proc, skipped, followup, disruptions>>

\* queueToolLaunch: activeRun and the reservation were read before awaits; the
\* INSERT decides.
ReserveLaunch(s, r) ==
    /\ proc[s] = "up"
    /\ OriginOf[r] = s
    /\ ParentWaiting(r)
    /\ CanInsert(r)
    /\ Put(r, QueuedRow(r))
    /\ UNCHANGED <<bundle, task, proc, skipped, followup, disruptions>>

\* startRun for a /workflow command, up to its first await.
CommandStart(s, w) ==
    /\ proc[s] = "up"
    /\ ~HasActiveRun(s)
    /\ task[w].pc = "idle"
    /\ Assign(w, "resolve", NoRun, "start")
    /\ UNCHANGED <<queue, bundle, proc, skipped, followup, disruptions>>

\* ... after its last await: enqueueWorkflowRun, markWorkflowRunRunning and
\* the engine's start in one synchronous stretch.  activeRun is not read again.
CommandRun(w, r) ==
    /\ task[w].pc = "resolve"
    /\ proc[ProcOf[w]] # "stopping"
    /\ OriginOf[r] = ProcOf[w]
    /\ ParentWaiting(r)
    /\ CanInsert(r)
    /\ Put(r, RunningRow(EnqueuedRow(r, w)))
    /\ Assign(w, "begin", r, "start")
    /\ UNCHANGED <<bundle, proc, skipped, followup, disruptions>>

\* ... when the source does not resolve or an index refuses the row.
CommandFails(w) ==
    /\ task[w].pc = "resolve"
    /\ Dismiss(w)
    /\ UNCHANGED <<queue, bundle, proc, skipped, followup, disruptions>>

\* cancelWorkflowControl for a run that is not the active one.
CancelLaunch(s, r) ==
    /\ proc[s] = "up"
    /\ OriginOf[r] = s
    /\ queue[r].status \in {"queued", "starting"}
    /\ \A w \in WorkersOf(s) : ~(task[w].pc \in Active /\ task[w].run = r)
    /\ Put(r, CancelledRow(queue[r]))
    /\ UNCHANGED <<bundle, task, proc, skipped, followup, disruptions>>

\* activatePreparedLaunch's catch: startRun threw or refused.  The result of
\* failWorkflowRun is ignored; the turn intent is stored as eligible.
LaunchFails(w) ==
    /\ task[w].pc = "setup"
    /\ task[w].via = "launch"
    /\ Put(task[w].run, FailedRow(queue[task[w].run], w))
    /\ followup' = followup \union {task[w].run}
    /\ Dismiss(w)
    /\ UNCHANGED <<bundle, proc, skipped, disruptions>>

\* resumeParkedRun: startRun threw or refused, the run is parked again.
ReopenFails(w) ==
    /\ task[w].pc = "setup"
    /\ task[w].via = "reopen"
    /\ Put(task[w].run, ParkedRow(queue[task[w].run], w))
    /\ Dismiss(w)
    /\ UNCHANGED <<bundle, proc, skipped, followup, disruptions>>

\* session_shutdown: an active engine is told to park and is awaited.
CloseSession(s) ==
    /\ proc[s] = "up"
    /\ Disrupt
    /\ proc' = [proc EXCEPT ![s] = IF HasActiveRun(s) THEN "stopping" ELSE "closing"]
    /\ UNCHANGED <<queue, bundle, task, skipped, followup>>

\* ... its completion has released the row.
RunStopped(s) ==
    /\ proc[s] = "stopping"
    /\ \A w \in WorkersOf(s) : task[w].pc \notin Active \union {"ending"}
    /\ proc' = [proc EXCEPT ![s] = "closing"]
    /\ UNCHANGED <<queue, bundle, task, skipped, followup, disruptions>>

\* ... whatever a set-up still under way has started meanwhile is not awaited:
\* it ends with the process.
SessionClosed(s) ==
    /\ proc[s] = "closing"
    /\ Forget(s)
    /\ UNCHANGED <<queue, bundle, followup, disruptions>>

-----------------------------------------------------------------------------
(* The host *)

\* WorkflowHost.start: HostOwnership admits one host for the project.  A host
\* that stops gives the ownership back before it drains its run.
StartHost(h) ==
    /\ proc[h] = "down"
    /\ \A o \in Hosts : proc[o] \in {"down", "stopping"}
    /\ proc' = [proc EXCEPT ![h] = "up"]
    /\ RepairQueue
    /\ UNCHANGED <<bundle, task, skipped, followup, disruptions>>

\* claimOnce: one run at a time, the oldest candidate only.  When the UNIQUE
\* index refuses that one the error is logged and nothing is claimed.
HostClaims(h, w, r) ==
    /\ proc[h] = "up"
    /\ \A v \in WorkersOf(h) : task[v].pc = "idle"
    /\ IsOldest(r, {o \in Runs \ skipped[h] : HostCandidate(o)})
    /\ SessionFree(r)
    /\ Put(r, ClaimedRow(queue[r], w))
    /\ Assign(w, "setup", r, "host")
    /\ UNCHANGED <<bundle, proc, skipped, followup, disruptions>>

\* runClaimed: the stop began during the setup.
HostParksEarly(w) ==
    /\ task[w].pc = "setup"
    /\ IsHostWorker(w) /\ proc[ProcOf[w]] = "stopping"
    /\ Put(task[w].run, ParkedRow(queue[task[w].run], w))
    /\ Dismiss(w)
    /\ UNCHANGED <<bundle, proc, skipped, followup, disruptions>>

\* WorkflowSourceChangedError before or during resumeRun: park, do not retry.
HostSkips(w) ==
    /\ SourceMayChange
    /\ IsHostWorker(w)
    /\ \/ task[w].pc = "setup"
       \/ task[w].pc = "begin" /\ ClaimIsLive(w, task[w].run)
    /\ Put(task[w].run, ParkedRow(queue[task[w].run], w))
    /\ skipped' = [skipped EXCEPT ![ProcOf[w]] = @ \union {task[w].run}]
    /\ Dismiss(w)
    /\ UNCHANGED <<bundle, proc, followup, disruptions>>

\* failUnresumable: the bundle is marked only under a live claim, the row is
\* completed in any case.
HostGivesUp(w) ==
    /\ IsHostWorker(w)
    /\ \/ task[w].pc = "setup" /\ (SourceMayChange \/ bundle[task[w].run] = "none")
       \/ task[w].pc = "begin" /\ ClaimIsLive(w, task[w].run) /\ bundle[task[w].run] # "running"
    /\ IF ClaimIsLive(w, task[w].run) THEN Go(w, "interrupt", "none")
                                      ELSE Go(w, "ending", "done")
    /\ UNCHANGED <<queue, bundle, proc, skipped, followup, disruptions>>

\* markRunInterrupted reads the bundle: one that is not running is left alone.
InspectBundle(w) ==
    /\ task[w].pc = "interrupt" /\ task[w].what = "none"
    /\ IF bundle[task[w].run] = "running" THEN Go(w, "interrupt", "ended")
                                         ELSE Go(w, "ending", "done")
    /\ UNCHANGED <<queue, bundle, proc, skipped, followup, disruptions>>

\* ... and, awaits later, fails it through a store without a fence.
MarkInterrupted(w) ==
    /\ task[w].pc = "interrupt" /\ task[w].what = "ended"
    /\ bundle' = [bundle EXCEPT ![task[w].run] = "ended"]
    /\ Go(w, "ending", "done")
    /\ UNCHANGED <<queue, proc, skipped, followup, disruptions>>

\* markWorkflowRunRunning returned false outside runClaimed's try: the
\* rejection is unhandled and ends the process.
HostDiesUnclaimed(w) ==
    /\ task[w].pc = "setup"
    /\ IsHostWorker(w) /\ proc[ProcOf[w]] = "up"
    /\ ~CanMarkRunning(w, task[w].run)
    /\ Forget(ProcOf[w])
    /\ UNCHANGED <<queue, bundle, followup, disruptions>>

StopHost(h) ==
    /\ proc[h] = "up"
    /\ Disrupt
    /\ proc' = [proc EXCEPT ![h] = "stopping"]
    /\ UNCHANGED <<queue, bundle, task, skipped, followup>>

HostStopped(h) ==
    /\ proc[h] = "stopping"
    /\ \A w \in WorkersOf(h) : task[w].pc = "idle"
    /\ Forget(h)
    /\ UNCHANGED <<queue, bundle, followup, disruptions>>

-----------------------------------------------------------------------------
(* A run in either process *)

\* markWorkflowRunRunning and the engine's start.  The host has read the
\* bundle's source, so there is a bundle; it re-reads "stopping" before.
StartEngine(w) ==
    /\ task[w].pc = "setup"
    /\ proc[ProcOf[w]] # "stopping"
    /\ IsHostWorker(w) => bundle[task[w].run] # "none"
    /\ CanMarkRunning(w, task[w].run)
    /\ Put(task[w].run, RunningRow(queue[task[w].run]))
    /\ Assign(w, "begin", task[w].run, task[w].via)
    /\ UNCHANGED <<bundle, proc, skipped, followup, disruptions>>

\* The fence before the first write, which starts or resumes the bundle.
BeginWrite(w) ==
    /\ task[w].pc = "begin"
    /\ ClaimIsLive(w, task[w].run)
    /\ AcceptsBundle(w)
    /\ Go(w, "write", "running")
    /\ UNCHANGED <<queue, bundle, proc, skipped, followup, disruptions>>

\* The engine threw before it wrote (startRun's catch): the input is refused,
\* or behind the first fence the run's directory exists, the bundle cannot
\* resume or its source has changed.
\* A bundle that can still resume is parked, a continuation without a bundle
\* frees its parent's slot, everything else is closed.
BeginFails(w) ==
    /\ task[w].pc = "begin" /\ ~IsHostWorker(w)
    /\ LET r == task[w].run IN
       /\ \/ StartsFresh(w)
          \/ ClaimIsLive(w, r) /\ (bundle[r] # "running" \/ SourceMayChange)
       /\ Go(w, "ending",
             CASE task[w].via = "reopen" /\ bundle[r] = "running" -> "park"
               [] HasParent(r) /\ bundle[r] = "none" -> "delete"
               [] OTHER -> "done")
    /\ UNCHANGED <<queue, bundle, proc, skipped, followup, disruptions>>

\* withRunLock's fence before a write of status s.
PassFence(w, s) ==
    /\ task[w].pc = "exec"
    /\ s = "waiting" => HasCheckpoints
    /\ ClaimIsLive(w, task[w].run)
    /\ Go(w, "write", s)
    /\ UNCHANGED <<queue, bundle, proc, skipped, followup, disruptions>>

\* The write lands; a terminal or waiting status ends the engine's work.
WriteBundle(w) ==
    /\ task[w].pc = "write"
    /\ bundle' = [bundle EXCEPT ![task[w].run] = task[w].what]
    /\ IF task[w].what = "running" THEN Go(w, "exec", "none") ELSE Go(w, "ending", "done")
    /\ UNCHANGED <<queue, proc, skipped, followup, disruptions>>

\* The fence throws ClaimLostError, or a renewal fails and the cancelled
\* engine then meets the fence: the row belongs to somebody else.
LoseClaim(w) ==
    /\ task[w].pc \in {"begin", "exec"}
    /\ ~ClaimIsLive(w, task[w].run)
    /\ Dismiss(w)
    /\ UNCHANGED <<queue, bundle, proc, skipped, followup, disruptions>>

\* engine.park while the process stops: no terminal event.
ParkEngine(w) ==
    /\ task[w].pc = "exec"
    /\ proc[ProcOf[w]] = "stopping"
    /\ Go(w, "ending", "park")
    /\ UNCHANGED <<queue, bundle, proc, skipped, followup, disruptions>>

\* releaseClaim and the end of runClaimed: compared by token only.
Release(w) ==
    /\ task[w].pc = "ending"
    /\ LET r == task[w].run IN
       Put(r, CASE task[w].what = "done"   -> CompletedRow(queue[r], w)
                [] task[w].what = "park"   -> ParkedRow(queue[r], w)
                [] task[w].what = "delete" -> DeletedRow(queue[r], w))
    /\ Dismiss(w)
    /\ UNCHANGED <<bundle, proc, skipped, followup, disruptions>>

-----------------------------------------------------------------------------
(* The environment *)

\* A lease runs out: its holder is gone, or stalls where it may.
Expire(r) ==
    /\ Claimed(r) /\ queue[r].live
    /\ \A w \in Workers :
         (queue[r].token = w /\ task[w].run = r) => task[w].pc \in StallPoints
    /\ Put(r, ExpiredRow(queue[r]))
    /\ UNCHANGED <<bundle, task, proc, skipped, followup, disruptions>>

Crash(p) ==
    /\ proc[p] # "down"
    /\ Disrupt
    /\ Forget(p)
    /\ UNCHANGED <<queue, bundle, followup>>

-----------------------------------------------------------------------------

SessionNext(s) ==
    \/ OpenSession(s) \/ RecoverSession(s) \/ CloseSession(s) \/ RunStopped(s) \/ SessionClosed(s)
    \/ \E r \in Runs : ReserveLaunch(s, r) \/ CancelLaunch(s, r)
    \/ \E w \in WorkersOf(s) :
         \/ CommandStart(s, w)
         \/ \E r \in Runs : ActivatePrepared(s, w, r)

HostNext(h) ==
    \/ StartHost(h) \/ StopHost(h) \/ HostStopped(h)
    \/ \E w \in WorkersOf(h), r \in Runs : HostClaims(h, w, r)

WorkerNext(w) ==
    \/ \E r \in Runs : CommandRun(w, r)
    \/ CommandFails(w) \/ LaunchFails(w) \/ ReopenFails(w)
    \/ HostParksEarly(w) \/ HostSkips(w) \/ HostGivesUp(w)
    \/ InspectBundle(w) \/ MarkInterrupted(w) \/ HostDiesUnclaimed(w)
    \/ StartEngine(w) \/ BeginWrite(w) \/ BeginFails(w)
    \/ \E s \in {"running", "waiting", "ended"} : PassFence(w, s)
    \/ WriteBundle(w) \/ LoseClaim(w) \/ ParkEngine(w) \/ Release(w)

Next ==
    \/ \E s \in Sessions : SessionNext(s)
    \/ \E h \in Hosts : HostNext(h)
    \/ \E w \in Workers : WorkerNext(w)
    \/ \E r \in Runs : Expire(r)
    \/ \E p \in Procs : Crash(p)

Spec == Init /\ [][Next]_vars

-----------------------------------------------------------------------------
(* Fairness                                                                *)
(*   Works     a process that is up keeps working: timers and I/O complete  *)
(*             and the host, which is supervised, is started again;         *)
(*   Finishes  maxSteps bounds what an engine writes, so a host's engine    *)
(*             comes to its terminal write (strong fairness: between two    *)
(*             writes only); an interactive engine may wait for its user    *)
(*             for ever, except that a closing session parks it;            *)
(*   Expire    a lease that nobody renews runs out.                         *)
(* Nothing makes a user open a session, start, cancel or close anything.    *)

Finishes(w) ==
    \/ ParkEngine(w)
    \/ IsHostWorker(w) /\ (PassFence(w, "waiting") \/ PassFence(w, "ended"))

Works(p) ==
    \/ \E w \in WorkersOf(p) : WorkerNext(w)
    \/ p \in Sessions /\ (RecoverSession(p) \/ RunStopped(p) \/ SessionClosed(p))
    \/ /\ p \in Hosts
       /\ \/ StartHost(p) \/ HostStopped(p)
          \/ \E w \in WorkersOf(p), r \in Runs : HostClaims(p, w, r)

Fairness ==
    /\ \A p \in Procs : WF_vars(Works(p))
    /\ \A w \in Workers : SF_vars(Finishes(w))
    /\ WF_vars(\E r \in Runs : Expire(r))

FairSpec == Spec /\ Fairness

-----------------------------------------------------------------------------
(* Properties *)

Tasks == [pc : PCs, run : Runs \union {NoRun}, via : Vias, what : Whats]

\* Every variable has its type.
TypeOK ==
    /\ QueueTypeOK
    /\ bundle \in [Runs -> {"none", "running", "waiting", "ended"}]
    /\ task \in [Workers -> Tasks]
    /\ proc \in [Procs -> {"down", "booting", "up", "stopping", "closing"}]
    /\ skipped \in [Hosts -> SUBSET Runs]
    /\ followup \subseteq Runs
    /\ disruptions \in 0..MaxDisruptions

\* No two engines work on one run: the claim, markWorkflowRunRunning and the
\* renewals keep a second task out of it, whatever crashes and whoever was
\* overtaken while it was still setting up.
OneExecutionPerRun ==
    \A r \in Runs : \A v, w \in Workers : Executes(v, r) /\ Executes(w, r) => v = w

\* One workflow runs per session at a time (docs/workflows.md), although
\* activeRun is checked before awaits: the reservation index decides.
OneExecutionPerSession ==
    \A s \in Sessions : \A v, w \in WorkersOf(s) :
        task[v].pc \in Executing /\ task[w].pc \in Executing => v = w

\* A parent's checkpoint is continued by one bundle at most, whatever was
\* cancelled, failed or deleted on the way (index workflow_run_queue_parent).
OneContinuation ==
    \A p \in Runs :
        Cardinality({r \in Runs : ParentOf[r] = p /\ bundle[r] # "none"}) <= 1

Lands(w, pc) ==
    task[w].pc = pc /\ task[w].what # "none" /\ task'[w].pc \in {"exec", "ending"}

\* The write of an engine never lands while another task holds the run's claim
\* (store.ts, RunFence: a stalled runner never interleaves writes with the new
\* claim holder): a runner that has stalled anywhere before its fence meets it.
NoForeignWrite ==
    [][\A w, v \in Workers : Lands(w, "write") /\ HoldsRow(v, task[w].run) => v = w]_vars

\* ... nor does the interruption mark of a host (failUnresumable: it obeys the
\* same fencing rule as every other bundle write).
NoForeignMark ==
    [][\A w, v \in Workers : Lands(w, "interrupt") /\ HoldsRow(v, task[w].run) => v = w]_vars

\* A bundle that waits at a checkpoint or has ended no longer changes
\* (docs/run-bundles.md), even when its row is claimed and resumed again.
EndedBundleIsFinal ==
    [][\A r \in Runs : bundle[r] \in {"waiting", "ended"} => bundle'[r] = bundle[r]]_vars

\* A cancelled launch stays cancelled and never gets a bundle: cancelling wins
\* over an activation that has already claimed the row.
CancelledLaunchNeverRuns ==
    [][\A r \in Runs :
         queue[r].status = "cancelled" =>
             /\ queue'[r].status = "cancelled"
             /\ bundle[r] = "none" => bundle'[r] = "none"]_vars

\* How far leases are to be kept. The fence and the write behind it take less
\* time than is left of the lease; an engine at work renews it; and so little is
\* read between a host's look at its claim and its mark.
FenceIsPrompt == "write" \notin StallPoints
LeaseIsKept == FenceIsPrompt /\ "exec" \notin StallPoints
MarkIsPrompt == "interrupt" \notin StallPoints

\* The claim under which each task works. Why the safety properties hold: a task
\* that claims, releases or cancels a row finds it unclaimed, expired, not yet
\* running, or claimed by itself.
ClaimHeld(w) ==
    LET r == task[w].run IN
    /\ task[w].pc \notin {"idle", "resolve"} =>
         r \in Runs /\ (ProcOf[w] \in Sessions => OriginOf[r] = ProcOf[w])
    /\ task[w].pc = "write" => task[w].what \in {"running", "waiting", "ended"}
    /\ task[w].pc = "ending" => task[w].what \in {"done", "park", "delete"}
    /\ task[w].pc \in Active => (queue[r].token = w => queue[r].status = "running")
    /\ task[w].pc = "interrupt" /\ task[w].what = "ended" => bundle[r] # "none"
    /\ FenceIsPrompt /\ task[w].pc = "write" => ClaimIsLive(w, r)
    /\ LeaseIsKept /\ task[w].pc = "exec" => ClaimIsLive(w, r)
    /\ MarkIsPrompt /\ task[w].pc = "interrupt" =>
         ClaimIsLive(w, r) \/ queue[r].status = "cancelled"

\* What the bundle is while its claim is held.
BundleHeld(w) ==
    LET r == task[w].run IN
    /\ task[w].pc \in Executing => bundle[r] \in {"none", "running"}
    /\ task[w].pc = "interrupt" /\ task[w].what = "ended" => bundle[r] \in {"running", "ended"}

BundlesHeld == LeaseIsKept /\ MarkIsPrompt => \A w \in Workers : BundleHeld(w)

ClaimsHeld == \A w \in Workers : ClaimHeld(w)

\* The index workflow_run_queue_session_reservation.
OneReservation ==
    \A r, o \in Runs :
        OriginOf[r] = OriginOf[o] /\ Reserving(queue[r]) /\ Reserving(queue[o]) => r = o

IInv == TypeOK /\ ClaimsHeld /\ BundlesHeld /\ OneReservation

\* The worker whose engine is at work on run r.
OwnerOf(r) ==
    IF \E w \in Workers : Executes(w, r) THEN CHOOSE w \in Workers : Executes(w, r)
                                         ELSE Nobody

Ownership == INSTANCE RunOwnership
                 WITH owner <- [r \in Runs |-> OwnerOf(r)], outcome <- bundle

\* Sessions, host, queue and fences together keep the promise of RunOwnership:
\* one engine at a time, and none for a run that waits or has ended.
ImplementsOwnership == Ownership!Spec

\* A run that can resume and that no live claim holds.
Stranded(r) ==
    /\ bundle[r] = "running"
    /\ \/ queue[r].status = "parked"
       \/ queue[r].status = "running" /\ ~queue[r].live

\* Run r, or an older one that is always tried first, is refused to whoever
\* claims it: another run of its session has the reservation.
Refused(r) == \E o \in Runs : o <= r /\ HostCandidate(o) /\ ~SessionFree(o)

\* A host has found the source of run r edited and leaves it to the user.
LeftAlone(r) == \E h \in Hosts : proc[h] = "up" /\ r \in skipped[h]

\* A run that was parked, or whose runner died while it executed, is claimed
\* again, by a host or by the session that started it, unless it is refused
\* time and again or its source was edited.
StrandedRunTaken ==
    \A r \in Runs : Stranded(r) ~> ~Stranded(r) \/ Refused(r) \/ LeftAlone(r)

\* A dead or stalled runner never strands a run (claimNextWorkflowRun): one that
\* died at work, whatever else the run's session has,
DeadRunTaken ==
    \A r \in Runs :
        (bundle[r] = "running" /\ queue[r].status = "running" /\ ~queue[r].live)
            ~> (queue[r].status # "running" \/ queue[r].live)

\* ... and one that died between the claim and the start.
DeadClaimTaken ==
    \A r \in Runs :
        (bundle[r] = "running" /\ queue[r].status = "starting" /\ ~queue[r].live)
            ~> (queue[r].status # "starting" \/ queue[r].live)

\* The row of a run that can still resume is not closed (startRun's catch: a
\* resume that fails must not strand the run).
DoneMeansEnded ==
    \A r \in Runs : queue[r].status = "done" => bundle[r] # "running"

\* A cancelled launch sends no failure follow-up (durable launch plan).
NoFollowupAfterCancel ==
    \A r \in followup : queue[r].status # "cancelled"
=============================================================================
