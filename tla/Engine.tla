------------------------------- MODULE Engine -------------------------------
(***************************************************************************)
(* One workflow run from its first to its last runner: WorkflowEngine's    *)
(* run, continueRun and resumeRun, the bundle that WorkflowRunStore keeps  *)
(* of it, and the calls that a session or host makes meanwhile (cancel,    *)
(* park, pause, resume).  RunLifecycle gives the reason why one runner at  *)
(* a time is enough here.                                                  *)
(*                                                                         *)
(* The engine is one asynchronous function: between two awaits it runs     *)
(* without interruption, at an await (a value of pc) anything may happen,  *)
(* a crash included.  mem is the state object it works on, disk what       *)
(* state.json holds, tail the trace event that was appended last and that  *)
(* state.json does not reflect yet.                                        *)
(*   off       no engine                                                   *)
(*   input     awaiting the workflow's input function                      *)
(*   title     resolving the title, until the bundle's directory is made   *)
(*   prepare   prepareRunResume                                            *)
(*   append    waiting for the bundle's lock and to append todo.event      *)
(*   project   the event is appended, state.json is not replaced yet       *)
(*   boundary  about to dispatch the node "at"                             *)
(*   held      paused at the boundary                                      *)
(*   begin     past the boundary after a pause                             *)
(*   dispatch  node_started is recorded                                    *)
(*   node      the node is at work                                         *)
(*   settled   the attempt has a result                                    *)
(*   route     the result is recorded                                      *)
(*   conclude  a resumed graph turned out to be finished, as "at" says     *)
(*   returned  the caller has the result                                   *)
(***************************************************************************)
EXTENDS Naturals, Sequences

CONSTANTS
    Nodes,         \* the compiled graph's nodes
    StartAt,       \* its start node
    Checkpoints,   \* the nodes that wait for an answer
    Updaters,      \* the nodes that write to the bundle while at work
    Outputs,       \* what a node can return, as far as routing tells apart
    Edge,          \* node -> result -> where the graph's edge leads
    MaxSteps,      \* maxSteps
    Carries,       \* the steps a run may carry from its parent; <<>>: none
    NoNode,        \* "no node"
    MaxDisruptions \* bound: crashes and parks

Failures == {"failed", "timed_out", "cancelled"}

Results == Outputs \union Failures

\* Where an edge leads beside nodes: the graph ends, the failure is not routed,
\* or a switch without a case throws.
Ends == {"end", "unrouted", "error"}

Terminal == {"waiting", "completed", "failed", "timed_out", "cancelled"}

ASSUME GraphAssumption ==
    /\ StartAt \in Nodes
    /\ Checkpoints \subseteq Nodes /\ Updaters \subseteq Nodes
    /\ Outputs \intersect (Failures \union {"none"}) = {}
    /\ Nodes \intersect (Ends \union Terminal) = {}
    /\ \A n \in Nodes : \A r \in Results :
         Edge[n][r] \in Nodes \union {"error", IF r \in Outputs THEN "end" ELSE "unrouted"}
    /\ NoNode \notin Nodes
    /\ MaxSteps \in Nat
    /\ MaxDisruptions \in Nat

Step == [node : Nodes, result : Results]

\* Carried is what a bundle recorded, with the answer of its last checkpoint.
ASSUME CarriedAssumption ==
    \A c \in Carries :
       /\ c \in Seq(Step) /\ Len(c) <= MaxSteps
       /\ \A i \in DOMAIN c :
            c[i].node = IF i = 1 THEN StartAt ELSE Edge[c[i - 1].node][c[i - 1].result]

VARIABLES
    disk,        \* state.json
    tail,        \* last trace event, if state.json does not reflect it
    mem,         \* the engine's state object
    pc,
    at,          \* the node to dispatch, or the status to conclude with
    result,      \* of the attempt that settled
    todo,        \* event to persist and the pc to continue at
    update,      \* a write of the node itself (update, prompt) in the lock
    cancelled, parked, paused,  \* the engine's flags
    row,         \* the run's row: ready, claimed, parked (claimable), done
    carried,     \* the steps carried from the parent
    disruptions

vars == <<disk, tail, mem, pc, at, result, todo, update,
          cancelled, parked, paused, row, carried, disruptions>>
bundleVars == <<disk, tail>>
flagVars == <<cancelled, parked, paused>>
callerVars == <<row, carried, disruptions>>

NoResults == [n \in Nodes |-> "none"]

NoState == [status |-> "none", current |-> NoNode, paused |-> FALSE,
            steps |-> <<>>, results |-> NoResults]

NoTodo == [event |-> "none", next |-> "off"]

NoUpdate == [stage |-> "none", current |-> NoNode, results |-> NoResults]

Init ==
    /\ disk = NoState /\ tail = "none"
    /\ mem = NoState
    /\ pc = "off" /\ at = NoNode /\ result = "none" /\ todo = NoTodo
    /\ update = NoUpdate
    /\ cancelled = FALSE /\ parked = FALSE /\ paused = FALSE
    /\ row = "ready"
    /\ carried \in Carries
    /\ disruptions = 0

-----------------------------------------------------------------------------
(* Routing and resume points *)

IsOk(r) == r \in Outputs

\* Carried steps bring their results along, the latest of each node.
ResultsOf(steps) ==
    [n \in Nodes |->
       IF \E i \in DOMAIN steps : steps[i].node = n
       THEN steps[CHOOSE i \in DOMAIN steps :
                    /\ steps[i].node = n
                    /\ \A j \in DOMAIN steps : steps[j].node = n => j <= i].result
       ELSE "none"]

LastStep(state) == state.steps[Len(state.steps)]

\* resolveNext, resolveNextForOutcome
Target(node, r) == Edge[node][r]

\* The result on record for the node of the last step.
LastResult(state) == state.results[LastStep(state).node]

\* Variant: the gate is forgotten, routing goes on behind the checkpoint
RoutesPast(state) == FALSE

\* A checkpoint that this run recorded; one carried from the parent has been
\* answered.
WaitsAt(state) ==
    /\ Len(state.steps) > Len(carried)
    /\ IsOk(LastResult(state)) /\ LastStep(state).node \in Checkpoints

\* resumePointFor: a node to dispatch, "error" when it throws, or the status of
\* a graph that has ended.
ResumePoint(state) ==
    IF state.current # NoNode THEN state.current
    ELSE IF state.steps = <<>> THEN StartAt
    ELSE IF LastResult(state) = "none" THEN LastStep(state).node
    ELSE LET next == Target(LastStep(state).node, LastResult(state))
         IN  CASE WaitsAt(state) -> "waiting"
               [] ~WaitsAt(state) /\ next = "end" -> "completed"
               [] ~WaitsAt(state) /\ next = "unrouted" ->
                    IF LastResult(state) = "timed_out" THEN "timed_out" ELSE "failed"
               [] OTHER -> next

\* executedSteps + 1 > maxSteps; carried and replayed steps count.
StepsExhausted(state) == Len(state.steps) >= MaxSteps

-----------------------------------------------------------------------------
(* Building blocks of the engine's steps *)

Persist(event, next) == pc' = "append" /\ todo' = [event |-> event, next |-> next]

\* finishRun
Finish(status) ==
    /\ mem' = [mem EXCEPT !.status = status, !.current = NoNode]
    /\ Persist(status, "returned")

\* The catch of executeGraph's callers: a parked engine just returns.
Throw(status) ==
    IF parked THEN pc' = "returned" /\ UNCHANGED <<mem, todo>>
              ELSE Finish(IF cancelled THEN "cancelled" ELSE status)

\* executeNode up to its first await, past the step limit.
BeginNode ==
    IF StepsExhausted(mem) THEN Throw("failed")
    ELSE /\ mem' = [mem EXCEPT !.current = at]
         /\ Persist("node_started", "dispatch")

ClearFlags == cancelled' = FALSE /\ parked' = FALSE /\ paused' = FALSE

\* The engine is gone, and with it everything it had in memory.
Leave ==
    /\ pc' = "off" /\ mem' = NoState /\ at' = NoNode /\ result' = "none"
    /\ todo' = NoTodo /\ update' = NoUpdate
    /\ ClearFlags

-----------------------------------------------------------------------------
(* Starting *)

\* A runner calls run, or continueRun for a run with carried steps; again when
\* the runner before it left no bundle.
Start ==
    /\ row \in {"ready", "parked"} /\ disk = NoState
    /\ row' = "claimed"
    /\ pc' = "input"
    /\ ClearFlags
    /\ UNCHANGED <<bundleVars, mem, at, result, todo, update, carried, disruptions>>

\* run, unlike continueRun, clears the flags after it has awaited workflow.input.
AcceptInput ==
    /\ pc = "input"
    /\ pc' = "title"
    /\ IF carried = <<>> THEN ClearFlags ELSE UNCHANGED flagVars
    /\ UNCHANGED <<bundleVars, mem, at, result, todo, update, callerVars>>

\* The input is refused, or the title throws or is aborted: no bundle.
Refuse ==
    /\ pc \in {"input", "title"}
    /\ row' = "done"
    /\ Leave
    /\ UNCHANGED <<bundleVars, carried, disruptions>>

\* initializeRunBundle, then run_started.  continueRun finds its resume point
\* after that, outside of any catch.
CreateBundle ==
    /\ pc = "title"
    /\ mem' = [NoState EXCEPT !.status = "running", !.steps = carried,
                              !.results = ResultsOf(carried)]
    /\ disk' = mem'
    /\ at' = ResumePoint(mem')
    /\ Persist("run_started", IF at' \in Nodes THEN "boundary" ELSE "conclude")
    /\ UNCHANGED <<tail, result, update, flagVars, callerVars>>

\* Variant: whatever the bundle's status
ResumeAnyBundle ==
    /\ row = "parked" /\ disk # NoState
    /\ row' = "claimed" /\ pc' = "prepare" /\ tail' = "none"
    /\ ClearFlags
    /\ UNCHANGED <<disk, mem, at, result, todo, update, carried, disruptions>>

\* resumeRun: clears the flags first, then prepares the bundle.  The trace
\* loses what state.json does not reflect.
Resume ==
    /\ row = "parked"
    /\ disk.status = "running"
    /\ row' = "claimed"
    /\ pc' = "prepare"
    /\ tail' = "none"
    /\ ClearFlags
    /\ UNCHANGED <<disk, mem, at, result, todo, update, carried, disruptions>>

\* Variant: only what was carried is loaded
PreparedAfresh ==
    /\ pc = "prepare"
    /\ ResumePoint(disk) # "error"
    /\ at' = ResumePoint(disk)
    /\ mem' = [disk EXCEPT !.current = NoNode, !.paused = FALSE, !.steps = carried]
    /\ Persist("run_resumed", IF at' \in Nodes THEN "boundary" ELSE "conclude")
    /\ UNCHANGED <<bundleVars, result, update, flagVars, callerVars>>

\* ... finds the resume point, forgets the interrupted attempt and the pause.
Prepared ==
    /\ pc = "prepare"
    /\ ResumePoint(disk) # "error"
    /\ at' = ResumePoint(disk)
    /\ mem' = [disk EXCEPT !.current = NoNode, !.paused = FALSE]
    /\ Persist("run_resumed", IF at' \in Nodes THEN "boundary" ELSE "conclude")
    /\ UNCHANGED <<bundleVars, result, update, flagVars, callerVars>>

\* The last recorded step finished the graph: only the end is missing.  A
\* continuation whose first edge throws leaves without a terminal event.
Conclude ==
    /\ pc = "conclude"
    /\ IF at = "error"
       THEN row' = "done" /\ Leave
       ELSE Finish(at) /\ UNCHANGED <<at, result, update, flagVars, row>>
    /\ UNCHANGED <<bundleVars, carried, disruptions>>

-----------------------------------------------------------------------------
(* Persisting: append the event, then replace state.json *)

\* writeSnapshot gets the bundle's lock, appends the event
AppendEvent ==
    /\ pc = "append" /\ update = NoUpdate
    /\ pc' = "project"
    /\ tail' = todo.event
    /\ UNCHANGED <<disk, mem, at, result, todo, update, flagVars, callerVars>>

\* ... and replaces state.json.
ReplaceState ==
    /\ pc = "project"
    /\ pc' = todo.next
    /\ disk' = mem
    /\ tail' = "none"
    /\ todo' = NoTodo
    /\ UNCHANGED <<mem, at, result, update, flagVars, callerVars>>

\* A write of the node itself, publishUpdate or agent_prompt_sent, gets the
\* lock while the attempt is active.  When its event is appended encodeRunState
\* reads the state object piece by piece: the results
BeginUpdate ==
    /\ pc = "node" /\ at \in Updaters
    /\ update = NoUpdate
    /\ update' = [stage |-> "results", current |-> NoNode, results |-> mem.results]
    /\ UNCHANGED <<bundleVars, mem, pc, at, result, todo, flagVars, callerVars>>

\* ... the object's own fields, when it has awaited the encoding of the results
EncodeUpdate ==
    /\ update.stage = "results"
    /\ update' = [update EXCEPT !.stage = "fields", !.current = mem.current]
    /\ UNCHANGED <<bundleVars, mem, pc, at, result, todo, flagVars, callerVars>>

\* ... and the steps, when it has awaited that of input and outputs.  The attempt
\* may be recorded in between.
EndUpdate ==
    /\ update.stage = "fields"
    /\ update' = NoUpdate
    /\ disk' = [mem EXCEPT !.current = update.current, !.results = update.results]
    /\ UNCHANGED <<tail, mem, pc, at, result, todo, flagVars, callerVars>>

-----------------------------------------------------------------------------
(* The graph's loop *)

\* holdWhilePaused, and when nothing holds the run the node begins.
Boundary ==
    /\ pc = "boundary"
    /\ \/ parked /\ pc' = "returned" /\ UNCHANGED <<mem, todo>>
       \/ ~parked /\ cancelled /\ Finish("cancelled")
       \/ /\ ~parked /\ ~cancelled /\ paused
          /\ mem' = [mem EXCEPT !.paused = TRUE]
          /\ Persist("run_paused", "held")
       \/ ~parked /\ ~cancelled /\ ~paused /\ BeginNode
    /\ UNCHANGED <<bundleVars, at, result, update, flagVars, callerVars>>

\* Variant: neither park nor cancel wakes the wait
HeldUntilResumed ==
    /\ pc = "held" /\ ~paused
    /\ mem' = [mem EXCEPT !.paused = FALSE]
    /\ Persist("run_resumed", "begin")
    /\ UNCHANGED <<bundleVars, at, result, update, flagVars, callerVars>>

\* The wait is over: resumed, parked or cancelled.
Held ==
    /\ pc = "held"
    /\ \/ parked /\ pc' = "returned" /\ UNCHANGED <<mem, todo>>
       \/ /\ ~parked /\ cancelled
          /\ mem' = [mem EXCEPT !.paused = FALSE, !.status = "cancelled"]
          /\ Persist("cancelled", "returned")
       \/ /\ ~parked /\ ~cancelled /\ ~paused
          /\ mem' = [mem EXCEPT !.paused = FALSE]
          /\ Persist("run_resumed", "begin")
    /\ UNCHANGED <<bundleVars, at, result, update, flagVars, callerVars>>

\* After a pause nothing is checked again before the node begins.
Begin ==
    /\ pc = "begin"
    /\ BeginNode
    /\ UNCHANGED <<bundleVars, at, result, update, flagVars, callerVars>>

\* Variant: flags are not looked at after node_started
DispatchUnchecked ==
    /\ pc = "dispatch" /\ pc' = "node"
    /\ UNCHANGED <<bundleVars, mem, at, result, todo, update, flagVars, callerVars>>

\* runNodeWithTimeout: a park or cancel during node_started stops the dispatch.
Dispatch ==
    /\ pc = "dispatch"
    /\ IF parked \/ cancelled THEN pc' = "settled" /\ result' = "cancelled"
                             ELSE pc' = "node" /\ UNCHANGED result
    /\ UNCHANGED <<bundleVars, mem, at, todo, update, flagVars, callerVars>>

\* The node returns, fails, times out or is aborted.  What fails under
\* cancellation counts as cancelled; a late success still counts.
NodeEnds ==
    /\ pc = "node"
    /\ \E r \in Results :
         /\ r = "failed" => ~cancelled
         /\ result' = r
    /\ pc' = "settled"
    /\ UNCHANGED <<bundleVars, mem, at, todo, update, flagVars, callerVars>>

\* recordAttempt and its event.  A parked engine does not record the attempt.
Settled ==
    /\ pc = "settled"
    /\ IF parked THEN pc' = "returned" /\ UNCHANGED <<mem, todo>>
       ELSE /\ mem' = [mem EXCEPT !.current = NoNode,
                                 !.steps = Append(@, [node |-> at, result |-> result]),
                                 !.results[at] = result]
            /\ Persist(IF IsOk(result) THEN "node_finished" ELSE "node_failed", "route")
    /\ UNCHANGED <<bundleVars, at, result, update, flagVars, callerVars>>

\* A timed-out failure without a route is timed_out in memory before the catch
\* of executeGraph's caller looks at parked.
FailUnrouted ==
    IF result # "timed_out" THEN Throw("failed")
    ELSE IF parked
         THEN mem' = [mem EXCEPT !.status = "timed_out"] /\ pc' = "returned" /\ UNCHANGED todo
         ELSE Throw("timed_out")

\* executeGraph after the node's event: a checkpoint waits, a failure goes where
\* routeAfterFailure says, a success where the edge leads.
Route ==
    /\ pc = "route"
    /\ LET next == Target(at, result) IN
       \/ /\ ~IsOk(result) /\ (result = "cancelled" \/ cancelled)
          /\ Throw("cancelled") /\ UNCHANGED at
       \/ /\ ~IsOk(result) /\ result # "cancelled" /\ ~cancelled
          /\ next = "unrouted" /\ FailUnrouted /\ UNCHANGED at
       \/ /\ IsOk(result) /\ at \in Checkpoints
          /\ Finish("waiting") /\ UNCHANGED at
       \/ /\ IF IsOk(result) THEN at \notin Checkpoints
                             ELSE result # "cancelled" /\ ~cancelled
          /\ \/ next = "end" /\ Finish("completed") /\ UNCHANGED at
             \/ next = "error" /\ Throw("failed") /\ UNCHANGED at
             \/ next \in Nodes /\ pc' = "boundary" /\ at' = next /\ UNCHANGED <<mem, todo>>
    /\ UNCHANGED <<bundleVars, result, update, flagVars, callerVars>>

-----------------------------------------------------------------------------
(* The row, and who calls the engine *)

\* finishRun, runClaimed: the caller judges by the state object it is given.
Return ==
    /\ pc = "returned" /\ update = NoUpdate
    /\ row' = IF mem.status = "running" THEN "parked" ELSE "done"
    /\ Leave
    /\ UNCHANGED <<bundleVars, carried, disruptions>>

\* Variant: the node in flight is left
InterruptedInFlight ==
    [disk EXCEPT !.status = IF tail \in Terminal THEN tail ELSE "failed"]

\* What failUnresumable's markRunInterrupted makes of a bundle: the terminal
\* event that state.json misses decides, else the run has failed.
Interrupted ==
    IF tail \in Terminal
    THEN [disk EXCEPT !.status = tail, !.current = NoNode]
    ELSE [disk EXCEPT !.status = "failed", !.current = NoNode, !.paused = FALSE]

\* A host that cannot resume (its source does not load) gives the run up.
Interrupt ==
    /\ row = "parked" /\ row' = "done"
    /\ disk' = IF disk.status = "running" THEN Interrupted ELSE disk
    /\ tail' = "none"
    /\ UNCHANGED <<mem, pc, at, result, todo, update, flagVars, carried, disruptions>>

\* The resume point throws: a host gives up as well, a session parks again.
Unresumable ==
    /\ pc = "prepare"
    /\ ResumePoint(disk) = "error"
    /\ \/ row' = "parked" /\ UNCHANGED disk
       \/ row' = "done" /\ disk' = Interrupted
    /\ Leave
    /\ UNCHANGED <<tail, carried, disruptions>>

\* Variant: every failed resume parks the run again
CloseParks ==
    /\ row = "parked" /\ disk.status \in Terminal
    /\ row' = "parked"
    /\ UNCHANGED <<bundleVars, mem, pc, at, result, todo, update, flagVars, carried, disruptions>>

\* resumeRun refuses a bundle that has ended; the row is closed.
Close ==
    /\ row = "parked" /\ disk.status \in Terminal
    /\ row' = "done"
    /\ UNCHANGED <<bundleVars, mem, pc, at, result, todo, update, flagVars, carried, disruptions>>

\* The process dies; the row becomes claimable when its lease has expired.
Crash ==
    /\ pc # "off" /\ disruptions < MaxDisruptions
    /\ disruptions' = disruptions + 1
    /\ row' = "parked"
    /\ Leave
    /\ UNCHANGED <<bundleVars, carried>>

\* While the engine's promise is pending its caller may call cancel, park (a
\* shutdown or a host drain), pause and resume.
Engaged == pc \notin {"off", "returned"}

Cancel ==
    /\ Engaged /\ ~cancelled /\ cancelled' = TRUE
    /\ UNCHANGED <<bundleVars, mem, pc, at, result, todo, update, parked, paused, callerVars>>

Park ==
    /\ Engaged /\ ~parked /\ disruptions < MaxDisruptions
    /\ parked' = TRUE
    /\ disruptions' = disruptions + 1
    /\ UNCHANGED <<bundleVars, mem, pc, at, result, todo, update, cancelled, paused, row, carried>>

\* pause, resume
SetPause ==
    /\ Engaged /\ paused' = ~paused
    /\ UNCHANGED <<bundleVars, mem, pc, at, result, todo, update, cancelled, parked, callerVars>>

-----------------------------------------------------------------------------
\* What the engine does next, and its caller when the engine is done.
EngineStep ==
    \/ CreateBundle \/ Prepared \/ Unresumable \/ Conclude
    \/ AppendEvent \/ ReplaceState \/ Boundary \/ Held \/ Begin \/ Dispatch
    \/ Settled \/ Route \/ Return

UpdateStep == EncodeUpdate \/ EndUpdate

Next ==
    \/ Start \/ Resume \/ Close \/ Interrupt
    \/ AcceptInput \/ Refuse
    \/ EngineStep \/ NodeEnds
    \/ BeginUpdate \/ UpdateStep
    \/ Cancel \/ Park \/ SetPause \/ Crash

Spec == Init /\ [][Next]_vars

\* Writes and hooks end, and so does a title and a node, by their timeouts; a
\* claimable run is claimed again.  Nothing bounds the input function.
Fairness ==
    /\ WF_vars(EngineStep) /\ WF_vars(UpdateStep) /\ WF_vars(NodeEnds)
    /\ WF_vars(Start) /\ WF_vars(Resume) /\ WF_vars(Close)

FairSpec == Spec /\ Fairness

-----------------------------------------------------------------------------
(* Properties *)

\* Types; a bundle that has ended, as state.json tells, has no node in flight.
TypeOK ==
    LET State == [status : {"none", "running"} \union Terminal,
                  current : Nodes \union {NoNode}, paused : BOOLEAN,
                  steps : Seq(Step), results : [Nodes -> Results \union {"none"}]]
    IN  /\ disk \in State /\ mem \in State
        /\ disk.status # "running" => disk.current = NoNode
        /\ pc \in {"off", "input", "title", "prepare", "append", "project", "boundary",
                   "held", "begin", "dispatch", "node", "settled", "route", "conclude",
                   "returned"}
        /\ at \in Nodes \union Terminal \union {"error", NoNode}
        /\ result \in Results \union {"none"}
        /\ cancelled \in BOOLEAN /\ parked \in BOOLEAN /\ paused \in BOOLEAN
        /\ row \in {"ready", "claimed", "parked", "done"}
        /\ carried \in Carries
        /\ disruptions \in 0..MaxDisruptions

\* n comes after the first i of these steps: the edge of the last of them leads
\* there, and it is not a checkpoint that this run recorded.
Leads(steps, i, n) ==
    /\ n = Target(steps[i].node, steps[i].result)
    /\ i > Len(carried) => ~(IsOk(steps[i].result) /\ steps[i].node \in Checkpoints)

\* The recorded steps are a path of the graph from its start (or from the
\* answered checkpoint) however often the run was interrupted: no finished node
\* runs again, none is skipped, and no checkpoint of the run's own is passed.
PathIsLegal ==
    \A i \in DOMAIN disk.steps :
       IF i = 1 THEN disk.steps[i].node = StartAt
                ELSE Leads(disk.steps, i - 1, disk.steps[i].node)

\* A run that died between a node's own write and the record of its attempt may
\* have lost that attempt's result: the node runs again, or its result of an
\* earlier attempt is routed once more.
Relapses(steps, i, n) ==
    /\ steps[i].node \in Updaters
    /\ \/ n = steps[i].node
       \/ \E j \in 1..(i - 1) : steps[j].node = steps[i].node /\ n = Target(steps[j].node, steps[j].result)

\* The same for graphs with nodes that write to the bundle (agents do, by their
\* prompts and updates): only behind such a node may the path go astray, by a
\* repetition of the node or of what it led to before; every other node is
\* neither repeated nor skipped, and no checkpoint passed.
OnlyUpdatersRelapse ==
    \A i \in DOMAIN disk.steps :
       IF i = 1 THEN disk.steps[i].node = StartAt
       ELSE \/ Leads(disk.steps, i - 1, disk.steps[i].node)
            \/ Relapses(disk.steps, i - 1, disk.steps[i].node)

\* run-bundles.md: after a terminal status the bundle no longer changes, whoever
\* still holds the row.
TerminalIsFinal == [][disk.status \in Terminal => disk' = disk]_vars

\* The history only grows; a resume starts from all of it.
HistoryIsKept ==
    [][\A i \in DOMAIN disk.steps : i \in DOMAIN disk'.steps /\ disk'.steps[i] = disk.steps[i]]_vars

\* No node is dispatched when a park or cancel has reached the engine.
NoWorkAfterStop == [][(parked \/ cancelled) /\ pc # "node" => pc' # "node"]_vars

\* A cancelled or parked engine stops, whatever it was doing.
StopsWhenAsked == (cancelled \/ parked) /\ pc # "input" ~> pc = "off"

\* A run ends unless it is paused, its input function hangs, or no runner can
\* tell where it stopped.
RunEnds ==
    row # "ready" ~>
      row = "done" \/ paused \/ pc = "input"
      \/ (disk.status = "running" /\ ResumePoint(disk) = "error")

\* engine.ts on park: "Stop without a terminal event so another runner can claim
\* and resume the run."
ParkKeepsRunClaimable ==
    [][parked /\ disk.status = "running" /\ row' = "done" => disk'.status # "running"]_vars
=============================================================================
