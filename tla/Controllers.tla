---------------------------- MODULE Controllers ----------------------------
(* The controller runtime (src/controllers): one resource with its queue row, *)
(* the manager's workers that reconcile it, the external effect and the child *)
(* workflow of each generation. Keys share only the workers, so one key is    *)
(* enough. The reconciler itself is user code; it is the documented pattern   *)
(* (docs/CONTROLLERS.md): clean up when deleting, else ensure the child       *)
(* workflow, then the effect, and settle when both are final.                 *)
EXTENDS Integers, FiniteSets, Sequences

CONSTANTS ReconWorkers,  \* the manager's worker loops
          NoWorker,      \* an unclaimed row
          MaxGeneration, \* bound: spec changes per incarnation
          MaxUid,        \* bound: incarnations of the resource
          MaxWakes,      \* bound: enqueue calls without a change
          MaxMishaps     \* bound: crashes, stops, timeouts, stalls, provider failures

ASSUME ControllerAssumption ==
    /\ IsFiniteSet(ReconWorkers) /\ NoWorker \notin ReconWorkers
    /\ MaxGeneration \in Nat \ {0} /\ {MaxUid, MaxWakes, MaxMishaps} \subseteq Nat

VARIABLES
    resource,   \* the resources row (exists = FALSE: none)
    row,        \* the queue row (exists = FALSE: none); news: version # claim_version
    effect,     \* effect[g]: the effects row of generation g's key
    performed,  \* performed[g]: how often the provider did it (ghost)
    child,      \* child[g]: the workflow_requests row of generation g's key
    bundle,     \* bundle[g][r]: the run bundle of the request's run r
    engines,    \* engines[g]: the request's engines in the scheduler's map
    pass,       \* pass[w]: the reconciliation worker w waits for
    aborted,    \* reconciliations nobody waits for any more that go on
    up,         \* the manager is started
    wakes, mishaps,
    stalled,    \* a living worker has outlived its lease (ghost)
    overruled   \* an aborted pass has recorded a run as interrupted (ghost)

ctlVars == <<resource, row, effect, performed, child, bundle, engines, pass, aborted, up,
             wakes, mishaps, stalled, overruled>>

Generations == 1..MaxGeneration

NoResource == [exists |-> FALSE, uid |-> 0, version |-> 0, gen |-> 0, observed |-> 0,
               deleting |-> FALSE, finalizer |-> FALSE]
NoQueueRow == [exists |-> FALSE, due |-> FALSE, token |-> NoWorker, live |-> FALSE,
               news |-> FALSE]
NoChild == [state |-> "none", attempt |-> 0, run |-> 0]
NoPass == [pc |-> "idle", uid |-> 0, version |-> 0, gen |-> 0, deleting |-> FALSE,
           attempt |-> 0, run |-> 0, result |-> "none"]

\* What a resource's versions come to.
MaxVersion == 2 * (MaxGeneration + MaxMishaps + 1)

Awaiting == {"child", "read", "mark", "start", "record", "effect", "observe", "apply"}
\* Where an aborted pass goes on: nothing there looks at the signal.
Unstoppable == {"child", "read", "mark", "record", "effect", "apply"}
Reports == {"running", "succeeded", "failed", "interrupted"}

CtlTypeOK ==
    /\ resource \in [exists : BOOLEAN, uid : 0..MaxUid, version : 0..MaxVersion,
                     gen : 0..MaxGeneration, observed : 0..MaxGeneration,
                     deleting : BOOLEAN, finalizer : BOOLEAN]
    /\ row \in [exists : BOOLEAN, due : BOOLEAN, token : ReconWorkers \union {NoWorker},
                live : BOOLEAN, news : BOOLEAN]
    /\ row.exists => resource.exists
    /\ row.token # NoWorker => row.exists
    /\ row.live => row.token # NoWorker
    /\ effect \in [Generations -> {"none", "pending", "applied", "rejected", "indeterminate"}]
    /\ performed \in [Generations -> 0..Cardinality(ReconWorkers)]
    /\ child \in [Generations ->
                    [state : {"none", "pending"} \union Reports, attempt : Nat, run : Nat]]
    /\ bundle \in [Generations -> Seq({"none", "running", "completed", "failed", "interrupted"})]
    /\ engines \in [Generations -> SUBSET
                     [attempt : Nat, run : Nat, outcome : {"none", "completed", "failed"}]]
    /\ pass \in [ReconWorkers ->
                   [pc : {"idle", "load", "status", "finish"} \union Awaiting,
                    uid : 0..MaxUid, version : 0..MaxVersion, gen : 0..MaxGeneration,
                    deleting : BOOLEAN, attempt : Nat, run : Nat,
                    result : {"none", "settled", "again", "later", "delete"} \union Reports]]
    /\ aborted \subseteq [id : ReconWorkers \X Nat, gen : Generations, pc : Unstoppable,
                          attempt : Nat, run : Nat, result : {"none"} \union Reports]
    /\ up \in BOOLEAN /\ stalled \in BOOLEAN /\ overruled \in BOOLEAN
    /\ wakes \in 0..MaxWakes /\ mishaps \in 0..MaxMishaps

CtlInit ==
    /\ resource = NoResource
    /\ row = NoQueueRow
    /\ effect = [g \in Generations |-> "none"]
    /\ performed = [g \in Generations |-> 0]
    /\ child = [g \in Generations |-> NoChild]
    /\ bundle = [g \in Generations |-> <<>>]
    /\ engines = [g \in Generations |-> {}]
    /\ pass = [w \in ReconWorkers |-> NoPass]
    /\ aborted = {}
    /\ up = TRUE
    /\ wakes = 0 /\ mishaps = 0 /\ stalled = FALSE /\ overruled = FALSE

Mishap == mishaps < MaxMishaps /\ mishaps' = mishaps + 1

-----------------------------------------------------------------------------
(* The queue's statements, as the row they leave *)

\* enqueueRow: one row per key, due now; a claimed row's version moves on.
WokenRow ==
    [row EXCEPT !.exists = TRUE, !.due = TRUE, !.news = row.token # NoWorker]

\* Variant: a settled claim takes the row along, whatever arrived meanwhile.
SettledBlindly(w) ==
    IF row.token = w THEN NoQueueRow ELSE row

\* settleClaim: the row goes unless an event arrived after the claim.
SettledRow(w) ==
    IF row.token # w THEN row
    ELSE IF row.news THEN [NoQueueRow EXCEPT !.exists = TRUE, !.due = TRUE]
    ELSE NoQueueRow

\* Variant: the token is cleared and claim_expires_at is not.
RequeuedStillLive(w, now) ==
    IF row.token # w THEN row
    ELSE [row EXCEPT !.token = NoWorker, !.due = now \/ row.news]

\* requeueClaim: a later date holds only if no event arrived.
RequeuedRow(w, now) ==
    IF row.token # w THEN row
    ELSE [NoQueueRow EXCEPT !.exists = TRUE, !.due = now \/ row.news]

-----------------------------------------------------------------------------
(* Callers *)

\* putResource: a new resource, or a changed spec; both queue the key.
PutResource ==
    /\ IF resource.exists
       THEN /\ resource.gen < MaxGeneration
            /\ resource' = [resource EXCEPT !.version = @ + 1, !.gen = @ + 1]
       ELSE /\ resource.uid < MaxUid
            /\ resource' = [NoResource EXCEPT !.exists = TRUE, !.uid = resource.uid + 1,
                                              !.version = 1, !.gen = 1]
    /\ row' = WokenRow
    /\ UNCHANGED <<effect, performed, child, bundle, engines, pass, aborted, up, wakes, mishaps,
                   stalled, overruled>>

\* requestDeletion stamps once and queues the key.
RequestDeletion ==
    /\ resource.exists /\ ~resource.deleting
    /\ resource' = [resource EXCEPT !.deleting = TRUE, !.version = @ + 1]
    /\ row' = WokenRow
    /\ UNCHANGED <<effect, performed, child, bundle, engines, pass, aborted, up, wakes, mishaps,
                   stalled, overruled>>

\* enqueue: an external event is a wake-up hint.
Wake ==
    /\ resource.exists /\ wakes < MaxWakes
    /\ wakes' = wakes + 1
    /\ row' = WokenRow
    /\ UNCHANGED <<resource, effect, performed, child, bundle, engines, pass, aborted, up,
                   mishaps, stalled, overruled>>

-----------------------------------------------------------------------------
(* A pass: claim, load, reconcile, write the status, settle *)

At(w, pc) == up /\ pass[w].pc = pc
To(w, pc) == pass' = [pass EXCEPT ![w].pc = pc]
Learns(w, pc, result) == pass' = [pass EXCEPT ![w].pc = pc, ![w].result = result]
Result(w, result) == Learns(w, "status", result)

\* Variant: a claim is never taken over.
ClaimFreeRow(w) ==
    /\ At(w, "idle")
    /\ row.exists /\ row.due /\ row.token = NoWorker
    /\ row' = [row EXCEPT !.token = w, !.live = TRUE, !.news = FALSE]
    /\ To(w, "load")
    /\ UNCHANGED <<resource, effect, performed, child, bundle, engines, aborted, up, wakes,
                   mishaps, stalled, overruled>>

\* claimNext: a due row that is free or whose claim has run out.
ClaimNext(w) ==
    /\ At(w, "idle")
    /\ row.exists /\ row.due /\ ~row.live
    /\ row' = [row EXCEPT !.token = w, !.live = TRUE, !.news = FALSE]
    /\ To(w, "load")
    /\ UNCHANGED <<resource, effect, performed, child, bundle, engines, aborted, up, wakes,
                   mishaps, stalled, overruled>>

\* reconcileClaim reads the resource; a claim without a resource is settled.
Load(w) ==
    /\ At(w, "load")
    /\ IF resource.exists
       THEN /\ pass' = [pass EXCEPT ![w] =
                 [NoPass EXCEPT !.pc = IF resource.deleting THEN "status" ELSE "child",
                                !.uid = resource.uid, !.version = resource.version,
                                !.gen = resource.gen, !.deleting = resource.deleting,
                                !.result = IF resource.deleting THEN "settled" ELSE "none"]]
            /\ UNCHANGED row
       ELSE /\ row' = SettledRow(w)
            /\ pass' = [pass EXCEPT ![w] = NoPass]
    /\ UNCHANGED <<resource, effect, performed, child, bundle, engines, aborted, up, wakes,
                   mishaps, stalled, overruled>>

\* The rows of the resource that was loaded are gone with it (ON DELETE
\* CASCADE): the next statement throws and the pass fails.
Orphaned(w) == ~resource.exists \/ resource.uid # pass[w].uid

\* finishFailedClaim: back-off, then another pass.
Fail(w) ==
    /\ row' = RequeuedRow(w, FALSE)
    /\ pass' = [pass EXCEPT ![w] = NoPass]

PassFails(w) ==
    /\ up /\ pass[w].pc \in Awaiting /\ Orphaned(w)
    /\ Fail(w)
    /\ UNCHANGED <<resource, effect, performed, child, bundle, engines, aborted, up, wakes,
                   mishaps, stalled, overruled>>

-----------------------------------------------------------------------------
(* The child workflow: ControllerWorkflowCoordinator and the scheduler. An     *)
(* answer of "running" is recorded in the turn of the event loop that gave it; *)
(* every other one comes out of a read, and the pass may be aborted first.     *)

\* Variant: a request whose engine runs here is looked up in its bundle.
NoneActive(g) == {}

\* The scheduler looks the attempt up in its map before it reads the bundle.
ActiveHere(g) == {e \in engines[g] : e.attempt = child[g].attempt}

Answered(g, state, run) ==
    child' = [child EXCEPT ![g].state = state, ![g].run = run]

\* A new or interrupted request gets its next attempt and that attempt's run.
NewAttempt(g) ==
    /\ child' = [child EXCEPT ![g] = [state |-> "pending", attempt |-> @.attempt + 1,
                                     run |-> @.attempt + 1]]
    /\ bundle' = [bundle EXCEPT ![g] = Append(@, "none")]

\* The attempt and run the scheduler is asked for.
Asks(w, attempt, run) ==
    pass' = [pass EXCEPT ![w].pc = "read", ![w].attempt = attempt, ![w].run = run]

\* ensure: a final record is returned; the scheduler is asked for any other.
EnsureChild(w) ==
    LET g == pass[w].gen IN
    /\ At(w, "child") /\ ~Orphaned(w)
    /\ \/ /\ child[g].state = "succeeded"
          /\ To(w, "effect") /\ UNCHANGED <<child, bundle>>
       \/ /\ child[g].state = "failed"
          /\ Result(w, "settled") /\ UNCHANGED <<child, bundle>>
       \/ /\ child[g].state \in {"none", "interrupted"}
          /\ NewAttempt(g)
          /\ Asks(w, child[g].attempt + 1, child[g].attempt + 1)
       \/ /\ child[g].state \in {"pending", "running"}
          /\ \/ \E e \in ActiveHere(g) : Answered(g, "running", e.run) /\ Result(w, "later")
             \/ ActiveHere(g) = {} /\ Asks(w, child[g].attempt, child[g].run) /\ UNCHANGED child
          /\ UNCHANGED bundle
    /\ UNCHANGED <<resource, row, effect, performed, engines, aborted, up, wakes, mishaps,
                   stalled, overruled>>

\* resultFromStatus of a run that no longer says running.
Outcome(b) ==
    CASE b = "completed" -> "succeeded" [] b = "failed" -> "failed" [] OTHER -> "interrupted"

\* readRunBundle: no bundle, the run's outcome, or a run that says running.
Finds(b, pc, result) ==
    \/ b = "none" /\ pc = "start" /\ result = "none"
    \/ b = "running" /\ pc = "mark" /\ result = "none"
    \/ b \notin {"none", "running"} /\ pc = "record" /\ result = Outcome(b)

ReadChildBundle(w) ==
    LET p == pass[w] IN
    /\ At(w, "read") /\ ~Orphaned(w)
    /\ \E pc \in {"start", "mark", "record"}, result \in {"none"} \union Reports :
         Finds(bundle[p.gen][p.run], pc, result) /\ Learns(w, pc, result)
    /\ UNCHANGED <<resource, row, effect, performed, child, bundle, engines, aborted, up, wakes,
                   mishaps, stalled, overruled>>

\* markRunInterrupted: a run that has ended since is left alone if the look at
\* it comes in time; else the interruption is written, whatever the bundle says
\* by then. What is read back is another thing while an engine writes to it.
Marks(g, run, result) ==
    \/ /\ bundle[g][run] # "running" /\ result = Outcome(bundle[g][run])
       /\ UNCHANGED bundle
    \/ /\ \/ result = "interrupted"
          \/ /\ result \in {"failed", "running"}
             /\ \E e \in engines[g] : e.run = run /\ e.outcome = "none"
       /\ bundle' = [bundle EXCEPT ![g][run] = "interrupted"]

MarkChild(w) ==
    LET p == pass[w] IN
    /\ At(w, "mark") /\ ~Orphaned(w)
    /\ \E result \in Reports : Marks(p.gen, p.run, result) /\ Learns(w, "record", result)
    /\ UNCHANGED <<resource, row, effect, performed, child, engines, aborted, up, wakes,
                   mishaps, stalled, overruled>>

\* No bundle (an incomplete one is quarantined): the engine is started.
StartChild(w) ==
    LET p == pass[w] IN
    /\ At(w, "start") /\ ~Orphaned(w)
    /\ engines' = [engines EXCEPT ![p.gen] = @ \union
                     {[attempt |-> p.attempt, run |-> p.run, outcome |-> "none"]}]
    /\ Answered(p.gen, "running", p.run)
    /\ Result(w, "later")
    /\ UNCHANGED <<resource, row, effect, performed, bundle, aborted, up, wakes, mishaps,
                   stalled, overruled>>

\* The scheduler's answer is saved, whatever was saved meanwhile.
RecordChild(w) ==
    LET p == pass[w] IN
    /\ At(w, "record") /\ ~Orphaned(w)
    /\ Answered(p.gen, p.result, p.run)
    /\ \/ p.result = "succeeded" /\ To(w, "effect")
       \/ p.result = "failed" /\ Result(w, "settled")
       \/ p.result \in {"interrupted", "running"} /\ Result(w, "later")
    /\ UNCHANGED <<resource, row, effect, performed, bundle, engines, aborted, up, wakes,
                   mishaps, stalled, overruled>>

\* The child's engine, outside any pass: every write of it replaces the state
\* in the bundle, a marked one too.
ChildWrites(g, e) ==
    /\ up /\ e.outcome = "none" /\ bundle[g][e.run] \in {"none", "interrupted"}
    /\ bundle' = [bundle EXCEPT ![g][e.run] = "running"]
    /\ UNCHANGED <<resource, row, effect, performed, child, engines, pass, aborted, up, wakes,
                   mishaps, stalled, overruled>>

\* finishRun; or run throws, before there is a bundle.
ChildEnds(g, e) ==
    /\ up /\ e.outcome = "none"
    /\ \E outcome \in {"completed", "failed"} :
         /\ \/ bundle[g][e.run] = "none" /\ outcome = "failed" /\ UNCHANGED bundle
            \/ /\ bundle[g][e.run] # "none"
               /\ bundle' = [bundle EXCEPT ![g][e.run] = outcome]
         /\ engines' = [engines EXCEPT ![g] = (@ \ {e}) \union {[e EXCEPT !.outcome = outcome]}]
    /\ UNCHANGED <<resource, row, effect, performed, child, pass, aborted, up, wakes, mishaps,
                   stalled, overruled>>

\* complete: saves the engine's own outcome, queues the parent; the engine
\* leaves the map.
ChildCompletes(g, e) ==
    /\ up /\ e.outcome # "none"
    /\ Answered(g, Outcome(e.outcome), e.run)
    /\ row' = WokenRow
    /\ engines' = [engines EXCEPT ![g] = @ \ {e}]
    /\ UNCHANGED <<resource, effect, performed, bundle, pass, aborted, up, wakes, mishaps,
                   stalled, overruled>>

-----------------------------------------------------------------------------
(* The external effect: ControllerEffectService *)

Final(e) == e \in {"applied", "rejected"}

\* updateEffect: a final record does not change.
SaveEffect(w, g, state) ==
    IF Final(effect[g]) /\ effect[g] # state
    THEN Fail(w) /\ UNCHANGED effect
    ELSE /\ effect' = [effect EXCEPT ![g] = state]
         /\ Result(w, IF state = "rejected" THEN "settled"
                      ELSE IF state = "applied" THEN "again" ELSE "later")
         /\ UNCHANGED row

\* Variant: a reserved effect is applied without a look at the provider.
EnsureUnobserved(w) ==
    LET g == pass[w].gen IN
    /\ At(w, "effect") /\ ~Orphaned(w)
    /\ IF Final(effect[g])
       THEN Result(w, "settled") /\ UNCHANGED effect
       ELSE To(w, "apply") /\ effect' = [effect EXCEPT ![g] = "pending"]
    /\ UNCHANGED <<resource, row, performed, child, bundle, engines, aborted, up, wakes,
                   mishaps, stalled, overruled>>

\* ensure: reserved before the provider is called; an existing reservation is
\* observed first.
EnsureEffect(w) ==
    LET g == pass[w].gen IN
    /\ At(w, "effect") /\ ~Orphaned(w)
    /\ CASE Final(effect[g]) -> Result(w, "settled") /\ UNCHANGED effect
         [] effect[g] = "none" -> To(w, "apply") /\ effect' = [effect EXCEPT ![g] = "pending"]
         [] OTHER -> To(w, "observe") /\ UNCHANGED effect
    /\ UNCHANGED <<resource, row, performed, child, bundle, engines, aborted, up, wakes,
                   mishaps, stalled, overruled>>

\* observe and applyObservation, of a provider that answers truly or not at all.
ObserveEffect(w) ==
    LET g == pass[w].gen IN
    /\ At(w, "observe") /\ ~Orphaned(w)
    /\ IF performed[g] > 0 THEN SaveEffect(w, g, "applied")
       ELSE To(w, "apply") /\ UNCHANGED <<effect, row>>
    /\ UNCHANGED <<resource, performed, child, bundle, engines, aborted, up, wakes, mishaps,
                   stalled, overruled>>

ObserveUnknown(w) ==
    /\ At(w, "observe") /\ ~Orphaned(w) /\ Mishap
    /\ \/ SaveEffect(w, pass[w].gen, "indeterminate")
       \/ Fail(w) /\ UNCHANGED effect
    /\ UNCHANGED <<resource, performed, child, bundle, engines, aborted, up, wakes, stalled,
                   overruled>>

ApplyEffect(w) ==
    LET g == pass[w].gen IN
    /\ At(w, "apply") /\ ~Orphaned(w)
    /\ \/ SaveEffect(w, g, "applied") /\ performed' = [performed EXCEPT ![g] = @ + 1]
       \/ SaveEffect(w, g, "rejected") /\ UNCHANGED performed
    /\ UNCHANGED <<resource, child, bundle, engines, aborted, up, wakes, mishaps, stalled,
                   overruled>>

\* A call that is cut off took effect or did not.
CutCall(w) ==
    IF pass[w].pc = "apply" /\ ~Orphaned(w)
    THEN \E n \in {0, 1} : performed' = [performed EXCEPT ![pass[w].gen] = @ + n]
    ELSE UNCHANGED performed

\* apply throws: the answer was lost, or the call never arrived.
ApplyThrows(w) ==
    /\ At(w, "apply") /\ ~Orphaned(w) /\ Mishap
    /\ CutCall(w)
    /\ SaveEffect(w, pass[w].gen, "indeterminate")
    /\ UNCHANGED <<resource, child, bundle, engines, aborted, up, wakes, stalled, overruled>>

-----------------------------------------------------------------------------
(* The end of a pass *)

\* updateStatus compares the resource version that was loaded. A deleting
\* resource loses its finalizer, any other gains it.
WriteStatus(w) ==
    LET p == pass[w]
        fresh == [resource EXCEPT !.observed = p.gen, !.finalizer = ~p.deleting]
        written == IF fresh = resource THEN resource ELSE [fresh EXCEPT !.version = @ + 1]
    IN
    /\ At(w, "status")
    /\ CASE ~resource.exists -> Fail(w) /\ UNCHANGED resource
         [] resource.exists /\ resource.version # p.version ->
              /\ row' = RequeuedRow(w, TRUE)
              /\ pass' = [pass EXCEPT ![w] = NoPass]
              /\ UNCHANGED resource
         [] OTHER ->
              /\ resource' = written
              /\ pass' = [pass EXCEPT
                   ![w].pc = "finish", ![w].version = written.version,
                   ![w].result = IF @ = "settled" /\ written.deleting /\ ~written.finalizer
                                 THEN "delete" ELSE @]
              /\ UNCHANGED row
    /\ UNCHANGED <<effect, performed, child, bundle, engines, aborted, up, wakes, mishaps,
                   stalled, overruled>>

\* deleteResource takes the queue row, the effects and the requests along; an
\* engine that still runs for one of them has nobody to report to, and the next
\* statement of an aborted pass throws.
DeleteResource ==
    /\ resource' = [NoResource EXCEPT !.uid = resource.uid]
    /\ row' = NoQueueRow
    /\ effect' = [g \in Generations |-> "none"]
    /\ performed' = [g \in Generations |-> 0]
    /\ child' = [g \in Generations |-> NoChild]
    /\ bundle' = [g \in Generations |-> <<>>]
    /\ engines' = [g \in Generations |-> {}]
    /\ aborted' = {}

Finish(w) ==
    /\ At(w, "finish")
    /\ pass' = [pass EXCEPT ![w] = NoPass]
    /\ IF /\ pass[w].result = "delete" /\ resource.exists
          /\ resource.deleting /\ ~resource.finalizer /\ resource.version = pass[w].version
       THEN DeleteResource
       ELSE /\ row' = IF pass[w].result = "settled" THEN SettledRow(w)
                      ELSE RequeuedRow(w, pass[w].result \in {"again", "delete"})
            /\ UNCHANGED <<resource, effect, performed, child, bundle, engines, aborted>>
    /\ UNCHANGED <<up, wakes, mishaps, stalled, overruled>>

-----------------------------------------------------------------------------
(* What goes wrong *)

\* The manager stops waiting for a pass at its deadline, or when its claim is
\* lost: the worker takes another claim and the pass goes on by itself, until it
\* comes to a call that looks at the signal. A provider call ends with it.
Abort(w) ==
    LET p == pass[w] IN
    /\ up /\ p.pc \in Awaiting
    /\ CutCall(w) /\ Fail(w)
    /\ aborted' = aborted \union
         IF p.pc \in Unstoppable /\ ~Orphaned(w)
         THEN {[id |-> <<w, mishaps'>>, gen |-> p.gen, pc |-> p.pc, attempt |-> p.attempt,
                run |-> p.run, result |-> p.result]}
         ELSE {}
    /\ UNCHANGED <<resource, effect, child, bundle, engines, up, wakes, stalled, overruled>>

TimeOut(w) == Mishap /\ Abort(w)

ClaimIsLost(w) ==
    /\ ~(row.token = w /\ row.live)
    /\ UNCHANGED mishaps /\ Abort(w)

\* A lease runs out: of a process that is gone, or of one that stalled.
ClaimExpires ==
    /\ row.exists /\ row.live
    /\ IF up /\ pass[row.token].pc # "idle"
       THEN Mishap /\ stalled' = TRUE
       ELSE UNCHANGED <<mishaps, stalled>>
    /\ row' = [row EXCEPT !.live = FALSE]
    /\ UNCHANGED <<resource, effect, performed, child, bundle, engines, pass, aborted, up,
                   wakes, overruled>>

\* Time passes: a delayed row becomes due.
BecomeDue ==
    /\ row.exists /\ ~row.due
    /\ row' = [row EXCEPT !.due = TRUE]
    /\ UNCHANGED <<resource, effect, performed, child, bundle, engines, pass, aborted, up,
                   wakes, mishaps, stalled, overruled>>

\* The process ends, in order (stop aborts and requeues the passes) or not;
\* the engines of children and the aborted passes end with it.
EndManager ==
    /\ up /\ Mishap
    /\ up' = FALSE
    /\ row' \in {row} \union
         {RequeuedRow(w, FALSE) : w \in {v \in ReconWorkers : pass[v].pc # "idle"}}
    /\ \E cut \in SUBSET {w \in ReconWorkers : pass[w].pc = "apply" /\ ~Orphaned(w)} :
         performed' = [g \in Generations |->
                         performed[g] + Cardinality({w \in cut : pass[w].gen = g})]
    /\ pass' = [w \in ReconWorkers |-> NoPass]
    /\ engines' = [g \in Generations |-> {}]
    /\ aborted' = {}
    /\ UNCHANGED <<resource, effect, child, bundle, wakes, stalled, overruled>>

StartManager ==
    /\ ~up
    /\ up' = TRUE
    /\ UNCHANGED <<resource, row, effect, performed, child, bundle, engines, pass, aborted,
                   wakes, mishaps, stalled, overruled>>
-----------------------------------------------------------------------------
(* A pass after its abort. It has no claim, so it leaves the row and the       *)
(* resource alone; its answers to the reconciler end nowhere.                  *)

Goes(a, next) == aborted' = (aborted \ {a}) \union next
Leaves(a) == Goes(a, {})

\* The request is given its next attempt before the scheduler looks at the
\* signal.
LateEnsure(a) ==
    /\ up /\ a.pc = "child"
    /\ \/ /\ child[a.gen].state = "succeeded"
          /\ Goes(a, {[a EXCEPT !.pc = "effect"]}) /\ UNCHANGED <<child, bundle>>
       \/ /\ child[a.gen].state \in {"none", "interrupted"}
          /\ NewAttempt(a.gen) /\ Leaves(a)
       \/ /\ child[a.gen].state \in {"failed", "pending", "running"}
          /\ Leaves(a) /\ UNCHANGED <<child, bundle>>
    /\ UNCHANGED <<resource, row, effect, performed, engines, pass, up, wakes, mishaps, stalled,
                   overruled>>

\* Without a bundle it comes to the signal, and starts no engine.
LateRead(a) ==
    /\ up /\ a.pc = "read"
    /\ \/ bundle[a.gen][a.run] = "none" /\ Leaves(a)
       \/ \E pc \in {"mark", "record"}, result \in {"none"} \union Reports :
            /\ Finds(bundle[a.gen][a.run], pc, result)
            /\ Goes(a, {[a EXCEPT !.pc = pc, !.result = result]})
    /\ UNCHANGED <<resource, row, effect, performed, child, bundle, engines, pass, up, wakes,
                   mishaps, stalled, overruled>>

LateMark(a) ==
    /\ up /\ a.pc = "mark"
    /\ \E result \in Reports :
         /\ Marks(a.gen, a.run, result)
         /\ Goes(a, {[a EXCEPT !.pc = "record", !.result = result]})
    /\ UNCHANGED <<resource, row, effect, performed, child, engines, pass, up, wakes, mishaps,
                   stalled, overruled>>

\* Whatever attempt the request has by now.
LateRecord(a) ==
    /\ up /\ a.pc = "record"
    /\ Answered(a.gen, a.result, a.run)
    /\ Goes(a, IF a.result = "succeeded" THEN {[a EXCEPT !.pc = "effect"]} ELSE {})
    /\ overruled' = (overruled \/ a.result = "interrupted")
    /\ UNCHANGED <<resource, row, effect, performed, bundle, engines, pass, up, wakes, mishaps,
                   stalled>>

\* The effect is reserved; observe and apply are given an aborted signal.
LateEffect(a) ==
    /\ up /\ a.pc = "effect"
    /\ \/ /\ effect[a.gen] = "none"
          /\ effect' = [effect EXCEPT ![a.gen] = "pending"]
          /\ Goes(a, {[a EXCEPT !.pc = "apply"]})
       \/ effect[a.gen] # "none" /\ Leaves(a) /\ UNCHANGED effect
    /\ UNCHANGED <<resource, row, performed, child, bundle, engines, pass, up, wakes, mishaps,
                   stalled, overruled>>

LateApply(a) ==
    /\ up /\ a.pc = "apply"
    /\ effect' = [effect EXCEPT ![a.gen] = IF Final(@) THEN @ ELSE "indeterminate"]
    /\ Leaves(a)
    /\ UNCHANGED <<resource, row, performed, child, bundle, engines, pass, up, wakes, mishaps,
                   stalled, overruled>>

-----------------------------------------------------------------------------
PassNext(w) ==
    \/ ClaimNext(w) \/ Load(w) \/ PassFails(w) \/ EnsureChild(w) \/ ReadChildBundle(w)
    \/ MarkChild(w) \/ StartChild(w) \/ RecordChild(w) \/ EnsureEffect(w) \/ ObserveEffect(w)
    \/ ApplyEffect(w) \/ WriteStatus(w) \/ Finish(w) \/ ClaimIsLost(w)

ChildNext(g) == \E e \in engines[g] : ChildWrites(g, e) \/ ChildEnds(g, e) \/ ChildCompletes(g, e)

LateNext(a) ==
    \/ LateEnsure(a) \/ LateRead(a) \/ LateMark(a) \/ LateRecord(a) \/ LateEffect(a) \/ LateApply(a)

CtlNext ==
    \/ PutResource \/ RequestDeletion \/ Wake
    \/ \E w \in ReconWorkers : PassNext(w) \/ ObserveUnknown(w) \/ ApplyThrows(w) \/ TimeOut(w)
    \/ \E g \in Generations : ChildNext(g)
    \/ \E a \in aborted : LateNext(a)
    \/ ClaimExpires \/ BecomeDue \/ EndManager \/ StartManager

CtlSpec == CtlInit /\ [][CtlNext]_ctlVars

\* Some worker goes on, delays and leases pass, the host is started again; and
\* the engines of children go on.
ManagerGoesOn ==
    \/ \E w \in ReconWorkers : PassNext(w)
    \/ BecomeDue \/ StartManager
    \/ ClaimExpires /\ UNCHANGED stalled

ChildrenGoOn ==
    \E g \in Generations : \E e \in engines[g] : ChildEnds(g, e) \/ ChildCompletes(g, e)

-----------------------------------------------------------------------------
(* Properties *)

\* No change of a resource is lost: while the status does not cover the spec,
\* or a deletion is pending, the key is queued, whatever overtakes the pass
\* between its status write and its settleClaim. (Resource versions start again
\* with a new incarnation: a stalled pass of the old one can hit the new one.)
NoChangeLost ==
    /\ resource.exists /\ (resource.observed # resource.gen \/ resource.deleting)
    /\ ~stalled \/ resource.uid = 1
    => row.exists

\* As long as no pass outlives its lease, crashes, lost answers and deadlines
\* do not make the provider perform an effect twice: the reservation precedes
\* the call and a found reservation is observed first.
EffectOnce == ~stalled => \A g \in Generations : performed[g] <= 1

\* The scheduler never runs two engines of one child request at a time: a
\* request is started again only when its engine is known to be gone. What an
\* aborted pass records can belie that; nothing else does.
OneChildEngine ==
    ~stalled /\ ~overruled => \A g \in Generations : Cardinality(engines[g]) <= 1

\* Repeated reconciliations find the same active request, also when one of them
\* was aborted on the way.
OneEngineWhateverAborts ==
    ~stalled => \A g \in Generations : Cardinality(engines[g]) <= 1

\* However passes crash, stall, time out or are overtaken, the manager ends
\* with the resource deleted, or settled on its last spec and off the queue.
Converges ==
    <>[](\/ ~resource.exists
         \/ ~row.exists /\ ~resource.deleting /\ resource.observed = resource.gen)
=============================================================================
