------------------------- MODULE ControllersProofs -------------------------
(* What holds of the controller runtime for any number of workers, generations, *)
(* incarnations, wakes and mishaps: no change of a resource is lost, and as     *)
(* long as no pass outlives its lease, an effect is performed once and a child  *)
(* request has one engine, unless a pass that was aborted has recorded a run as *)
(* interrupted. The proof looks at a step twice: once as what it does to the    *)
(* resource, its queue row and the passes (QueueStep), once as what it does to  *)
(* the effect and the child of a generation. The last part bounds the versions  *)
(* by the changes and the mishaps so far, and the calls by the workers.         *)
EXTENDS Controllers, FiniteSetTheorems, SequenceTheorems, TLAPS

Past == Awaiting \union {"status"}
Loaded == Past \union {"finish"}
Onward == Past \ {"child"}

Results == {"none", "running", "succeeded", "failed", "interrupted", "settled", "again", "later",
            "delete"}
PassRecords == [pc : {"idle", "load"} \union Loaded, uid : Nat, version : Nat,
                gen : 0..MaxGeneration, deleting : BOOLEAN, attempt : Nat, run : Nat,
                result : Results]
ResourceRecords == [exists : BOOLEAN, uid : Nat, version : Nat, gen : 0..MaxGeneration,
                    observed : 0..MaxGeneration, deleting : BOOLEAN, finalizer : BOOLEAN]
QueueRows == [exists : BOOLEAN, due : BOOLEAN, token : ReconWorkers \union {NoWorker},
              live : BOOLEAN, news : BOOLEAN]
ChildRecords == [state : {"none", "pending"} \union Reports, attempt : Nat, run : Nat]
BundleStates == {"none", "running", "completed", "failed", "interrupted"}
EngineRecords == [attempt : Nat, run : Nat, outcome : {"none", "completed", "failed"}]
AbortedRecords == [id : ReconWorkers \X Nat, gen : Generations, pc : Unstoppable,
                   attempt : Nat, run : Nat, result : {"none"} \union Reports]

ResourceOK ==
    /\ resource \in ResourceRecords
    /\ resource.exists => resource.uid >= 1 /\ resource.gen \in Generations
RowOK ==
    /\ row \in QueueRows
    /\ row.exists => resource.exists
    /\ row.token # NoWorker => row.exists
    /\ row.live => row.token # NoWorker
\* A pass knows one of the incarnations so far; no pass outlives its process.
PassOK ==
    /\ pass \in [ReconWorkers -> PassRecords]
    /\ \A w \in ReconWorkers : pass[w].pc \in Loaded =>
         pass[w].gen \in Generations /\ pass[w].uid \in 1..resource.uid
    /\ up \in BOOLEAN /\ stalled \in BOOLEAN
    /\ ~up => \A w \in ReconWorkers : pass[w].pc = "idle"
\* A pass records what the scheduler can answer, aborted or not; engines are
\* those of a resource that exists.
EnginesOK ==
    /\ child \in [Generations -> ChildRecords]
    /\ bundle \in [Generations -> Seq(BundleStates)]
    /\ engines \in [Generations -> SUBSET EngineRecords]
    /\ \A g \in Generations : engines[g] # {} => resource.exists
    /\ \A w \in ReconWorkers :
         /\ pass[w].pc \in Awaiting => pass[w].result \in {"none"} \union Reports
         /\ pass[w].pc = "record" => pass[w].result \in Reports
    /\ aborted \subseteq AbortedRecords
    /\ \A a \in aborted : a.pc = "record" => a.result \in Reports
    /\ overruled \in BOOLEAN /\ mishaps \in Nat

Shape == ResourceOK /\ RowOK /\ PassOK /\ EnginesOK

\* A pass that loaded the resource at its present version knows its spec.
Known ==
    \A w \in ReconWorkers :
      pass[w].pc \in Past /\ resource.exists /\ pass[w].uid = resource.uid
      => /\ pass[w].version <= resource.version
         /\ pass[w].version = resource.version =>
              pass[w].gen = resource.gen /\ pass[w].deleting = resource.deleting

\* The claim that is about to be settled covers the resource: nothing is owed.
Unstalled == ~stalled \/ resource.uid = 1
Covered ==
    Unstalled => \A w \in ReconWorkers :
      /\ pass[w].pc = "finish" /\ pass[w].result = "settled"
      /\ row.token = w /\ ~row.news
      => resource.observed = resource.gen /\ ~resource.deleting

\* Until a pass outlives its lease, the worker that has the claim is the only
\* one at work, on the resource it loaded.
Alone ==
    \A w \in ReconWorkers :
      /\ pass[w].pc # "idle" => row.token = w /\ row.live
      /\ pass[w].pc \in Loaded => pass[w].uid = resource.uid

\* What has been performed was reserved before; the provider is asked about a
\* reserved effect, and called for one that was not performed.
EffectStates == {"none", "pending", "applied", "rejected", "indeterminate"}
EffectInv ==
    /\ effect \in [Generations -> EffectStates]
    /\ performed \in [Generations -> {0, 1}]
    /\ \A g \in Generations : performed[g] = 1 => effect[g] # "none"
    /\ \A w \in ReconWorkers :
         /\ pass[w].pc \in {"observe", "apply"} => effect[pass[w].gen] # "none"
         /\ pass[w].pc = "apply" => performed[pass[w].gen] = 0

\* A request has one engine, that of its attempt; a request that may get another
\* attempt, or is about to be started, has none.
ChildInv ==
    /\ \A g \in Generations :
         /\ \A e, f \in engines[g] : e = f
         /\ \A e \in engines[g] : e.attempt = child[g].attempt
         /\ child[g].state \in {"none", "interrupted"} => engines[g] = {}
    /\ \A w \in ReconWorkers :
         /\ pass[w].pc \in {"read", "mark", "start"} =>
              /\ engines[pass[w].gen] = {}
              /\ child[pass[w].gen].state \notin {"none", "interrupted"}
              /\ pass[w].attempt = child[pass[w].gen].attempt
         /\ pass[w].pc = "record" /\ pass[w].result = "interrupted" =>
              engines[pass[w].gen] = {}

QueueInv == Shape /\ Known /\ Covered /\ NoChangeLost /\ (~stalled => Alone)
CtlInv ==
    /\ QueueInv
    /\ ~stalled => EffectInv
    /\ ~stalled /\ ~overruled => ChildInv

-----------------------------------------------------------------------------
(* Rows and passes *)

LEMMA NoPassTypes == NoPass \in PassRecords /\ NoPass.pc = "idle"
  BY ControllerAssumption DEF NoPass, PassRecords, Results

LEMMA Rows ==
    ASSUME Shape, NEW w \in ReconWorkers, NEW now \in BOOLEAN
    PROVE  /\ WokenRow \in QueueRows /\ WokenRow.exists /\ WokenRow.token = row.token
           /\ WokenRow.live = row.live /\ (row.token # NoWorker => WokenRow.news)
           /\ RequeuedRow(w, now) \in QueueRows /\ (row.exists => RequeuedRow(w, now).exists)
           /\ row.token # w => RequeuedRow(w, now) = row /\ SettledRow(w) = row
           /\ row.token = w => /\ RequeuedRow(w, now).token = NoWorker /\ ~RequeuedRow(w, now).live
                               /\ SettledRow(w).token = NoWorker /\ ~SettledRow(w).live
                               /\ row.news => SettledRow(w).exists
           /\ SettledRow(w) \in QueueRows
  <1>1. row \in QueueRows /\ (row.token # NoWorker => row.exists) /\ NoWorker \notin ReconWorkers
    BY ControllerAssumption DEF Shape, RowOK
  <1>2. NoQueueRow \in QueueRows /\ NoQueueRow.token = NoWorker /\ ~NoQueueRow.live
    BY DEF NoQueueRow, QueueRows
  <1>3. /\ WokenRow \in QueueRows /\ WokenRow.exists /\ WokenRow.token = row.token
        /\ WokenRow.live = row.live /\ (row.token # NoWorker => WokenRow.news)
    BY <1>1 DEF WokenRow, QueueRows
  <1>4. CASE row.token # w
    BY <1>1, <1>3, <1>4 DEF RequeuedRow, SettledRow
  <1>5. CASE row.token = w
    <2>1. /\ RequeuedRow(w, now) \in QueueRows /\ RequeuedRow(w, now).exists
          /\ RequeuedRow(w, now).token = NoWorker /\ ~RequeuedRow(w, now).live
      BY <1>1, <1>2, <1>5 DEF RequeuedRow, QueueRows, NoQueueRow
    <2>2. /\ SettledRow(w) \in QueueRows /\ SettledRow(w).token = NoWorker /\ ~SettledRow(w).live
          /\ row.news => SettledRow(w).exists
      <3>1. CASE row.news
        BY <1>1, <1>2, <1>5, <3>1 DEF SettledRow, QueueRows, NoQueueRow
      <3>2. CASE ~row.news
        BY <1>1, <1>2, <1>5, <3>2 DEF SettledRow
      <3>q. QED
        BY <3>1, <3>2
    <2>q. QED
      BY <1>3, <1>5, <2>1, <2>2
  <1>q. QED
    BY <1>4, <1>5

-----------------------------------------------------------------------------
(* Steps, as the resource, its row and the passes see them *)

\* Each version a caller makes has a generation or the request to delete behind it.
One(b) == IF b THEN 1 ELSE 0
Changes == resource.gen + One(resource.deleting)
Grows ==
    \/ resource' = resource
    \/ resource.exists /\ resource'.version = resource.version + 1 /\ Changes' = Changes + 1
    \/ ~resource.exists /\ resource'.version = 1 /\ Changes' = 1

\* putResource, requestDeletion, enqueue and complete: the key is queued.
Queues ==
    /\ resource' \in ResourceRecords /\ resource'.exists
    /\ resource'.uid >= 1 /\ resource'.gen \in Generations
    /\ IF resource.exists
       THEN resource'.uid = resource.uid /\ (resource' = resource \/ resource'.version = resource.version + 1)
       ELSE resource'.uid = resource.uid + 1
    /\ Grows
    /\ row' = WokenRow
    /\ UNCHANGED <<pass, up, stalled>>

Claims(w) ==
    /\ up /\ pass[w].pc = "idle" /\ row.exists /\ ~row.live
    /\ row' = [row EXCEPT !.token = w, !.live = TRUE, !.news = FALSE]
    /\ pass' = [pass EXCEPT ![w].pc = "load"]
    /\ UNCHANGED <<resource, up, stalled>>

Loads(w) ==
    /\ up /\ pass[w].pc = "load" /\ resource.exists
    /\ pass' = [pass EXCEPT ![w] =
                 [NoPass EXCEPT !.pc = IF resource.deleting THEN "status" ELSE "child",
                                !.uid = resource.uid, !.version = resource.version,
                                !.gen = resource.gen, !.deleting = resource.deleting,
                                !.result = IF resource.deleting THEN "settled" ELSE "none"]]
    /\ UNCHANGED <<resource, row, up, stalled>>

\* A pass goes on to its next await.
Advances(w) ==
    /\ up /\ pass[w].pc \in Awaiting
    /\ pass' \in [ReconWorkers -> PassRecords]
    /\ \A v \in ReconWorkers \ {w} : pass'[v] = pass[v]
    /\ pass'[w].pc \in Onward
    /\ pass'[w].uid = pass[w].uid /\ pass'[w].version = pass[w].version
    /\ pass'[w].gen = pass[w].gen /\ pass'[w].deleting = pass[w].deleting
    /\ UNCHANGED <<resource, row, up, stalled>>

\* A pass ends; its claim, if it still has it, is requeued or, when it settled
\* the resource or found none, taken off the queue.
PassEnds(w) ==
    /\ up /\ pass[w].pc # "idle"
    /\ \/ \E now \in BOOLEAN : row' = RequeuedRow(w, now)
       \/ row' = SettledRow(w) /\ pass[w].pc = "finish" /\ pass[w].result = "settled"
       \/ UNCHANGED row /\ row.token # w
    /\ pass' = [pass EXCEPT ![w] = NoPass]
    /\ UNCHANGED <<resource, up, stalled>>

Deletes(w) ==
    /\ up /\ pass[w].pc = "finish" /\ resource.exists
    /\ resource' = [NoResource EXCEPT !.uid = resource.uid]
    /\ row' = NoQueueRow
    /\ pass' = [pass EXCEPT ![w] = NoPass]
    /\ UNCHANGED <<up, stalled>>

Writes(w) ==
    /\ up /\ pass[w].pc = "status" /\ resource.exists /\ resource.version = pass[w].version
    /\ resource' \in ResourceRecords
    /\ resource'.exists /\ resource'.uid = resource.uid /\ resource'.gen = resource.gen
    /\ resource'.deleting = resource.deleting
    /\ resource'.observed = pass[w].gen /\ resource'.finalizer = ~pass[w].deleting
    /\ \/ resource' = resource
       \/ /\ resource'.version = resource.version + 1
          /\ resource.observed # resource'.observed \/ resource.finalizer # resource'.finalizer
    /\ pass' \in [ReconWorkers -> PassRecords]
    /\ \A v \in ReconWorkers \ {w} : pass'[v] = pass[v]
    /\ pass'[w].pc = "finish" /\ pass'[w].uid = pass[w].uid /\ pass'[w].gen = pass[w].gen
    /\ pass'[w].version = resource'.version
    /\ resource'.deleting /\ ~resource'.finalizer => pass'[w].result # "settled"
    /\ UNCHANGED <<row, up, stalled>>

\* The row changes by itself: it becomes due, or the claim runs out, of a worker
\* that is idle unless the pass now counts as stalled.
Waits ==
    /\ row.exists
    /\ \/ row' = [row EXCEPT !.due = TRUE] /\ UNCHANGED stalled
       \/ /\ row' = [row EXCEPT !.live = FALSE] /\ row.live
          /\ \/ stalled' = TRUE /\ mishaps' = mishaps + 1
             \/ ~(up /\ pass[row.token].pc # "idle") /\ UNCHANGED stalled
    /\ UNCHANGED <<resource, pass, up>>

Restarts ==
    /\ \/ up /\ up' = FALSE
       \/ ~up /\ up' = TRUE
    /\ row' \in {row} \union {RequeuedRow(w, FALSE) : w \in ReconWorkers}
    /\ pass' = [w \in ReconWorkers |-> NoPass] \/ (~up /\ pass' = pass)
    /\ UNCHANGED <<resource, stalled>>

QueueStep ==
    \/ Queues \/ Waits \/ Restarts \/ UNCHANGED <<resource, row, pass, up, stalled>>
    \/ \E w \in ReconWorkers :
         \/ Claims(w) \/ Loads(w) \/ Advances(w) \/ PassEnds(w) \/ Deletes(w) \/ Writes(w)

LEMMA Moving ==
    ASSUME Shape, NEW w \in ReconWorkers, up, pass[w].pc \in Awaiting,
           UNCHANGED <<resource, row, up, stalled>>,
           \/ \E pc \in Onward : To(w, pc)
           \/ \E pc \in Onward, r \in Results : Learns(w, pc, r)
           \/ \E r \in Results : Result(w, r)
           \/ \E attempt, run \in Nat : Asks(w, attempt, run)
    PROVE  Advances(w)
  <1>1. pass \in [ReconWorkers -> PassRecords]
    BY DEF Shape, PassOK
  <1>2. ASSUME NEW pc \in Onward, NEW r \in Results,
               Learns(w, pc, r)
        PROVE  Advances(w)
    <2>1. pass' \in [ReconWorkers -> PassRecords]
      <3>1. [pass[w] EXCEPT !.pc = pc, !.result = r] \in PassRecords
        BY <1>1 DEF PassRecords, Loaded, Onward
      <3>2. pass' = [pass EXCEPT ![w] = [pass[w] EXCEPT !.pc = pc, !.result = r]]
        BY <1>2 DEF Learns
      <3>q. QED
        BY <1>1, <3>1, <3>2
    <2>2. /\ \A v \in ReconWorkers \ {w} : pass'[v] = pass[v]
          /\ pass'[w].pc \in Onward
          /\ pass'[w].uid = pass[w].uid /\ pass'[w].version = pass[w].version
          /\ pass'[w].gen = pass[w].gen /\ pass'[w].deleting = pass[w].deleting
      BY <1>1, <1>2 DEF Learns, PassRecords
    <2>q. QED
      BY <2>1, <2>2 DEF Advances
  <1>3. ASSUME NEW pc \in Onward, To(w, pc)  PROVE  Advances(w)
    <2>1. pass' \in [ReconWorkers -> PassRecords]
      BY <1>1, <1>3 DEF PassRecords, Loaded, Onward, To
    <2>2. /\ \A v \in ReconWorkers \ {w} : pass'[v] = pass[v]
          /\ pass'[w].pc \in Onward
          /\ pass'[w].uid = pass[w].uid /\ pass'[w].version = pass[w].version
          /\ pass'[w].gen = pass[w].gen /\ pass'[w].deleting = pass[w].deleting
      BY <1>1, <1>3 DEF PassRecords, To
    <2>q. QED
      BY <2>1, <2>2 DEF Advances
  <1>4. ASSUME NEW attempt \in Nat, NEW run \in Nat, Asks(w, attempt, run)
        PROVE  Advances(w)
    <2> DEFINE asks == [pass[w] EXCEPT !.pc = "read", !.attempt = attempt, !.run = run]
    <2>1. /\ asks \in PassRecords /\ asks.pc = "read"
          /\ asks.uid = pass[w].uid /\ asks.version = pass[w].version
          /\ asks.gen = pass[w].gen /\ asks.deleting = pass[w].deleting
      BY <1>1 DEF PassRecords, Loaded, Past, Awaiting
    <2>2. pass' = [pass EXCEPT ![w] = asks]
      BY <1>4 DEF Asks
    <2> HIDE DEF asks
    <2>3. "read" \in Onward
      BY DEF Onward, Past, Awaiting
    <2>q. QED
      BY <1>1, <2>1, <2>2, <2>3 DEF Advances
  <1>5. "status" \in Onward
    BY DEF Onward, Past
  <1>q. QED
    BY <1>2, <1>3, <1>4, <1>5 DEF Result

LEMMA Failing ==
    ASSUME Shape, NEW w \in ReconWorkers, up, pass[w].pc # "idle",
           UNCHANGED <<resource, up, stalled>>, Fail(w)
    PROVE  PassEnds(w)
  BY DEF Fail, PassEnds

LEMMA Saving ==
    ASSUME Shape, NEW w \in ReconWorkers, up, pass[w].pc \in Awaiting,
           UNCHANGED <<resource, up, stalled>>,
           NEW g, NEW state, SaveEffect(w, g, state)
    PROVE  Advances(w) \/ PassEnds(w)
  <1>1. CASE Final(effect[g]) /\ effect[g] # state
    <2>1. Fail(w)
      BY <1>1 DEF SaveEffect
    <2>q. QED
      BY <2>1, Failing DEF Awaiting
  <1>2. CASE ~(Final(effect[g]) /\ effect[g] # state)
    <2>1. UNCHANGED row /\ \E r \in Results : Result(w, r)
      BY <1>2 DEF SaveEffect, Results
    <2>q. QED
      BY <2>1, Moving
  <1>q. QED
    BY <1>1, <1>2

LEMMA CallersQueue ==
    ASSUME Shape,
           \/ PutResource \/ RequestDeletion \/ Wake
           \/ \E g \in Generations : \E e \in engines[g] : ChildCompletes(g, e)
    PROVE  Queues
  <1>1. resource \in ResourceRecords /\ (resource.exists => resource.uid >= 1 /\ resource.gen \in Generations)
    BY DEF Shape, ResourceOK
  <1>2. CASE PutResource
    <2>1. CASE resource.exists
      <3>1. resource' = [resource EXCEPT !.version = @ + 1, !.gen = @ + 1] /\ resource.gen < MaxGeneration
        BY <1>2, <2>1 DEF PutResource
      <3>2. resource' \in ResourceRecords /\ resource'.gen \in Generations
        <4>1. resource.gen \in Nat /\ resource.version \in Nat
          BY <1>1 DEF ResourceRecords
        <4>2. /\ resource.gen + 1 \in 0..MaxGeneration /\ resource.gen + 1 \in Generations
              /\ resource.version + 1 \in Nat
          BY <3>1, <4>1, ControllerAssumption DEF Generations
        <4>3. resource' \in ResourceRecords
          BY <1>1, <3>1, <4>2 DEF ResourceRecords
        <4>q. QED
          BY <1>1, <3>1, <4>2, <4>3 DEF ResourceRecords
      <3>3. /\ resource'.exists /\ resource'.uid = resource.uid /\ resource'.uid >= 1
            /\ resource'.version = resource.version + 1
        BY <1>1, <2>1, <3>1 DEF ResourceRecords
      <3>4. resource'.gen = resource.gen + 1 /\ resource'.deleting = resource.deleting
        BY <1>1, <3>1 DEF ResourceRecords
      <3>5. Grows
        BY <1>1, <2>1, <3>3, <3>4 DEF Grows, Changes, One, ResourceRecords
      <3>q. QED
        BY <1>2, <2>1, <3>2, <3>3, <3>5 DEF PutResource, Queues
    <2>2. CASE ~resource.exists
      <3>1. resource' = [NoResource EXCEPT !.exists = TRUE, !.uid = resource.uid + 1,
                                           !.version = 1, !.gen = 1]
            /\ resource.uid < MaxUid
        BY <1>2, <2>2 DEF PutResource
      <3>2. /\ 0 \in 0..MaxGeneration /\ 1 \in 0..MaxGeneration /\ 1 \in Generations
            /\ resource.uid \in Nat /\ resource.uid + 1 \in Nat
        BY <1>1, ControllerAssumption DEF Generations, ResourceRecords
      <3>3. resource' = [exists |-> TRUE, uid |-> resource.uid + 1, version |-> 1, gen |-> 1,
                         observed |-> 0, deleting |-> FALSE, finalizer |-> FALSE]
        BY <3>1 DEF NoResource
      <3>4. resource' \in ResourceRecords
        BY <3>2, <3>3 DEF ResourceRecords
      <3>5. /\ resource'.exists /\ resource'.uid = resource.uid + 1 /\ resource'.uid >= 1
            /\ resource'.gen \in Generations
        BY <3>2, <3>3
      <3>6. Grows
        BY <2>2, <3>3 DEF Grows, Changes, One
      <3>q. QED
        BY <1>2, <2>2, <3>4, <3>5, <3>6 DEF PutResource, Queues
    <2>q. QED
      BY <2>1, <2>2
  <1>3. CASE RequestDeletion
    <2>1. resource' = [resource EXCEPT !.deleting = TRUE, !.version = @ + 1] /\ resource.exists
          /\ ~resource.deleting
      BY <1>3 DEF RequestDeletion
    <2>2. resource.version + 1 \in Nat
      BY <1>1 DEF ResourceRecords
    <2>3. resource' \in ResourceRecords
      BY <1>1, <2>1, <2>2 DEF ResourceRecords
    <2>4. /\ resource'.exists /\ resource'.uid = resource.uid
          /\ resource'.version = resource.version + 1 /\ resource'.gen = resource.gen
          /\ resource'.deleting = TRUE
      BY <1>1, <2>1 DEF ResourceRecords
    <2>5. Grows
      BY <1>1, <2>1, <2>4 DEF Grows, Changes, One, ResourceRecords
    <2>q. QED
      BY <1>1, <1>3, <2>1, <2>3, <2>4, <2>5 DEF RequestDeletion, Queues
  <1>4. CASE Wake
    BY <1>1, <1>4 DEF Wake, Queues, Grows
  <1>5. ASSUME NEW g \in Generations, NEW e \in engines[g], ChildCompletes(g, e)  PROVE  Queues
    <2>2. resource.exists
      BY <1>5 DEF Shape, EnginesOK
    <2>q. QED
      BY <1>1, <1>5, <2>2 DEF ChildCompletes, Queues, Grows
  <1>q. QED
    BY <1>2, <1>3, <1>4, <1>5

LEMMA WritesOrEnds ==
    ASSUME Shape, NEW w \in ReconWorkers, WriteStatus(w)
    PROVE  Writes(w) \/ PassEnds(w)
  <1> DEFINE p == pass[w]
             fresh == [resource EXCEPT !.observed = p.gen, !.finalizer = ~p.deleting]
             written == IF fresh = resource THEN resource ELSE [fresh EXCEPT !.version = @ + 1]
  <1>1. up /\ p.pc = "status" /\ UNCHANGED <<up, stalled>>
    BY DEF WriteStatus, At
  <1>2. p \in PassRecords /\ resource \in ResourceRecords
    BY DEF Shape, PassOK, ResourceOK
  <1>3. CASE ~resource.exists
    <2>1. Fail(w) /\ UNCHANGED resource
      BY <1>3 DEF WriteStatus
    <2>q. QED
      BY <1>1, <2>1, Failing
  <1>4. CASE resource.exists /\ resource.version # p.version
    BY <1>1, <1>4 DEF WriteStatus, PassEnds
  <1>5. CASE resource.exists /\ resource.version = p.version
    <2>1. /\ resource' = written /\ UNCHANGED row
          /\ pass' = [pass EXCEPT
               ![w].pc = "finish", ![w].version = written.version,
               ![w].result = IF @ = "settled" /\ written.deleting /\ ~written.finalizer
                             THEN "delete" ELSE @]
      BY <1>5 DEF WriteStatus
    <2>2. /\ fresh \in ResourceRecords /\ fresh.exists /\ fresh.uid = resource.uid
          /\ fresh.gen = resource.gen /\ fresh.deleting = resource.deleting
          /\ fresh.observed = p.gen /\ fresh.finalizer = ~p.deleting
          /\ fresh.version = resource.version
      BY <1>2, <1>5 DEF ResourceRecords, PassRecords
    <2> HIDE DEF fresh, p
    <2>3. /\ written \in ResourceRecords
          /\ written.exists /\ written.uid = resource.uid /\ written.gen = resource.gen
          /\ written.deleting = resource.deleting
          /\ written.observed = p.gen /\ written.finalizer = ~p.deleting
          /\ \/ written = resource
             \/ /\ written.version = resource.version + 1
                /\ resource.observed # p.gen \/ resource.finalizer # ~p.deleting
      <3>1. CASE fresh = resource
        BY <2>2, <3>1
      <3>2. CASE fresh # resource
        <4>1. written = [fresh EXCEPT !.version = @ + 1] /\ fresh.version + 1 \in Nat
          BY <2>2, <3>2 DEF ResourceRecords
        <4>2. resource.observed # p.gen \/ resource.finalizer # ~p.deleting
          BY <1>2, <3>2 DEF fresh, ResourceRecords
        <4>q. QED
          BY <2>2, <4>1, <4>2 DEF ResourceRecords
      <3>q. QED
        BY <3>1, <3>2
    <2> HIDE DEF written
    <2>4. pass \in [ReconWorkers -> PassRecords] /\ written.version \in Nat
      BY <2>3 DEF Shape, PassOK, ResourceRecords
    <2>5. PICK r : r = IF p.result = "settled" /\ written.deleting /\ ~written.finalizer
                       THEN "delete" ELSE p.result
      OBVIOUS
    <2>6. r \in Results /\ (written.deleting /\ ~written.finalizer => r # "settled")
      BY <1>2, <2>5 DEF PassRecords, Results
    <2>7. pass' = [pass EXCEPT ![w].pc = "finish", ![w].version = written.version, ![w].result = r]
      BY <2>1, <2>4, <2>5 DEF p
    <2>8. pass' \in [ReconWorkers -> PassRecords]
      <3>1. [pass[w] EXCEPT !.pc = "finish", !.version = written.version, !.result = r] \in PassRecords
        BY <2>4, <2>6 DEF PassRecords, Loaded
      <3>q. QED
        BY <2>4, <2>7, <3>1
    <2>9. /\ \A v \in ReconWorkers \ {w} : pass'[v] = pass[v]
          /\ pass'[w].pc = "finish" /\ pass'[w].uid = pass[w].uid /\ pass'[w].gen = pass[w].gen
          /\ pass'[w].result = r /\ pass'[w].version = written.version
      BY <2>4, <2>7 DEF PassRecords
    <2>10. p = pass[w]
      BY DEF p
    <2>q. QED
      BY <1>1, <1>5, <2>1, <2>3, <2>6, <2>8, <2>9, <2>10 DEF Writes
  <1>q. QED
    BY <1>3, <1>4, <1>5

LEMMA FinishEnds ==
    ASSUME Shape, NEW w \in ReconWorkers, Finish(w)
    PROVE  Deletes(w) \/ PassEnds(w)
  <1>1. CASE /\ pass[w].result = "delete" /\ resource.exists
             /\ resource.deleting /\ ~resource.finalizer /\ resource.version = pass[w].version
    BY <1>1 DEF Finish, DeleteResource, Deletes, At
  <1>2. CASE ~(/\ pass[w].result = "delete" /\ resource.exists
               /\ resource.deleting /\ ~resource.finalizer /\ resource.version = pass[w].version)
    <2>1. /\ up /\ pass[w].pc = "finish" /\ pass' = [pass EXCEPT ![w] = NoPass]
          /\ UNCHANGED <<resource, up, stalled>>
      BY <1>2 DEF Finish, At
    <2>2. CASE pass[w].result = "settled"
      BY <1>2, <2>1, <2>2 DEF Finish, PassEnds
    <2>3. CASE pass[w].result # "settled"
      <3>1. row' = RequeuedRow(w, pass[w].result \in {"again", "delete"})
        BY <1>2, <2>3 DEF Finish
      <3>2. row' = RequeuedRow(w, TRUE) \/ row' = RequeuedRow(w, FALSE)
        BY <3>1 DEF RequeuedRow
      <3>3. TRUE \in BOOLEAN /\ FALSE \in BOOLEAN
        OBVIOUS
      <3>q. QED
        BY <2>1, <3>2, <3>3 DEF PassEnds
    <2>q. QED
      BY <2>2, <2>3
  <1>q. QED
    BY <1>1, <1>2

\* A pass that asks for its child goes on.
LEMMA AskingMoves ==
    ASSUME Shape, NEW w \in ReconWorkers,
           EnsureChild(w) \/ ReadChildBundle(w) \/ MarkChild(w) \/ StartChild(w) \/ RecordChild(w)
    PROVE  Advances(w)
  <1>1. Awaiting \ {"child"} \subseteq Onward /\ {"none"} \union Reports \subseteq Results
        /\ "effect" \in Onward /\ "settled" \in Results /\ "later" \in Results
    BY DEF Awaiting, Past, Onward, Reports, Results
  <1>2. /\ up /\ pass[w].pc \in Awaiting /\ UNCHANGED <<resource, row, up, stalled>>
    BY DEF EnsureChild, ReadChildBundle, MarkChild, StartChild, RecordChild, At, Awaiting
  <1>3. CASE EnsureChild(w)
    <2>1. child[pass[w].gen].attempt \in Nat /\ child[pass[w].gen].run \in Nat
      BY <1>2 DEF Shape, PassOK, EnginesOK, ChildRecords, Loaded, Past
    <2>2. child[pass[w].gen].attempt + 1 \in Nat
      BY <2>1
    <2>3. To(w, "effect") \/ Result(w, "settled") \/ Result(w, "later")
          \/ \E attempt, run \in Nat : Asks(w, attempt, run)
      BY <1>3, <2>1, <2>2 DEF EnsureChild
    <2>q. QED
      BY <1>1, <1>2, <2>3, Moving
  <1>4. CASE ReadChildBundle(w)
    <2>1. \E pc \in {"start", "mark", "record"}, r \in {"none"} \union Reports : Learns(w, pc, r)
      BY <1>4 DEF ReadChildBundle
    <2>2. {"start", "mark", "record"} \subseteq Onward
      BY DEF Onward, Past, Awaiting
    <2>q. QED
      BY <1>1, <1>2, <2>1, <2>2, Moving
  <1>5. CASE MarkChild(w)
    <2>1. \E r \in Reports : Learns(w, "record", r)
      BY <1>5 DEF MarkChild
    <2>2. "record" \in Onward
      BY DEF Onward, Past, Awaiting
    <2>q. QED
      BY <1>1, <1>2, <2>1, <2>2, Moving
  <1>6. CASE StartChild(w) \/ RecordChild(w)
    <2>1. To(w, "effect") \/ Result(w, "settled") \/ Result(w, "later")
      BY <1>6 DEF StartChild, RecordChild
    <2>q. QED
      BY <1>1, <1>2, <2>1, Moving
  <1>q. QED
    BY <1>3, <1>4, <1>5, <1>6

\* What a worker's step is to the queue.
LEMMA WorkerSteps ==
    ASSUME Shape, NEW w \in ReconWorkers,
           PassNext(w) \/ ObserveUnknown(w) \/ ApplyThrows(w) \/ TimeOut(w)
    PROVE  QueueStep
  <1>1. {"effect", "observe", "apply"} \subseteq Awaiting /\ Awaiting \ {"child"} \subseteq Onward
    BY DEF Awaiting, Past, Onward
  <1>2. CASE ClaimNext(w)
    BY <1>2 DEF ClaimNext, At, To, Claims, QueueStep
  <1>3. CASE Load(w)
    <2>1. CASE resource.exists
      BY <1>3, <2>1 DEF Load, At, Loads, QueueStep
    <2>2. CASE ~resource.exists
      <3>1. row.token # w
        BY <2>2, ControllerAssumption DEF Shape, RowOK
      <3>2. row' = row
        BY <1>3, <2>2, <3>1 DEF Load, SettledRow
      <3>q. QED
        BY <1>3, <2>2, <3>1, <3>2 DEF Load, At, PassEnds, QueueStep
    <2>q. QED
      BY <2>1, <2>2
  <1>4. CASE PassFails(w) \/ ClaimIsLost(w) \/ TimeOut(w)
    BY <1>4, Failing DEF PassFails, ClaimIsLost, TimeOut, Abort, Awaiting, QueueStep
  <1>5. CASE EnsureChild(w) \/ ReadChildBundle(w) \/ MarkChild(w) \/ StartChild(w) \/ RecordChild(w)
    BY <1>5, AskingMoves DEF QueueStep
  <1>6. CASE EnsureEffect(w)
    <2>1. /\ up /\ pass[w].pc \in Awaiting /\ UNCHANGED <<resource, row, up, stalled>>
      BY <1>6 DEF EnsureEffect, At, Awaiting
    <2>2. To(w, "apply") \/ To(w, "observe") \/ \E r \in Results : Result(w, r)
      BY <1>6 DEF EnsureEffect, Results
    <2>q. QED
      BY <1>1, <2>1, <2>2, Moving DEF QueueStep
  <1>7. CASE ObserveEffect(w) \/ ObserveUnknown(w) \/ ApplyEffect(w) \/ ApplyThrows(w)
    <2>1. /\ up /\ pass[w].pc \in Awaiting /\ UNCHANGED <<resource, up, stalled>>
      BY <1>7 DEF ObserveEffect, ObserveUnknown, ApplyEffect, ApplyThrows, At, Awaiting
    <2>2. \/ \E g, state : SaveEffect(w, g, state)
          \/ Fail(w)
          \/ To(w, "apply") /\ UNCHANGED row
      BY <1>7 DEF ObserveEffect, ObserveUnknown, ApplyEffect, ApplyThrows
    <2>3. pass[w].pc # "idle"
      BY <2>1 DEF Awaiting
    <2>q. QED
      BY <1>1, <2>1, <2>2, <2>3, Moving, Failing, Saving DEF QueueStep
  <1>8. CASE WriteStatus(w)
    BY <1>8, WritesOrEnds DEF QueueStep
  <1>9. CASE Finish(w)
    BY <1>9, FinishEnds DEF QueueStep
  <1>q. QED
    BY <1>2, <1>3, <1>4, <1>5, <1>6, <1>7, <1>8, <1>9 DEF PassNext

\* An aborted pass has no claim: it leaves the queue and the resource alone.
LEMMA LatesRest ==
    ASSUME NEW a, LateNext(a)
    PROVE  UNCHANGED <<resource, row, performed, engines, pass, up, wakes, mishaps, stalled>>
  <1>1. CASE LateEnsure(a)
    BY <1>1 DEF LateEnsure
  <1>2. CASE LateRead(a) \/ LateMark(a) \/ LateRecord(a)
    BY <1>2 DEF LateRead, LateMark, LateRecord
  <1>3. CASE LateEffect(a) \/ LateApply(a)
    BY <1>3 DEF LateEffect, LateApply
  <1>q. QED
    BY <1>1, <1>2, <1>3 DEF LateNext

LEMMA QueueSteps == Shape /\ [CtlNext]_ctlVars => QueueStep
  <1> SUFFICES ASSUME Shape, [CtlNext]_ctlVars  PROVE  QueueStep
    OBVIOUS
  <1>1. CASE \/ PutResource \/ RequestDeletion \/ Wake
             \/ \E g \in Generations : \E e \in engines[g] : ChildCompletes(g, e)
    BY <1>1, CallersQueue DEF QueueStep
  <1>2. CASE \E w \in ReconWorkers : PassNext(w) \/ ObserveUnknown(w) \/ ApplyThrows(w) \/ TimeOut(w)
    BY <1>2, WorkerSteps
  <1>3. CASE \/ \E g \in Generations : \E e \in engines[g] : ChildWrites(g, e) \/ ChildEnds(g, e)
             \/ \E a \in aborted : LateNext(a)
    <2>1. ASSUME NEW a \in aborted, LateNext(a)  PROVE  UNCHANGED <<resource, row, pass, up, stalled>>
      BY <2>1, LatesRest
    <2>q. QED
      BY <1>3, <2>1 DEF ChildWrites, ChildEnds, QueueStep
  <1>4. CASE ClaimExpires \/ BecomeDue
    BY <1>4 DEF ClaimExpires, Mishap, BecomeDue, Waits, QueueStep
  <1>5. CASE EndManager
    BY <1>5 DEF EndManager, Restarts, QueueStep
  <1>6. CASE StartManager
    BY <1>6 DEF StartManager, Restarts, QueueStep
  <1>7. CASE UNCHANGED ctlVars
    BY <1>7 DEF ctlVars, QueueStep
  <1>q. QED
    BY <1>1, <1>2, <1>3, <1>4, <1>5, <1>6, <1>7 DEF CtlNext, ChildNext

-----------------------------------------------------------------------------
(* The queue, the resource and the passes *)

\* A pass that has ended knows nothing.
LEMMA Ending ==
    ASSUME PassOK, NEW w \in ReconWorkers, pass' = [pass EXCEPT ![w] = NoPass],
           UNCHANGED <<up, stalled>>, resource'.uid = resource.uid
    PROVE  /\ PassOK' /\ pass'[w].pc = "idle"
           /\ \A v \in ReconWorkers \ {w} : pass'[v] = pass[v]
  <1>1. pass' \in [ReconWorkers -> PassRecords]
    BY NoPassTypes DEF PassOK
  <1>2. pass'[w] = NoPass /\ \A v \in ReconWorkers \ {w} : pass'[v] = pass[v]
    BY DEF PassOK
  <1>3. "idle" \notin Loaded
    BY DEF Loaded, Past, Awaiting
  <1>q. QED
    BY <1>1, <1>2, <1>3, NoPassTypes DEF PassOK

LEMMA QueueTypes ==
    ASSUME Shape, QueueStep
    PROVE  ResourceOK' /\ RowOK' /\ PassOK'
  <1>0. ResourceOK /\ RowOK /\ PassOK /\ NoWorker \notin ReconWorkers
    BY ControllerAssumption DEF Shape
  <1>1. CASE Queues
    <2>1. ResourceOK'
      BY <1>1 DEF Queues, ResourceOK
    <2>2. RowOK'
      <3>1. WokenRow \in QueueRows /\ WokenRow.exists /\ WokenRow.token = row.token
            /\ WokenRow.live = row.live
        BY <1>0 DEF WokenRow, QueueRows, RowOK
      <3>q. QED
        BY <1>0, <1>1, <3>1 DEF Queues, RowOK
    <2>3. PassOK'
      <3>1. resource.uid \in Nat /\ resource'.uid \in Nat /\ resource.uid <= resource'.uid
        BY <1>0, <1>1 DEF Queues, ResourceOK, ResourceRecords
      <3>q. QED
        BY <1>0, <1>1, <3>1 DEF Queues, PassOK
    <2>q. QED
      BY <2>1, <2>2, <2>3
  <1>2. CASE Waits
    <2>1. row' \in QueueRows
      BY <1>0, <1>2 DEF Waits, RowOK, QueueRows
    <2>2. row'.exists = row.exists /\ row'.token = row.token /\ (row'.live => row.live)
      BY <1>0, <1>2 DEF Waits, RowOK, QueueRows
    <2>q. QED
      BY <1>0, <1>2, <2>1, <2>2 DEF Waits, ResourceOK, RowOK, PassOK
  <1>3. CASE Restarts
    <2>1. PassOK'
      <3>1. CASE pass' = [w \in ReconWorkers |-> NoPass]
        <4>1. pass' \in [ReconWorkers -> PassRecords] /\ \A w \in ReconWorkers : pass'[w].pc = "idle"
          BY <3>1, NoPassTypes
        <4>2. "idle" \notin Loaded
          BY DEF Loaded, Past, Awaiting
        <4>q. QED
          BY <1>0, <1>3, <4>1, <4>2 DEF Restarts, PassOK
      <3>2. CASE ~up /\ pass' = pass
        BY <1>0, <1>3, <3>2 DEF Restarts, PassOK
      <3>q. QED
        BY <1>3, <3>1, <3>2 DEF Restarts
    <2>2. RowOK'
      <3>1. CASE row' = row
        BY <1>0, <1>3, <3>1 DEF Restarts, RowOK
      <3>2. ASSUME NEW w \in ReconWorkers, row' = RequeuedRow(w, FALSE)
            PROVE  RowOK'
        <4>1. /\ row' \in QueueRows /\ (row.token # w => row' = row)
              /\ row.token = w => row'.token = NoWorker /\ ~row'.live
          BY <3>2, Rows
        <4>q. QED
          BY <1>0, <1>3, <4>1 DEF Restarts, RowOK
      <3>q. QED
        BY <1>3, <3>1, <3>2 DEF Restarts
    <2>3. ResourceOK'
      BY <1>0, <1>3 DEF Restarts, ResourceOK
    <2>q. QED
      BY <2>1, <2>2, <2>3
  <1>4. ASSUME NEW w \in ReconWorkers, Claims(w)  PROVE  ResourceOK' /\ RowOK' /\ PassOK'
    <2>1. row' \in QueueRows /\ row'.exists /\ row'.token = w
      BY <1>0, <1>4 DEF Claims, RowOK, QueueRows
    <2>2. pass' \in [ReconWorkers -> PassRecords] /\ pass'[w].pc = "load"
          /\ \A v \in ReconWorkers \ {w} : pass'[v] = pass[v]
      BY <1>0, <1>4 DEF Claims, PassOK, PassRecords
    <2>3. "load" \notin Loaded
      BY DEF Loaded, Past, Awaiting
    <2>4. PassOK'
      BY <1>0, <1>4, <2>2, <2>3 DEF Claims, PassOK
    <2>q. QED
      BY <1>0, <1>4, <2>1, <2>4 DEF Claims, ResourceOK, RowOK
  <1>5. ASSUME NEW w \in ReconWorkers, Loads(w)  PROVE  ResourceOK' /\ RowOK' /\ PassOK'
    <2> DEFINE new == [NoPass EXCEPT !.pc = IF resource.deleting THEN "status" ELSE "child",
                                !.uid = resource.uid, !.version = resource.version,
                                !.gen = resource.gen, !.deleting = resource.deleting,
                                !.result = IF resource.deleting THEN "settled" ELSE "none"]
    <2>1. resource \in ResourceRecords /\ resource.uid >= 1 /\ resource.gen \in Generations
      BY <1>0, <1>5 DEF Loads, ResourceOK
    <2>2. new \in PassRecords /\ new.gen = resource.gen /\ new.uid = resource.uid /\ new.pc # "idle"
      BY <2>1 DEF NoPass, PassRecords, ResourceRecords, Results, Loaded, Past, Awaiting
    <2> HIDE DEF new
    <2>3. pass' = [pass EXCEPT ![w] = new]
      BY <1>5 DEF Loads, new
    <2>4. pass' \in [ReconWorkers -> PassRecords] /\ pass'[w] = new
          /\ \A v \in ReconWorkers \ {w} : pass'[v] = pass[v]
      BY <1>0, <2>2, <2>3 DEF PassOK
    <2>5. resource.uid \in 1..resource.uid
      BY <2>1 DEF ResourceRecords
    <2>6. PassOK'
      BY <1>0, <1>5, <2>1, <2>2, <2>4, <2>5 DEF PassOK, Loads
    <2>q. QED
      BY <1>0, <1>5, <2>6 DEF Loads, ResourceOK, RowOK
  <1>6. ASSUME NEW w \in ReconWorkers, Advances(w)  PROVE  ResourceOK' /\ RowOK' /\ PassOK'
    <2>1. PassOK'
      BY <1>0, <1>6 DEF PassOK, Advances, Loaded, Onward, Past
    <2>q. QED
      BY <1>0, <1>6, <2>1 DEF Advances, ResourceOK, RowOK
  <1>7. ASSUME NEW w \in ReconWorkers, PassEnds(w)  PROVE  ResourceOK' /\ RowOK' /\ PassOK'
    <2>1. PassOK'
      BY <1>0, <1>7, Ending DEF PassEnds
    <2>2. RowOK'
      <3>1. /\ row' \in QueueRows /\ (row.token # w => row' = row)
            /\ row.token = w => row'.token = NoWorker /\ ~row'.live
        <4>1. CASE UNCHANGED row /\ row.token # w
          BY <1>0, <4>1 DEF RowOK
        <4>2. ASSUME NEW now \in BOOLEAN, row' = RequeuedRow(w, now)
              PROVE  /\ row' \in QueueRows /\ (row.token # w => row' = row)
                     /\ row.token = w => row'.token = NoWorker /\ ~row'.live
          BY <4>2, Rows
        <4>3. CASE row' = SettledRow(w)
          BY <4>3, Rows
        <4>q. QED
          BY <1>7, <4>1, <4>2, <4>3 DEF PassEnds
      <3>q. QED
        BY <1>0, <1>7, <3>1 DEF PassEnds, RowOK
    <2>q. QED
      BY <1>0, <1>7, <2>1, <2>2 DEF PassEnds, ResourceOK
  <1>8. ASSUME NEW w \in ReconWorkers, Deletes(w)  PROVE  ResourceOK' /\ RowOK' /\ PassOK'
    <2>1. resource' \in ResourceRecords /\ ~resource'.exists /\ resource'.uid = resource.uid
      <3>1. 0 \in 0..MaxGeneration /\ 0 \in Nat
        BY ControllerAssumption
      <3>2. resource' = [exists |-> FALSE, uid |-> resource.uid, version |-> 0, gen |-> 0,
                         observed |-> 0, deleting |-> FALSE, finalizer |-> FALSE]
        BY <1>8 DEF Deletes, NoResource
      <3>3. resource.uid \in Nat
        BY <1>0 DEF ResourceOK, ResourceRecords
      <3>q. QED
        BY <3>1, <3>2, <3>3 DEF ResourceRecords
    <2>2. row' \in QueueRows /\ ~row'.exists /\ row'.token = NoWorker /\ ~row'.live
      BY <1>8 DEF Deletes, NoQueueRow, QueueRows
    <2>3. PassOK'
      BY <1>0, <1>8, <2>1, Ending DEF Deletes
    <2>q. QED
      BY <2>1, <2>2, <2>3 DEF ResourceOK, RowOK
  <1>9. ASSUME NEW w \in ReconWorkers, Writes(w)  PROVE  ResourceOK' /\ RowOK' /\ PassOK'
    <2>1. PassOK'
      BY <1>0, <1>9 DEF PassOK, Writes, Loaded, Past
    <2>q. QED
      BY <1>0, <1>9, <2>1 DEF Writes, ResourceOK, RowOK
  <1>10. CASE UNCHANGED <<resource, row, pass, up, stalled>>
    BY <1>0, <1>10 DEF ResourceOK, RowOK, PassOK
  <1>q. QED
    BY <1>1, <1>2, <1>3, <1>4, <1>5, <1>6, <1>7, <1>8, <1>9, <1>10 DEF QueueStep

LEMMA StalledStays == ASSUME Shape, QueueStep, ~stalled'  PROVE ~stalled
  BY DEF QueueStep, Queues, Waits, Restarts, Claims, Loads, Advances, PassEnds, Deletes, Writes

\* Only the worker that has the claim is at work, until a pass has stalled.
LEMMA AloneKept ==
    ASSUME Shape, QueueStep, ~stalled', Alone
    PROVE  Alone'
  <1>0. /\ resource \in ResourceRecords /\ row \in QueueRows /\ NoWorker \notin ReconWorkers
        /\ pass \in [ReconWorkers -> PassRecords] /\ (row.exists => resource.exists)
        /\ (row.token # NoWorker => row.exists) /\ up \in BOOLEAN
        /\ ~up => \A w \in ReconWorkers : pass[w].pc = "idle"
        /\ "idle" \notin Loaded /\ "load" \notin Loaded
    BY ControllerAssumption DEF Shape, ResourceOK, RowOK, PassOK, Loaded, Past, Awaiting
  <1>a. \A v \in ReconWorkers : pass[v].pc # "idle" => row.token = v /\ row.live /\ resource.exists
    BY <1>0 DEF Alone
  <1>1. CASE Queues
    <2>1. WokenRow.token = row.token /\ WokenRow.live = row.live
      BY <1>0 DEF WokenRow, QueueRows
    <2>2. ASSUME NEW v \in ReconWorkers, pass[v].pc \in Loaded  PROVE resource'.uid = pass[v].uid
      BY <1>0, <1>a, <1>1, <2>2 DEF Alone, Queues
    <2>q. QED
      BY <1>1, <2>1, <2>2 DEF Alone, Queues
  <1>2. CASE Waits
    <2>1. CASE row' = [row EXCEPT !.due = TRUE]
      BY <1>0, <1>2, <2>1 DEF Waits, Alone, QueueRows
    <2>2. CASE row' = [row EXCEPT !.live = FALSE] /\ ~(up /\ pass[row.token].pc # "idle")
      BY <1>0, <1>2, <1>a, <2>2 DEF Waits, Alone
    <2>q. QED
      BY <1>2, <2>1, <2>2 DEF Waits
  <1>3. CASE Restarts
    <2>1. \A w \in ReconWorkers : pass'[w].pc = "idle"
      BY <1>0, <1>3, NoPassTypes DEF Restarts
    <2>q. QED
      BY <1>0, <2>1 DEF Alone
  <1>4. ASSUME NEW w \in ReconWorkers, Claims(w)  PROVE  Alone'
    <2>1. \A v \in ReconWorkers : pass[v].pc = "idle"
      BY <1>a, <1>4 DEF Claims
    <2>2. pass'[w].pc = "load" /\ \A v \in ReconWorkers \ {w} : pass'[v] = pass[v]
      BY <1>0, <1>4 DEF Claims, PassRecords
    <2>3. row'.token = w /\ row'.live
      BY <1>0, <1>4 DEF Claims, QueueRows
    <2>q. QED
      BY <1>0, <2>1, <2>2, <2>3 DEF Alone
  <1>5. ASSUME NEW w \in ReconWorkers, Loads(w)  PROVE  Alone'
    <2>1. pass'[w].uid = resource.uid /\ \A v \in ReconWorkers \ {w} : pass'[v] = pass[v]
      BY <1>0, <1>5 DEF Loads, NoPass
    <2>2. pass[w].pc # "idle"
      BY <1>5 DEF Loads
    <2>3. UNCHANGED <<resource, row>>
      BY <1>5 DEF Loads
    <2>q. QED
      BY <2>1, <2>2, <2>3 DEF Alone
  <1>6. ASSUME NEW w \in ReconWorkers, Advances(w)  PROVE  Alone'
    <2>1. pass[w].pc # "idle" /\ pass[w].pc \in Loaded /\ pass'[w].uid = pass[w].uid
          /\ UNCHANGED <<resource, row>> /\ \A v \in ReconWorkers \ {w} : pass'[v] = pass[v]
      BY <1>6 DEF Advances, Awaiting, Loaded, Past
    <2>q. QED
      BY <2>1 DEF Alone
  <1>7. ASSUME NEW w \in ReconWorkers, PassEnds(w) \/ Deletes(w)  PROVE  Alone'
    <2>1. pass[w].pc # "idle" /\ resource'.uid = resource.uid
      BY <1>0, <1>7 DEF PassEnds, Deletes, NoResource
    <2>2. \A v \in ReconWorkers \ {w} : pass[v].pc = "idle"
      BY <1>a, <2>1
    <2>3. pass'[w].pc = "idle" /\ \A v \in ReconWorkers \ {w} : pass'[v] = pass[v]
      BY <1>0, <1>7, NoPassTypes DEF PassEnds, Deletes
    <2>q. QED
      BY <1>0, <2>2, <2>3 DEF Alone
  <1>8. ASSUME NEW w \in ReconWorkers, Writes(w)  PROVE  Alone'
    <2>1. pass[w].pc # "idle" /\ pass[w].pc \in Loaded /\ pass'[w].uid = pass[w].uid
          /\ UNCHANGED row /\ resource'.uid = resource.uid
          /\ \A v \in ReconWorkers \ {w} : pass'[v] = pass[v]
      BY <1>8 DEF Writes, Loaded, Past
    <2>q. QED
      BY <2>1 DEF Alone
  <1>9. CASE UNCHANGED <<resource, row, pass, up, stalled>>
    BY <1>9 DEF Alone
  <1>q. QED
    BY <1>1, <1>2, <1>3, <1>4, <1>5, <1>6, <1>7, <1>8, <1>9 DEF QueueStep

\* What a pass knows stays true of the version it loaded.
LEMMA KnownKept ==
    ASSUME Shape, QueueStep, Known
    PROVE  Known'
  <1>0. /\ resource \in ResourceRecords /\ pass \in [ReconWorkers -> PassRecords]
        /\ "idle" \notin Past /\ "load" \notin Past /\ "finish" \notin Past
        /\ \A w \in ReconWorkers : pass[w].pc \in Past => pass[w].uid \in 1..resource.uid
    BY DEF Shape, ResourceOK, PassOK, Loaded, Past, Awaiting
  <1>n. resource.uid \in Nat /\ resource.version \in Nat
        /\ \A w \in ReconWorkers : pass[w].uid \in Nat /\ pass[w].version \in Nat
    BY <1>0 DEF ResourceRecords, PassRecords
  <1>1. CASE Queues
    <2> SUFFICES ASSUME NEW w \in ReconWorkers, pass[w].pc \in Past, pass[w].uid = resource'.uid
                 PROVE  /\ pass[w].version <= resource'.version
                        /\ pass[w].version = resource'.version =>
                             pass[w].gen = resource'.gen /\ pass[w].deleting = resource'.deleting
      BY <1>1 DEF Queues, Known
    <2>1. resource.exists
      BY <1>0, <1>1, <1>n DEF Queues
    <2>2. resource' = resource \/ resource'.version = resource.version + 1
      BY <1>1, <2>1 DEF Queues
    <2>3. pass[w].version <= resource.version
      BY <1>1, <2>1 DEF Queues, Known
    <2>4. CASE resource' = resource
      BY <2>1, <2>4 DEF Known
    <2>5. CASE resource'.version = resource.version + 1
      BY <1>n, <2>3, <2>5
    <2>q. QED
      BY <2>2, <2>4, <2>5
  <1>2. CASE Waits
    BY <1>2 DEF Waits, Known
  <1>3. CASE Restarts
    <2>1. UNCHANGED pass \/ \A w \in ReconWorkers : pass'[w].pc = "idle"
      BY <1>3, NoPassTypes DEF Restarts
    <2>q. QED
      BY <1>0, <1>3, <2>1 DEF Restarts, Known
  <1>4. ASSUME NEW w \in ReconWorkers, Claims(w)  PROVE  Known'
    <2>1. pass'[w].pc = "load" /\ UNCHANGED resource /\ \A v \in ReconWorkers \ {w} : pass'[v] = pass[v]
      BY <1>0, <1>4 DEF Claims, PassRecords
    <2>q. QED
      BY <1>0, <2>1 DEF Known
  <1>5. ASSUME NEW w \in ReconWorkers, Loads(w)  PROVE  Known'
    <2>1. /\ pass'[w].version = resource.version /\ pass'[w].gen = resource.gen
          /\ pass'[w].deleting = resource.deleting
          /\ \A v \in ReconWorkers \ {w} : pass'[v] = pass[v]
          /\ UNCHANGED resource
      BY <1>0, <1>5 DEF Loads, NoPass
    <2>q. QED
      BY <1>n, <2>1 DEF Known
  <1>6. ASSUME NEW w \in ReconWorkers, Advances(w)  PROVE  Known'
    <2>1. /\ pass[w].pc \in Past /\ pass'[w].uid = pass[w].uid /\ pass'[w].version = pass[w].version
          /\ pass'[w].gen = pass[w].gen /\ pass'[w].deleting = pass[w].deleting
          /\ \A v \in ReconWorkers \ {w} : pass'[v] = pass[v]
          /\ UNCHANGED resource
      BY <1>6 DEF Advances, Past
    <2>q. QED
      BY <2>1 DEF Known
  <1>7. ASSUME NEW w \in ReconWorkers, PassEnds(w) \/ Deletes(w)  PROVE  Known'
    <2>1. /\ pass'[w].pc = "idle" /\ \A v \in ReconWorkers \ {w} : pass'[v] = pass[v]
          /\ UNCHANGED resource \/ ~resource'.exists
      BY <1>0, <1>7, NoPassTypes DEF PassEnds, Deletes, NoResource
    <2>q. QED
      BY <1>0, <2>1 DEF Known
  <1>8. ASSUME NEW w \in ReconWorkers, Writes(w)  PROVE  Known'
    <2>1. /\ pass'[w].pc = "finish" /\ \A v \in ReconWorkers \ {w} : pass'[v] = pass[v]
          /\ resource.exists /\ resource'.uid = resource.uid /\ resource'.gen = resource.gen
          /\ resource'.deleting = resource.deleting
          /\ resource' = resource \/ resource'.version = resource.version + 1
      BY <1>8 DEF Writes
    <2> SUFFICES ASSUME NEW v \in ReconWorkers \ {w}, pass[v].pc \in Past, pass[v].uid = resource.uid
                 PROVE  /\ pass[v].version <= resource'.version
                        /\ pass[v].version = resource'.version =>
                             pass[v].gen = resource.gen /\ pass[v].deleting = resource.deleting
      BY <1>0, <2>1 DEF Known
    <2>2. /\ pass[v].version <= resource.version
          /\ pass[v].version = resource.version =>
               pass[v].gen = resource.gen /\ pass[v].deleting = resource.deleting
      BY <2>1 DEF Known
    <2>q. QED
      BY <1>n, <2>1, <2>2
  <1>9. CASE UNCHANGED <<resource, row, pass, up, stalled>>
    BY <1>9 DEF Known
  <1>q. QED
    BY <1>1, <1>2, <1>3, <1>4, <1>5, <1>6, <1>7, <1>8, <1>9 DEF QueueStep

\* The claim is settled only when the status covers the resource, so nothing
\* that happened meanwhile is taken off the queue with it.
LEMMA NothingOwedIsLost ==
    ASSUME Shape, QueueStep, Known, Covered, NoChangeLost, ~stalled => Alone
    PROVE  Covered' /\ NoChangeLost'
  <1>0. /\ resource \in ResourceRecords /\ row \in QueueRows /\ NoWorker \notin ReconWorkers
        /\ pass \in [ReconWorkers -> PassRecords] /\ (row.exists => resource.exists)
        /\ (row.token # NoWorker => row.exists) /\ stalled \in BOOLEAN
        /\ \A w \in ReconWorkers : pass[w].pc \in Loaded => pass[w].uid \in 1..resource.uid
        /\ ~up => \A w \in ReconWorkers : pass[w].pc = "idle"
        /\ "finish" \notin Onward
    BY ControllerAssumption DEF Shape, ResourceOK, RowOK, PassOK, Onward, Past, Awaiting
  <1>1. CASE Queues
    <2>1. WokenRow.exists /\ WokenRow.token = row.token /\ (row.token # NoWorker => WokenRow.news)
      BY <1>0 DEF WokenRow, QueueRows
    <2>q. QED
      BY <1>0, <1>1, <2>1 DEF Queues, Covered, NoChangeLost
  <1>2. CASE Waits
    <2>1. row'.exists /\ row'.token = row.token /\ row'.news = row.news
      BY <1>0, <1>2 DEF Waits, QueueRows
    <2>2. UNCHANGED <<resource, pass>> /\ (Unstalled' => Unstalled)
      BY <1>0, <1>2 DEF Waits, Unstalled
    <2>q. QED
      BY <2>1, <2>2 DEF Covered, NoChangeLost
  <1>3. CASE Restarts
    <2>1. \A w \in ReconWorkers : pass'[w].pc = "idle"
      BY <1>0, <1>3, NoPassTypes DEF Restarts
    <2>2. row.exists => row'.exists
      BY <1>3, Rows DEF Restarts
    <2>3. UNCHANGED <<resource, stalled>>
      BY <1>3 DEF Restarts
    <2>q. QED
      BY <2>1, <2>2, <2>3 DEF Covered, NoChangeLost
  <1>4. ASSUME NEW w \in ReconWorkers, Claims(w)  PROVE  Covered' /\ NoChangeLost'
    <2>1. row'.exists /\ row'.token = w /\ pass'[w].pc = "load"
      BY <1>0, <1>4 DEF Claims, QueueRows, PassRecords
    <2>q. QED
      BY <2>1 DEF Covered, NoChangeLost
  <1>5. ASSUME NEW w \in ReconWorkers, Loads(w) \/ Advances(w)  PROVE  Covered' /\ NoChangeLost'
    <2>1. /\ pass'[w].pc # "finish" /\ UNCHANGED <<resource, row, stalled>>
          /\ \A v \in ReconWorkers \ {w} : pass'[v] = pass[v]
      <3>1. CASE Loads(w)
        BY <1>0, <3>1 DEF Loads, NoPass
      <3>2. CASE Advances(w)
        BY <1>0, <3>2 DEF Advances
      <3>q. QED
        BY <1>5, <3>1, <3>2
    <2>2. Covered'
      BY <2>1 DEF Covered, Unstalled
    <2>3. NoChangeLost'
      BY <2>1 DEF NoChangeLost
    <2>q. QED
      BY <2>2, <2>3
  <1>6. ASSUME NEW w \in ReconWorkers, PassEnds(w)  PROVE  Covered' /\ NoChangeLost'
    <2>1. /\ pass'[w].pc = "idle" /\ \A v \in ReconWorkers \ {w} : pass'[v] = pass[v]
          /\ UNCHANGED <<resource, stalled>>
      BY <1>0, <1>6, NoPassTypes DEF PassEnds
    <2>2. /\ row.token # w => row' = row
          /\ row.token = w => row'.token = NoWorker
      <3>1. CASE UNCHANGED row /\ row.token # w
        BY <3>1
      <3>2. ASSUME NEW now \in BOOLEAN, row' = RequeuedRow(w, now)
            PROVE  (row.token # w => row' = row) /\ (row.token = w => row'.token = NoWorker)
        BY <3>2, Rows
      <3>3. CASE row' = SettledRow(w)
        BY <3>3, Rows
      <3>q. QED
        BY <1>6, <3>1, <3>2, <3>3 DEF PassEnds
    <2>3. Covered'
      BY <1>0, <2>1, <2>2 DEF Covered, Unstalled
    <2>4. /\ row.exists => \/ row'.exists
                           \/ /\ pass[w].pc = "finish" /\ pass[w].result = "settled"
                              /\ row.token = w /\ ~row.news
      <3>1. CASE UNCHANGED row
        BY <3>1
      <3>2. ASSUME NEW now \in BOOLEAN, row' = RequeuedRow(w, now)
            PROVE  row.exists => row'.exists
        BY <3>2, Rows
      <3>3. CASE row' = SettledRow(w) /\ pass[w].pc = "finish" /\ pass[w].result = "settled"
        <4>1. row.token # w => row' = row
          BY <3>3, Rows
        <4>2. row.token = w /\ row.news => row'.exists
          BY <3>3, Rows
        <4>q. QED
          BY <3>3, <4>1, <4>2
      <3>q. QED
        BY <1>6, <3>1, <3>2, <3>3 DEF PassEnds
    <2>5. NoChangeLost'
      BY <2>1, <2>4 DEF NoChangeLost, Covered, Unstalled
    <2>q. QED
      BY <2>3, <2>5
  <1>7. ASSUME NEW w \in ReconWorkers, Deletes(w)  PROVE  Covered' /\ NoChangeLost'
    <2>1. ~resource'.exists /\ row'.token = NoWorker
      BY <1>7 DEF Deletes, NoResource, NoQueueRow
    <2>q. QED
      BY <1>0, <2>1 DEF Covered, NoChangeLost
  <1>8. ASSUME NEW w \in ReconWorkers, Writes(w)  PROVE  Covered' /\ NoChangeLost'
    <2>1. /\ pass[w].pc \in Past /\ resource.exists /\ resource.version = pass[w].version
          /\ pass'[w].pc = "finish" /\ \A v \in ReconWorkers \ {w} : pass'[v] = pass[v]
          /\ resource'.exists /\ resource'.uid = resource.uid /\ resource'.gen = resource.gen
          /\ resource'.deleting = resource.deleting
          /\ resource'.observed = pass[w].gen /\ resource'.finalizer = ~pass[w].deleting
          /\ resource'.deleting /\ ~resource'.finalizer => pass'[w].result # "settled"
          /\ UNCHANGED <<row, stalled>>
      BY <1>8 DEF Writes, Past
    <2>2. SUFFICES ASSUME Unstalled
                   PROVE  Covered' /\ NoChangeLost'
      BY <2>1 DEF Unstalled, Covered, NoChangeLost
    <2>3. pass[w].uid = resource.uid
      <3>1. CASE ~stalled
        BY <2>1, <3>1 DEF Alone, Loaded
      <3>2. CASE resource.uid = 1
        BY <1>0, <2>1, <3>2 DEF Loaded
      <3>q. QED
        BY <2>2, <3>1, <3>2 DEF Unstalled
    <2>4. pass[w].gen = resource.gen /\ pass[w].deleting = resource.deleting
      BY <2>1, <2>3 DEF Known
    <2>5. resource'.observed = resource'.gen /\ (resource'.deleting => pass'[w].result # "settled")
      BY <2>1, <2>4
    <2>6. Covered'
      BY <2>1, <2>2, <2>5 DEF Covered, Unstalled
    <2>7. NoChangeLost'
      BY <2>1, <2>2, <2>5 DEF NoChangeLost, Unstalled
    <2>q. QED
      BY <2>6, <2>7
  <1>9. CASE UNCHANGED <<resource, row, pass, up, stalled>>
    BY <1>9 DEF Covered, NoChangeLost, Unstalled
  <1>q. QED
    BY <1>1, <1>2, <1>3, <1>4, <1>5, <1>6, <1>7, <1>8, <1>9 DEF QueueStep

-----------------------------------------------------------------------------
(* The effect *)

\* The worker at work has the queue's claim, so the others rest.
LEMMA OthersRest ==
    ASSUME Alone, NEW w \in ReconWorkers, pass[w].pc # "idle"
    PROVE  \A v \in ReconWorkers \ {w} : pass[v].pc = "idle"
  BY DEF Alone

LEMMA CallsKept ==
    ASSUME EffectInv, UNCHANGED <<effect, performed>>,
           \A v \in ReconWorkers : pass'[v].pc \in {"observe", "apply"} => pass'[v] = pass[v]
    PROVE  EffectInv'
  BY DEF EffectInv

\* The passes that a move of w leaves alone, and where it takes w.
LEMMA Moved ==
    ASSUME PassOK, NEW w \in ReconWorkers
    PROVE  /\ \A pc : To(w, pc) => /\ pass'[w].pc = pc /\ pass'[w].gen = pass[w].gen
                                   /\ pass'[w].result = pass[w].result
                                   /\ \A v \in ReconWorkers \ {w} : pass'[v] = pass[v]
           /\ \A pc, r : Learns(w, pc, r) =>
                /\ pass'[w].pc = pc /\ pass'[w].gen = pass[w].gen /\ pass'[w].result = r
                /\ pass'[w].attempt = pass[w].attempt
                /\ \A v \in ReconWorkers \ {w} : pass'[v] = pass[v]
           /\ \A attempt, run : Asks(w, attempt, run) =>
                /\ pass'[w].pc = "read" /\ pass'[w].gen = pass[w].gen /\ pass'[w].attempt = attempt
                /\ pass'[w].result = pass[w].result
                /\ \A v \in ReconWorkers \ {w} : pass'[v] = pass[v]
           /\ \A r : Result(w, r) => /\ pass'[w].pc = "status"
                                     /\ \A v \in ReconWorkers \ {w} : pass'[v] = pass[v]
           /\ Fail(w) => /\ pass'[w].pc = "idle"
                         /\ \A v \in ReconWorkers \ {w} : pass'[v] = pass[v]
  <1>0. pass \in [ReconWorkers -> PassRecords]
    BY DEF PassOK
  <1>1. ASSUME NEW pc, To(w, pc)
        PROVE  /\ pass'[w].pc = pc /\ pass'[w].gen = pass[w].gen /\ pass'[w].result = pass[w].result
               /\ \A v \in ReconWorkers \ {w} : pass'[v] = pass[v]
    BY <1>0, <1>1 DEF To, PassRecords
  <1>2. ASSUME NEW pc, NEW r, Learns(w, pc, r)
        PROVE  /\ pass'[w].pc = pc /\ pass'[w].gen = pass[w].gen /\ pass'[w].result = r
               /\ pass'[w].attempt = pass[w].attempt
               /\ \A v \in ReconWorkers \ {w} : pass'[v] = pass[v]
    BY <1>0, <1>2 DEF Learns, PassRecords
  <1>3. ASSUME NEW attempt, NEW run, Asks(w, attempt, run)
        PROVE  /\ pass'[w].pc = "read" /\ pass'[w].gen = pass[w].gen /\ pass'[w].attempt = attempt
               /\ pass'[w].result = pass[w].result
               /\ \A v \in ReconWorkers \ {w} : pass'[v] = pass[v]
    BY <1>0, <1>3 DEF Asks, PassRecords
  <1>4. ASSUME NEW r, Result(w, r)
        PROVE  pass'[w].pc = "status" /\ \A v \in ReconWorkers \ {w} : pass'[v] = pass[v]
    BY <1>2, <1>4 DEF Result
  <1>5. ASSUME Fail(w)
        PROVE  pass'[w].pc = "idle" /\ \A v \in ReconWorkers \ {w} : pass'[v] = pass[v]
    BY <1>0, <1>5, NoPassTypes DEF Fail
  <1>q. QED
    BY <1>1, <1>2, <1>3, <1>4, <1>5

LEMMA SavingEffect ==
    ASSUME PassOK, EffectInv, NEW w \in ReconWorkers, NEW g \in Generations,
           NEW state \in EffectStates \ {"none"},
           \A v \in ReconWorkers \ {w} : pass[v].pc = "idle",
           SaveEffect(w, g, state)
    PROVE  /\ effect' \in [Generations -> EffectStates] /\ effect'[g] # "none"
           /\ \A h \in Generations \ {g} : effect'[h] = effect[h]
           /\ \A v \in ReconWorkers : pass'[v].pc \notin {"observe", "apply"}
  <1>1. CASE Final(effect[g]) /\ effect[g] # state
    <2>1. Fail(w) /\ UNCHANGED effect
      BY <1>1 DEF SaveEffect
    <2>q. QED
      BY <1>1, <2>1, Moved DEF EffectInv, Final
  <1>2. CASE ~(Final(effect[g]) /\ effect[g] # state)
    <2>1. effect' = [effect EXCEPT ![g] = state] /\ \E r : Result(w, r)
      BY <1>2 DEF SaveEffect
    <2>2. \A v \in ReconWorkers : pass'[v].pc \notin {"observe", "apply"}
      BY <2>1, Moved
    <2>q. QED
      BY <2>1, <2>2 DEF EffectInv
  <1>q. QED
    BY <1>1, <1>2

\* A call that is cut off is one of the effect that was not performed yet.
LEMMA Cutting ==
    ASSUME PassOK, EffectInv, NEW w \in ReconWorkers, CutCall(w)
    PROVE  /\ performed' \in [Generations -> {0, 1}]
           /\ \A g \in Generations : performed'[g] # performed[g] => effect[g] # "none"
           /\ \A g \in Generations : (pass[w].pc = "apply" => pass[w].gen # g) => performed'[g] = performed[g]
  <1>1. CASE pass[w].pc = "apply" /\ ~Orphaned(w)
    <2>1. PICK n \in {0, 1} : performed' = [performed EXCEPT ![pass[w].gen] = @ + n]
      BY <1>1 DEF CutCall
    <2>2. /\ pass[w].gen \in Generations /\ performed[pass[w].gen] = 0
          /\ effect[pass[w].gen] # "none"
      BY <1>1 DEF EffectInv, PassOK, Loaded, Past, Awaiting
    <2>q. QED
      BY <1>1, <2>1, <2>2 DEF EffectInv
  <1>2. CASE ~(pass[w].pc = "apply" /\ ~Orphaned(w))
    BY <1>2 DEF CutCall, EffectInv
  <1>q. QED
    BY <1>1, <1>2

LEMMA EffectWorkerStep ==
    ASSUME Shape, Alone, EffectInv, NEW w \in ReconWorkers,
           \/ EnsureEffect(w) \/ ObserveEffect(w) \/ ObserveUnknown(w) \/ ApplyEffect(w)
           \/ ApplyThrows(w) \/ TimeOut(w) \/ ClaimIsLost(w)
    PROVE  EffectInv'
  <1> DEFINE g == pass[w].gen
  <1>0. PassOK
    BY DEF Shape
  <1>1. pass[w].pc \in Awaiting
    BY DEF EnsureEffect, ObserveEffect, ObserveUnknown, ApplyEffect, ApplyThrows, TimeOut, ClaimIsLost,
           Abort, At, Awaiting
  <1>2. g \in Generations /\ \A v \in ReconWorkers \ {w} : pass[v].pc = "idle"
    BY <1>0, <1>1, OthersRest DEF PassOK, Loaded, Past, Awaiting
  <1>3. CASE EnsureEffect(w)
    <2>1. CASE Final(effect[g])
      <3>1. UNCHANGED <<effect, performed>> /\ Result(w, "settled")
        BY <1>3, <2>1 DEF EnsureEffect, Final
      <3>q. QED
        BY <1>0, <3>1, Moved, CallsKept
    <2>2. CASE effect[g] = "none"
      <3>1. /\ To(w, "apply") /\ effect' = [effect EXCEPT ![g] = "pending"] /\ UNCHANGED performed
        BY <1>3, <2>2 DEF EnsureEffect, Final
      <3>2. performed[g] = 0
        BY <1>2, <2>2 DEF EffectInv
      <3>3. /\ pass'[w].gen = g /\ \A v \in ReconWorkers \ {w} : pass'[v] = pass[v]
        BY <1>0, <3>1, Moved
      <3>4. effect' \in [Generations -> EffectStates] /\ effect'[g] # "none"
            /\ \A h \in Generations \ {g} : effect'[h] = effect[h]
        BY <1>2, <3>1 DEF EffectInv, EffectStates
      <3> HIDE DEF g
      <3>q. QED
        BY <1>2, <3>1, <3>2, <3>3, <3>4 DEF EffectInv
    <2>3. CASE ~Final(effect[g]) /\ effect[g] # "none"
      <3>1. To(w, "observe") /\ UNCHANGED <<effect, performed>>
        BY <1>3, <2>3 DEF EnsureEffect
      <3>2. /\ pass'[w].gen = g /\ pass'[w].pc = "observe"
            /\ \A v \in ReconWorkers \ {w} : pass'[v] = pass[v]
        BY <1>0, <3>1, Moved
      <3> HIDE DEF g
      <3>q. QED
        BY <1>2, <2>3, <3>1, <3>2 DEF EffectInv
    <2>q. QED
      BY <2>1, <2>2, <2>3
  <1>4. ASSUME NEW state \in EffectStates \ {"none"}, SaveEffect(w, g, state),
               performed' \in [Generations -> {0, 1}],
               \A h \in Generations \ {g} : performed'[h] = performed[h]
        PROVE  EffectInv'
    <2>1. /\ effect' \in [Generations -> EffectStates] /\ effect'[g] # "none"
          /\ \A h \in Generations \ {g} : effect'[h] = effect[h]
          /\ \A v \in ReconWorkers : pass'[v].pc \notin {"observe", "apply"}
      BY <1>0, <1>2, <1>4, SavingEffect
    <2>q. QED
      BY <1>2, <1>4, <2>1 DEF EffectInv
  <1>5. ASSUME Fail(w), UNCHANGED effect, CutCall(w)
        PROVE  EffectInv'
    <2>1. \A v \in ReconWorkers : pass'[v].pc \notin {"observe", "apply"}
      BY <1>0, <1>2, <1>5, Moved
    <2>2. /\ performed' \in [Generations -> {0, 1}]
          /\ \A h \in Generations : performed'[h] # performed[h] => effect[h] # "none"
      BY <1>0, <1>5, Cutting
    <2>q. QED
      BY <1>5, <2>1, <2>2 DEF EffectInv
  <1>6. {"applied", "rejected", "indeterminate"} \subseteq EffectStates \ {"none"}
    BY DEF EffectStates
  <1>7. CASE ObserveEffect(w)
    <2>1. CASE performed[g] > 0
      <3>1. SaveEffect(w, g, "applied") /\ UNCHANGED performed
        BY <1>7, <2>1 DEF ObserveEffect
      <3>q. QED
        BY <1>4, <1>6, <3>1 DEF EffectInv
    <2>2. CASE ~(performed[g] > 0)
      <3>1. To(w, "apply") /\ UNCHANGED <<effect, performed>> /\ pass[w].pc = "observe"
        BY <1>7, <2>2 DEF ObserveEffect, At
      <3>2. performed[g] = 0 /\ effect[g] # "none"
        BY <1>2, <2>2, <3>1 DEF EffectInv
      <3>3. /\ pass'[w].gen = g /\ \A v \in ReconWorkers \ {w} : pass'[v] = pass[v]
        BY <1>0, <3>1, Moved
      <3> HIDE DEF g
      <3>q. QED
        BY <1>2, <3>1, <3>2, <3>3 DEF EffectInv
    <2>q. QED
      BY <2>1, <2>2
  <1>8. CASE ObserveUnknown(w)
    <2>1. CASE SaveEffect(w, g, "indeterminate")
      BY <1>4, <1>6, <1>8, <2>1 DEF ObserveUnknown, EffectInv
    <2>2. CASE Fail(w) /\ UNCHANGED effect
      <3>1. UNCHANGED performed
        BY <1>8 DEF ObserveUnknown
      <3>2. \A v \in ReconWorkers : pass'[v].pc \notin {"observe", "apply"}
        BY <1>0, <1>2, <2>2, Moved
      <3>q. QED
        BY <2>2, <3>1, <3>2, CallsKept
    <2>q. QED
      BY <1>8, <2>1, <2>2 DEF ObserveUnknown
  <1>9. CASE ApplyEffect(w)
    <2>1. performed[g] = 0
      BY <1>9 DEF ApplyEffect, At, EffectInv
    <2>2. CASE SaveEffect(w, g, "applied") /\ performed' = [performed EXCEPT ![g] = @ + 1]
      <3>1. performed' \in [Generations -> {0, 1}] /\ \A h \in Generations \ {g} : performed'[h] = performed[h]
        BY <1>2, <2>1, <2>2 DEF EffectInv
      <3>q. QED
        BY <1>4, <1>6, <2>2, <3>1
    <2>3. CASE SaveEffect(w, g, "rejected") /\ UNCHANGED performed
      BY <1>4, <1>6, <2>3 DEF EffectInv
    <2>q. QED
      BY <1>9, <2>2, <2>3 DEF ApplyEffect
  <1>10. CASE ApplyThrows(w)
    <2>1. CutCall(w) /\ SaveEffect(w, g, "indeterminate") /\ pass[w].pc = "apply"
      BY <1>10 DEF ApplyThrows, At
    <2>2. performed' \in [Generations -> {0, 1}] /\ \A h \in Generations \ {g} : performed'[h] = performed[h]
      BY <1>0, <2>1, Cutting
    <2>q. QED
      BY <1>4, <1>6, <2>1, <2>2
  <1>11. CASE TimeOut(w) \/ ClaimIsLost(w)
    BY <1>5, <1>11 DEF TimeOut, ClaimIsLost, Abort
  <1>q. QED
    BY <1>3, <1>7, <1>8, <1>9, <1>10, <1>11

\* What leaves the effects alone calls no provider.
LEMMA NotCalling ==
    ASSUME Shape,
           \/ PutResource \/ RequestDeletion \/ Wake \/ ClaimExpires \/ BecomeDue \/ StartManager
           \/ \E g \in Generations : ChildNext(g)
           \/ \E w \in ReconWorkers :
                \/ ClaimNext(w) \/ Load(w) \/ PassFails(w) \/ EnsureChild(w) \/ ReadChildBundle(w)
                \/ MarkChild(w) \/ StartChild(w) \/ RecordChild(w) \/ WriteStatus(w) \/ Finish(w)
    PROVE  \A v \in ReconWorkers : pass'[v].pc \in {"observe", "apply"} => pass'[v] = pass[v]
  <1>0. PassOK /\ pass \in [ReconWorkers -> PassRecords]
    BY DEF Shape, PassOK
  <1>1. CASE UNCHANGED pass
    BY <1>1
  <1>2. ASSUME NEW w \in ReconWorkers,
               \/ ClaimNext(w) \/ Load(w) \/ PassFails(w) \/ EnsureChild(w) \/ ReadChildBundle(w)
               \/ MarkChild(w) \/ StartChild(w) \/ RecordChild(w) \/ WriteStatus(w) \/ Finish(w)
        PROVE  \A v \in ReconWorkers : pass'[v].pc \in {"observe", "apply"} => pass'[v] = pass[v]
    <2>1. CASE ClaimNext(w) \/ PassFails(w) \/ EnsureChild(w) \/ StartChild(w) \/ RecordChild(w)
      <3>1. \/ To(w, "load") \/ To(w, "effect") \/ Fail(w) \/ \E r : Result(w, r)
            \/ \E attempt, run : Asks(w, attempt, run)
        BY <2>1 DEF ClaimNext, PassFails, EnsureChild, StartChild, RecordChild
      <3>q. QED
        BY <1>0, <3>1, Moved
    <2>2. CASE Load(w)
      <3>1. CASE resource.exists
        <4> DEFINE new == [NoPass EXCEPT !.pc = IF resource.deleting THEN "status" ELSE "child",
                                !.uid = resource.uid, !.version = resource.version,
                                !.gen = resource.gen, !.deleting = resource.deleting,
                                !.result = IF resource.deleting THEN "settled" ELSE "none"]
        <4>1. new.pc \in {"status", "child"}
          BY DEF NoPass
        <4>2. pass' = [pass EXCEPT ![w] = new]
          BY <2>2, <3>1 DEF Load
        <4> HIDE DEF new
        <4>q. QED
          BY <1>0, <4>1, <4>2
      <3>2. CASE ~resource.exists
        BY <1>0, <2>2, <3>2, NoPassTypes DEF Load
      <3>q. QED
        BY <3>1, <3>2
    <2>3. CASE ReadChildBundle(w) \/ MarkChild(w)
      <3>1. \E pc \in {"start", "mark", "record"} : \E r : Learns(w, pc, r)
        BY <2>3 DEF ReadChildBundle, MarkChild
      <3>q. QED
        BY <1>0, <3>1, Moved
    <2>4. CASE WriteStatus(w) \/ Finish(w)
      <3>1. \/ pass'[w].pc = "finish" /\ \A v \in ReconWorkers \ {w} : pass'[v] = pass[v]
            \/ pass' = [pass EXCEPT ![w] = NoPass]
        BY <2>4, WritesOrEnds, FinishEnds DEF Writes, PassEnds, Deletes
      <3>q. QED
        BY <1>0, <3>1, NoPassTypes
    <2>q. QED
      BY <1>2, <2>1, <2>2, <2>3, <2>4
  <1>q. QED
    BY <1>1, <1>2 DEF PutResource, RequestDeletion, Wake, ClaimExpires, BecomeDue, StartManager, ChildNext,
                      ChildWrites, ChildEnds, ChildCompletes

LEMMA EffectOtherStep ==
    ASSUME Shape, EffectInv, UNCHANGED <<effect, performed>>,
           \/ PutResource \/ RequestDeletion \/ Wake \/ ClaimExpires \/ BecomeDue \/ StartManager
           \/ \E g \in Generations : ChildNext(g)
           \/ \E w \in ReconWorkers :
                \/ ClaimNext(w) \/ Load(w) \/ PassFails(w) \/ EnsureChild(w) \/ ReadChildBundle(w)
                \/ MarkChild(w) \/ StartChild(w) \/ RecordChild(w) \/ WriteStatus(w) \/ Finish(w)
    PROVE  EffectInv'
  BY NotCalling, CallsKept

\* What an aborted pass does to an effect: it reserves it, or gives it up.
LEMMA LateEffects ==
    ASSUME effect \in [Generations -> EffectStates], NEW a, LateNext(a)
    PROVE  /\ effect' \in [Generations -> EffectStates]
           /\ \A g \in Generations : effect[g] # "none" => effect'[g] # "none"
  <1>1. "pending" \in EffectStates /\ "indeterminate" \in EffectStates
    BY DEF EffectStates
  <1>2. CASE LateEnsure(a) \/ LateRead(a) \/ LateMark(a) \/ LateRecord(a)
    BY <1>2 DEF LateEnsure, LateRead, LateMark, LateRecord
  <1>3. CASE LateEffect(a)
    BY <1>1, <1>3 DEF LateEffect
  <1>4. CASE LateApply(a)
    <2>1. effect' = [effect EXCEPT ![a.gen] = IF Final(@) THEN @ ELSE "indeterminate"]
      BY <1>4 DEF LateApply
    <2>2. CASE Final(effect[a.gen])
      <3>1. effect' = [effect EXCEPT ![a.gen] = effect[a.gen]]
        BY <2>1, <2>2
      <3>q. QED
        BY <3>1
    <2>3. CASE ~Final(effect[a.gen])
      <3>1. effect' = [effect EXCEPT ![a.gen] = "indeterminate"]
        BY <2>1, <2>3
      <3>q. QED
        BY <1>1, <3>1
    <2>q. QED
      BY <2>2, <2>3
  <1>q. QED
    BY <1>2, <1>3, <1>4 DEF LateNext

\* The process ends: at most one call is cut off, that of the worker at work.
LEMMA EffectEnds ==
    ASSUME Shape, Alone, EffectInv, EndManager
    PROVE  EffectInv'
  <1>0. \A v \in ReconWorkers : pass'[v].pc = "idle"
    BY NoPassTypes DEF EndManager
  <1>1. PICK cut \in SUBSET {w \in ReconWorkers : pass[w].pc = "apply" /\ ~Orphaned(w)} :
          performed' = [g \in Generations |->
                          performed[g] + Cardinality({w \in cut : pass[w].gen = g})]
    BY DEF EndManager
  <1>2. ASSUME NEW g \in Generations
        PROVE  performed'[g] \in {0, 1} /\ (performed'[g] = 1 => effect[g] # "none")
    <2> DEFINE mine == {w \in cut : pass[w].gen = g}
    <2>1. performed'[g] = performed[g] + Cardinality(mine)
      BY <1>1
    <2>2. performed[g] \in {0, 1} /\ (performed[g] = 1 => effect[g] # "none")
      BY DEF EffectInv
    <2>3. CASE mine = {}
      <3>1. Cardinality(mine) = 0
        BY <2>3, FS_EmptySet
      <3> HIDE DEF mine
      <3>q. QED
        BY <2>1, <2>2, <3>1
    <2>4. CASE mine # {}
      <3>1. PICK w \in mine : TRUE
        BY <2>4
      <3>2. w \in ReconWorkers /\ pass[w].pc = "apply" /\ pass[w].gen = g
        BY <1>1, <3>1
      <3>3. mine = {w}
        BY <1>1, <3>1, <3>2, OthersRest
      <3>4. performed[g] = 0 /\ effect[g] # "none"
        BY <3>2 DEF EffectInv
      <3>q. QED
        BY <2>1, <3>3, <3>4, FS_Singleton
    <2>q. QED
      BY <2>3, <2>4
  <1>3. performed' \in [Generations -> {0, 1}]
    BY <1>1, <1>2
  <1>q. QED
    BY <1>0, <1>2, <1>3 DEF EffectInv, EndManager

LEMMA EffectKept ==
    ASSUME Shape, Alone, EffectInv, [CtlNext]_ctlVars
    PROVE  EffectInv'
  <1>1. CASE PutResource \/ RequestDeletion \/ Wake \/ ClaimExpires \/ BecomeDue \/ StartManager
    BY <1>1, EffectOtherStep DEF PutResource, RequestDeletion, Wake, ClaimExpires, BecomeDue,
                                 StartManager
  <1>2. ASSUME NEW g \in Generations, ChildNext(g)  PROVE  EffectInv'
    BY <1>2, EffectOtherStep DEF ChildNext, ChildWrites, ChildEnds, ChildCompletes
  <1>3. ASSUME NEW w \in ReconWorkers,
               \/ ClaimNext(w) \/ Load(w) \/ PassFails(w) \/ EnsureChild(w) \/ ReadChildBundle(w)
               \/ MarkChild(w) \/ StartChild(w) \/ RecordChild(w) \/ WriteStatus(w)
        PROVE  EffectInv'
    BY <1>3, EffectOtherStep DEF ClaimNext, Load, PassFails, EnsureChild, ReadChildBundle, MarkChild,
                                 StartChild, RecordChild, WriteStatus
  <1>4. ASSUME NEW a \in aborted, LateNext(a)  PROVE  EffectInv'
    <2>1. /\ UNCHANGED <<performed, pass>> /\ effect' \in [Generations -> EffectStates]
          /\ \A g \in Generations : effect[g] # "none" => effect'[g] # "none"
      BY <1>4, LatesRest, LateEffects DEF EffectInv
    <2>2. \A w \in ReconWorkers : pass[w].pc \in {"observe", "apply"} => pass[w].gen \in Generations
      BY DEF Shape, PassOK, Loaded, Past, Awaiting
    <2>q. QED
      BY <2>1, <2>2 DEF EffectInv
  <1>5. ASSUME NEW w \in ReconWorkers,
               \/ EnsureEffect(w) \/ ObserveEffect(w) \/ ObserveUnknown(w) \/ ApplyEffect(w)
               \/ ApplyThrows(w) \/ TimeOut(w) \/ ClaimIsLost(w)
        PROVE  EffectInv'
    BY <1>5, EffectWorkerStep
  <1>6. ASSUME NEW w \in ReconWorkers, Finish(w)  PROVE  EffectInv'
    <2>1. CASE UNCHANGED <<effect, performed>>
      BY <1>6, <2>1, EffectOtherStep
    <2>2. CASE DeleteResource
      <3>1. pass[w].pc # "idle" /\ pass' = [pass EXCEPT ![w] = NoPass]
        BY <1>6 DEF Finish, At
      <3>2. \A v \in ReconWorkers : pass'[v].pc = "idle"
        BY <3>1, OthersRest, NoPassTypes DEF Shape, PassOK
      <3>3. effect' = [g \in Generations |-> "none"] /\ performed' = [g \in Generations |-> 0]
        BY <2>2 DEF DeleteResource
      <3>4. /\ effect' \in [Generations -> EffectStates] /\ performed' \in [Generations -> {0, 1}]
            /\ \A g \in Generations : performed'[g] = 0
        BY <3>3 DEF EffectStates
      <3>q. QED
        BY <3>2, <3>4 DEF EffectInv
    <2>q. QED
      BY <1>6, <2>1, <2>2 DEF Finish
  <1>7. CASE EndManager
    BY <1>7, EffectEnds
  <1>8. CASE UNCHANGED ctlVars
    BY <1>8 DEF ctlVars, EffectInv
  <1>q. QED
    BY <1>1, <1>2, <1>3, <1>4, <1>5, <1>6, <1>7, <1>8 DEF CtlNext, PassNext

-----------------------------------------------------------------------------
(* The child workflow *)

LEMMA NoChildTypes == NoChild \in ChildRecords
  BY DEF NoChild, ChildRecords

Asking == {"read", "mark", "start", "record"}

\* Only ensure and the scheduler take a pass where it asks for its child.
LEMMA NotAsking ==
    ASSUME Shape, [CtlNext]_ctlVars, NEW v \in ReconWorkers, pass'[v].pc \in Awaiting, pass'[v] # pass[v]
    PROVE  \/ EnsureChild(v) \/ ReadChildBundle(v) \/ MarkChild(v)
           \/ /\ pass'[v].pc \notin Asking
              /\ pass'[v].result = "none" \/ (pass[v].pc \in Awaiting /\ pass'[v].result = pass[v].result)
  <1>0. PassOK /\ pass \in [ReconWorkers -> PassRecords]
        /\ {"idle", "load", "status", "finish"} \intersect Awaiting = {}
        /\ {"effect", "observe", "apply", "child"} \intersect Asking = {}
    BY DEF Shape, PassOK, Asking, Awaiting
  <1>1. ASSUME NEW w \in ReconWorkers,
               \/ To(w, "load")
               \/ \E r : Result(w, r)
               \/ Fail(w)
        PROVE  FALSE
    BY <1>0, <1>1, Moved
  <1>2. ASSUME NEW w \in ReconWorkers, pass[w].pc \in Awaiting,
               \E pc \in {"effect", "observe", "apply"} : To(w, pc)
        PROVE  pass'[v].pc \notin Asking /\ pass[v].pc \in Awaiting /\ pass'[v].result = pass[v].result
    BY <1>0, <1>2, Moved
  <1>3. ASSUME NEW w \in ReconWorkers, PassNext(w) \/ ObserveUnknown(w) \/ ApplyThrows(w) \/ TimeOut(w)
        PROVE  \/ EnsureChild(v) \/ ReadChildBundle(v) \/ MarkChild(v)
               \/ /\ pass'[v].pc \notin Asking
                  /\ \/ pass'[v].result = "none"
                     \/ pass[v].pc \in Awaiting /\ pass'[v].result = pass[v].result
    <2>1. CASE ClaimNext(w) \/ PassFails(w) \/ ClaimIsLost(w) \/ TimeOut(w) \/ StartChild(w)
      BY <1>1, <2>1 DEF ClaimNext, PassFails, ClaimIsLost, TimeOut, Abort, StartChild
    <2>2. CASE RecordChild(w) \/ EnsureEffect(w)
      BY <1>1, <1>2, <2>2 DEF RecordChild, EnsureEffect, At, Awaiting
    <2>3. CASE ObserveEffect(w) \/ ObserveUnknown(w) \/ ApplyEffect(w) \/ ApplyThrows(w)
      <3>1. \A g, state : SaveEffect(w, g, state) => Fail(w) \/ \E r : Result(w, r)
        BY DEF SaveEffect
      <3>2. pass[w].pc \in Awaiting
        BY <2>3 DEF ObserveEffect, ObserveUnknown, ApplyEffect, ApplyThrows, At, Awaiting
      <3>q. QED
        BY <1>1, <1>2, <2>3, <3>1, <3>2 DEF ObserveEffect, ObserveUnknown, ApplyEffect, ApplyThrows
    <2>4. CASE Load(w)
      <3>1. CASE resource.exists
        <4> DEFINE new == [NoPass EXCEPT !.pc = IF resource.deleting THEN "status" ELSE "child",
                                !.uid = resource.uid, !.version = resource.version,
                                !.gen = resource.gen, !.deleting = resource.deleting,
                                !.result = IF resource.deleting THEN "settled" ELSE "none"]
        <4>1. new.pc = "status" \/ (new.pc = "child" /\ new.result = "none")
          BY DEF NoPass
        <4>2. pass' = [pass EXCEPT ![w] = new]
          BY <2>4, <3>1 DEF Load
        <4> HIDE DEF new
        <4>q. QED
          BY <1>0, <4>1, <4>2
      <3>2. CASE ~resource.exists
        BY <1>0, <2>4, <3>2, NoPassTypes DEF Load
      <3>q. QED
        BY <3>1, <3>2
    <2>5. CASE WriteStatus(w) \/ Finish(w)
      <3>1. \/ pass'[w].pc = "finish" /\ \A u \in ReconWorkers \ {w} : pass'[u] = pass[u]
            \/ pass' = [pass EXCEPT ![w] = NoPass]
        BY <2>5, WritesOrEnds, FinishEnds DEF Writes, PassEnds, Deletes
      <3>q. QED
        BY <1>0, <3>1, NoPassTypes
    <2>6. CASE EnsureChild(w) \/ ReadChildBundle(w) \/ MarkChild(w)
      <3>1. v = w
        BY <2>6, AskingMoves DEF Advances
      <3>q. QED
        BY <2>6, <3>1
    <2>q. QED
      BY <1>3, <2>1, <2>2, <2>3, <2>4, <2>5, <2>6 DEF PassNext
  <1>4. pass' # pass
    OBVIOUS
  <1>5. CASE EndManager
    <2>1. pass'[v].pc = "idle"
      BY <1>5, NoPassTypes DEF EndManager
    <2>q. QED
      BY <1>0, <2>1
  <1>6. CASE \/ PutResource \/ RequestDeletion \/ Wake \/ ClaimExpires \/ BecomeDue \/ StartManager
             \/ UNCHANGED ctlVars \/ \E g \in Generations : ChildNext(g)
    BY <1>4, <1>6 DEF PutResource, RequestDeletion, Wake, ClaimExpires, BecomeDue, StartManager, ctlVars,
                      ChildNext, ChildWrites, ChildEnds, ChildCompletes
  <1>7. CASE \E a \in aborted : LateNext(a)
    BY <1>4, <1>7, LatesRest
  <1>q. QED
    BY <1>3, <1>5, <1>6, <1>7 DEF CtlNext

\* What an answer of the scheduler is, and what an ongoing pass has of it.
LEMMA ReportsKept ==
    ASSUME Shape, [CtlNext]_ctlVars
    PROVE  \A v \in ReconWorkers :
             /\ pass'[v].pc \in Awaiting => pass'[v].result \in {"none"} \union Reports
             /\ pass'[v].pc = "record" => pass'[v].result \in Reports
  <1> SUFFICES ASSUME NEW v \in ReconWorkers, pass'[v].pc \in Awaiting
               PROVE  /\ pass'[v].result \in {"none"} \union Reports
                      /\ pass'[v].pc = "record" => pass'[v].result \in Reports
    BY DEF Awaiting
  <1>0. PassOK /\ (pass[v].pc \in Awaiting => pass[v].result \in {"none"} \union Reports)
        /\ (pass[v].pc = "record" => pass[v].result \in Reports)
        /\ "status" \notin Awaiting /\ "record" \in Asking
    BY DEF Shape, EnginesOK, Awaiting, Asking
  <1>1. CASE pass'[v] = pass[v]
    BY <1>0, <1>1
  <1>2. CASE EnsureChild(v)
    <2>1. pass[v].pc \in Awaiting
      BY <1>2 DEF EnsureChild, At, Awaiting
    <2>2. To(v, "effect") \/ (\E r : Result(v, r)) \/ (\E attempt, run : Asks(v, attempt, run))
      BY <1>2 DEF EnsureChild
    <2>q. QED
      BY <1>0, <2>1, <2>2, Moved
  <1>3. CASE ReadChildBundle(v)
    <2>1. PICK pc \in {"start", "mark", "record"}, r \in {"none"} \union Reports :
             Finds(bundle[pass[v].gen][pass[v].run], pc, r) /\ Learns(v, pc, r)
      BY <1>3 DEF ReadChildBundle
    <2>2. pc = "record" => r \in Reports
      BY <2>1 DEF Finds, Outcome, Reports
    <2>q. QED
      BY <1>0, <2>1, <2>2, Moved
  <1>4. CASE MarkChild(v)
    BY <1>0, <1>4, Moved DEF MarkChild
  <1>q. QED
    BY <1>0, <1>1, <1>2, <1>3, <1>4, NotAsking

\* A bundle keeps its type when a run of it is written.
LEMMA RunWritten ==
    ASSUME bundle \in [Generations -> Seq(BundleStates)], NEW g, NEW run, NEW b \in BundleStates
    PROVE  [bundle EXCEPT ![g][run] = b] \in [Generations -> Seq(BundleStates)]
  <1>1. ASSUME NEW s \in Seq(BundleStates)  PROVE  [s EXCEPT ![run] = b] \in Seq(BundleStates)
    <2>1. CASE run \in 1..Len(s)
      BY <2>1, ExceptSeq
    <2>2. CASE run \notin 1..Len(s)
      <3>1. s = [i \in 1..Len(s) |-> s[i]]
        BY LenProperties
      <3>2. [s EXCEPT ![run] = b] = s
        BY <2>2, <3>1
      <3>q. QED
        BY <3>2
    <2>q. QED
      BY <2>1, <2>2
  <1>2. [bundle EXCEPT ![g][run] = b] = [bundle EXCEPT ![g] = [bundle[g] EXCEPT ![run] = b]]
    OBVIOUS
  <1>3. CASE g \in Generations
    <2>1. [bundle[g] EXCEPT ![run] = b] \in Seq(BundleStates)
      BY <1>1, <1>3
    <2>q. QED
      BY <1>2, <2>1
  <1>4. CASE g \notin Generations
    BY <1>2, <1>4
  <1>q. QED
    BY <1>3, <1>4

LEMMA Marking ==
    ASSUME bundle \in [Generations -> Seq(BundleStates)], NEW g, NEW run, NEW result, Marks(g, run, result)
    PROVE  bundle' \in [Generations -> Seq(BundleStates)]
  BY RunWritten DEF Marks, BundleStates

\* What the request's next attempt, and an answer of the scheduler, leave.
LEMMA Attempting ==
    ASSUME child \in [Generations -> ChildRecords], bundle \in [Generations -> Seq(BundleStates)],
           NEW g \in Generations, NewAttempt(g)
    PROVE  /\ child' \in [Generations -> ChildRecords] /\ bundle' \in [Generations -> Seq(BundleStates)]
           /\ child'[g].attempt = child[g].attempt + 1 /\ child'[g].state = "pending"
           /\ \A h \in Generations \ {g} : child'[h] = child[h]
  <1>1. child[g].attempt + 1 \in Nat
    BY DEF ChildRecords
  <1>2. [state |-> "pending", attempt |-> child[g].attempt + 1, run |-> child[g].attempt + 1] \in ChildRecords
    BY <1>1 DEF ChildRecords
  <1>3. child' = [child EXCEPT ![g] = [state |-> "pending", attempt |-> child[g].attempt + 1,
                                       run |-> child[g].attempt + 1]]
    BY DEF NewAttempt
  <1>4. Append(bundle[g], "none") \in Seq(BundleStates)
    <2>1. "none" \in BundleStates /\ bundle[g] \in Seq(BundleStates)
      BY DEF BundleStates
    <2>q. QED
      BY <2>1, AppendProperties
  <1>5. bundle' = [bundle EXCEPT ![g] = Append(bundle[g], "none")]
    BY DEF NewAttempt
  <1>q. QED
    BY <1>2, <1>3, <1>4, <1>5

LEMMA Answering ==
    ASSUME child \in [Generations -> ChildRecords], NEW g \in Generations, NEW run \in Nat,
           NEW state \in {"none", "pending"} \union Reports, Answered(g, state, run)
    PROVE  /\ child' \in [Generations -> ChildRecords]
           /\ child'[g].attempt = child[g].attempt /\ child'[g].state = state
           /\ \A h \in Generations \ {g} : child'[h] = child[h]
  <1>1. child' = [child EXCEPT ![g] = [child[g] EXCEPT !.state = state, !.run = run]]
    BY DEF Answered
  <1>2. [child[g] EXCEPT !.state = state, !.run = run] \in ChildRecords
    BY DEF ChildRecords
  <1>3. /\ [child[g] EXCEPT !.state = state, !.run = run].state = state
        /\ [child[g] EXCEPT !.state = state, !.run = run].attempt = child[g].attempt
    BY DEF ChildRecords
  <1>q. QED
    BY <1>1, <1>2, <1>3

Requests == [Generations -> ChildRecords]
Bundles == [Generations -> Seq(BundleStates)]
Running == [Generations -> SUBSET EngineRecords]
LateOK ==
    /\ aborted \subseteq AbortedRecords
    /\ \A a \in aborted : a.pc = "record" => a.result \in Reports
    /\ overruled \in BOOLEAN /\ mishaps \in Nat

\* What the passes that nobody waits for do to requests, bundles and themselves.
LEMMA LatesKept ==
    ASSUME child \in Requests, bundle \in Bundles, LateOK, NEW a \in aborted, LateNext(a)
    PROVE  child' \in Requests /\ bundle' \in Bundles /\ LateOK'
  <1>0. /\ a \in AbortedRecords /\ a.gen \in Generations /\ a.run \in Nat
        /\ a.result \in {"none"} \union Reports /\ aborted \subseteq AbortedRecords
        /\ \A b \in aborted : b.pc = "record" => b.result \in Reports
        /\ overruled \in BOOLEAN /\ mishaps \in Nat
    BY DEF LateOK, AbortedRecords
  <1>1. UNCHANGED mishaps
    BY LatesRest
  <1>2. ASSUME NEW pc \in Unstoppable, NEW result \in {"none"} \union Reports,
               pc = "record" => result \in Reports
        PROVE  /\ [a EXCEPT !.pc = pc, !.result = result] \in AbortedRecords
               /\ [a EXCEPT !.pc = pc, !.result = result].pc = pc
               /\ [a EXCEPT !.pc = pc, !.result = result].result = result
    BY <1>0 DEF AbortedRecords
  <1>3. ASSUME NEW pc \in Unstoppable \ {"record"}
        PROVE  [a EXCEPT !.pc = pc] \in AbortedRecords /\ [a EXCEPT !.pc = pc].pc # "record"
    BY <1>0 DEF AbortedRecords
  <1>4. ASSUME NEW next \in SUBSET AbortedRecords, \A b \in next : b.pc = "record" => b.result \in Reports,
               Goes(a, next), overruled' \in BOOLEAN
        PROVE  LateOK'
    BY <1>0, <1>1, <1>4 DEF Goes, LateOK
  <1>5. "effect" \in Unstoppable /\ "apply" \in Unstoppable /\ {"mark", "record"} \subseteq Unstoppable
    BY DEF Unstoppable
  <1>6. ASSUME Leaves(a), overruled' \in BOOLEAN  PROVE  LateOK'
    BY <1>4, <1>6 DEF Leaves
  <1>7. CASE LateEnsure(a)
    <2>1. overruled' \in BOOLEAN
      BY <1>0, <1>7 DEF LateEnsure
    <2>2. CASE Goes(a, {[a EXCEPT !.pc = "effect"]}) /\ UNCHANGED <<child, bundle>>
      BY <1>3, <1>4, <1>5, <2>1, <2>2
    <2>3. CASE NewAttempt(a.gen) /\ Leaves(a)
      BY <1>0, <1>6, <2>1, <2>3, Attempting DEF Requests, Bundles
    <2>4. CASE Leaves(a) /\ UNCHANGED <<child, bundle>>
      BY <1>6, <2>1, <2>4
    <2>q. QED
      BY <1>7, <2>2, <2>3, <2>4 DEF LateEnsure
  <1>8. CASE LateRead(a)
    <2>1. overruled' \in BOOLEAN /\ UNCHANGED <<child, bundle>>
      BY <1>0, <1>8 DEF LateRead
    <2>2. CASE Leaves(a)
      BY <1>6, <2>1, <2>2
    <2>3. ASSUME NEW pc \in {"mark", "record"}, NEW result \in {"none"} \union Reports,
                 Finds(bundle[a.gen][a.run], pc, result),
                 Goes(a, {[a EXCEPT !.pc = pc, !.result = result]})
          PROVE  LateOK'
      <3> DEFINE b == [a EXCEPT !.pc = pc, !.result = result]
      <3>1. pc = "record" => result \in Reports
        BY <2>3 DEF Finds, Outcome, Reports
      <3>2. b \in AbortedRecords /\ (b.pc = "record" => b.result \in Reports)
        BY <1>2, <1>5, <3>1
      <3>3. Goes(a, {b})
        BY <2>3
      <3> HIDE DEF b
      <3>q. QED
        BY <1>4, <2>1, <3>2, <3>3
    <2>q. QED
      BY <1>8, <2>1, <2>2, <2>3 DEF LateRead
  <1>9. CASE LateMark(a)
    <2>1. overruled' \in BOOLEAN /\ UNCHANGED child
      BY <1>0, <1>9 DEF LateMark
    <2>2. PICK result \in Reports : /\ Marks(a.gen, a.run, result)
                                    /\ Goes(a, {[a EXCEPT !.pc = "record", !.result = result]})
      BY <1>9 DEF LateMark
    <2>3. LateOK'
      <3> DEFINE b == [a EXCEPT !.pc = "record", !.result = result]
      <3>1. b \in AbortedRecords /\ b.result \in Reports
        <4>1. "record" \in Unstoppable /\ result \in {"none"} \union Reports /\ result \in Reports
          BY <1>5, <2>2
        <4>q. QED
          BY <1>2, <4>1
      <3>2. Goes(a, {b})
        BY <2>2
      <3> HIDE DEF b
      <3>q. QED
        BY <1>4, <2>1, <3>1, <3>2
    <2>4. bundle' \in Bundles
      BY <2>2, Marking DEF Bundles
    <2>q. QED
      BY <2>1, <2>3, <2>4
  <1>10. CASE LateRecord(a)
    <2>1. overruled' = (overruled \/ a.result = "interrupted") /\ UNCHANGED bundle
          /\ Answered(a.gen, a.result, a.run)
          /\ Goes(a, IF a.result = "succeeded" THEN {[a EXCEPT !.pc = "effect"]} ELSE {})
      BY <1>10 DEF LateRecord
    <2>2. child' \in Requests
      BY <1>0, <2>1, Answering DEF Requests
    <2>3. overruled' \in BOOLEAN
      BY <2>1
    <2>4. LateOK'
      <3>1. CASE a.result = "succeeded"
        BY <1>3, <1>4, <1>5, <2>1, <2>3, <3>1
      <3>2. CASE a.result # "succeeded"
        BY <1>4, <2>1, <2>3, <3>2
      <3>q. QED
        BY <3>1, <3>2
    <2>q. QED
      BY <2>1, <2>2, <2>4
  <1>11. CASE LateEffect(a)
    <2>1. overruled' \in BOOLEAN /\ UNCHANGED <<child, bundle>>
      BY <1>0, <1>11 DEF LateEffect
    <2>2. Leaves(a) \/ Goes(a, {[a EXCEPT !.pc = "apply"]})
      BY <1>11 DEF LateEffect
    <2>q. QED
      BY <1>3, <1>4, <1>5, <1>6, <2>1, <2>2
  <1>12. CASE LateApply(a)
    <2>1. overruled' \in BOOLEAN /\ UNCHANGED <<child, bundle>> /\ Leaves(a)
      BY <1>0, <1>12 DEF LateApply
    <2>q. QED
      BY <1>6, <2>1
  <1>q. QED
    BY <1>7, <1>8, <1>9, <1>10, <1>11, <1>12 DEF LateNext

\* A pass that is aborted goes on with what it had.
LEMMA Aborting ==
    ASSUME Shape, LateOK, NEW w \in ReconWorkers, Abort(w), mishaps' \in Nat
    PROVE  LateOK'
  <1> DEFINE p == pass[w]
             a == [id |-> <<w, mishaps'>>, gen |-> p.gen, pc |-> p.pc, attempt |-> p.attempt,
                   run |-> p.run, result |-> p.result]
  <1>1. /\ p \in PassRecords /\ p.pc \in Awaiting /\ p.gen \in Generations
        /\ p.result \in {"none"} \union Reports /\ (p.pc = "record" => p.result \in Reports)
    BY DEF Shape, PassOK, EnginesOK, Abort, Loaded, Past
  <1>2. p.pc \in Unstoppable => a \in AbortedRecords
    BY <1>1 DEF AbortedRecords, PassRecords
  <1>3. a.pc = p.pc /\ a.result = p.result
    OBVIOUS
  <1>4. aborted' \subseteq aborted \union {a} /\ (p.pc \notin Unstoppable => aborted' = aborted)
        /\ UNCHANGED overruled
    BY DEF Abort
  <1> HIDE DEF a, p
  <1>q. QED
    BY <1>1, <1>2, <1>3, <1>4 DEF LateOK

\* Requests and engines keep their types, and engines belong to a resource.
LEMMA EnginesKept ==
    ASSUME Shape, [CtlNext]_ctlVars
    PROVE  EnginesOK'
  <1>0. PassOK /\ child \in Requests /\ bundle \in Bundles /\ engines \in Running /\ LateOK
    BY DEF Shape, EnginesOK, Requests, Bundles, Running, LateOK
  <1>g. \A w \in ReconWorkers : pass[w].pc \in Loaded => pass[w].gen \in Generations
    BY <1>0 DEF PassOK
  <1>a. SUFFICES /\ child' \in Requests /\ bundle' \in Bundles /\ engines' \in Running /\ LateOK'
                 /\ \A g \in Generations : engines'[g] # {} => resource'.exists
    BY ReportsKept DEF EnginesOK, Requests, Bundles, Running, LateOK
  <1>b. \A g \in Generations : engines[g] # {} => resource.exists
    BY DEF Shape, EnginesOK
  <1>c. ASSUME UNCHANGED <<aborted, overruled>>, UNCHANGED mishaps \/ Mishap
        PROVE  LateOK'
    BY <1>0, <1>c DEF LateOK, Mishap
  <1>d. ASSUME aborted' = {}, UNCHANGED overruled, UNCHANGED mishaps \/ Mishap
        PROVE  LateOK'
    BY <1>0, <1>d DEF LateOK, Mishap
  <1>1. CASE PutResource \/ RequestDeletion \/ Wake \/ ClaimExpires \/ BecomeDue \/ StartManager
             \/ UNCHANGED ctlVars
    <2>1. UNCHANGED <<child, bundle, engines, aborted, overruled>> /\ (UNCHANGED mishaps \/ Mishap)
      BY <1>1 DEF PutResource, RequestDeletion, Wake, ClaimExpires, BecomeDue, StartManager, ctlVars
    <2>2. resource.exists => resource'.exists
      <3>1. CASE PutResource \/ RequestDeletion \/ Wake
        BY <3>1, CallersQueue DEF Queues
      <3>q. QED
        BY <1>1, <3>1 DEF ClaimExpires, BecomeDue, StartManager, ctlVars
    <2>q. QED
      BY <1>0, <1>b, <1>c, <2>1, <2>2
  <1>2. ASSUME NEW g \in Generations, NEW e \in engines[g],
               ChildWrites(g, e) \/ ChildEnds(g, e) \/ ChildCompletes(g, e)
        PROVE  /\ child' \in Requests /\ bundle' \in Bundles /\ engines' \in Running /\ LateOK'
               /\ \A h \in Generations : engines'[h] # {} => resource'.exists
    <2>0. /\ e \in EngineRecords /\ e.run \in Nat /\ resource.exists
          /\ UNCHANGED <<resource, aborted, overruled, mishaps>>
      BY <1>0, <1>2, <1>b DEF Running, EngineRecords, ChildWrites, ChildEnds, ChildCompletes
    <2>1. CASE ChildWrites(g, e)
      <3>1. bundle' \in Bundles
        BY <1>0, <2>1, RunWritten DEF ChildWrites, Bundles, BundleStates
      <3>2. UNCHANGED <<child, engines>>
        BY <2>1 DEF ChildWrites
      <3>q. QED
        BY <1>0, <1>c, <2>0, <3>1, <3>2
    <2>2. CASE ChildEnds(g, e)
      <3>1. PICK outcome \in {"completed", "failed"} :
               /\ \/ bundle[g][e.run] = "none" /\ outcome = "failed" /\ UNCHANGED bundle
                  \/ /\ bundle[g][e.run] # "none"
                     /\ bundle' = [bundle EXCEPT ![g][e.run] = outcome]
               /\ engines' = [engines EXCEPT ![g] = (@ \ {e}) \union {[e EXCEPT !.outcome = outcome]}]
        BY <2>2 DEF ChildEnds
      <3>2. bundle' \in Bundles
        <4>1. CASE UNCHANGED bundle
          BY <1>0, <4>1
        <4>2. CASE bundle' = [bundle EXCEPT ![g][e.run] = outcome]
          <5>1. outcome \in BundleStates
            BY DEF BundleStates
          <5>q. QED
            BY <1>0, <4>2, <5>1, RunWritten DEF Bundles
        <4>q. QED
          BY <3>1, <4>1, <4>2
      <3>3. [e EXCEPT !.outcome = outcome] \in EngineRecords
        BY <2>0 DEF EngineRecords
      <3>4. engines' \in Running
        BY <1>0, <3>1, <3>3 DEF Running
      <3>5. UNCHANGED child
        BY <2>2 DEF ChildEnds
      <3>q. QED
        BY <1>0, <1>c, <2>0, <3>2, <3>4, <3>5
    <2>3. CASE ChildCompletes(g, e)
      <3>1. Outcome(e.outcome) \in Reports
        BY DEF Outcome, Reports
      <3>2. child' \in Requests
        BY <1>0, <2>0, <2>3, <3>1, Answering DEF ChildCompletes, Requests
      <3>3. engines' \in Running
        BY <1>0, <2>3 DEF ChildCompletes, Running
      <3>4. UNCHANGED bundle
        BY <2>3 DEF ChildCompletes
      <3>q. QED
        BY <1>0, <1>c, <2>0, <3>2, <3>3, <3>4
    <2>q. QED
      BY <1>2, <2>1, <2>2, <2>3
  <1>3. CASE EndManager
    <2>1. /\ UNCHANGED <<child, bundle, overruled>> /\ engines' = [g \in Generations |-> {}]
          /\ aborted' = {} /\ Mishap
      BY <1>3 DEF EndManager
    <2>q. QED
      BY <1>0, <1>d, <2>1 DEF Running
  <1>4. ASSUME NEW w \in ReconWorkers,
               PassNext(w) \/ ObserveUnknown(w) \/ ApplyThrows(w) \/ TimeOut(w)
        PROVE  /\ child' \in Requests /\ bundle' \in Bundles /\ engines' \in Running /\ LateOK'
               /\ \A h \in Generations : engines'[h] # {} => resource'.exists
    <2>1. CASE \/ ClaimNext(w) \/ Load(w) \/ PassFails(w) \/ EnsureEffect(w)
               \/ ObserveEffect(w) \/ ObserveUnknown(w) \/ ApplyEffect(w) \/ ApplyThrows(w)
      <3>1. UNCHANGED <<resource, child, bundle, engines, aborted, overruled>>
            /\ (UNCHANGED mishaps \/ Mishap)
        BY <2>1 DEF ClaimNext, Load, PassFails, EnsureEffect, ObserveEffect, ObserveUnknown,
                    ApplyEffect, ApplyThrows
      <3>q. QED
        BY <1>0, <1>b, <1>c, <3>1
    <2>2. CASE ClaimIsLost(w) \/ TimeOut(w)
      <3>1. Abort(w) /\ (UNCHANGED mishaps \/ Mishap)
        BY <2>2 DEF ClaimIsLost, TimeOut
      <3>2. UNCHANGED <<resource, child, bundle, engines>>
        BY <3>1 DEF Abort
      <3>3. mishaps' \in Nat
        BY <1>0, <3>1 DEF LateOK, Mishap
      <3>q. QED
        BY <1>0, <1>b, <3>1, <3>2, <3>3, Aborting
    <2>3. CASE EnsureChild(w) \/ ReadChildBundle(w) \/ MarkChild(w) \/ StartChild(w) \/ RecordChild(w)
      <3>0. /\ pass[w].gen \in Generations /\ pass[w] \in PassRecords
            /\ UNCHANGED <<resource, aborted, overruled, mishaps>>
        BY <1>0, <1>g, <2>3 DEF EnsureChild, ReadChildBundle, MarkChild, StartChild, RecordChild, At, Loaded,
                              Past, Awaiting, PassOK
      <3>1. CASE EnsureChild(w)
        <4>1. UNCHANGED engines
          BY <3>1 DEF EnsureChild
        <4>2. CASE UNCHANGED <<child, bundle>>
          BY <1>0, <1>b, <1>c, <3>0, <4>1, <4>2
        <4>3. CASE NewAttempt(pass[w].gen)
          BY <1>0, <1>b, <1>c, <3>0, <4>1, <4>3, Attempting DEF Requests, Bundles
        <4>4. ASSUME NEW e \in ActiveHere(pass[w].gen), Answered(pass[w].gen, "running", e.run), UNCHANGED bundle
              PROVE  child' \in Requests
          <5>1. e.run \in Nat /\ "running" \in Reports
            BY <1>0, <3>0 DEF ActiveHere, Running, EngineRecords, Reports
          <5>q. QED
            BY <1>0, <3>0, <4>4, <5>1, Answering DEF Requests
        <4>q. QED
          BY <1>0, <1>b, <1>c, <3>0, <3>1, <4>1, <4>2, <4>3, <4>4 DEF EnsureChild
      <3>2. CASE ReadChildBundle(w)
        BY <1>0, <1>b, <1>c, <3>0, <3>2 DEF ReadChildBundle
      <3>3. CASE MarkChild(w)
        <4>1. UNCHANGED <<child, engines>> /\ bundle' \in Bundles
          BY <1>0, <3>3, Marking DEF MarkChild, Bundles
        <4>q. QED
          BY <1>0, <1>b, <1>c, <3>0, <4>1
      <3>4. CASE StartChild(w)
        <4>1. /\ UNCHANGED bundle /\ resource.exists /\ Answered(pass[w].gen, "running", pass[w].run)
              /\ engines' = [engines EXCEPT ![pass[w].gen] = @ \union
                    {[attempt |-> pass[w].attempt, run |-> pass[w].run, outcome |-> "none"]}]
          BY <3>4 DEF StartChild, Orphaned
        <4>2. pass[w].run \in Nat /\ "running" \in Reports
              /\ [attempt |-> pass[w].attempt, run |-> pass[w].run, outcome |-> "none"] \in EngineRecords
          BY <3>0 DEF PassRecords, EngineRecords, Reports
        <4>3. engines' \in Running
          BY <1>0, <4>1, <4>2 DEF Running
        <4>4. child' \in Requests
          BY <1>0, <3>0, <4>1, <4>2, Answering DEF Requests
        <4>q. QED
          BY <1>0, <1>c, <3>0, <4>1, <4>3, <4>4
      <3>5. CASE RecordChild(w)
        <4>1. UNCHANGED <<bundle, engines>> /\ Answered(pass[w].gen, pass[w].result, pass[w].run)
              /\ pass[w].result \in Reports
          BY <3>5 DEF RecordChild, Reports
        <4>2. pass[w].run \in Nat
          BY <3>0 DEF PassRecords
        <4>3. child' \in Requests
          BY <1>0, <3>0, <4>1, <4>2, Answering DEF Requests
        <4>q. QED
          BY <1>0, <1>b, <1>c, <3>0, <4>1, <4>3
      <3>q. QED
        BY <2>3, <3>1, <3>2, <3>3, <3>4, <3>5
    <2>4. CASE WriteStatus(w)
      <3>1. UNCHANGED <<child, bundle, engines, aborted, overruled, mishaps>>
            /\ (resource.exists => resource'.exists)
        BY <2>4, WritesOrEnds DEF WriteStatus, Writes, PassEnds
      <3>q. QED
        BY <1>0, <1>b, <1>c, <3>1
    <2>5. CASE Finish(w)
      <3>0. UNCHANGED <<overruled, mishaps>>
        BY <2>5 DEF Finish
      <3>1. CASE UNCHANGED <<resource, child, bundle, engines, aborted>>
        BY <1>0, <1>b, <1>c, <3>0, <3>1
      <3>2. CASE DeleteResource
        <4>1. /\ child' = [g \in Generations |-> NoChild] /\ bundle' = [g \in Generations |-> << >>]
              /\ engines' = [g \in Generations |-> {}] /\ aborted' = {}
          BY <3>2 DEF DeleteResource
        <4>2. << >> \in Seq(BundleStates)
          OBVIOUS
        <4>q. QED
          BY <1>d, <3>0, <4>1, <4>2, NoChildTypes DEF Requests, Bundles, Running
      <3>q. QED
        BY <2>5, <3>1, <3>2 DEF Finish
    <2>q. QED
      BY <1>4, <2>1, <2>2, <2>3, <2>4, <2>5 DEF PassNext
  <1>5. ASSUME NEW a \in aborted, LateNext(a)
        PROVE  /\ child' \in Requests /\ bundle' \in Bundles /\ engines' \in Running /\ LateOK'
               /\ \A h \in Generations : engines'[h] # {} => resource'.exists
    <2>1. UNCHANGED <<resource, engines>>
      BY <1>5, LatesRest
    <2>2. child' \in Requests /\ bundle' \in Bundles /\ LateOK'
      BY <1>0, <1>5, LatesKept
    <2>q. QED
      BY <1>0, <1>b, <2>1, <2>2
  <1>q. QED
    BY <1>1, <1>2, <1>3, <1>4, <1>5 DEF CtlNext, ChildNext

LEMMA ChildrenKept ==
    ASSUME ChildInv, UNCHANGED <<child, engines>>,
           \A v \in ReconWorkers : pass'[v].pc \in Asking => pass'[v] = pass[v]
    PROVE  ChildInv'
  BY DEF ChildInv, Asking

\* A pass asks for the child of its generation: at most one does.
LEMMA AskingStep ==
    ASSUME Shape, Alone, ChildInv, NEW w \in ReconWorkers, NEW g \in Generations, pass[w].gen = g,
           EnsureChild(w) \/ ReadChildBundle(w) \/ MarkChild(w) \/ StartChild(w) \/ RecordChild(w)
    PROVE  ChildInv'
  <1>0. PassOK /\ pass \in [ReconWorkers -> PassRecords]
    BY DEF Shape, PassOK
  <1>1. pass[w].pc \in Awaiting
    BY DEF EnsureChild, ReadChildBundle, MarkChild, StartChild, RecordChild, At, Awaiting
  <1>2. \A v \in ReconWorkers \ {w} : pass[v].pc = "idle"
    BY <1>1, OthersRest DEF Awaiting
  <1>3. /\ child \in [Generations -> ChildRecords] /\ engines \in [Generations -> SUBSET EngineRecords]
        /\ \A h \in Generations :
              /\ \A e, f \in engines[h] : e = f
              /\ \A e \in engines[h] : e.attempt = child[h].attempt
              /\ child[h].state \in {"none", "interrupted"} => engines[h] = {}
        /\ "idle" \notin Asking
    BY DEF Shape, EnginesOK, ChildInv, Asking
  <1>4. ASSUME NEW pc \in Asking, NEW result, Learns(w, pc, result), UNCHANGED <<child, engines>>,
               engines[g] = {}, child[g].state \notin {"none", "interrupted"},
               pass[w].attempt = child[g].attempt
        PROVE  ChildInv'
    <2>1. /\ pass'[w].gen = g /\ pass'[w].attempt = child[g].attempt
          /\ \A v \in ReconWorkers \ {w} : pass'[v] = pass[v]
      BY <1>0, <1>4, Moved
    <2>q. QED
      BY <1>2, <1>3, <1>4, <2>1 DEF ChildInv, Asking
  <1>5. ASSUME NEW attempt, NEW run, Asks(w, attempt, run), UNCHANGED engines, engines[g] = {},
               child'[g].state \notin {"none", "interrupted"}, child'[g].attempt = attempt,
               \A h \in Generations \ {g} : child'[h] = child[h]
        PROVE  ChildInv'
    <2>1. /\ pass'[w].pc = "read" /\ pass'[w].gen = g /\ pass'[w].attempt = attempt
          /\ \A v \in ReconWorkers \ {w} : pass'[v] = pass[v]
      BY <1>0, <1>5, Moved
    <2>2. \A h \in Generations :
            /\ \A e, f \in engines'[h] : e = f
            /\ \A e \in engines'[h] : e.attempt = child'[h].attempt
            /\ child'[h].state \in {"none", "interrupted"} => engines'[h] = {}
      BY <1>3, <1>5
    <2>q. QED
      BY <1>2, <1>5, <2>1, <2>2 DEF ChildInv, Asking
  <1>6. ASSUME \/ To(w, "effect") \/ \E r : Result(w, r),
               \A h \in Generations :
                 /\ \A e, f \in engines'[h] : e = f
                 /\ \A e \in engines'[h] : e.attempt = child'[h].attempt
                 /\ child'[h].state \in {"none", "interrupted"} => engines'[h] = {}
        PROVE  ChildInv'
    <2>1. \A v \in ReconWorkers : pass'[v].pc \notin Asking
      BY <1>0, <1>2, <1>3, <1>6, Moved DEF Asking
    <2>q. QED
      BY <1>6, <2>1 DEF ChildInv, Asking
  <1>7. CASE EnsureChild(w)
    <2>0. UNCHANGED engines
      BY <1>7 DEF EnsureChild
    <2>1. CASE child[g].state \in {"succeeded", "failed"}
      <3>1. UNCHANGED child /\ (To(w, "effect") \/ Result(w, "settled"))
        BY <1>7, <2>1 DEF EnsureChild
      <3>q. QED
        BY <1>3, <1>6, <2>0, <3>1
    <2>2. CASE child[g].state \in {"none", "interrupted"}
      <3>1. NewAttempt(g) /\ Asks(w, child[g].attempt + 1, child[g].attempt + 1)
        BY <1>7, <2>2 DEF EnsureChild
      <3>2. /\ child'[g].attempt = child[g].attempt + 1 /\ child'[g].state = "pending"
            /\ \A h \in Generations \ {g} : child'[h] = child[h]
        BY <1>3, <3>1, Attempting DEF Shape, EnginesOK
      <3>3. engines[g] = {}
        BY <1>3, <2>2
      <3>q. QED
        BY <1>5, <2>0, <3>1, <3>2, <3>3
    <2>3. CASE child[g].state \in {"pending", "running"}
      <3>1. CASE ActiveHere(g) = {}
        <4>1. UNCHANGED child /\ Asks(w, child[g].attempt, child[g].run)
          BY <1>7, <2>3, <3>1 DEF EnsureChild
        <4>2. engines[g] = {}
          BY <1>3, <3>1 DEF ActiveHere
        <4>q. QED
          BY <1>5, <2>0, <2>3, <4>1, <4>2
      <3>2. CASE ActiveHere(g) # {}
        <4>1. PICK e \in ActiveHere(g) : Answered(g, "running", e.run) /\ Result(w, "later")
          BY <1>7, <2>3, <3>2 DEF EnsureChild
        <4>2. e.run \in Nat /\ "running" \in Reports
          BY <1>3 DEF ActiveHere, EngineRecords, Reports
        <4>3. /\ child'[g].attempt = child[g].attempt /\ child'[g].state = "running"
              /\ \A h \in Generations \ {g} : child'[h] = child[h]
          BY <1>3, <4>1, <4>2, Answering
        <4>4. \A h \in Generations :
                /\ \A d, f \in engines'[h] : d = f
                /\ \A d \in engines'[h] : d.attempt = child'[h].attempt
                /\ child'[h].state \in {"none", "interrupted"} => engines'[h] = {}
          BY <1>3, <2>0, <4>3
        <4>q. QED
          BY <1>6, <4>1, <4>4
      <3>q. QED
        BY <3>1, <3>2
    <2>4. child[g].state \in {"none", "pending", "running", "succeeded", "failed", "interrupted"}
      BY <1>3 DEF ChildRecords, Reports
    <2>q. QED
      BY <2>1, <2>2, <2>3, <2>4
  <1>8. CASE ReadChildBundle(w) \/ MarkChild(w)
    <2>1. UNCHANGED <<child, engines>> /\ pass[w].pc \in {"read", "mark"}
      BY <1>8 DEF ReadChildBundle, MarkChild, At
    <2>2. engines[g] = {} /\ child[g].state \notin {"none", "interrupted"}
          /\ pass[w].attempt = child[g].attempt
      BY <2>1 DEF ChildInv
    <2>3. \E pc \in Asking : \E result : Learns(w, pc, result)
      BY <1>8 DEF ReadChildBundle, MarkChild, Asking
    <2>q. QED
      BY <1>4, <2>1, <2>2, <2>3
  <1>9. CASE StartChild(w)
    <2>1. /\ engines' = [engines EXCEPT ![g] = @ \union
               {[attempt |-> pass[w].attempt, run |-> pass[w].run, outcome |-> "none"]}]
          /\ Answered(g, "running", pass[w].run) /\ Result(w, "later") /\ pass[w].pc = "start"
      BY <1>9 DEF StartChild, At
    <2>2. engines[g] = {} /\ pass[w].attempt = child[g].attempt
      BY <2>1 DEF ChildInv
    <2>3. engines'[g] = {[attempt |-> child[g].attempt, run |-> pass[w].run, outcome |-> "none"]}
          /\ \A h \in Generations \ {g} : engines'[h] = engines[h]
      BY <1>3, <2>1, <2>2
    <2>4. pass[w].run \in Nat /\ "running" \in Reports
      BY <1>0 DEF PassRecords, Reports
    <2>5. /\ child'[g].attempt = child[g].attempt /\ child'[g].state = "running"
          /\ \A h \in Generations \ {g} : child'[h] = child[h]
      BY <1>3, <2>1, <2>4, Answering
    <2>6. \A h \in Generations :
            /\ \A d, f \in engines'[h] : d = f
            /\ \A d \in engines'[h] : d.attempt = child'[h].attempt
            /\ child'[h].state \in {"none", "interrupted"} => engines'[h] = {}
      <3>1. ASSUME NEW h \in Generations \ {g}
            PROVE  /\ \A d, f \in engines'[h] : d = f
                   /\ \A d \in engines'[h] : d.attempt = child'[h].attempt
                   /\ child'[h].state \in {"none", "interrupted"} => engines'[h] = {}
        BY <1>3, <2>3, <2>5
      <3>2. /\ \A d, f \in engines'[g] : d = f
            /\ \A d \in engines'[g] : d.attempt = child'[g].attempt
            /\ child'[g].state \notin {"none", "interrupted"}
        BY <2>3, <2>5
      <3>q. QED
        BY <3>1, <3>2
    <2>q. QED
      BY <1>6, <2>1, <2>6
  <1>10. CASE RecordChild(w)
    <2>1. /\ Answered(g, pass[w].result, pass[w].run) /\ UNCHANGED engines /\ pass[w].pc = "record"
          /\ pass[w].result \in Reports /\ (To(w, "effect") \/ \E r : Result(w, r))
      BY <1>10 DEF RecordChild, At, Reports
    <2>2. pass[w].result = "interrupted" => engines[g] = {}
      BY <2>1 DEF ChildInv
    <2>3. pass[w].run \in Nat
      BY <1>0 DEF PassRecords
    <2>4. /\ child'[g].attempt = child[g].attempt /\ child'[g].state = pass[w].result
          /\ \A h \in Generations \ {g} : child'[h] = child[h]
      BY <1>3, <2>1, <2>3, Answering
    <2>5. \A h \in Generations :
            /\ \A d, f \in engines'[h] : d = f
            /\ \A d \in engines'[h] : d.attempt = child'[h].attempt
            /\ child'[h].state \in {"none", "interrupted"} => engines'[h] = {}
      BY <1>3, <2>1, <2>2, <2>4 DEF Reports
    <2>q. QED
      BY <1>6, <2>1, <2>5
  <1>q. QED
    BY <1>7, <1>8, <1>9, <1>10

\* The engine of a request goes on, ends and leaves the map.
LEMMA EngineStep ==
    ASSUME Shape, ChildInv, NEW g \in Generations, NEW e \in engines[g],
           ChildEnds(g, e) \/ ChildCompletes(g, e)
    PROVE  ChildInv'
  <1>0. /\ engines \in [Generations -> SUBSET EngineRecords] /\ child \in [Generations -> ChildRecords]
        /\ engines[g] = {e} /\ e \in EngineRecords /\ UNCHANGED pass
        /\ \A v \in ReconWorkers : pass[v].pc \in Asking => pass[v].gen \in Generations
    BY DEF Shape, PassOK, EnginesOK, ChildInv, ChildEnds, ChildCompletes, Asking, Loaded, Past, Awaiting
  <1>1. \A h \in Generations :
          /\ \A d, f \in engines[h] : d = f
          /\ \A d \in engines[h] : d.attempt = child[h].attempt
          /\ child[h].state \in {"none", "interrupted"} => engines[h] = {}
    BY DEF ChildInv
  <1>2. \A v \in ReconWorkers :
          /\ pass[v].pc \in {"read", "mark", "start"} =>
               /\ engines[pass[v].gen] = {} /\ pass[v].gen \in Generations \ {g}
               /\ child[pass[v].gen].state \notin {"none", "interrupted"}
               /\ pass[v].attempt = child[pass[v].gen].attempt
          /\ pass[v].pc = "record" /\ pass[v].result = "interrupted" =>
               engines[pass[v].gen] = {} /\ pass[v].gen \in Generations \ {g}
    BY <1>0 DEF ChildInv, Asking
  <1>3. CASE ChildEnds(g, e)
    <2>1. PICK outcome \in {"completed", "failed"} :
             engines' = [engines EXCEPT ![g] = (@ \ {e}) \union {[e EXCEPT !.outcome = outcome]}]
      BY <1>3 DEF ChildEnds
    <2>2. engines'[g] = {[e EXCEPT !.outcome = outcome]} /\ [e EXCEPT !.outcome = outcome].attempt = e.attempt
          /\ \A h \in Generations \ {g} : engines'[h] = engines[h]
      BY <1>0, <2>1 DEF EngineRecords
    <2>3. UNCHANGED child
      BY <1>3 DEF ChildEnds
    <2>4. \A h \in Generations :
            /\ \A d, f \in engines'[h] : d = f
            /\ \A d \in engines'[h] : d.attempt = child'[h].attempt
            /\ child'[h].state \in {"none", "interrupted"} => engines'[h] = {}
      <3>1. /\ \A d, f \in engines'[g] : d = f
            /\ \A d \in engines'[g] : d.attempt = child'[g].attempt
            /\ child'[g].state \notin {"none", "interrupted"}
        BY <1>0, <1>1, <2>2, <2>3
      <3>q. QED
        BY <1>1, <2>2, <2>3, <3>1
    <2>q. QED
      BY <1>0, <1>2, <2>2, <2>3, <2>4 DEF ChildInv
  <1>4. CASE ChildCompletes(g, e)
    <2>1. engines' = [engines EXCEPT ![g] = @ \ {e}] /\ Answered(g, Outcome(e.outcome), e.run)
      BY <1>4 DEF ChildCompletes
    <2>2. engines'[g] = {} /\ \A h \in Generations \ {g} : engines'[h] = engines[h]
      BY <1>0, <2>1
    <2>3. Outcome(e.outcome) \in Reports /\ e.run \in Nat
      BY <1>0 DEF Outcome, Reports, EngineRecords
    <2>4. \A h \in Generations \ {g} : child'[h] = child[h]
      BY <1>0, <2>1, <2>3, Answering
    <2>5. \A h \in Generations :
            /\ \A d, f \in engines'[h] : d = f
            /\ \A d \in engines'[h] : d.attempt = child'[h].attempt
            /\ child'[h].state \in {"none", "interrupted"} => engines'[h] = {}
      BY <1>1, <2>2, <2>4
    <2>q. QED
      BY <1>0, <1>2, <2>2, <2>4, <2>5 DEF ChildInv
  <1>q. QED
    BY <1>3, <1>4

\* An aborted pass gives a request another attempt when it has no engine; what
\* it records is the outcome of an engine that is gone, or that one runs, unless
\* it overrules the request.
LEMMA LatesHarmless ==
    ASSUME Shape, ChildInv, NEW a \in aborted, LateNext(a), ~overruled'
    PROVE  ChildInv'
  <1>0. /\ child \in [Generations -> ChildRecords] /\ bundle \in [Generations -> Seq(BundleStates)]
        /\ a.gen \in Generations /\ a.run \in Nat /\ (a.pc = "record" => a.result \in Reports)
        /\ \A v \in ReconWorkers : pass[v].pc \in Asking => pass[v].gen \in Generations
    BY DEF Shape, PassOK, EnginesOK, AbortedRecords, Asking, Loaded, Past, Awaiting
  <1>1. UNCHANGED <<engines, pass>>
    BY LatesRest
  <1>2. CASE UNCHANGED child
    BY <1>1, <1>2, ChildrenKept
  <1>3. PICK g \in Generations : g = a.gen
    BY <1>0
  <1>4. CASE child[g].state \in {"none", "interrupted"} /\ NewAttempt(g)
    <2>1. /\ child'[g].state = "pending" /\ engines[g] = {}
          /\ \A h \in Generations \ {g} : child'[h] = child[h]
      BY <1>0, <1>4, Attempting DEF ChildInv
    <2>2. \A v \in ReconWorkers : pass[v].pc \in {"read", "mark", "start"} => pass[v].gen \in Generations \ {g}
      BY <1>0, <1>4 DEF ChildInv, Asking
    <2>3. \A h \in Generations :
            /\ \A d, f \in engines'[h] : d = f
            /\ \A d \in engines'[h] : d.attempt = child'[h].attempt
            /\ child'[h].state \in {"none", "interrupted"} => engines'[h] = {}
      BY <1>1, <2>1 DEF ChildInv
    <2>q. QED
      BY <1>1, <2>1, <2>2, <2>3 DEF ChildInv
  <1>5. CASE LateRecord(a)
    <2>1. Answered(g, a.result, a.run) /\ a.result \in Reports /\ a.result # "interrupted"
      BY <1>0, <1>3, <1>5 DEF LateRecord
    <2>2. /\ child'[g].attempt = child[g].attempt /\ child'[g].state \notin {"none", "interrupted"}
          /\ \A h \in Generations \ {g} : child'[h] = child[h]
      BY <1>0, <2>1, Answering DEF Reports
    <2>3. \A h \in Generations :
            /\ \A d, f \in engines'[h] : d = f
            /\ \A d \in engines'[h] : d.attempt = child'[h].attempt
            /\ child'[h].state \in {"none", "interrupted"} => engines'[h] = {}
      BY <1>1, <2>2 DEF ChildInv
    <2>4. ASSUME NEW v \in ReconWorkers, pass[v].pc \in {"read", "mark", "start"}
          PROVE  /\ engines[pass[v].gen] = {} /\ child'[pass[v].gen].state \notin {"none", "interrupted"}
                 /\ pass[v].attempt = child'[pass[v].gen].attempt
      <3>1. /\ engines[pass[v].gen] = {} /\ child[pass[v].gen].state \notin {"none", "interrupted"}
            /\ pass[v].attempt = child[pass[v].gen].attempt
        BY <2>4 DEF ChildInv
      <3>2. pass[v].gen \in Generations
        BY <1>0, <2>4 DEF Asking
      <3>q. QED
        BY <2>2, <3>1, <3>2
    <2>q. QED
      BY <1>1, <2>3, <2>4 DEF ChildInv
  <1>q. QED
    BY <1>2, <1>3, <1>4, <1>5 DEF LateNext, LateEnsure, LateRead, LateMark, LateEffect, LateApply

LEMMA ChildInvKept ==
    ASSUME Shape, Alone, ChildInv, [CtlNext]_ctlVars, ~overruled'
    PROVE  ChildInv'
  <1>0. PassOK /\ "idle" \notin Asking /\ Asking \subseteq Awaiting
    BY DEF Shape, Asking, Awaiting
  <1>1. ASSUME NEW w \in ReconWorkers,
               EnsureChild(w) \/ ReadChildBundle(w) \/ MarkChild(w) \/ StartChild(w) \/ RecordChild(w)
        PROVE  ChildInv'
    <2>1. pass[w].gen \in Generations
      BY <1>0, <1>1 DEF EnsureChild, ReadChildBundle, MarkChild, StartChild, RecordChild, At, PassOK, Loaded,
                        Past, Awaiting
    <2>q. QED
      BY <1>1, <2>1, AskingStep
  <1>2. CASE ~\E w \in ReconWorkers :
               EnsureChild(w) \/ ReadChildBundle(w) \/ MarkChild(w) \/ StartChild(w) \/ RecordChild(w)
    <2>1. \A v \in ReconWorkers : pass'[v].pc \in Asking => pass'[v] = pass[v]
      BY <1>0, <1>2, NotAsking
    <2>2. CASE UNCHANGED <<child, engines>>
      BY <2>1, <2>2, ChildrenKept
    <2>3. ASSUME \A g \in Generations : engines'[g] = {}, \A v \in ReconWorkers : pass'[v].pc = "idle"
          PROVE  ChildInv'
      BY <2>3 DEF ChildInv
    <2>4. CASE EndManager
      BY <2>3, <2>4, NoPassTypes DEF EndManager
    <2>5. ASSUME NEW w \in ReconWorkers, Finish(w), DeleteResource  PROVE  ChildInv'
      <3>1. pass[w].pc # "idle" /\ pass' = [pass EXCEPT ![w] = NoPass]
        BY <2>5 DEF Finish, At
      <3>2. \A v \in ReconWorkers : pass'[v].pc = "idle"
        BY <1>0, <3>1, OthersRest, NoPassTypes DEF PassOK
      <3>3. engines' = [g \in Generations |-> {}]
        BY <2>5 DEF DeleteResource
      <3>q. QED
        BY <2>3, <3>2, <3>3
    <2>6. ASSUME NEW w \in ReconWorkers, Finish(w)  PROVE  ChildInv'
      BY <2>2, <2>5, <2>6 DEF Finish
    <2>7. CASE \/ PutResource \/ RequestDeletion \/ Wake \/ ClaimExpires \/ BecomeDue \/ StartManager
               \/ UNCHANGED ctlVars
      BY <2>2, <2>7 DEF PutResource, RequestDeletion, Wake, ClaimExpires, BecomeDue, StartManager, ctlVars
    <2>8. CASE \E w \in ReconWorkers :
                 \/ ClaimNext(w) \/ Load(w) \/ PassFails(w) \/ ClaimIsLost(w) \/ EnsureEffect(w)
                 \/ ObserveEffect(w) \/ ObserveUnknown(w) \/ ApplyEffect(w) \/ ApplyThrows(w)
                 \/ TimeOut(w) \/ WriteStatus(w)
      BY <2>2, <2>8 DEF ClaimNext, Load, PassFails, ClaimIsLost, EnsureEffect, ObserveEffect, ObserveUnknown,
                        ApplyEffect, ApplyThrows, TimeOut, Abort, WriteStatus
    <2>9. ASSUME NEW g \in Generations, ChildNext(g)  PROVE  ChildInv'
      BY <2>2, <2>9, EngineStep DEF ChildNext, ChildWrites
    <2>10. ASSUME NEW a \in aborted, LateNext(a)  PROVE  ChildInv'
      BY <2>10, LatesHarmless
    <2>q. QED
      BY <1>2, <2>4, <2>6, <2>7, <2>8, <2>9, <2>10 DEF CtlNext, PassNext
  <1>q. QED
    BY <1>1, <1>2

\* What an aborted pass has overruled stays so.
LEMMA OverruledStays == ASSUME Shape, [CtlNext]_ctlVars, ~overruled'  PROVE  ~overruled
  <1>0. overruled \in BOOLEAN
    BY DEF Shape, EnginesOK
  <1>1. CASE PutResource \/ RequestDeletion \/ Wake \/ ClaimExpires \/ BecomeDue \/ StartManager
             \/ EndManager \/ UNCHANGED ctlVars
    BY <1>1 DEF PutResource, RequestDeletion, Wake, ClaimExpires, BecomeDue, StartManager, EndManager, ctlVars
  <1>2. ASSUME NEW w \in ReconWorkers, PassNext(w) \/ ObserveUnknown(w) \/ ApplyThrows(w) \/ TimeOut(w)
        PROVE  UNCHANGED overruled
    BY <1>2 DEF PassNext, ClaimNext, Load, PassFails, EnsureChild, ReadChildBundle, MarkChild, StartChild,
                RecordChild, EnsureEffect, ObserveEffect, ApplyEffect, WriteStatus, Finish, ClaimIsLost,
                ObserveUnknown, ApplyThrows, TimeOut, Abort
  <1>3. ASSUME NEW g \in Generations, ChildNext(g)  PROVE  UNCHANGED overruled
    BY <1>3 DEF ChildNext, ChildWrites, ChildEnds, ChildCompletes
  <1>4. ASSUME NEW a \in aborted, LateNext(a)  PROVE  ~overruled
    BY <1>0, <1>4 DEF LateNext, LateEnsure, LateRead, LateMark, LateRecord, LateEffect, LateApply
  <1>q. QED
    BY <1>1, <1>2, <1>3, <1>4 DEF CtlNext

-----------------------------------------------------------------------------
(* The invariant, and what follows from it *)

LEMMA CtlInvInit == CtlInit => CtlInv
  <1> SUFFICES ASSUME CtlInit  PROVE  CtlInv
    OBVIOUS
  <1> USE ControllerAssumption DEF CtlInit
  <1>1. pass \in [ReconWorkers -> PassRecords] /\ \A w \in ReconWorkers : pass[w].pc = "idle"
    BY NoPassTypes
  <1>2. "idle" \notin Loaded /\ Past \subseteq Loaded /\ "finish" \in Loaded
        /\ "record" \in Loaded /\ Awaiting \subseteq Loaded /\ Asking \subseteq Loaded
        /\ {"observe", "apply"} \subseteq Loaded
    BY DEF Loaded, Past, Awaiting, Asking
  <1>3. /\ resource \in ResourceRecords /\ ~resource.exists
        /\ row \in QueueRows /\ ~row.exists /\ row.token = NoWorker /\ ~row.live
    BY DEF NoResource, NoQueueRow, ResourceRecords, QueueRows
  <1>4. ResourceOK /\ RowOK /\ PassOK
    BY <1>1, <1>2, <1>3 DEF ResourceOK, RowOK, PassOK
  <1>5. EnginesOK
    <2>1. <<>> \in Seq(BundleStates)
      BY EmptySeq
    <2>q. QED
      BY <1>1, <1>2, <2>1, NoChildTypes DEF EnginesOK
  <1>6. Known /\ Covered /\ NoChangeLost /\ Alone
    BY <1>1, <1>2, <1>3 DEF Known, Covered, NoChangeLost, Alone
  <1>7. EffectInv
    BY <1>1, <1>2 DEF EffectInv, EffectStates
  <1>8. ChildInv
    BY <1>1, <1>2 DEF ChildInv, Asking
  <1>q. QED
    BY <1>4, <1>5, <1>6, <1>7, <1>8 DEF CtlInv, QueueInv, Shape

LEMMA CtlInvStep == CtlInv /\ [CtlNext]_ctlVars => CtlInv'
  <1> SUFFICES ASSUME CtlInv, [CtlNext]_ctlVars  PROVE  CtlInv'
    OBVIOUS
  <1>1. /\ Shape /\ Known /\ Covered /\ NoChangeLost
        /\ ~stalled => Alone /\ EffectInv
        /\ ~stalled /\ ~overruled => ChildInv
    BY DEF CtlInv, QueueInv
  <1>2. QueueStep
    BY <1>1, QueueSteps
  <1>3. Shape'
    BY <1>1, <1>2, QueueTypes, EnginesKept DEF Shape
  <1>4. Known' /\ Covered' /\ NoChangeLost'
    BY <1>1, <1>2, KnownKept, NothingOwedIsLost
  <1>5. ASSUME ~stalled'
        PROVE  Alone' /\ EffectInv' /\ (~overruled' => ChildInv')
    <2>1. ~stalled
      BY <1>1, <1>2, <1>5, StalledStays
    <2>2. Alone' /\ EffectInv'
      BY <1>1, <1>2, <1>5, <2>1, AloneKept, EffectKept
    <2>3. ASSUME ~overruled'  PROVE  ChildInv'
      <3>1. ~overruled
        BY <1>1, <2>3, OverruledStays
      <3>q. QED
        BY <1>1, <2>1, <2>3, <3>1, ChildInvKept
    <2>q. QED
      BY <2>2, <2>3
  <1>q. QED
    BY <1>3, <1>4, <1>5 DEF CtlInv, QueueInv

\* The inductive invariant of the controller runtime: row, claims and passes
\* agree with the resource, and (until a pass outlives its lease) reservations
\* with what was performed and, until an aborted pass has recorded a run as
\* interrupted, child requests with the engines that run.
THEOREM CtlInvariance == CtlSpec => []CtlInv
  <1>1. CtlInit => CtlInv
    BY CtlInvInit
  <1>2. CtlInv /\ [CtlNext]_ctlVars => CtlInv'
    BY CtlInvStep
  <1>q. QED
    BY <1>1, <1>2, PTL DEF CtlSpec

\* A resource whose spec was not observed yet, or that is to be deleted, is on
\* the queue: settleItem removes the row of a key only when no wake came since
\* its claim and the pass wrote the generation that is current. A pass that
\* outlived its lease may break it only for a resource made anew under the key.
THEOREM NoChangeIsLost == CtlSpec => []NoChangeLost
  <1>1. CtlInv => NoChangeLost
    BY DEF CtlInv, QueueInv
  <1>q. QED
    BY <1>1, CtlInvariance, PTL

\* As long as no pass outlives its lease, the effect runtime performs the effect
\* of a generation at most once: it was reserved before the call, and a pass
\* that finds a reservation observes the provider before it calls it again.
THEOREM EffectsOnce == CtlSpec => []EffectOnce
  <1>1. CtlInv => EffectOnce
    BY DEF CtlInv, EffectInv, EffectOnce
  <1>q. QED
    BY <1>1, CtlInvariance, PTL

\* The child scheduler has at most one engine for a request (it starts another
\* attempt only when the bundle shows that the engine of the last one is gone),
\* though passes that were aborted go on beside the next one: as long as no pass
\* outlives its lease and no aborted one has recorded a run as interrupted.
THEOREM OneEngineEach == CtlSpec => []OneChildEngine
  <1>1. CtlInv => OneChildEngine
    <2> SUFFICES ASSUME CtlInv, ~stalled /\ ~overruled, NEW g \in Generations
                 PROVE  Cardinality(engines[g]) <= 1
      BY DEF OneChildEngine
    <2>0. \A e, f \in engines[g] : e = f
      BY DEF CtlInv, ChildInv
    <2>1. engines[g] = {} \/ \E e : engines[g] = {e}
      BY <2>0
    <2>2. CASE engines[g] = {}
      BY <2>2, FS_EmptySet
    <2>3. ASSUME NEW e, engines[g] = {e}  PROVE  Cardinality(engines[g]) = 1
      BY <2>3, FS_Singleton
    <2>q. QED
      BY <2>1, <2>2, <2>3
  <1>q. QED
    BY <1>1, CtlInvariance, PTL

-----------------------------------------------------------------------------
(* What mishaps cost *)

Holds(w) == row.token = w /\ row.live

\* The passes that have lost their claim, and those of them that may still write
\* the status of a resource.
Lost == {w \in ReconWorkers : pass[w].pc # "idle" /\ ~Holds(w)}
Late == {w \in Lost : pass[w].pc # "finish"}

\* One pass at most has the claim, of the resource there is.
HolderKnows ==
    \A w \in ReconWorkers : Holds(w) /\ pass[w].pc \in Loaded => pass[w].uid = resource.uid

\* A version is a change of a caller or the status write that follows it, unless
\* a pass of an earlier incarnation wrote.
Owed == resource.exists /\ (resource.observed # resource.gen \/ resource.finalizer = resource.deleting)
Credit == 2 * (Changes + mishaps)
VersionFits ==
    resource.version + One(Owed) + 2 * Cardinality(Late) <= Credit

NumbersFit ==
    /\ resource.uid <= MaxUid
    /\ \A w \in ReconWorkers : pass[w].uid \in 0..MaxUid /\ pass[w].version \in 0..MaxVersion
    /\ wakes \in 0..MaxWakes /\ mishaps \in 0..MaxMishaps

LostFits == Cardinality(Lost) <= mishaps

LEMMA LostAreFew ==
    /\ IsFiniteSet(Lost) /\ IsFiniteSet(Late) /\ Late \subseteq Lost
    /\ Cardinality(Lost) \in Nat /\ Cardinality(Late) \in Nat /\ Cardinality(Late) <= Cardinality(Lost)
  <1>1. IsFiniteSet(ReconWorkers) /\ Lost \subseteq ReconWorkers /\ Late \subseteq Lost
    BY ControllerAssumption DEF Lost, Late
  <1>q. QED
    BY <1>1, FS_Subset, FS_CardinalityType

\* A set that gains at most one element has at most one more.
LEMMA OneMore ==
    ASSUME NEW S, IsFiniteSet(S), NEW T, NEW x, T \subseteq S \union {x}
    PROVE  /\ IsFiniteSet(T) /\ Cardinality(T) \in Nat /\ Cardinality(S) \in Nat
           /\ Cardinality(T) <= Cardinality(S) + 1
  <1>1. /\ IsFiniteSet(S \union {x})
        /\ Cardinality(S \union {x}) = IF x \in S THEN Cardinality(S) ELSE Cardinality(S) + 1
    BY FS_AddElement
  <1>2. IsFiniteSet(T) /\ Cardinality(T) <= Cardinality(S \union {x})
    BY <1>1, FS_Subset
  <1>3. Cardinality(T) \in Nat /\ Cardinality(S) \in Nat
    BY <1>2, FS_CardinalityType
  <1>q. QED
    BY <1>1, <1>2, <1>3

\* One that loses an element has at least one less.
LEMMA OneLess ==
    ASSUME NEW S, IsFiniteSet(S), NEW T, T \subseteq S, NEW y \in S, y \notin T
    PROVE  IsFiniteSet(T) /\ Cardinality(T) \in Nat /\ Cardinality(T) + 1 <= Cardinality(S)
  <1>1. IsFiniteSet(S \ {y}) /\ Cardinality(S \ {y}) = Cardinality(S) - 1
    BY FS_RemoveElement
  <1>2. T \subseteq S \ {y}
    OBVIOUS
  <1>3. IsFiniteSet(T) /\ Cardinality(T) <= Cardinality(S \ {y})
    BY <1>1, <1>2, FS_Subset
  <1>4. Cardinality(T) \in Nat /\ Cardinality(S) \in Nat
    BY <1>3, FS_CardinalityType
  <1>q. QED
    BY <1>1, <1>3, <1>4

\* One that exchanges an element for another has as many.
LEMMA OneForOne ==
    ASSUME NEW S, IsFiniteSet(S), NEW T, NEW x, T \subseteq S \union {x}, NEW y \in S, y \notin T
    PROVE  IsFiniteSet(T) /\ Cardinality(T) \in Nat /\ Cardinality(T) <= Cardinality(S)
  <1> DEFINE U == T \ {x}
  <1>1. U \subseteq S /\ y \notin U /\ T \subseteq U \union {x}
    OBVIOUS
  <1> HIDE DEF U
  <1>2. IsFiniteSet(U) /\ Cardinality(U) \in Nat /\ Cardinality(U) + 1 <= Cardinality(S)
    BY <1>1, OneLess
  <1>3. IsFiniteSet(T) /\ Cardinality(T) \in Nat /\ Cardinality(T) <= Cardinality(U) + 1
    BY <1>1, <1>2, OneMore
  <1>4. Cardinality(S) \in Nat
    BY FS_CardinalityType
  <1>q. QED
    BY <1>2, <1>3, <1>4

LEMMA Mishaps ==
    ASSUME mishaps \in 0..MaxMishaps, wakes \in 0..MaxWakes, [CtlNext]_ctlVars
    PROVE  mishaps' \in {mishaps, mishaps + 1} /\ mishaps' \in 0..MaxMishaps /\ wakes' \in 0..MaxWakes
  <1>0. MaxMishaps \in Nat /\ MaxWakes \in Nat
    BY ControllerAssumption
  <1>1. ASSUME UNCHANGED mishaps \/ Mishap
        PROVE  mishaps' \in {mishaps, mishaps + 1} /\ mishaps' \in 0..MaxMishaps
    BY <1>0, <1>1 DEF Mishap
  <1>2. CASE PutResource \/ RequestDeletion \/ BecomeDue \/ StartManager \/ UNCHANGED ctlVars
             \/ \E g \in Generations : ChildNext(g)
    BY <1>1, <1>2 DEF PutResource, RequestDeletion, BecomeDue, StartManager, ctlVars, ChildNext,
                      ChildWrites, ChildEnds, ChildCompletes
  <1>3. CASE Wake
    BY <1>0, <1>1, <1>3 DEF Wake
  <1>4. CASE ClaimExpires \/ EndManager
    BY <1>1, <1>4 DEF ClaimExpires, EndManager
  <1>5. ASSUME NEW w \in ReconWorkers, PassNext(w) \/ ObserveUnknown(w) \/ ApplyThrows(w) \/ TimeOut(w)
        PROVE  UNCHANGED wakes /\ (UNCHANGED mishaps \/ Mishap)
    BY <1>5 DEF PassNext, ClaimNext, Load, PassFails, EnsureChild, ReadChildBundle, MarkChild, StartChild,
                RecordChild, EnsureEffect, ObserveEffect, ApplyEffect, WriteStatus, Finish, ClaimIsLost,
                ObserveUnknown, ApplyThrows, TimeOut, Abort
  <1>6. ASSUME NEW a \in aborted, LateNext(a)  PROVE  UNCHANGED <<wakes, mishaps>>
    BY <1>6, LatesRest
  <1>q. QED
    BY <1>1, <1>2, <1>3, <1>4, <1>5, <1>6 DEF CtlNext

\* The row that a pass leaves at its end is nobody's that was not somebody else's.
LEMMA Leaving ==
    ASSUME Shape, NEW w \in ReconWorkers, PassEnds(w)
    PROVE  /\ pass'[w].pc = "idle" /\ \A v \in ReconWorkers \ {w} : pass'[v] = pass[v]
           /\ \A v \in ReconWorkers \ {w} : Holds(v)' <=> Holds(v)
  <1>1. pass'[w].pc = "idle" /\ \A v \in ReconWorkers \ {w} : pass'[v] = pass[v]
    BY NoPassTypes DEF PassEnds, Shape, PassOK
  <1>2. /\ row.token # w => row' = row
        /\ row.token = w => ~row'.live
    <2>1. CASE UNCHANGED row /\ row.token # w
      BY <2>1
    <2>2. CASE (\E now \in BOOLEAN : row' = RequeuedRow(w, now)) \/ row' = SettledRow(w)
      BY <2>2, Rows
    <2>q. QED
      BY <2>1, <2>2 DEF PassEnds
  <1>q. QED
    BY <1>1, <1>2 DEF Holds

\* A pass loses its claim by a mishap, or to the one that deletes the resource
\* though it has lost its own.
LEMMA Losing ==
    ASSUME Shape, QueueStep
    PROVE  \/ Lost' \subseteq Lost /\ Late' \subseteq Late
           \/ \E v : Lost' \subseteq Lost \union {v} /\ Late' \subseteq Late \union {v}
                     /\ mishaps' = mishaps + 1 /\ UNCHANGED resource
           \/ \E w \in Lost : /\ Deletes(w) /\ w \notin Lost'
                             /\ \E v : Lost' \subseteq Lost \union {v}
  <1>0. /\ row \in QueueRows /\ pass \in [ReconWorkers -> PassRecords] /\ NoWorker \notin ReconWorkers
        /\ row.live => row.token # NoWorker
        /\ ~up => \A w \in ReconWorkers : pass[w].pc = "idle"
    BY ControllerAssumption DEF Shape, RowOK, PassOK
  <1>1. CASE Queues
    <2>1. row'.token = row.token /\ row'.live = row.live /\ pass' = pass
      BY <1>0, <1>1 DEF Queues, WokenRow, QueueRows
    <2>q. QED
      BY <2>1 DEF Lost, Late, Holds
  <1>2. CASE Waits
    <2>1. CASE row' = [row EXCEPT !.due = TRUE]
      BY <1>0, <1>2, <2>1 DEF Waits, Lost, Late, Holds, QueueRows
    <2>2. CASE row' = [row EXCEPT !.live = FALSE] /\ mishaps' = mishaps + 1
      BY <1>0, <1>2, <2>2 DEF Waits, Lost, Late, Holds, QueueRows
    <2>3. CASE row' = [row EXCEPT !.live = FALSE] /\ row.live /\ ~(up /\ pass[row.token].pc # "idle")
      <3>1. \A w \in ReconWorkers : Holds(w) => pass[w].pc = "idle"
        BY <1>0, <2>3 DEF Holds
      <3>q. QED
        BY <1>2, <3>1 DEF Waits, Lost, Late
    <2>q. QED
      BY <1>2, <2>1, <2>2, <2>3 DEF Waits
  <1>3. CASE Restarts
    <2>1. \A w \in ReconWorkers : pass'[w].pc = "idle"
      BY <1>0, <1>3, NoPassTypes DEF Restarts
    <2>q. QED
      BY <2>1 DEF Lost, Late
  <1>4. ASSUME NEW w \in ReconWorkers, Claims(w)
        PROVE  Lost' \subseteq Lost /\ Late' \subseteq Late
    <2>1. /\ row'.token = w /\ row'.live /\ ~row.live
          /\ \A v \in ReconWorkers \ {w} : pass'[v] = pass[v]
      BY <1>0, <1>4 DEF Claims, QueueRows
    <2>q. QED
      BY <2>1 DEF Lost, Late, Holds
  <1>5. ASSUME NEW w \in ReconWorkers, Loads(w) \/ Advances(w) \/ Writes(w)
        PROVE  Lost' \subseteq Lost /\ Late' \subseteq Late
    <2>1. /\ row' = row /\ pass[w].pc \notin {"idle", "finish"}
          /\ \A v \in ReconWorkers \ {w} : pass'[v] = pass[v]
      BY <1>0, <1>5 DEF Loads, Advances, Writes, Awaiting
    <2>q. QED
      BY <2>1 DEF Lost, Late, Holds
  <1>6. ASSUME NEW w \in ReconWorkers, PassEnds(w)
        PROVE  Lost' \subseteq Lost /\ Late' \subseteq Late
    BY <1>6, Leaving DEF Lost, Late
  <1>7. ASSUME NEW w \in ReconWorkers, Deletes(w)
        PROVE  \/ Lost' \subseteq Lost /\ Late' \subseteq Late
               \/ \E v : w \in Lost /\ w \notin Lost' /\ Lost' \subseteq Lost \union {v}
    <2>1. /\ pass'[w].pc = "idle" /\ pass[w].pc = "finish"
          /\ \A v \in ReconWorkers \ {w} : pass'[v] = pass[v]
      BY <1>0, <1>7, NoPassTypes DEF Deletes
    <2>2. w \notin Lost' /\ Lost' \subseteq Lost \union {row.token}
      BY <2>1 DEF Lost, Holds
    <2>3. CASE Holds(w)
      BY <2>1, <2>3 DEF Lost, Late, Holds
    <2>4. CASE ~Holds(w)
      BY <2>1, <2>2, <2>4 DEF Lost
    <2>q. QED
      BY <2>3, <2>4
  <1>8. CASE UNCHANGED <<resource, row, pass, up, stalled>>
    BY <1>8 DEF Lost, Late, Holds
  <1>q. QED
    BY <1>1, <1>2, <1>3, <1>4, <1>5, <1>6, <1>7, <1>8 DEF QueueStep

LEMMA LostKept ==
    ASSUME Shape, QueueStep, LostFits, mishaps \in Nat, mishaps' \in {mishaps, mishaps + 1}
    PROVE  LostFits'
  <1>1. IsFiniteSet(Lost) /\ Cardinality(Lost) \in Nat
    BY LostAreFew
  <1>2. CASE Lost' \subseteq Lost
    <2>1. Cardinality(Lost') \in Nat /\ Cardinality(Lost') <= Cardinality(Lost)
      BY <1>1, <1>2, FS_Subset, FS_CardinalityType
    <2>q. QED
      BY <1>1, <2>1 DEF LostFits
  <1>3. ASSUME NEW v, Lost' \subseteq Lost \union {v}, mishaps' = mishaps + 1
        PROVE  LostFits'
    <2>1. Cardinality(Lost') \in Nat /\ Cardinality(Lost') <= Cardinality(Lost) + 1
      BY <1>1, <1>3, OneMore
    <2>q. QED
      BY <1>1, <1>3, <2>1 DEF LostFits
  <1>4. ASSUME NEW w \in Lost, NEW v, w \notin Lost', Lost' \subseteq Lost \union {v}
        PROVE  LostFits'
    <2>1. Cardinality(Lost') \in Nat /\ Cardinality(Lost') <= Cardinality(Lost)
      BY <1>1, <1>4, OneForOne
    <2>q. QED
      BY <1>1, <2>1 DEF LostFits
  <1>q. QED
    BY <1>2, <1>3, <1>4, Losing

LEMMA HolderKeeps ==
    ASSUME Shape, QueueStep, HolderKnows
    PROVE  HolderKnows'
  <1>0. /\ row \in QueueRows /\ pass \in [ReconWorkers -> PassRecords] /\ NoWorker \notin ReconWorkers
        /\ \A w \in ReconWorkers : Holds(w) => resource.exists
        /\ "idle" \notin Loaded /\ "load" \notin Loaded /\ Past \subseteq Loaded
    BY ControllerAssumption DEF Shape, RowOK, PassOK, Loaded, Past, Awaiting, Holds
  <1>1. CASE Queues
    <2>1. row'.token = row.token /\ row'.live = row.live /\ pass' = pass
      BY <1>0, <1>1 DEF Queues, WokenRow, QueueRows
    <2>q. QED
      BY <1>0, <1>1, <2>1 DEF HolderKnows, Queues, Holds
  <1>2. CASE Waits
    <2>1. row'.token = row.token /\ (row'.live => row.live)
      BY <1>0, <1>2 DEF Waits, QueueRows
    <2>q. QED
      BY <1>2, <2>1 DEF HolderKnows, Waits, Holds
  <1>3. CASE Restarts
    <2>1. \A w \in ReconWorkers : pass'[w].pc = "idle"
      BY <1>3, NoPassTypes DEF Restarts, Shape, PassOK
    <2>q. QED
      BY <1>0, <2>1 DEF HolderKnows
  <1>4. ASSUME NEW w \in ReconWorkers, Claims(w)  PROVE  HolderKnows'
    <2>1. row'.token = w /\ pass'[w].pc = "load"
      BY <1>0, <1>4 DEF Claims, QueueRows, PassRecords
    <2>q. QED
      BY <1>0, <2>1 DEF HolderKnows, Holds
  <1>5. ASSUME NEW w \in ReconWorkers, Loads(w)  PROVE  HolderKnows'
    <2>1. /\ row' = row /\ resource' = resource /\ pass'[w].uid = resource.uid
          /\ \A v \in ReconWorkers \ {w} : pass'[v] = pass[v]
      BY <1>0, <1>5 DEF Loads, NoPass
    <2>q. QED
      BY <2>1 DEF HolderKnows, Holds
  <1>6. ASSUME NEW w \in ReconWorkers, Advances(w) \/ Writes(w)  PROVE  HolderKnows'
    <2>1. /\ row' = row /\ resource'.uid = resource.uid /\ pass'[w].uid = pass[w].uid
          /\ pass[w].pc \in Loaded /\ \A v \in ReconWorkers \ {w} : pass'[v] = pass[v]
      BY <1>0, <1>6 DEF Advances, Writes, Loaded, Past
    <2>q. QED
      BY <2>1 DEF HolderKnows, Holds
  <1>7. ASSUME NEW w \in ReconWorkers, PassEnds(w)  PROVE  HolderKnows'
    <2>1. resource' = resource
      BY <1>7 DEF PassEnds
    <2>q. QED
      BY <1>0, <1>7, <2>1, Leaving DEF HolderKnows
  <1>8. ASSUME NEW w \in ReconWorkers, Deletes(w)  PROVE  HolderKnows'
    BY <1>8 DEF Deletes, NoQueueRow, HolderKnows, Holds
  <1>9. CASE UNCHANGED <<resource, row, pass, up, stalled>>
    BY <1>9 DEF HolderKnows, Holds
  <1>q. QED
    BY <1>1, <1>2, <1>3, <1>4, <1>5, <1>6, <1>7, <1>8, <1>9 DEF QueueStep

\* What a status write of the present incarnation leaves is owed no more.
LEMMA WritingPays ==
    ASSUME Shape, Known, HolderKnows, NEW w \in ReconWorkers, Writes(w)
    PROVE  /\ Changes' = Changes /\ Late' \subseteq Late /\ w \notin Late'
           /\ IF pass[w].uid = resource.uid
              THEN resource'.version + One(Owed') <= resource.version + One(Owed)
              ELSE w \in Late /\ resource'.version + One(Owed') <= resource.version + One(Owed) + 2
  <1>1. /\ resource \in ResourceRecords /\ resource' \in ResourceRecords
        /\ pass[w].pc \in Past /\ pass[w].pc \in Loaded /\ pass[w].pc \notin {"idle", "finish"}
        /\ pass[w].deleting \in BOOLEAN
    BY DEF Shape, ResourceOK, PassOK, PassRecords, Writes, Past, Loaded
  <1>2. /\ resource'.gen = resource.gen /\ resource'.deleting = resource.deleting
        /\ resource.exists /\ resource.version = pass[w].version
        /\ resource'.observed = pass[w].gen /\ resource'.finalizer = ~pass[w].deleting
        /\ \/ resource' = resource
           \/ /\ resource'.version = resource.version + 1
              /\ resource.observed # resource'.observed \/ resource.finalizer # resource'.finalizer
        /\ row' = row /\ pass'[w].pc = "finish"
        /\ \A v \in ReconWorkers \ {w} : pass'[v] = pass[v]
    BY DEF Writes
  <1>3. Changes' = Changes
    BY <1>2 DEF Changes
  <1>4. Late' \subseteq Late /\ w \notin Late'
    BY <1>1, <1>2 DEF Late, Lost, Holds
  <1>5. CASE pass[w].uid = resource.uid
    <2>1. pass[w].gen = resource.gen /\ pass[w].deleting = resource.deleting
      BY <1>1, <1>2, <1>5 DEF Known
    <2>2. ~Owed'
      BY <1>1, <1>2, <2>1 DEF Owed
    <2>3. resource' = resource \/ (Owed /\ resource'.version = resource.version + 1)
      BY <1>1, <1>2, <2>1 DEF Owed, ResourceRecords
    <2>q. QED
      BY <1>1, <1>3, <1>4, <1>5, <2>2, <2>3 DEF One, ResourceRecords
  <1>6. CASE pass[w].uid # resource.uid
    <2>1. w \in Late
      BY <1>1, <1>6 DEF HolderKnows, Late, Lost
    <2>2. resource'.version <= resource.version + 1 /\ One(Owed') \in 0..1 /\ One(Owed) \in 0..1
      BY <1>1, <1>2 DEF ResourceRecords, One
    <2>3. resource.version \in Nat /\ resource'.version \in Nat
      BY <1>1 DEF ResourceRecords
    <2>q. QED
      BY <1>3, <1>4, <1>6, <2>1, <2>2, <2>3
  <1>q. QED
    BY <1>5, <1>6

LEMMA VersionsKept ==
    ASSUME Shape, Known, QueueStep, HolderKnows, LostFits, LostFits', VersionFits,
           mishaps \in Nat, mishaps' \in {mishaps, mishaps + 1}
    PROVE  VersionFits'
  <1>0. /\ resource \in ResourceRecords /\ resource.version \in Nat /\ Changes \in Nat
        /\ One(Owed) \in 0..1 /\ One(Owed') \in 0..1
        /\ IsFiniteSet(Late) /\ Cardinality(Late) \in Nat
    BY LostAreFew, ControllerAssumption DEF Shape, ResourceOK, ResourceRecords, Changes, One
  <1>1. CASE UNCHANGED resource /\ Late' \subseteq Late
    <2>1. Changes' = Changes /\ Owed' = Owed
      BY <1>1 DEF Changes, Owed
    <2>2. Cardinality(Late') \in Nat /\ Cardinality(Late') <= Cardinality(Late)
      BY <1>0, <1>1, FS_Subset, FS_CardinalityType
    <2>q. QED
      BY <1>0, <1>1, <2>1, <2>2 DEF VersionFits, Credit
  <1>2. ASSUME NEW v, Late' \subseteq Late \union {v}, mishaps' = mishaps + 1, UNCHANGED resource
        PROVE  VersionFits'
    <2>1. Changes' = Changes /\ Owed' = Owed
      BY <1>2 DEF Changes, Owed
    <2>2. Cardinality(Late') \in Nat /\ Cardinality(Late') <= Cardinality(Late) + 1
      BY <1>0, <1>2, OneMore
    <2>q. QED
      BY <1>0, <1>2, <2>1, <2>2 DEF VersionFits, Credit
  <1>3. CASE Queues
    <2>1. Late' = Late
      <3>1. row'.token = row.token /\ row'.live = row.live /\ pass' = pass
        BY <1>3 DEF Queues, WokenRow, QueueRows, Shape, RowOK
      <3>q. QED
        BY <3>1 DEF Lost, Late, Holds
    <2>2. CASE resource' = resource
      BY <1>1, <2>1, <2>2
    <2>3. CASE resource.exists /\ resource'.version = resource.version + 1 /\ Changes' = Changes + 1
      BY <1>0, <2>1, <2>3 DEF VersionFits, Credit
    <2>4. CASE ~resource.exists /\ resource'.version = 1 /\ Changes' = 1
      <3>1. Cardinality(Late) <= mishaps /\ Cardinality(Late') = Cardinality(Late)
        BY <2>1, LostAreFew DEF LostFits
      <3>2. resource'.version + One(Owed') + 2 * Cardinality(Late') <= 2 + 2 * mishaps'
        BY <1>0, <2>4, <3>1
      <3>q. QED
        BY <2>4, <3>2 DEF VersionFits, Credit
    <2>q. QED
      BY <1>3, <2>2, <2>3, <2>4 DEF Queues, Grows
  <1>4. ASSUME NEW w \in ReconWorkers, Deletes(w)  PROVE  VersionFits'
    <2>1. resource'.version = 0 /\ Changes' = 0 /\ ~Owed'
      <3>1. /\ resource'.version = 0 /\ resource'.gen = 0 /\ resource'.deleting = FALSE
            /\ resource'.exists = FALSE
        BY <1>4 DEF Deletes, NoResource
      <3>q. QED
        BY <3>1 DEF Changes, Owed, One
    <2>2. Cardinality(Late') <= Cardinality(Lost') /\ Cardinality(Late') \in Nat /\ Cardinality(Lost') \in Nat
      <3>1. IsFiniteSet(ReconWorkers) /\ Lost' \subseteq ReconWorkers /\ Late' \subseteq Lost'
        BY ControllerAssumption DEF Lost, Late
      <3>q. QED
        BY <3>1, FS_Subset, FS_CardinalityType
    <2>q. QED
      BY <2>1, <2>2 DEF VersionFits, Credit, LostFits, One
  <1>5. ASSUME NEW w \in ReconWorkers, Writes(w)  PROVE  VersionFits'
    <2>1. /\ Changes' = Changes /\ Late' \subseteq Late /\ w \notin Late'
          /\ IF pass[w].uid = resource.uid
             THEN resource'.version + One(Owed') <= resource.version + One(Owed)
             ELSE w \in Late /\ resource'.version + One(Owed') <= resource.version + One(Owed) + 2
      BY <1>5, WritingPays
    <2>2. resource'.version \in Nat
      BY <1>5 DEF Writes, ResourceRecords
    <2>3. CASE pass[w].uid = resource.uid
      <3>1. Cardinality(Late') \in Nat /\ Cardinality(Late') <= Cardinality(Late)
        BY <1>0, <2>1, FS_Subset, FS_CardinalityType
      <3>q. QED
        BY <1>0, <2>1, <2>2, <2>3, <3>1 DEF VersionFits, Credit
    <2>4. CASE pass[w].uid # resource.uid
      <3>1. w \in Late
        BY <2>1, <2>4
      <3>2. Cardinality(Late') \in Nat /\ Cardinality(Late') + 1 <= Cardinality(Late)
        BY <1>0, <2>1, <3>1, OneLess
      <3>q. QED
        BY <1>0, <2>1, <2>2, <2>4, <3>2 DEF VersionFits, Credit
    <2>q. QED
      BY <2>3, <2>4
  <1>6. UNCHANGED resource \/ Queues \/ \E w \in ReconWorkers : Deletes(w) \/ Writes(w)
    BY DEF QueueStep, Waits, Restarts, Claims, Loads, Advances, PassEnds
  <1>q. QED
    BY <1>1, <1>2, <1>3, <1>4, <1>5, <1>6, Losing DEF Lost

\* No version is beyond what the changes and mishaps so far allow.
LEMMA VersionBound ==
    ASSUME Shape, NumbersFit, VersionFits
    PROVE  resource.version <= MaxVersion
  <1>0. resource \in ResourceRecords /\ MaxGeneration \in Nat /\ MaxMishaps \in Nat
    BY ControllerAssumption DEF Shape, ResourceOK
  <1>1. Cardinality(Late) \in Nat /\ resource.version \in Nat
    BY <1>0, LostAreFew DEF ResourceRecords
  <1>2. One(Owed) \in 0..1 /\ Changes \in 0..(MaxGeneration + 1)
    BY <1>0 DEF One, Changes, ResourceRecords
  <1>q. QED
    BY <1>0, <1>1, <1>2 DEF VersionFits, Credit, MaxVersion, NumbersFit

LEMMA NumbersKept ==
    ASSUME Shape, QueueStep, [CtlNext]_ctlVars, NumbersFit, VersionFits, VersionFits'
    PROVE  NumbersFit'
  <1>0. /\ pass \in [ReconWorkers -> PassRecords] /\ resource \in ResourceRecords
        /\ resource' \in ResourceRecords
        /\ MaxUid \in Nat /\ MaxVersion \in Nat /\ MaxGeneration \in Nat /\ MaxMishaps \in Nat
    BY QueueTypes, ControllerAssumption DEF Shape, PassOK, ResourceOK, MaxVersion
  <1>1. mishaps' \in 0..MaxMishaps /\ wakes' \in 0..MaxWakes
    BY Mishaps DEF NumbersFit
  <1>2. resource.version <= MaxVersion
    BY VersionBound
  <1>3. resource'.version <= MaxVersion
    <2>1. Cardinality(Late') \in Nat /\ resource'.version \in Nat
      <3>1. IsFiniteSet(ReconWorkers) /\ Late' \subseteq ReconWorkers
        BY ControllerAssumption DEF Lost, Late
      <3>q. QED
        BY <1>0, <3>1, FS_Subset, FS_CardinalityType DEF ResourceRecords
    <2>2. One(Owed') \in 0..1 /\ Changes' \in 0..(MaxGeneration + 1)
      BY <1>0 DEF One, Changes, ResourceRecords
    <2>q. QED
      BY <1>0, <1>1, <2>1, <2>2 DEF VersionFits, Credit, MaxVersion
  <1>4. resource'.uid <= MaxUid
    <2>1. CASE PutResource
      <3>1. CASE resource.exists
        BY <1>0, <2>1, <3>1 DEF PutResource, NumbersFit, ResourceRecords
      <3>2. CASE ~resource.exists
        <4>1. resource.uid < MaxUid /\ resource'.uid = resource.uid + 1
          BY <2>1, <3>2 DEF PutResource, NoResource
        <4>q. QED
          BY <1>0, <4>1 DEF ResourceRecords
      <3>q. QED
        BY <3>1, <3>2
    <2>2. CASE resource'.uid = resource.uid
      BY <2>2 DEF NumbersFit
    <2>3. CASE RequestDeletion
      BY <1>0, <2>3 DEF RequestDeletion, NumbersFit, ResourceRecords
    <2>4. ASSUME NEW w \in ReconWorkers, PassNext(w) \/ ObserveUnknown(w) \/ ApplyThrows(w) \/ TimeOut(w)
          PROVE  resource'.uid = resource.uid
      <3>1. CASE WriteStatus(w) \/ Finish(w)
        <4>1. Writes(w) \/ PassEnds(w) \/ Deletes(w)
          BY <3>1, WritesOrEnds, FinishEnds
        <4>q. QED
          BY <1>0, <4>1 DEF Writes, PassEnds, Deletes, NoResource, ResourceRecords
      <3>q. QED
        BY <2>4, <3>1 DEF PassNext, ClaimNext, Load, PassFails, EnsureChild, ReadChildBundle, MarkChild,
              StartChild, RecordChild, EnsureEffect, ObserveEffect, ApplyEffect, ClaimIsLost,
              ObserveUnknown, ApplyThrows, TimeOut, Abort
    <2>5. CASE Wake \/ ClaimExpires \/ BecomeDue \/ EndManager \/ StartManager \/ UNCHANGED ctlVars
               \/ \E g \in Generations : ChildNext(g)
      BY <2>2, <2>5 DEF Wake, ClaimExpires, BecomeDue, EndManager, StartManager, ctlVars, ChildNext,
              ChildWrites, ChildEnds, ChildCompletes
    <2>6. ASSUME NEW a \in aborted, LateNext(a)  PROVE  resource'.uid = resource.uid
      BY <2>6, LatesRest
    <2>q. QED
      BY <2>1, <2>2, <2>3, <2>4, <2>5, <2>6 DEF CtlNext
  <1>5. ASSUME NEW w \in ReconWorkers
        PROVE  pass'[w].uid \in 0..MaxUid /\ pass'[w].version \in 0..MaxVersion
    <2>0. NoPass.uid = 0 /\ NoPass.version = 0 /\ 0 \in 0..MaxUid /\ 0 \in 0..MaxVersion
      BY <1>0 DEF NoPass
    <2>1. CASE pass'[w].uid = pass[w].uid /\ pass'[w].version = pass[w].version
      BY <2>1 DEF NumbersFit
    <2>2. CASE pass'[w] = NoPass
      BY <2>0, <2>2
    <2>3. ASSUME NEW v \in ReconWorkers, Claims(v)
          PROVE  pass'[w].uid = pass[w].uid /\ pass'[w].version = pass[w].version
      BY <1>0, <2>3 DEF Claims, PassRecords
    <2>4. ASSUME NEW v \in ReconWorkers, Loads(v)
          PROVE  pass'[w] = pass[w] \/ (pass'[w].uid = resource.uid /\ pass'[w].version = resource.version)
      BY <1>0, <2>4 DEF Loads, NoPass
    <2>5. ASSUME NEW v \in ReconWorkers, Advances(v)
          PROVE  pass'[w].uid = pass[w].uid /\ pass'[w].version = pass[w].version
      BY <2>5 DEF Advances
    <2>6. ASSUME NEW v \in ReconWorkers, Writes(v)
          PROVE  pass'[w] = pass[w] \/ (pass'[w].uid = pass[w].uid /\ pass'[w].version = resource'.version)
      BY <2>6 DEF Writes
    <2>7. ASSUME NEW v \in ReconWorkers, PassEnds(v) \/ Deletes(v)
          PROVE  pass'[w] = pass[w] \/ pass'[w] = NoPass
      BY <1>0, <2>7 DEF PassEnds, Deletes
    <2>8. CASE Queues \/ Waits \/ UNCHANGED <<resource, row, pass, up, stalled>>
      BY <2>1, <2>8 DEF Queues, Waits
    <2>9. CASE Restarts
      BY <2>1, <2>2, <2>9 DEF Restarts
    <2>10. /\ resource.uid \in 0..MaxUid /\ resource.version \in 0..MaxVersion
           /\ resource'.version \in 0..MaxVersion
      BY <1>0, <1>2, <1>3 DEF NumbersFit, ResourceRecords
    <2>11. pass[w].uid \in 0..MaxUid /\ pass[w].version \in 0..MaxVersion
      BY DEF NumbersFit
    <2>q. QED
      BY <2>1, <2>2, <2>3, <2>4, <2>5, <2>6, <2>7, <2>8, <2>9, <2>10, <2>11 DEF QueueStep
  <1>q. QED
    BY <1>1, <1>4, <1>5 DEF NumbersFit

-----------------------------------------------------------------------------
(* Calls of the provider *)

\* A pass of the incarnation that exists, for one of its generations.
For(w, g) == pass[w].gen = g /\ ~Orphaned(w)

\* A pass whose resource is gone does not come by another.
LEMMA OrphansStay ==
    ASSUME Shape, QueueStep, NEW v \in ReconWorkers, NEW g,
           pass[v].pc \in Loaded, pass'[v].uid = pass[v].uid, pass'[v].gen = pass[v].gen, For(v, g)'
    PROVE  For(v, g) /\ resource'.exists
  <1>0. /\ pass[v].uid \in 1..resource.uid /\ resource.uid \in Nat
        /\ pass[v].gen = g /\ resource'.exists /\ resource'.uid = pass[v].uid
    BY DEF Shape, ResourceOK, PassOK, ResourceRecords, For, Orphaned
  <1>1. resource.exists /\ resource.uid = resource'.uid
    <2>1. CASE Queues
      BY <1>0, <2>1 DEF Queues
    <2>2. ASSUME NEW w \in ReconWorkers, Deletes(w)  PROVE  FALSE
      BY <1>0, <2>2 DEF Deletes, NoResource
    <2>3. ASSUME NEW w \in ReconWorkers, Writes(w)  PROVE  resource.exists /\ resource.uid = resource'.uid
      BY <2>3 DEF Writes
    <2>4. UNCHANGED resource \/ Queues \/ \E w \in ReconWorkers : Deletes(w) \/ Writes(w)
      BY DEF QueueStep, Waits, Restarts, Claims, Loads, Advances, PassEnds
    <2>q. QED
      BY <1>0, <2>1, <2>2, <2>3, <2>4
  <1>q. QED
    BY <1>0, <1>1 DEF For, Orphaned

\* A worker calls for an effect that nobody is known to have performed, so no
\* worker performs it twice in one incarnation.
Calling(g) == {w \in ReconWorkers : pass[w].pc = "apply" /\ For(w, g)}
CallsOf(g) ==
    /\ performed[g] + Cardinality(Calling(g)) <= Cardinality(ReconWorkers)
    /\ performed[g] > 0 => effect[g] # "none"
    /\ \A w \in ReconWorkers : For(w, g) /\ pass[w].pc \in {"observe", "apply"} => effect[g] # "none"
CallsFit ==
    /\ effect \in [Generations -> EffectStates]
    /\ performed \in [Generations -> Nat]
    /\ \A g \in Generations : CallsOf(g)

LEMMA CallersAreFew ==
    ASSUME NEW g
    PROVE  /\ IsFiniteSet(Calling(g)) /\ Cardinality(Calling(g)) \in Nat
           /\ Cardinality(ReconWorkers) \in Nat /\ Cardinality(Calling(g)) <= Cardinality(ReconWorkers)
           /\ Cardinality(Calling(g)') \in Nat /\ Cardinality(Calling(g)') <= Cardinality(ReconWorkers)
  <1>1. Calling(g) \subseteq ReconWorkers /\ Calling(g)' \subseteq ReconWorkers
    BY DEF Calling
  <1>2. IsFiniteSet(ReconWorkers)
    BY ControllerAssumption
  <1>3. /\ IsFiniteSet(Calling(g)) /\ Cardinality(Calling(g)) <= Cardinality(ReconWorkers)
        /\ IsFiniteSet(Calling(g)') /\ Cardinality(Calling(g)') <= Cardinality(ReconWorkers)
    BY <1>1, <1>2, FS_Subset
  <1>q. QED
    BY <1>2, <1>3, FS_CardinalityType

\* A step after which no other pass calls than before.
LEMMA CallsSettle ==
    ASSUME Shape, QueueStep, NEW g \in Generations, CallsOf(g),
           performed[g] \in Nat, performed'[g] \in Nat,
           \A v \in ReconWorkers : For(v, g)' /\ pass'[v].pc \in {"observe", "apply"} => pass'[v] = pass[v],
           effect[g] # "none" => effect'[g] # "none",
           \/ performed'[g] = performed[g]
           \/ \E w \in Calling(g) \ Calling(g)' : performed'[g] <= performed[g] + 1
    PROVE  CallsOf(g)'
  <1> DEFINE C == Calling(g)
  <1>0. {"observe", "apply"} \subseteq Loaded
    BY DEF Loaded, Past, Awaiting
  <1>1. ASSUME NEW v \in ReconWorkers, For(v, g)', pass'[v].pc \in {"observe", "apply"}
        PROVE  For(v, g) /\ pass[v].pc = pass'[v].pc
    BY <1>0, <1>1, OrphansStay
  <1>2. C' \subseteq C
    BY <1>1 DEF Calling
  <1>3. IsFiniteSet(C) /\ Cardinality(C) \in Nat /\ Cardinality(ReconWorkers) \in Nat
    BY CallersAreFew
  <1>4. performed[g] + Cardinality(C) <= Cardinality(ReconWorkers)
    BY DEF CallsOf
  <1>5. performed'[g] + Cardinality(C') <= Cardinality(ReconWorkers)
    <2>1. CASE performed'[g] = performed[g]
      <3> HIDE DEF C
      <3>1. Cardinality(C') \in Nat /\ Cardinality(C') <= Cardinality(C)
        BY <1>2, <1>3, FS_Subset, FS_CardinalityType
      <3>q. QED
        BY <1>3, <1>4, <2>1, <3>1
    <2>2. ASSUME NEW w \in C \ C', performed'[g] <= performed[g] + 1
          PROVE  performed'[g] + Cardinality(C') <= Cardinality(ReconWorkers)
      <3> HIDE DEF C
      <3>1. Cardinality(C') \in Nat /\ Cardinality(C') + 1 <= Cardinality(C)
        BY <1>2, <1>3, OneLess
      <3>q. QED
        BY <1>3, <1>4, <2>2, <3>1
    <2>q. QED
      BY <2>1, <2>2
  <1>6. performed'[g] > 0 => effect'[g] # "none"
    <2>1. CASE performed'[g] = performed[g]
      BY <2>1 DEF CallsOf
    <2>2. ASSUME NEW w \in C  PROVE  effect[g] # "none"
      BY <2>2 DEF CallsOf, Calling
    <2>q. QED
      BY <2>1, <2>2
  <1>q. QED
    BY <1>1, <1>5, <1>6 DEF CallsOf

\* A pass begins to call for what was reserved and not performed.
LEMMA CallsBegin ==
    ASSUME Shape, QueueStep, NEW g \in Generations, CallsOf(g), NEW w \in ReconWorkers,
           performed[g] = 0, performed'[g] = 0, effect'[g] # "none"
    PROVE  CallsOf(g)'
  BY CallersAreFew DEF CallsOf

LEMMA EffectViews ==
    ASSUME Shape, [CtlNext]_ctlVars
    PROVE  \/ \E w \in ReconWorkers :
                \/ EnsureEffect(w) \/ ObserveEffect(w) \/ ObserveUnknown(w) \/ ApplyEffect(w)
                \/ ApplyThrows(w) \/ TimeOut(w) \/ ClaimIsLost(w)
           \/ EndManager
           \/ DeleteResource
           \/ \E a \in aborted : LateNext(a)
           \/ /\ UNCHANGED <<effect, performed>>
              /\ \A v \in ReconWorkers : pass'[v].pc \in {"observe", "apply"} => pass'[v] = pass[v]
  <1>1. CASE \/ PutResource \/ RequestDeletion \/ Wake \/ ClaimExpires \/ BecomeDue \/ StartManager
             \/ \E g \in Generations : ChildNext(g)
    BY <1>1, NotCalling DEF PutResource, RequestDeletion, Wake, ClaimExpires, BecomeDue, StartManager,
                            ChildNext, ChildWrites, ChildEnds, ChildCompletes
  <1>2. ASSUME NEW w \in ReconWorkers,
               \/ ClaimNext(w) \/ Load(w) \/ PassFails(w) \/ EnsureChild(w) \/ ReadChildBundle(w)
               \/ MarkChild(w) \/ StartChild(w) \/ RecordChild(w) \/ WriteStatus(w)
        PROVE  /\ UNCHANGED <<effect, performed>>
               /\ \A v \in ReconWorkers : pass'[v].pc \in {"observe", "apply"} => pass'[v] = pass[v]
    <2>1. UNCHANGED <<effect, performed>>
      BY <1>2 DEF ClaimNext, Load, PassFails, EnsureChild, ReadChildBundle, MarkChild, StartChild,
                  RecordChild, WriteStatus
    <2>q. QED
      BY <1>2, <2>1, NotCalling
  <1>3. ASSUME NEW w \in ReconWorkers, Finish(w), ~DeleteResource
        PROVE  /\ UNCHANGED <<effect, performed>>
               /\ \A v \in ReconWorkers : pass'[v].pc \in {"observe", "apply"} => pass'[v] = pass[v]
    <2>1. UNCHANGED <<effect, performed>>
      BY <1>3 DEF Finish
    <2>q. QED
      BY <1>3, <2>1, NotCalling
  <1>4. CASE UNCHANGED ctlVars
    BY <1>4 DEF ctlVars
  <1>q. QED
    BY <1>1, <1>2, <1>3, <1>4 DEF CtlNext, PassNext

\* What is saved of an effect is never that there is none.
LEMMA Reserving ==
    ASSUME PassOK, effect \in [Generations -> EffectStates], NEW w \in ReconWorkers,
           NEW g \in Generations, NEW state \in EffectStates \ {"none"}, SaveEffect(w, g, state)
    PROVE  /\ effect' \in [Generations -> EffectStates]
           /\ \A h \in Generations : effect[h] # "none" => effect'[h] # "none"
           /\ pass'[w].pc \notin {"observe", "apply"}
           /\ \A v \in ReconWorkers \ {w} : pass'[v] = pass[v]
  <1>1. CASE Final(effect[g]) /\ effect[g] # state
    <2>1. Fail(w) /\ UNCHANGED effect
      BY <1>1 DEF SaveEffect
    <2>q. QED
      BY <2>1, Moved
  <1>2. CASE ~(Final(effect[g]) /\ effect[g] # state)
    <2>1. effect' = [effect EXCEPT ![g] = state] /\ \E r : Result(w, r)
      BY <1>2 DEF SaveEffect
    <2>2. pass'[w].pc = "status" /\ \A v \in ReconWorkers \ {w} : pass'[v] = pass[v]
      BY <2>1, Moved
    <2>q. QED
      BY <2>1, <2>2
  <1>q. QED
    BY <1>1, <1>2

LEMMA CallingStep ==
    ASSUME Shape, QueueStep, CallsFit, NEW w \in ReconWorkers,
           \/ EnsureEffect(w) \/ ObserveEffect(w) \/ ObserveUnknown(w) \/ ApplyEffect(w)
           \/ ApplyThrows(w) \/ TimeOut(w) \/ ClaimIsLost(w)
    PROVE  CallsFit'
  <1>0. /\ PassOK /\ effect \in [Generations -> EffectStates] /\ performed \in [Generations -> Nat]
        /\ \A g \in Generations : CallsOf(g)
    BY DEF Shape, CallsFit
  <1>1. pass[w].pc \in Awaiting
    BY DEF EnsureEffect, ObserveEffect, ObserveUnknown, ApplyEffect, ApplyThrows, TimeOut, ClaimIsLost,
           Abort, At, Awaiting
  <1>2. PICK g \in Generations : g = pass[w].gen
    BY <1>0, <1>1 DEF PassOK, Loaded, Past, Awaiting
  \* The pass calls no more, and the effect is performed at most by the call it had.
  <1>3. ASSUME effect' \in [Generations -> EffectStates],
               \A h \in Generations : effect[h] # "none" => effect'[h] # "none",
               pass'[w].pc \notin {"observe", "apply"},
               \A v \in ReconWorkers \ {w} : pass'[v] = pass[v],
               \/ performed' = performed
               \/ /\ w \in Calling(g)
                  /\ \E n \in {0, 1} : performed' = [performed EXCEPT ![g] = @ + n]
        PROVE  CallsFit'
    <2>1. performed' \in [Generations -> Nat]
      BY <1>0, <1>3
    <2>2. w \notin Calling(g)'
      BY <1>3 DEF Calling
    <2>3. ASSUME NEW h \in Generations
          PROVE  \/ performed'[h] = performed[h]
                 \/ \E v \in Calling(h) \ Calling(h)' : performed'[h] <= performed[h] + 1
      <3>1. CASE performed'[h] = performed[h]
        BY <3>1
      <3>2. CASE performed'[h] # performed[h]
        <4>1. h = g /\ w \in Calling(g) /\ performed'[g] <= performed[g] + 1
          BY <1>0, <1>3, <3>2
        <4>q. QED
          BY <2>2, <4>1
      <3>q. QED
        BY <3>1, <3>2
    <2>4. \A v \in ReconWorkers : pass'[v].pc \in {"observe", "apply"} => pass'[v] = pass[v]
      BY <1>3
    <2>5. ASSUME NEW h \in Generations  PROVE  CallsOf(h)'
      BY <1>0, <1>3, <2>1, <2>3, <2>4, CallsSettle
    <2>q. QED
      BY <1>3, <2>1, <2>5 DEF CallsFit
  \* The pass goes on to observe or to call.
  <1>4. ASSUME NEW pc \in {"observe", "apply"}, To(w, pc), performed' = performed,
               effect' \in [Generations -> EffectStates], effect'[g] # "none",
               \A h \in Generations \ {g} : effect'[h] = effect[h],
               pc = "apply" => performed[g] = 0
        PROVE  CallsFit'
    <2>1. /\ pass'[w].pc = pc /\ pass'[w].gen = g /\ \A v \in ReconWorkers \ {w} : pass'[v] = pass[v]
      BY <1>0, <1>2, <1>4, Moved
    <2>2. ASSUME NEW h \in Generations \ {g}  PROVE  CallsOf(h)'
      <3>1. ~For(w, h)'
        BY <2>1 DEF For
      <3>q. QED
        <4>1. CallsOf(h) /\ performed[h] \in Nat /\ performed'[h] \in Nat /\ performed'[h] = performed[h]
              /\ effect'[h] = effect[h]
          BY <1>0, <1>4
        <4>2. \A v \in ReconWorkers : For(v, h)' => pass'[v] = pass[v]
          BY <2>1, <3>1
        <4>q. QED
          BY <4>1, <4>2, CallsSettle
    <2>3. ASSUME performed[g] = 0  PROVE  CallsOf(g)'
      BY <1>0, <1>4, <2>3, CallsBegin
    <2>4. ASSUME pc = "observe", performed[g] # 0  PROVE  CallsOf(g)'
      <3>1. \A v \in ReconWorkers \ {w} : For(v, g)' /\ pass[v].pc \in Loaded => For(v, g)
        BY <2>1, OrphansStay
      <3>2. Calling(g)' \subseteq Calling(g)
        BY <2>1, <2>4, <3>1 DEF Calling, Loaded, Past, Awaiting
      <3>3. /\ IsFiniteSet(Calling(g)) /\ Cardinality(Calling(g)) \in Nat
            /\ Cardinality(ReconWorkers) \in Nat
        BY CallersAreFew
      <3>4. Cardinality(Calling(g)') \in Nat /\ Cardinality(Calling(g)') <= Cardinality(Calling(g))
        BY <3>2, <3>3, FS_Subset, FS_CardinalityType
      <3>5. performed[g] + Cardinality(Calling(g)) <= Cardinality(ReconWorkers) /\ performed[g] \in Nat
        BY <1>0 DEF CallsOf
      <3>6. performed'[g] + Cardinality(Calling(g)') <= Cardinality(ReconWorkers)
        BY <1>4, <3>3, <3>4, <3>5
      <3>q. QED
        <4>1. performed'[g] > 0 => effect'[g] # "none"
          BY <1>4
        <4>q. QED
          BY <1>4, <3>6, <4>1 DEF CallsOf
    <2>5. CallsOf(g)'
      BY <1>4, <2>3, <2>4
    <2>q. QED
      BY <1>0, <1>4, <2>2, <2>5 DEF CallsFit
  <1>5. {"applied", "rejected", "indeterminate"} \subseteq EffectStates \ {"none"}
        /\ "pending" \in EffectStates
    BY DEF EffectStates
  <1>6. ASSUME NEW state \in {"applied", "rejected", "indeterminate"}, SaveEffect(w, g, state),
               \/ performed' = performed
               \/ /\ w \in Calling(g)
                  /\ \E n \in {0, 1} : performed' = [performed EXCEPT ![g] = @ + n]
        PROVE  CallsFit'
    <2>1. state \in EffectStates \ {"none"}
      BY <1>5
    <2>q. QED
      BY <1>0, <1>3, <1>6, <2>1, Reserving
  <1>7. ASSUME Fail(w), UNCHANGED effect,
               \/ performed' = performed
               \/ /\ w \in Calling(g)
                  /\ \E n \in {0, 1} : performed' = [performed EXCEPT ![g] = @ + n]
        PROVE  CallsFit'
    BY <1>0, <1>3, <1>7, Moved
  <1>8. CutCall(w) => \/ performed' = performed
                      \/ /\ w \in Calling(g)
                         /\ \E n \in {0, 1} : performed' = [performed EXCEPT ![g] = @ + n]
    BY <1>2 DEF CutCall, Calling, For
  <1>9. CASE EnsureEffect(w)
    <2>1. CASE Final(effect[g])
      <3>1. UNCHANGED <<effect, performed>> /\ Result(w, "settled")
        BY <1>2, <1>9, <2>1 DEF EnsureEffect, Final
      <3>2. pass'[w].pc = "status" /\ \A v \in ReconWorkers \ {w} : pass'[v] = pass[v]
        BY <1>0, <3>1, Moved
      <3>q. QED
        BY <1>0, <1>3, <3>1, <3>2
    <2>2. CASE effect[g] = "none"
      <3>1. /\ To(w, "apply") /\ effect' = [effect EXCEPT ![g] = "pending"] /\ UNCHANGED performed
        BY <1>2, <1>9, <2>2 DEF EnsureEffect, Final
      <3>2. performed[g] = 0
        BY <1>0, <2>2 DEF CallsOf
      <3>q. QED
        BY <1>0, <1>4, <1>5, <3>1, <3>2
    <2>3. CASE ~Final(effect[g]) /\ effect[g] # "none"
      <3>1. To(w, "observe") /\ UNCHANGED <<effect, performed>>
        BY <1>2, <1>9, <2>3 DEF EnsureEffect
      <3>q. QED
        BY <1>0, <1>4, <2>3, <3>1
    <2>q. QED
      BY <2>1, <2>2, <2>3
  <1>10. CASE ObserveEffect(w)
    <2>1. CASE performed[g] > 0
      BY <1>2, <1>6, <1>10, <2>1 DEF ObserveEffect
    <2>2. CASE ~(performed[g] > 0)
      <3>1. /\ To(w, "apply") /\ UNCHANGED <<effect, performed>> /\ pass[w].pc = "observe" /\ For(w, g)
        BY <1>2, <1>10, <2>2 DEF ObserveEffect, At, For
      <3>2. performed[g] = 0 /\ effect[g] # "none"
        BY <1>0, <2>2, <3>1 DEF CallsOf
      <3>q. QED
        BY <1>0, <1>4, <3>1, <3>2
    <2>q. QED
      BY <2>1, <2>2
  <1>11. CASE ObserveUnknown(w)
    BY <1>2, <1>6, <1>7, <1>11 DEF ObserveUnknown
  <1>12. CASE ApplyEffect(w)
    <2>1. w \in Calling(g)
      BY <1>2, <1>12 DEF ApplyEffect, At, Calling, For
    <2>2. CASE SaveEffect(w, g, "applied") /\ performed' = [performed EXCEPT ![g] = @ + 1]
      BY <1>6, <2>1, <2>2
    <2>3. CASE SaveEffect(w, g, "rejected") /\ UNCHANGED performed
      BY <1>6, <2>3
    <2>q. QED
      BY <1>2, <1>12, <2>2, <2>3 DEF ApplyEffect
  <1>13. CASE ApplyThrows(w)
    BY <1>2, <1>6, <1>8, <1>13 DEF ApplyThrows
  <1>14. CASE TimeOut(w) \/ ClaimIsLost(w)
    BY <1>7, <1>8, <1>14 DEF TimeOut, ClaimIsLost, Abort
  <1>q. QED
    BY <1>9, <1>10, <1>11, <1>12, <1>13, <1>14

\* A process that ends has each of its calls performed or not.
LEMMA CallsCut ==
    ASSUME Shape, CallsFit, EndManager
    PROVE  CallsFit'
  <1>1. /\ \A w \in ReconWorkers : pass'[w].pc = "idle"
        /\ effect' = effect /\ effect \in [Generations -> EffectStates]
    BY NoPassTypes DEF EndManager, CallsFit
  <1>2. PICK cut \in SUBSET {w \in ReconWorkers : pass[w].pc = "apply" /\ ~Orphaned(w)} :
          performed' = [g \in Generations |->
                          performed[g] + Cardinality({w \in cut : pass[w].gen = g})]
    BY DEF EndManager
  <1>3. ASSUME NEW g \in Generations  PROVE  performed'[g] \in Nat /\ CallsOf(g)'
    <2> DEFINE D == {w \in cut : pass[w].gen = g}
    <2>1. D \subseteq Calling(g)
      BY DEF Calling, For
    <2>2. performed'[g] = performed[g] + Cardinality(D)
      BY <1>2
    <2> HIDE DEF D
    <2>3. IsFiniteSet(D) /\ Cardinality(D) <= Cardinality(Calling(g)) /\ Cardinality(D) \in Nat
      BY <2>1, CallersAreFew, FS_Subset, FS_CardinalityType
    <2>4. performed[g] \in Nat /\ CallsOf(g)
      BY DEF CallsFit
    <2>5. Calling(g)' = {} /\ Cardinality({}) = 0
      BY <1>1, FS_EmptySet DEF Calling
    <2>6. performed'[g] \in Nat /\ performed'[g] <= Cardinality(ReconWorkers)
      BY <2>2, <2>3, <2>4, CallersAreFew DEF CallsOf
    <2>7. performed'[g] > 0 => effect[g] # "none"
      <3>1. CASE performed[g] > 0
        BY <2>4, <3>1 DEF CallsOf
      <3>2. CASE D = {}
        BY <2>2, <2>4, <2>5, <3>2 DEF CallsOf
      <3>3. CASE D # {}
        BY <2>1, <2>4, <3>3 DEF CallsOf, Calling
      <3>q. QED
        BY <3>2, <3>3
    <2>8. performed'[g] + Cardinality(Calling(g)') <= Cardinality(ReconWorkers)
      BY <2>5, <2>6
    <2>q. QED
      BY <1>1, <2>6, <2>7, <2>8 DEF CallsOf
  <1>4. performed' \in [Generations -> Nat]
    <2>1. performed' = [g \in Generations |-> performed'[g]]
      BY <1>2
    <2>q. QED
      BY <1>3, <2>1
  <1>q. QED
    BY <1>1, <1>3, <1>4 DEF CallsFit

LEMMA CallsFitKept ==
    ASSUME Shape, QueueStep, [CtlNext]_ctlVars, CallsFit
    PROVE  CallsFit'
  <1>1. CASE DeleteResource
    <2>1. /\ ~resource'.exists /\ effect' = [g \in Generations |-> "none"]
          /\ performed' = [g \in Generations |-> 0]
      BY <1>1 DEF DeleteResource, NoResource
    <2>2. ASSUME NEW g \in Generations  PROVE  CallsOf(g)'
      <3>1. \A w \in ReconWorkers : ~For(w, g)'
        BY <2>1 DEF For, Orphaned
      <3>2. performed'[g] = 0
        BY <2>1
      <3>q. QED
        BY <3>1, <3>2, CallersAreFew DEF CallsOf
    <2>q. QED
      BY <2>1, <2>2 DEF CallsFit, EffectStates
  <1>2. ASSUME UNCHANGED <<effect, performed>>,
               \A v \in ReconWorkers : pass'[v].pc \in {"observe", "apply"} => pass'[v] = pass[v]
        PROVE  CallsFit'
    <2>1. ASSUME NEW g \in Generations  PROVE  CallsOf(g)'
      <3>1. CallsOf(g) /\ performed[g] \in Nat /\ performed'[g] = performed[g] /\ effect'[g] = effect[g]
        BY <1>2 DEF CallsFit
      <3>q. QED
        BY <1>2, <3>1, CallsSettle
    <2>q. QED
      BY <1>2, <2>1 DEF CallsFit
  <1>3. ASSUME NEW a \in aborted, LateNext(a)  PROVE  CallsFit'
    <2>1. UNCHANGED <<performed, pass>>
      BY <1>3, LatesRest
    <2>2. effect' \in [Generations -> EffectStates]
          /\ \A g \in Generations : effect[g] # "none" => effect'[g] # "none"
      BY <1>3, LateEffects DEF CallsFit
    <2>3. ASSUME NEW g \in Generations  PROVE  CallsOf(g)'
      <3>1. CallsOf(g) /\ performed[g] \in Nat /\ performed'[g] = performed[g]
        BY <2>1 DEF CallsFit
      <3>q. QED
        BY <2>1, <2>2, <3>1, CallsSettle
    <2>q. QED
      BY <2>1, <2>2, <2>3 DEF CallsFit
  <1>q. QED
    BY <1>1, <1>2, <1>3, EffectViews, CallingStep, CallsCut

-----------------------------------------------------------------------------
(* The bounds *)

CtlBounds ==
    LostFits /\ HolderKnows /\ VersionFits /\ NumbersFit /\ CallsFit

LEMMA BoundsInit == CtlInit => CtlBounds
  <1> SUFFICES ASSUME CtlInit  PROVE  CtlBounds
    OBVIOUS
  <1>0. /\ Shape /\ MaxMishaps \in Nat /\ MaxWakes \in Nat /\ MaxUid \in Nat /\ MaxGeneration \in Nat
        /\ mishaps = 0 /\ wakes = 0
    BY CtlInvInit, ControllerAssumption DEF CtlInv, QueueInv, CtlInit
  <1>1. \A w \in ReconWorkers : pass[w] = NoPass /\ pass[w].pc = "idle"
    BY NoPassTypes DEF CtlInit
  <1>2. /\ Lost = {} /\ Late = {} /\ Cardinality({}) = 0
        /\ \A g : Calling(g) = {}
    BY <1>1, FS_EmptySet DEF Lost, Late, Calling
  <1>3. resource = NoResource
    BY DEF CtlInit
  <1>4. LostFits /\ HolderKnows
    BY <1>0, <1>1, <1>2 DEF LostFits, HolderKnows, Loaded, Past, Awaiting
  <1>5. VersionFits
    <2>1. resource.version = 0 /\ ~Owed /\ Changes = 0
      BY <1>3 DEF NoResource, Owed, Changes, One
    <2>q. QED
      BY <1>0, <1>2, <2>1 DEF VersionFits, Credit, One
  <1>6. NumbersFit
    <2>1. MaxVersion \in Nat
      BY <1>0 DEF MaxVersion
    <2>q. QED
      BY <1>0, <1>1, <1>3, <2>1 DEF NumbersFit, NoPass, NoResource
  <1>7. \A g \in Generations : performed[g] = 0
    BY DEF CtlInit
  <1>8. \A w \in ReconWorkers : pass[w].pc \notin {"observe", "apply"}
    BY <1>1
  <1>9. CallsFit
    <2>1. ASSUME NEW g \in Generations  PROVE  CallsOf(g)
      BY <1>2, <1>7, <1>8, CallersAreFew DEF CallsOf
    <2>2. effect \in [Generations -> EffectStates] /\ performed \in [Generations -> Nat]
      BY DEF CtlInit, EffectStates
    <2>q. QED
      BY <2>1, <2>2 DEF CallsFit
  <1>q. QED
    BY <1>4, <1>5, <1>6, <1>9 DEF CtlBounds

LEMMA BoundsStep == CtlInv /\ CtlBounds /\ [CtlNext]_ctlVars => CtlBounds'
  <1> SUFFICES ASSUME CtlInv, CtlBounds, [CtlNext]_ctlVars  PROVE  CtlBounds'
    OBVIOUS
  <1>1. /\ Shape /\ Known /\ Shape' /\ QueueStep
    BY CtlInvStep, QueueSteps DEF CtlInv, QueueInv
  <1>2. /\ LostFits /\ HolderKnows /\ VersionFits /\ NumbersFit /\ CallsFit
    BY DEF CtlBounds
  <1>3. mishaps \in Nat /\ mishaps' \in {mishaps, mishaps + 1}
    BY <1>2, Mishaps, ControllerAssumption DEF NumbersFit
  <1>4. LostFits' /\ HolderKnows'
    BY <1>1, <1>2, <1>3, LostKept, HolderKeeps
  <1>5. VersionFits'
    BY <1>1, <1>2, <1>3, <1>4, VersionsKept
  <1>6. NumbersFit'
    BY <1>1, <1>2, <1>5, NumbersKept
  <1>7. CallsFit'
    BY <1>1, <1>2, CallsFitKept
  <1>q. QED
    BY <1>4, <1>5, <1>6, <1>7 DEF CtlBounds

LEMMA CtlTyped == CtlInv /\ CtlBounds => CtlTypeOK
  <1> SUFFICES ASSUME CtlInv, CtlBounds  PROVE  CtlTypeOK
    OBVIOUS
  <1>0. /\ MaxUid \in Nat /\ MaxVersion \in Nat /\ MaxGeneration \in Nat /\ MaxMishaps \in Nat
        /\ ResourceOK /\ RowOK /\ PassOK /\ EnginesOK /\ Shape
    BY ControllerAssumption DEF CtlInv, QueueInv, Shape, MaxVersion
  <1>1. /\ VersionFits /\ NumbersFit /\ CallsFit
        /\ mishaps \in 0..MaxMishaps /\ wakes \in 0..MaxWakes
    BY DEF CtlBounds, NumbersFit
  <1>2. resource \in [exists : BOOLEAN, uid : 0..MaxUid, version : 0..MaxVersion,
                     gen : 0..MaxGeneration, observed : 0..MaxGeneration,
                     deleting : BOOLEAN, finalizer : BOOLEAN]
    <2>1. resource \in ResourceRecords /\ resource.uid <= MaxUid
      BY <1>0, <1>1 DEF ResourceOK, NumbersFit
    <2>2. resource.version <= MaxVersion
      BY <1>0, <1>1, VersionBound
    <2>q. QED
      BY <1>0, <2>1, <2>2 DEF ResourceRecords
  <1>3. pass \in [ReconWorkers ->
                   [pc : {"idle", "load", "status", "finish"} \union Awaiting,
                    uid : 0..MaxUid, version : 0..MaxVersion, gen : 0..MaxGeneration,
                    deleting : BOOLEAN, attempt : Nat, run : Nat,
                    result : {"none", "settled", "again", "later", "delete"} \union Reports]]
    <2>1. pass \in [ReconWorkers -> PassRecords]
      BY <1>0 DEF PassOK
    <2>2. \A w \in ReconWorkers : pass[w].uid \in 0..MaxUid /\ pass[w].version \in 0..MaxVersion
      BY <1>1 DEF NumbersFit
    <2>3. /\ Results = {"none", "settled", "again", "later", "delete"} \union Reports
          /\ {"idle", "load"} \union Loaded = {"idle", "load", "status", "finish"} \union Awaiting
      BY DEF Results, Reports, Loaded, Past
    <2>q. QED
      BY <2>1, <2>2, <2>3 DEF PassRecords
  <1>4. performed \in [Generations -> 0..Cardinality(ReconWorkers)]
    <2>1. ASSUME NEW g \in Generations  PROVE  performed[g] \in 0..Cardinality(ReconWorkers)
      BY <1>1, CallersAreFew DEF CallsFit, CallsOf
    <2>q. QED
      BY <1>1, <2>1 DEF CallsFit
  <1>5. effect \in [Generations -> {"none", "pending", "applied", "rejected", "indeterminate"}]
    BY <1>1 DEF CallsFit, EffectStates
  <1>6. /\ row \in [exists : BOOLEAN, due : BOOLEAN, token : ReconWorkers \union {NoWorker},
                    live : BOOLEAN, news : BOOLEAN]
        /\ row.exists => resource.exists
        /\ row.token # NoWorker => row.exists
        /\ row.live => row.token # NoWorker
        /\ up \in BOOLEAN /\ stalled \in BOOLEAN /\ overruled \in BOOLEAN
    BY <1>0 DEF RowOK, QueueRows, PassOK, EnginesOK
  <1>7. /\ child \in [Generations ->
                          [state : {"none", "pending"} \union Reports, attempt : Nat, run : Nat]]
         /\ bundle \in [Generations -> Seq({"none", "running", "completed", "failed", "interrupted"})]
         /\ engines \in [Generations -> SUBSET
                            [attempt : Nat, run : Nat, outcome : {"none", "completed", "failed"}]]
         /\ aborted \subseteq [id : ReconWorkers \X Nat, gen : Generations, pc : Unstoppable,
                               attempt : Nat, run : Nat, result : {"none"} \union Reports]
    BY <1>0 DEF EnginesOK, ChildRecords, BundleStates, EngineRecords, AbortedRecords
  <1>q. QED
    BY <1>1, <1>2, <1>3, <1>4, <1>5, <1>6, <1>7 DEF CtlTypeOK

\* The state of the controller runtime has its type, versions and calls bounded
\* by what happened: a version follows a change of a caller, the status write
\* after it or the late write of a pass of an earlier incarnation; and an effect
\* is performed at most as often as there are workers to call for it, aborted
\* passes or not, since nobody calls who could know that it was performed.
THEOREM CtlTypeCorrect == CtlSpec => []CtlTypeOK
  <1>1. CtlInit => CtlInv /\ CtlBounds
    BY CtlInvInit, BoundsInit
  <1>2. CtlInv /\ CtlBounds /\ [CtlNext]_ctlVars => CtlInv' /\ CtlBounds'
    BY CtlInvStep, BoundsStep
  <1>q. QED
    BY <1>1, <1>2, CtlTyped, PTL DEF CtlSpec
=============================================================================
