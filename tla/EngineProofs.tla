---------------------------- MODULE EngineProofs ----------------------------
(* Proofs about Engine, for any graph, any bounds and any carried steps. *)
EXTENDS Engine, FiniteSetTheorems, TLAPS

States == [status : {"none", "running"} \union Terminal, current : Nodes \union {NoNode},
           paused : BOOLEAN, steps : Seq(Step), results : [Nodes -> Results \union {"none"}]]

\* The pcs of an engine that works on a bundle.
Working == {"append", "project", "boundary", "held", "begin", "dispatch", "node", "settled",
            "route", "conclude"}

Persisting == pc \in {"append", "project"}

\* Where the engine is, or goes on once its event is persisted.
Where == IF Persisting THEN todo.next ELSE pc

Loop == {"boundary", "held", "begin", "dispatch", "node", "settled", "route"}

\* A node is in flight.
InFlight == {"dispatch", "node", "settled"}

-----------------------------------------------------------------------------
(* The invariant *)

UpdateOK ==
    /\ update \in [stage : {"none", "results", "fields"}, current : Nodes \union {NoNode},
                   results : [Nodes -> Results \union {"none"}]]
    \* a write that waits for its turn delays the node's event
    /\ update # NoUpdate => /\ \/ pc \in {"node", "settled", "returned"}
                               \/ pc = "append" /\ todo.next = "route"
                            /\ mem.status = "running" /\ disk.status = "running"

\* An engine is at work exactly while the row is claimed.
RowIsHeld == row = "claimed" <=> pc # "off"

\* What the bundle is while an engine is on: absent, or not ended.
BundleIsOpen ==
    /\ pc \in {"input", "title"} => disk = NoState
    /\ pc \in Working \union {"prepare"} => disk.status = "running"

EventOK == Persisting => todo.next \in (Loop \ {"node", "settled"}) \union {"conclude", "returned"}

\* The state object has ended only when nothing but its event is left to do, and
\* has a node in flight only between the node's start and its record.
MemoryOK ==
    pc \in Working =>
       /\ mem.status \in {"running"} \union Terminal
       /\ (mem.status = "running") = (Where # "returned")
       /\ mem.current = IF Where \in InFlight THEN at ELSE NoNode

PlaceOK ==
    /\ pc \in Working /\ Where \in Loop => at \in Nodes
    /\ pc \in Working /\ Where = "conclude" =>
          at \in {"waiting", "completed", "failed", "timed_out", "error"}
    /\ pc \in Working /\ Where \in {"settled", "route"} => result \in Results

\* t is s, prolonged.
Prolongs(s, t) == \A i \in DOMAIN s : i \in DOMAIN t /\ t[i] = s[i]

StepsOK == pc \in Working \union {"returned"} => Prolongs(disk.steps, mem.steps)

EngInv ==
    TypeOK /\ UpdateOK /\ RowIsHeld /\ BundleIsOpen /\ EventOK /\ MemoryOK /\ PlaceOK /\ StepsOK

-----------------------------------------------------------------------------
(* States *)

LEMMA NoStateTypes ==
    /\ NoState \in States /\ NoState.status = "none" /\ NoState.current = NoNode
    /\ NoState.steps = <<>>
    /\ NoResults \in [Nodes -> Results \union {"none"}]
    /\ NoUpdate \in [stage : {"none", "results", "fields"}, current : Nodes \union {NoNode},
                     results : [Nodes -> Results \union {"none"}]]
    /\ NoUpdate.stage = "none"
  <1>1. NoResults \in [Nodes -> Results \union {"none"}]
    BY DEF NoResults
  <1>q. QED
    BY <1>1 DEF NoState, NoUpdate, States

\* The updates of a state object keep its type and all that they do not name.
LEMMA StatusUpdates ==
    ASSUME NEW state \in States, NEW status \in {"none", "running"} \union Terminal
    PROVE  /\ LET new == [state EXCEPT !.status = status, !.current = NoNode]
              IN  /\ new \in States /\ new.status = status /\ new.current = NoNode
                  /\ new.steps = state.steps /\ new.results = state.results
           /\ LET new == [state EXCEPT !.status = status, !.current = NoNode, !.paused = FALSE]
              IN  /\ new \in States /\ new.status = status /\ new.current = NoNode
                  /\ new.steps = state.steps /\ new.results = state.results
           /\ LET new == [state EXCEPT !.status = status]
              IN  /\ new \in States /\ new.status = status /\ new.current = state.current
                  /\ new.steps = state.steps /\ new.results = state.results
           /\ LET new == [state EXCEPT !.paused = FALSE, !.status = status]
              IN  /\ new \in States /\ new.status = status /\ new.current = state.current
                  /\ new.steps = state.steps /\ new.results = state.results
  BY DEF States

LEMMA PlaceUpdates ==
    ASSUME NEW state \in States, NEW n \in Nodes \union {NoNode}
    PROVE  /\ LET new == [state EXCEPT !.current = n, !.paused = FALSE]
              IN  /\ new \in States /\ new.status = state.status /\ new.current = n
                  /\ new.steps = state.steps /\ new.results = state.results
           /\ LET new == [state EXCEPT !.current = n]
              IN  /\ new \in States /\ new.status = state.status /\ new.current = n
                  /\ new.steps = state.steps /\ new.results = state.results
  BY DEF States

LEMMA PauseUpdates ==
    ASSUME NEW state \in States, NEW b \in BOOLEAN
    PROVE  LET new == [state EXCEPT !.paused = b]
           IN  /\ new \in States /\ new.status = state.status /\ new.current = state.current
               /\ new.steps = state.steps /\ new.results = state.results
  BY DEF States

LEMMA ProlongsSteps ==
    ASSUME NEW s \in Seq(Step), NEW t \in Seq(Step), NEW x \in Step, Prolongs(s, t)
    PROVE  Prolongs(s, s) /\ Prolongs(<<>>, s) /\ Prolongs(s, Append(t, x))
  BY DEF Prolongs

TypesOK ==
    /\ disk \in States /\ mem \in States
    /\ disk.status # "running" => disk.current = NoNode
    /\ pc \in Working \union {"off", "input", "title", "prepare", "returned"}
    /\ at \in Nodes \union Terminal \union {"error", NoNode}
    /\ result \in Results \union {"none"}
    /\ cancelled \in BOOLEAN /\ parked \in BOOLEAN /\ paused \in BOOLEAN
    /\ row \in {"ready", "claimed", "parked", "done"}
    /\ carried \in Carries
    /\ disruptions \in 0..MaxDisruptions

LEMMA TypeParts == (TypeOK <=> TypesOK) /\ (TypeOK' <=> TypesOK')
  BY DEF TypeOK, TypesOK, States, Working

-----------------------------------------------------------------------------
(* The engine's steps *)

\* A step of an engine at work that writes nothing but the engine's own memory.
LEMMA Onward ==
    ASSUME EngInv, pc \in Working, update = NoUpdate \/ UpdateOK',
           UNCHANGED <<disk, update, cancelled, parked, paused, row, carried, disruptions>>,
           mem' \in States, Prolongs(disk.steps, mem'.steps),
           pc' \in Working \union {"returned"},
           at' \in Nodes \union Terminal \union {"error", NoNode},
           result' \in Results \union {"none"},
           EventOK', MemoryOK', PlaceOK'
    PROVE  EngInv'
  <1>1. TypeOK'
    BY TypeParts DEF EngInv, TypesOK
  <1>2. UpdateOK'
    BY DEF EngInv, UpdateOK
  <1>3. RowIsHeld'
    BY DEF EngInv, RowIsHeld, Working
  <1>4. BundleIsOpen' /\ StepsOK'
    BY DEF EngInv, BundleIsOpen, StepsOK, Working
  <1>q. QED
    BY <1>1, <1>2, <1>3, <1>4 DEF EngInv

\* Ending the run: the state object first, its event next.
LEMMA Ending ==
    ASSUME EngInv, pc \in Working, update = NoUpdate, NEW status \in Terminal, Finish(status),
           UNCHANGED <<disk, at, result, update, cancelled, parked, paused, row, carried,
                       disruptions>>
    PROVE  EngInv'
  <1>1. /\ mem' = [mem EXCEPT !.status = status, !.current = NoNode]
        /\ pc' = "append" /\ todo'.next = "returned"
    BY DEF Finish, Persist
  <1>2. /\ mem' \in States /\ mem'.status = status /\ mem'.current = NoNode
        /\ mem'.steps = mem.steps
    BY <1>1, TypeParts, StatusUpdates DEF EngInv, TypesOK
  <1>3. Prolongs(disk.steps, mem'.steps)
    BY <1>2 DEF EngInv, StepsOK
  <1>4. EventOK' /\ MemoryOK' /\ PlaceOK'
    BY <1>1, <1>2 DEF EventOK, MemoryOK, PlaceOK, Where, Persisting, InFlight, Terminal, Loop
  <1>q. QED
    BY <1>1, <1>2, <1>3, <1>4, Onward, TypeParts DEF EngInv, TypesOK, Working

\* A parked engine returns and records nothing.
LEMMA Returning ==
    ASSUME EngInv, pc \in Working, update = NoUpdate, pc' = "returned",
           UNCHANGED <<disk, mem, at, result, todo, update, cancelled, parked, paused, row,
                       carried, disruptions>>
    PROVE  EngInv'
  <1>1. EventOK' /\ MemoryOK' /\ PlaceOK'
    BY DEF EventOK, MemoryOK, PlaceOK, Where, Persisting, Working
  <1>q. QED
    BY <1>1, Onward, TypeParts DEF EngInv, TypesOK, StepsOK

LEMMA Throwing ==
    ASSUME EngInv, pc \in Working, update = NoUpdate, NEW status \in Terminal, Throw(status),
           UNCHANGED <<disk, at, result, update, cancelled, parked, paused, row, carried,
                       disruptions>>
    PROVE  EngInv'
  <1>1. CASE parked
    BY <1>1, Returning DEF Throw
  <1>2. CASE ~parked
    BY <1>2, Ending DEF Throw, Terminal
  <1>q. QED
    BY <1>1, <1>2

\* executeNode: the node is in flight before its event is.
LEMMA Beginning ==
    ASSUME EngInv, pc \in {"boundary", "begin"}, update = NoUpdate, BeginNode,
           UNCHANGED <<disk, at, result, update, cancelled, parked, paused, row, carried,
                       disruptions>>
    PROVE  EngInv'
  <1>1. CASE StepsExhausted(mem)
    BY <1>1, Throwing DEF BeginNode, Working, Terminal
  <1>2. CASE ~StepsExhausted(mem)
    <2>1. /\ mem' = [mem EXCEPT !.current = at]
          /\ pc' = "append" /\ todo'.next = "dispatch"
      BY <1>2 DEF BeginNode, Persist
    <2>2. at \in Nodes /\ mem.status = "running"
      BY DEF EngInv, PlaceOK, MemoryOK, Working, Where, Persisting, Loop
    <2>3. /\ mem' \in States /\ mem'.status = "running" /\ mem'.current = at
          /\ mem'.steps = mem.steps
      BY <2>1, <2>2, TypeParts, PlaceUpdates DEF EngInv, TypesOK
    <2>4. Prolongs(disk.steps, mem'.steps)
      BY <2>3 DEF EngInv, StepsOK, Working
    <2>5. EventOK' /\ MemoryOK' /\ PlaceOK'
      BY <2>1, <2>2, <2>3 DEF EventOK, MemoryOK, PlaceOK, Where, Persisting, InFlight, Loop
    <2>q. QED
      BY <2>1, <2>3, <2>4, <2>5, Onward, TypeParts DEF EngInv, TypesOK, Working
  <1>q. QED
    BY <1>1, <1>2

\* The engine is gone; what it leaves is a bundle and a row for the next one.
LEMMA Leaving ==
    ASSUME EngInv, Leave, disk' \in States, disk'.status # "running" => disk'.current = NoNode,
           row' \in {"ready", "parked", "done"}, UNCHANGED carried,
           disruptions' \in 0..MaxDisruptions
    PROVE  EngInv'
  <1>1. TypeOK'
    BY TypeParts, NoStateTypes DEF EngInv, TypesOK, Leave, ClearFlags
  <1>2. UpdateOK'
    BY NoStateTypes DEF Leave, UpdateOK
  <1>q. QED
    BY <1>1, <1>2
       DEF EngInv, Leave, RowIsHeld, BundleIsOpen, EventOK, MemoryOK, PlaceOK, StepsOK,
           Persisting, Working

\* Where routing leads, and where a resumed run goes on.
LEMMA TargetTypes ==
    ASSUME NEW n \in Nodes, NEW r \in Results
    PROVE  Target(n, r) \in Nodes \union {"error", IF r \in Outputs THEN "end" ELSE "unrouted"}
  BY GraphAssumption DEF Target

LEMMA LastStepTypes ==
    ASSUME NEW state \in States, state.steps # <<>>
    PROVE  /\ LastStep(state) \in Step /\ Len(state.steps) \in DOMAIN state.steps
           /\ LastResult(state) \in Results \union {"none"}
  <1>1. LastStep(state) \in Step /\ Len(state.steps) \in DOMAIN state.steps
    BY DEF States, LastStep
  <1>q. QED
    BY <1>1 DEF LastResult, States, Step

ResumeEnds == {"waiting", "completed", "failed", "timed_out", "error"}

LEMMA ResumePointTypes ==
    ASSUME NEW state \in States
    PROVE  ResumePoint(state) \in Nodes \union ResumeEnds
  <1>1. CASE state.current # NoNode
    BY <1>1 DEF ResumePoint, States
  <1>2. CASE state.current = NoNode /\ state.steps = <<>>
    BY <1>2, GraphAssumption DEF ResumePoint
  <1>3. CASE state.current = NoNode /\ state.steps # <<>> /\ LastResult(state) = "none"
    <2>1. LastStep(state).node \in Nodes
      BY <1>3, LastStepTypes DEF Step
    <2>q. QED
      BY <1>3, <2>1 DEF ResumePoint
  <1>4. CASE state.current = NoNode /\ state.steps # <<>> /\ LastResult(state) # "none"
    <2> DEFINE next == Target(LastStep(state).node, LastResult(state))
    <2>1. next \in Nodes \union {"error", "end", "unrouted"}
      <3>1. LastStep(state).node \in Nodes /\ LastResult(state) \in Results
        BY <1>4, LastStepTypes DEF Step
      <3>q. QED
        BY <3>1, TargetTypes
    <2>2. ResumePoint(state) = IF WaitsAt(state) THEN "waiting"
                               ELSE IF next = "end" THEN "completed"
                               ELSE IF next = "unrouted"
                                    THEN IF LastResult(state) = "timed_out" THEN "timed_out"
                                                                            ELSE "failed"
                               ELSE next
      <3> HIDE DEF next
      <3>1. ResumePoint(state) = CASE WaitsAt(state) -> "waiting"
               [] ~WaitsAt(state) /\ next = "end" -> "completed"
               [] ~WaitsAt(state) /\ next = "unrouted" ->
                    IF LastResult(state) = "timed_out" THEN "timed_out" ELSE "failed"
               [] OTHER -> next
        BY <1>4 DEF ResumePoint, next
      <3>2. CASE WaitsAt(state)
        BY <3>1, <3>2
      <3>3. CASE ~WaitsAt(state)
        BY <3>1, <3>3
      <3>q. QED
        BY <3>2, <3>3
    <2> HIDE DEF next
    <2>q. QED
      BY <2>1, <2>2 DEF ResumeEnds
  <1>q. QED
    BY <1>1, <1>2, <1>3, <1>4

LEMMA InterruptedTypes ==
    ASSUME disk \in States
    PROVE  /\ Interrupted \in States /\ Interrupted.current = NoNode
           /\ Interrupted.steps = disk.steps /\ Interrupted.results = disk.results
           /\ Interrupted.status \in Terminal
  <1>1. PICK status \in Terminal : \/ Interrupted = [disk EXCEPT !.status = status, !.current = NoNode]
                                   \/ Interrupted = [disk EXCEPT !.status = status, !.current = NoNode,
                                                                 !.paused = FALSE]
    <2>1. "failed" \in Terminal
      BY DEF Terminal
    <2>2. CASE tail \in Terminal
      BY <2>2 DEF Interrupted
    <2>3. CASE tail \notin Terminal
      BY <2>1, <2>3 DEF Interrupted
    <2>q. QED
      BY <2>2, <2>3
  <1>2. status \in {"none", "running"} \union Terminal
    OBVIOUS
  <1>3. CASE Interrupted = [disk EXCEPT !.status = status, !.current = NoNode]
    BY <1>2, <1>3 DEF States
  <1>4. CASE Interrupted = [disk EXCEPT !.status = status, !.current = NoNode, !.paused = FALSE]
    BY <1>2, <1>4 DEF States
  <1>q. QED
    BY <1>1, <1>3, <1>4

\* Every set of numbers has a least one: the descent of finite subsets is well-founded.
LEMMA LeastNumber ==
    ASSUME NEW T, T \subseteq Nat, T # {}
    PROVE  \E x \in T : \A y \in T : x <= y
  <1> DEFINE Below(x) == 0..(x - 1)
             Initial == {Below(x) : x \in T}
  <1>1. Initial \subseteq FiniteSubsetsOf(Nat) /\ Initial # {}
    <2>1. ASSUME NEW x \in T  PROVE  Below(x) \in SUBSET Nat /\ IsFiniteSet(Below(x))
      BY FS_Interval
    <2>q. QED
      BY <2>1 DEF FiniteSubsetsOf
  <1>2. PICK S \in Initial : \A U \in Initial : <<U, S>> \notin StrictSubsetOrdering(Nat)
    <2>1. IsWellFoundedOn(StrictSubsetOrdering(Nat), FiniteSubsetsOf(Nat))
      BY FS_StrictSubsetOrderingWellFounded
    <2> HIDE DEF Initial
    <2>q. QED
      BY <1>1, <2>1, WFMin
  <1>3. PICK x \in T : S = Below(x)
    OBVIOUS
  <1>4. ASSUME NEW y \in T, y < x  PROVE  FALSE
    <2>1. y \in Below(x) /\ y \notin Below(y) /\ Below(y) \subseteq Below(x)
      BY <1>4
    <2>2. Below(y) \in SUBSET Nat /\ Below(x) \in SUBSET Nat /\ Below(y) \in Initial
      OBVIOUS
    <2>3. <<Below(y), Below(x)>> \in StrictSubsetOrdering(Nat)
      <3> HIDE DEF Below
      <3>q. QED
        BY <2>1, <2>2 DEF StrictSubsetOrdering
    <2>q. QED
      BY <1>2, <1>3, <2>2, <2>3
  <1>q. QED
    BY <1>4

\* The latest step of a node among steps it occurs in: the one with the fewest behind it.
LEMMA LatestOfNode ==
    ASSUME NEW steps \in Seq(Step), NEW n, \E i \in DOMAIN steps : steps[i].node = n
    PROVE  \E i \in DOMAIN steps : /\ steps[i].node = n
                                    /\ \A j \in DOMAIN steps : steps[j].node = n => j <= i
  <1> DEFINE Behind == {Len(steps) - i : i \in {j \in DOMAIN steps : steps[j].node = n}}
  <1>1. Behind \subseteq Nat /\ Behind # {}
    OBVIOUS
  <1>2. PICK x \in Behind : \A y \in Behind : x <= y
    <2> HIDE DEF Behind
    <2>q. QED
      BY <1>1, LeastNumber
  <1>3. PICK i \in DOMAIN steps : steps[i].node = n /\ x = Len(steps) - i
    OBVIOUS
  <1>4. ASSUME NEW j \in DOMAIN steps, steps[j].node = n  PROVE  j <= i
    <2>1. Len(steps) - j \in Behind
      BY <1>4
    <2>q. QED
      BY <1>2, <1>3, <2>1
  <1>q. QED
    BY <1>3, <1>4

LEMMA ResultsTypes ==
    ASSUME NEW steps \in Seq(Step)
    PROVE  ResultsOf(steps) \in [Nodes -> Results \union {"none"}]
  <1>1. ASSUME NEW i \in DOMAIN steps  PROVE  steps[i].result \in Results
    <2>1. steps[i] \in Step
      OBVIOUS
    <2>q. QED
      BY <2>1 DEF Step
  <1>2. ASSUME NEW n \in Nodes, \E i \in DOMAIN steps : steps[i].node = n
        PROVE  (CHOOSE i \in DOMAIN steps :
                  /\ steps[i].node = n
                  /\ \A j \in DOMAIN steps : steps[j].node = n => j <= i) \in DOMAIN steps
    <2>1. \E i \in DOMAIN steps : /\ steps[i].node = n
                                   /\ \A j \in DOMAIN steps : steps[j].node = n => j <= i
      BY <1>2, LatestOfNode
    <2>q. QED
      BY <2>1
  <1>q. QED
    BY <1>1, <1>2 DEF ResultsOf

-----------------------------------------------------------------------------
(* Callers: a bundle that has ended is never claimed for work *)

LEMMA CallerStep ==
    ASSUME EngInv, Start \/ Resume \/ Close \/ Interrupt
    PROVE  EngInv'
  <1>1. CASE Start \/ Resume
    <2>1. TypeOK'
      BY <1>1, TypeParts DEF EngInv, TypesOK, Start, Resume, ClearFlags, bundleVars
    <2>2. UpdateOK'
      <3>1. pc = "off"
        BY <1>1 DEF EngInv, RowIsHeld, Start, Resume
      <3>q. QED
        BY <1>1, <3>1 DEF EngInv, UpdateOK, Start, Resume
    <2>3. RowIsHeld' /\ BundleIsOpen'
      BY <1>1 DEF Start, Resume, RowIsHeld, BundleIsOpen, Working, bundleVars
    <2>4. pc' \in {"input", "prepare"}
      BY <1>1 DEF Start, Resume
    <2>5. EventOK' /\ MemoryOK' /\ PlaceOK' /\ StepsOK'
      BY <2>4 DEF EventOK, MemoryOK, PlaceOK, StepsOK, Persisting, Working
    <2>q. QED
      BY <2>1, <2>2, <2>3, <2>5 DEF EngInv
  <1>2. CASE Close \/ Interrupt
    <2>1. pc = "off" /\ UNCHANGED <<mem, pc, at, result, todo, update, flagVars, carried, disruptions>>
      BY <1>2 DEF EngInv, RowIsHeld, Close, Interrupt
    <2>2. disk' \in States /\ (disk'.status # "running" => disk'.current = NoNode) /\ row' = "done"
      <3>1. disk \in States /\ (disk.status # "running" => disk.current = NoNode)
        BY TypeParts DEF EngInv, TypesOK
      <3>2. Interrupted \in States /\ Interrupted.current = NoNode
        BY InterruptedTypes, <3>1
      <3>q. QED
        BY <1>2, <3>1, <3>2 DEF Close, Interrupt, bundleVars
    <2>3. TypeOK'
      BY <2>1, <2>2, TypeParts DEF EngInv, TypesOK, flagVars
    <2>4. UpdateOK' /\ RowIsHeld'
      BY <2>1, <2>2 DEF EngInv, UpdateOK, RowIsHeld
    <2>5. BundleIsOpen' /\ EventOK' /\ MemoryOK' /\ PlaceOK' /\ StepsOK'
      BY <2>1 DEF BundleIsOpen, EventOK, MemoryOK, PlaceOK, StepsOK, Persisting, Working
    <2>q. QED
      BY <2>3, <2>4, <2>5 DEF EngInv
  <1>q. QED
    BY <1>1, <1>2

LEMMA StartingStep ==
    ASSUME EngInv, AcceptInput \/ Refuse \/ CreateBundle
    PROVE  EngInv'
  <1>1. CASE AcceptInput
    <2>1. TypeOK'
      BY <1>1, TypeParts DEF EngInv, TypesOK, AcceptInput, ClearFlags, bundleVars, flagVars, callerVars
    <2>2. UpdateOK' /\ RowIsHeld' /\ BundleIsOpen'
      BY <1>1 DEF EngInv, UpdateOK, RowIsHeld, BundleIsOpen, AcceptInput, bundleVars, callerVars,
                  Working
    <2>3. EventOK' /\ MemoryOK' /\ PlaceOK' /\ StepsOK'
      BY <1>1 DEF AcceptInput, EventOK, MemoryOK, PlaceOK, StepsOK, Persisting, Working
    <2>q. QED
      BY <2>1, <2>2, <2>3 DEF EngInv
  <1>2. CASE Refuse
    BY <1>2, Leaving, TypeParts DEF EngInv, TypesOK, Refuse, bundleVars
  <1>3. CASE CreateBundle
    <2>1. carried \in Seq(Step)
      BY CarriedAssumption, TypeParts DEF EngInv, TypesOK
    <2>2. ResultsOf(carried) \in [Nodes -> Results \union {"none"}]
      BY <2>1, ResultsTypes
    <2>3. /\ mem' \in States /\ mem'.status = "running" /\ mem'.current = NoNode
          /\ mem'.steps = carried /\ disk' = mem'
      <3>1. PICK results \in [Nodes -> Results \union {"none"}] : results = ResultsOf(carried)
        BY <2>2
      <3>2. /\ disk' = mem'
            /\ mem' = [NoState EXCEPT !.status = "running", !.steps = carried, !.results = results]
        BY <1>3, <3>1 DEF CreateBundle
      <3>q. QED
        BY <2>1, <3>2, NoStateTypes DEF States
    <2>4. /\ at' \in Nodes \union ResumeEnds
          /\ pc' = "append" /\ todo'.next = IF at' \in Nodes THEN "boundary" ELSE "conclude"
      BY <1>3, <2>3, ResumePointTypes DEF CreateBundle, Persist
    <2>5. TypeOK'
      BY <1>3, <2>3, <2>4, TypeParts
         DEF EngInv, TypesOK, CreateBundle, flagVars, callerVars, Working, ResumeEnds, Terminal
    <2>6. UpdateOK' /\ RowIsHeld' /\ BundleIsOpen'
      BY <1>3, <2>3, <2>4
         DEF EngInv, UpdateOK, RowIsHeld, BundleIsOpen, CreateBundle, callerVars, Working
    <2>7. EventOK' /\ MemoryOK' /\ PlaceOK'
      BY <2>3, <2>4 DEF EventOK, MemoryOK, PlaceOK, Where, Persisting, Loop, InFlight, ResumeEnds
    <2>8. StepsOK'
      BY <2>3 DEF StepsOK, Prolongs
    <2>q. QED
      BY <2>5, <2>6, <2>7, <2>8 DEF EngInv
  <1>q. QED
    BY <1>1, <1>2, <1>3

\* A resumed run: the state object is the bundle without its interrupted attempt.
LEMMA ResumingStep ==
    ASSUME EngInv, Prepared \/ Unresumable \/ Conclude
    PROVE  EngInv'
  <1>1. CASE Prepared
    <2>1. disk \in States /\ disk.status = "running" /\ update = NoUpdate
      BY <1>1, TypeParts DEF EngInv, TypesOK, BundleIsOpen, UpdateOK, Prepared
    <2>2. /\ mem' \in States /\ mem'.status = "running" /\ mem'.current = NoNode
          /\ mem'.steps = disk.steps /\ UNCHANGED disk
      BY <1>1, <2>1, PlaceUpdates DEF Prepared, bundleVars
    <2>3. /\ at' \in Nodes \union ResumeEnds
          /\ pc' = "append" /\ todo'.next = IF at' \in Nodes THEN "boundary" ELSE "conclude"
      BY <1>1, <2>1, ResumePointTypes DEF Prepared, Persist
    <2>4. TypeOK'
      BY <1>1, <2>2, <2>3, TypeParts
         DEF EngInv, TypesOK, Prepared, flagVars, callerVars, Working, ResumeEnds, Terminal
    <2>5. UpdateOK' /\ RowIsHeld' /\ BundleIsOpen'
      BY <1>1, <2>1, <2>2, <2>3
         DEF EngInv, UpdateOK, RowIsHeld, BundleIsOpen, Prepared, callerVars, Working
    <2>6. EventOK' /\ MemoryOK' /\ PlaceOK'
      BY <2>2, <2>3 DEF EventOK, MemoryOK, PlaceOK, Where, Persisting, Loop, InFlight, ResumeEnds
    <2>7. StepsOK'
      BY <2>2 DEF StepsOK, Prolongs
    <2>q. QED
      BY <2>4, <2>5, <2>6, <2>7 DEF EngInv
  <1>2. CASE Unresumable
    <2>1. disk' \in {disk, Interrupted} /\ row' \in {"parked", "done"}
      BY <1>2 DEF Unresumable
    <2>q. QED
      BY <1>2, <2>1, Leaving, InterruptedTypes, TypeParts DEF EngInv, TypesOK, Unresumable
  <1>3. CASE Conclude /\ at = "error"
    BY <1>3, Leaving, TypeParts DEF EngInv, TypesOK, Conclude, bundleVars
  <1>4. CASE Conclude /\ at # "error"
    <2>1. at \in Terminal
      BY <1>4 DEF EngInv, PlaceOK, Conclude, Where, Persisting, Working, Terminal
    <2>2. update = NoUpdate /\ pc \in Working
      BY <1>4 DEF EngInv, UpdateOK, Conclude, Working
    <2>q. QED
      BY <1>4, <2>1, <2>2, Ending DEF Conclude, bundleVars, flagVars
  <1>q. QED
    BY <1>1, <1>2, <1>3, <1>4

-----------------------------------------------------------------------------
(* Persisting, and the graph's loop *)

\* Only while the node is at work, or its result is recorded, can it write itself.
LEMMA NoUpdateElsewhere ==
    ASSUME EngInv, pc \notin {"node", "settled", "returned"},
           pc = "append" => todo.next # "route"
    PROVE  update = NoUpdate
  BY DEF EngInv, UpdateOK

LEMMA PersistingStep ==
    ASSUME EngInv, AppendEvent \/ ReplaceState
    PROVE  EngInv'
  <1>1. CASE AppendEvent
    <2>1. pc' = "project" /\ pc \in Working /\ todo' = todo /\ Where' = Where
      BY <1>1 DEF AppendEvent, Working, Where, Persisting
    <2>2. EventOK' /\ MemoryOK' /\ PlaceOK'
      BY <1>1, <2>1
         DEF EngInv, AppendEvent, EventOK, MemoryOK, PlaceOK, Persisting, InFlight
    <2>q. QED
      BY <1>1, <2>1, <2>2, Onward, TypeParts
         DEF AppendEvent, EngInv, TypesOK, StepsOK, Working, flagVars, callerVars
  <1>2. CASE ReplaceState
    <2>1. /\ pc = "project" /\ pc' = todo.next /\ pc' = Where /\ disk' = mem /\ mem' = mem
          /\ update = NoUpdate /\ update' = NoUpdate
          /\ pc' \in (Loop \ {"node", "settled"}) \union {"conclude", "returned"}
      BY <1>2, NoUpdateElsewhere DEF EngInv, ReplaceState, EventOK, Persisting, Where
    <2>2. /\ mem.status \in {"running"} \union Terminal
          /\ (mem.status = "running") = (pc' # "returned")
          /\ mem.current = IF pc' \in InFlight THEN at ELSE NoNode
      BY <2>1 DEF EngInv, MemoryOK, Working
    <2>3. mem.status # "running" => mem.current = NoNode
      BY <2>2 DEF InFlight
    <2>4. TypeOK'
      BY <1>2, <2>1, <2>3, TypeParts
         DEF EngInv, TypesOK, ReplaceState, Working, Loop, flagVars, callerVars
    <2>5. UpdateOK' /\ RowIsHeld' /\ BundleIsOpen'
      BY <1>2, <2>1, <2>2
         DEF EngInv, UpdateOK, RowIsHeld, BundleIsOpen, ReplaceState, Working, Loop, callerVars
    <2>6. ~Persisting' /\ Where' = pc'
      BY <2>1 DEF Persisting, Where, Loop
    <2>7. EventOK' /\ MemoryOK'
      BY <1>2, <2>1, <2>2, <2>6 DEF EventOK, MemoryOK, ReplaceState, InFlight
    <2>8. PlaceOK'
      BY <1>2, <2>1, <2>6 DEF EngInv, PlaceOK, ReplaceState, Working, Loop
    <2>9. StepsOK'
      BY <2>1 DEF StepsOK, Prolongs
    <2>q. QED
      BY <2>4, <2>5, <2>7, <2>8, <2>9 DEF EngInv
  <1>q. QED
    BY <1>1, <1>2

LEMMA BoundaryStep ==
    ASSUME EngInv, Boundary \/ Held \/ Begin
    PROVE  EngInv'
  <1>1. /\ pc \in {"boundary", "held", "begin"} /\ pc \in Working /\ Where = pc
        /\ UNCHANGED <<disk, at, result, update, cancelled, parked, paused, row, carried, disruptions>>
    BY DEF Boundary, Held, Begin, Working, Where, Persisting, bundleVars, flagVars, callerVars
  <1>2. update = NoUpdate /\ mem \in States /\ Prolongs(disk.steps, mem.steps)
    BY <1>1, NoUpdateElsewhere, TypeParts DEF EngInv, TypesOK, StepsOK
  <1>3. mem.status = "running" /\ mem.current = NoNode /\ at \in Nodes
    BY <1>1 DEF EngInv, MemoryOK, PlaceOK, InFlight, Loop
  <1>4. CASE pc' = "returned" /\ UNCHANGED <<mem, todo>>
    BY <1>1, <1>2, <1>4, Returning
  <1>5. CASE Finish("cancelled")
    BY <1>1, <1>2, <1>5, Ending DEF Terminal
  <1>6. CASE pc \in {"boundary", "begin"} /\ BeginNode
    BY <1>1, <1>2, <1>6, Beginning
  <1>7. ASSUME NEW b \in BOOLEAN, mem' = [mem EXCEPT !.paused = b],
               NEW next \in {"held", "begin"}, NEW event, Persist(event, next)
        PROVE  EngInv'
    <2>1. /\ mem' \in States /\ mem'.status = "running" /\ mem'.current = NoNode
          /\ mem'.steps = mem.steps
      BY <1>2, <1>3, <1>7, PauseUpdates
    <2>2. EventOK' /\ MemoryOK' /\ PlaceOK'
      BY <1>1, <1>3, <1>7, <2>1
         DEF Persist, EventOK, MemoryOK, PlaceOK, Persisting, Where, InFlight, Loop
    <2>3. pc' = "append"
      BY <1>7 DEF Persist
    <2>q. QED
      BY <1>1, <1>2, <2>1, <2>2, <2>3, Onward, TypeParts DEF EngInv, TypesOK, Working
  <1>8. ASSUME mem' = [mem EXCEPT !.paused = FALSE, !.status = "cancelled"],
               Persist("cancelled", "returned")
        PROVE  EngInv'
    <2>1. /\ mem' \in States /\ mem'.status = "cancelled" /\ mem'.current = NoNode
          /\ mem'.steps = mem.steps
      BY <1>2, <1>3, <1>8 DEF States, Terminal
    <2>2. EventOK' /\ MemoryOK' /\ PlaceOK'
      BY <1>8, <2>1
         DEF Persist, EventOK, MemoryOK, PlaceOK, Persisting, Where, InFlight, Loop, Terminal
    <2>3. pc' = "append"
      BY <1>8 DEF Persist
    <2>q. QED
      BY <1>1, <1>2, <2>1, <2>2, <2>3, Onward, TypeParts DEF EngInv, TypesOK, Working
  <1>9. CASE Boundary
    BY <1>4, <1>5, <1>6, <1>7, <1>9 DEF Boundary
  <1>10. CASE Held
    BY <1>4, <1>7, <1>8, <1>10 DEF Held
  <1>11. CASE Begin
    BY <1>6, <1>11 DEF Begin
  <1>q. QED
    BY <1>9, <1>10, <1>11

LEMMA NodeStep ==
    ASSUME EngInv, Dispatch \/ NodeEnds
    PROVE  EngInv'
  <1>1. /\ pc \in {"dispatch", "node"} /\ pc' \in {"node", "settled"} /\ pc \in Working
        /\ result' \in Results \union {"none"} /\ (pc' = "settled" => result' \in Results)
        /\ UNCHANGED <<disk, mem, at, todo, update, cancelled, parked, paused, row, carried,
                       disruptions>>
    BY TypeParts
       DEF EngInv, TypesOK, Dispatch, NodeEnds, Working, Results, Failures, bundleVars, flagVars,
           callerVars
  <1>2. Where = pc /\ Where' = pc' /\ ~Persisting'
    BY <1>1 DEF Where, Persisting
  <1>3. mem.status = "running" /\ mem.current = at /\ at \in Nodes
    BY <1>1, <1>2 DEF EngInv, MemoryOK, PlaceOK, InFlight, Loop
  <1>4. UpdateOK'
    BY <1>1 DEF EngInv, UpdateOK
  <1>5. EventOK' /\ MemoryOK' /\ PlaceOK'
    BY <1>1, <1>2, <1>3 DEF EventOK, MemoryOK, PlaceOK, InFlight
  <1>q. QED
    BY <1>1, <1>4, <1>5, Onward, TypeParts DEF EngInv, TypesOK, StepsOK, Working

LEMMA SettledStep ==
    ASSUME EngInv, Settled
    PROVE  EngInv'
  <1>1. /\ pc = "settled" /\ pc \in Working /\ Where = pc
        /\ UNCHANGED <<disk, at, result, update, cancelled, parked, paused, row, carried, disruptions>>
    BY DEF Settled, Working, Where, Persisting, bundleVars, flagVars, callerVars
  <1>2. mem \in States /\ disk \in States /\ Prolongs(disk.steps, mem.steps)
    BY <1>1, TypeParts DEF EngInv, TypesOK, StepsOK
  <1>3. /\ mem.status = "running" /\ at \in Nodes /\ result \in Results
    BY <1>1 DEF EngInv, MemoryOK, PlaceOK, Loop
  <1>4. CASE parked
    <2>1. pc' = "returned" /\ UNCHANGED <<mem, todo>>
      BY <1>4 DEF Settled
    <2>2. UpdateOK'
      BY <1>1, <2>1 DEF EngInv, UpdateOK
    <2>3. EventOK' /\ MemoryOK' /\ PlaceOK'
      BY <2>1 DEF EventOK, MemoryOK, PlaceOK, Persisting, Working
    <2>q. QED
      BY <1>1, <1>2, <2>1, <2>2, <2>3, Onward, TypeParts DEF EngInv, TypesOK
  <1>5. CASE ~parked
    <2>1. /\ mem' = [mem EXCEPT !.current = NoNode,
                                !.steps = Append(@, [node |-> at, result |-> result]),
                                !.results[at] = result]
          /\ pc' = "append" /\ todo'.next = "route"
      BY <1>5 DEF Settled, Persist
    <2>2. /\ mem' \in States /\ mem'.status = "running" /\ mem'.current = NoNode
          /\ mem'.steps = Append(mem.steps, [node |-> at, result |-> result])
      <3>1. mem.steps \in Seq(Step) /\ [node |-> at, result |-> result] \in Step
        BY <1>2, <1>3 DEF States, Step
      <3>2. Append(mem.steps, [node |-> at, result |-> result]) \in Seq(Step)
        BY <3>1
      <3>3. [mem.results EXCEPT ![at] = result] \in [Nodes -> Results \union {"none"}]
        BY <1>2, <1>3 DEF States
      <3>q. QED
        BY <1>2, <1>3, <2>1, <3>2, <3>3 DEF States
    <2>3. Prolongs(disk.steps, mem'.steps)
      <3>1. [node |-> at, result |-> result] \in Step
        BY <1>3 DEF Step
      <3>2. disk.steps \in Seq(Step) /\ mem.steps \in Seq(Step)
        BY <1>2 DEF States
      <3>q. QED
        BY <1>2, <2>2, <3>1, <3>2, ProlongsSteps
    <2>4. UpdateOK'
      BY <1>1, <2>1, <2>2 DEF EngInv, UpdateOK
    <2>5. EventOK' /\ MemoryOK' /\ PlaceOK'
      BY <1>1, <1>3, <2>1, <2>2 DEF EventOK, MemoryOK, PlaceOK, Persisting, Where, InFlight, Loop
    <2>q. QED
      BY <1>1, <2>1, <2>2, <2>3, <2>4, <2>5, Onward, TypeParts DEF EngInv, TypesOK, Working
  <1>q. QED
    BY <1>4, <1>5

LEMMA RouteStep ==
    ASSUME EngInv, Route
    PROVE  EngInv'
  <1>1. /\ pc = "route" /\ pc \in Working /\ Where = pc
        /\ UNCHANGED <<disk, result, update, cancelled, parked, paused, row, carried, disruptions>>
    BY DEF Route, Working, Where, Persisting, bundleVars, flagVars, callerVars
  <1>2. update = NoUpdate /\ mem \in States /\ Prolongs(disk.steps, mem.steps)
    BY <1>1, NoUpdateElsewhere, TypeParts DEF EngInv, TypesOK, StepsOK
  <1>3. mem.status = "running" /\ mem.current = NoNode
    BY <1>1 DEF EngInv, MemoryOK, InFlight
  <1>4. ASSUME NEW status \in Terminal, UNCHANGED at, Finish(status) \/ Throw(status)
        PROVE  EngInv'
    BY <1>1, <1>2, <1>4, Ending, Throwing
  <1>5. CASE FailUnrouted /\ UNCHANGED at
    <2>1. CASE \E status \in Terminal : Throw(status)
      BY <1>4, <1>5, <2>1
    <2>2. CASE parked /\ mem' = [mem EXCEPT !.status = "timed_out"] /\ pc' = "returned" /\ UNCHANGED todo
      <3>1. mem' \in States /\ mem'.steps = mem.steps
        BY <1>2, <2>2 DEF States, Terminal
      <3>2. EventOK' /\ MemoryOK' /\ PlaceOK'
        BY <2>2 DEF EventOK, MemoryOK, PlaceOK, Persisting, Working
      <3>q. QED
        BY <1>1, <1>2, <1>5, <2>2, <3>1, <3>2, Onward, TypeParts DEF EngInv, TypesOK
    <2>q. QED
      BY <1>5, <2>1, <2>2 DEF FailUnrouted, Terminal
  <1>6. CASE Target(at, result) \in Nodes /\ pc' = "boundary" /\ at' = Target(at, result)
             /\ UNCHANGED <<mem, todo>>
    <2>1. EventOK' /\ MemoryOK' /\ PlaceOK'
      BY <1>3, <1>6 DEF EventOK, MemoryOK, PlaceOK, Persisting, Where, InFlight, Loop
    <2>q. QED
      BY <1>1, <1>2, <1>6, <2>1, Onward, TypeParts DEF EngInv, TypesOK, Working
  <1>7. {"cancelled", "waiting", "completed", "failed"} \subseteq Terminal
    BY DEF Terminal
  <1>q. QED
    BY <1>4, <1>5, <1>6, <1>7 DEF Route

-----------------------------------------------------------------------------
(* Writes of the node itself, calls, and the end of an engine *)

LEMMA UpdatingStep ==
    ASSUME EngInv, BeginUpdate \/ UpdateStep
    PROVE  EngInv'
  <1>1. /\ mem \in States /\ disk \in States /\ Prolongs(disk.steps, mem.steps)
        /\ mem.status = "running" /\ disk.status = "running" /\ pc \in Working \union {"returned"}
        /\ \/ pc \in {"node", "settled", "returned"}
           \/ pc = "append" /\ todo.next = "route"
    <2>1. CASE BeginUpdate
      BY <2>1, TypeParts
         DEF EngInv, TypesOK, BeginUpdate, MemoryOK, BundleIsOpen, StepsOK, Working, Where, Persisting
    <2>2. CASE UpdateStep
      <3>1. update # NoUpdate
        BY <2>2, NoStateTypes DEF UpdateStep, EncodeUpdate, EndUpdate
      <3>q. QED
        BY <3>1, TypeParts DEF EngInv, TypesOK, UpdateOK, StepsOK, Working
    <2>q. QED
      BY <2>1, <2>2
  <1>2. mem.current \in Nodes \union {NoNode} /\ mem.results \in [Nodes -> Results \union {"none"}]
    BY <1>1 DEF States
  <1>3. UNCHANGED <<tail, mem, pc, at, result, todo, cancelled, parked, paused, row, carried,
                    disruptions>>
    BY DEF BeginUpdate, UpdateStep, EncodeUpdate, EndUpdate, bundleVars, flagVars, callerVars
  <1>4. /\ disk' \in States /\ disk'.status = "running" /\ Prolongs(disk'.steps, mem.steps)
    <2>1. CASE BeginUpdate \/ EncodeUpdate
      BY <1>1, <2>1 DEF BeginUpdate, EncodeUpdate, bundleVars
    <2>2. CASE EndUpdate
      <3>1. /\ update.current \in Nodes \union {NoNode}
            /\ update.results \in [Nodes -> Results \union {"none"}]
        BY DEF EngInv, UpdateOK
      <3>2. disk' \in States /\ disk'.status = "running" /\ disk'.steps = mem.steps
        BY <1>1, <2>2, <3>1 DEF EndUpdate, States
      <3>q. QED
        BY <3>2 DEF Prolongs
    <2>q. QED
      BY <2>1, <2>2 DEF UpdateStep
  <1>5. update' \in [stage : {"none", "results", "fields"}, current : Nodes \union {NoNode},
                     results : [Nodes -> Results \union {"none"}]]
    <2>1. CASE BeginUpdate
      BY <1>2, <2>1 DEF BeginUpdate
    <2>2. CASE EncodeUpdate
      BY <1>2, <2>2 DEF EngInv, UpdateOK, EncodeUpdate
    <2>3. CASE EndUpdate
      BY <2>3, NoStateTypes DEF EndUpdate
    <2>q. QED
      BY <2>1, <2>2, <2>3 DEF UpdateStep
  <1>6. TypeOK'
    BY <1>1, <1>3, <1>4, TypeParts DEF EngInv, TypesOK
  <1>7. UpdateOK'
    BY <1>1, <1>3, <1>4, <1>5 DEF UpdateOK
  <1>8. RowIsHeld' /\ BundleIsOpen' /\ StepsOK'
    BY <1>1, <1>3, <1>4 DEF EngInv, RowIsHeld, BundleIsOpen, StepsOK, Working
  <1>9. EventOK' /\ MemoryOK' /\ PlaceOK'
    BY <1>3 DEF EngInv, EventOK, MemoryOK, PlaceOK, Persisting, Where
  <1>q. QED
    BY <1>6, <1>7, <1>8, <1>9 DEF EngInv

LEMMA CallStep ==
    ASSUME EngInv, Cancel \/ Park \/ SetPause \/ UNCHANGED vars
    PROVE  EngInv'
  <1>1. /\ UNCHANGED <<disk, mem, pc, at, result, todo, update, row, carried>>
        /\ cancelled' \in BOOLEAN /\ parked' \in BOOLEAN /\ paused' \in BOOLEAN
    BY TypeParts DEF EngInv, TypesOK, Cancel, Park, SetPause, vars, bundleVars, callerVars
  <1>2. disruptions' \in 0..MaxDisruptions
    <2>1. disruptions \in 0..MaxDisruptions
      BY TypeParts DEF EngInv, TypesOK
    <2>2. disruptions' = disruptions \/ (disruptions < MaxDisruptions /\ disruptions' = disruptions + 1)
      BY DEF Cancel, Park, SetPause, vars, callerVars
    <2>q. QED
      BY <2>1, <2>2, GraphAssumption
  <1>3. TypeOK'
    BY <1>1, <1>2, TypeParts DEF EngInv, TypesOK
  <1>4. UpdateOK' /\ RowIsHeld' /\ BundleIsOpen' /\ EventOK'
    BY <1>1 DEF EngInv, UpdateOK, RowIsHeld, BundleIsOpen, EventOK, Persisting
  <1>5. MemoryOK' /\ PlaceOK' /\ StepsOK'
    BY <1>1 DEF EngInv, MemoryOK, PlaceOK, StepsOK, Where, Persisting
  <1>q. QED
    BY <1>3, <1>4, <1>5 DEF EngInv

LEMMA LeavingStep ==
    ASSUME EngInv, Return \/ Crash
    PROVE  EngInv'
  <1>1. /\ Leave /\ UNCHANGED <<disk, carried>> /\ row' \in {"parked", "done"}
        /\ \/ disruptions' = disruptions
           \/ disruptions < MaxDisruptions /\ disruptions' = disruptions + 1
    BY DEF Return, Crash, bundleVars
  <1>2. /\ disk \in States /\ (disk.status # "running" => disk.current = NoNode)
        /\ disruptions \in 0..MaxDisruptions
    BY TypeParts DEF EngInv, TypesOK
  <1>3. disruptions' \in 0..MaxDisruptions
    BY <1>1, <1>2, GraphAssumption
  <1>q. QED
    BY <1>1, <1>2, <1>3, Leaving

LEMMA EngInvInit == Init => EngInv
  <1> SUFFICES ASSUME Init  PROVE  EngInv
    OBVIOUS
  <1>1. /\ disk = NoState /\ mem = NoState /\ pc = "off" /\ at = NoNode /\ result = "none"
        /\ update = NoUpdate /\ row = "ready"
    BY DEF Init
  <1>2. TypeOK
    <2>1. /\ disk \in States /\ mem \in States /\ disk.current = NoNode
          /\ pc \in Working \union {"off", "input", "title", "prepare", "returned"}
          /\ at \in Nodes \union Terminal \union {"error", NoNode}
      BY <1>1, NoStateTypes
    <2>2. /\ result \in Results \union {"none"} /\ carried \in Carries
          /\ cancelled \in BOOLEAN /\ parked \in BOOLEAN /\ paused \in BOOLEAN
          /\ row \in {"ready", "claimed", "parked", "done"}
      BY DEF Init
    <2>3. disruptions \in 0..MaxDisruptions
      BY GraphAssumption DEF Init
    <2>q. QED
      BY <2>1, <2>2, <2>3, TypeParts DEF TypesOK
  <1>3. UpdateOK
    BY <1>1, NoStateTypes DEF UpdateOK
  <1>4. RowIsHeld /\ BundleIsOpen /\ EventOK /\ MemoryOK /\ PlaceOK /\ StepsOK
    BY <1>1
       DEF RowIsHeld, BundleIsOpen, EventOK, MemoryOK, PlaceOK, StepsOK, Persisting, Working
  <1>q. QED
    BY <1>2, <1>3, <1>4 DEF EngInv

LEMMA EngInvStep == EngInv /\ [Next]_vars => EngInv'
  <1> SUFFICES ASSUME EngInv, [Next]_vars  PROVE  EngInv'
    OBVIOUS
  <1> QED
    BY CallerStep, StartingStep, ResumingStep, PersistingStep, BoundaryStep, NodeStep, SettledStep,
       RouteStep, UpdatingStep, CallStep, LeavingStep
       DEF Next, EngineStep

\* The inductive invariant of one run: who holds the row, what the bundle is
\* meanwhile, and how the state object, the node in flight and the recorded steps
\* follow the place where the engine is.
THEOREM EngInvariance == Spec => []EngInv
  <1>q. QED
    BY EngInvInit, EngInvStep, PTL DEF Spec

\* Types of every variable of the engine and of the bundle; a bundle that has
\* ended has no node in flight, whichever of finishRun, failUnresumable and a
\* conclusion on resume ended it.
THEOREM TypeCorrect == Spec => []TypeOK
  <1>1. EngInv => TypeOK
    BY DEF EngInv
  <1>q. QED
    BY <1>1, EngInvariance, PTL

-----------------------------------------------------------------------------
(* What a step may never do *)

\* The bundle is written by five actions, and by none of them when it has ended.
LEMMA BundleStep ==
    ASSUME EngInv, [Next]_vars, disk' # disk
    PROVE  /\ disk.status \in {"none", "running"}
           /\ Prolongs(disk.steps, disk'.steps)
  <1>1. disk \in States
    BY TypeParts DEF EngInv, TypesOK
  <1>2. CreateBundle \/ ReplaceState \/ EndUpdate \/ Interrupt \/ Unresumable
    BY DEF Next, EngineStep, UpdateStep, vars, bundleVars, Start, Resume, Close, AcceptInput, Refuse,
           Prepared, Conclude, AppendEvent, Boundary, Held, Begin, Dispatch, Settled, Route, Return,
           NodeEnds, BeginUpdate, EncodeUpdate, Cancel, Park, SetPause, Crash
  <1>3. CASE CreateBundle
    <2>1. disk.status = "none" /\ disk.steps = <<>>
      BY <1>3, NoStateTypes DEF EngInv, BundleIsOpen, CreateBundle
    <2>q. QED
      BY <2>1 DEF Prolongs
  <1>4. CASE ReplaceState
    BY <1>4 DEF EngInv, BundleIsOpen, StepsOK, ReplaceState, Working
  <1>5. CASE EndUpdate
    <2>1. /\ disk.status = "running" /\ mem \in States /\ Prolongs(disk.steps, mem.steps)
          /\ update.current \in Nodes \union {NoNode}
          /\ update.results \in [Nodes -> Results \union {"none"}]
      BY <1>5, NoStateTypes, TypeParts DEF EngInv, TypesOK, UpdateOK, StepsOK, EndUpdate, Working
    <2>2. disk'.steps = mem.steps
      BY <1>5, <2>1 DEF EndUpdate, States
    <2>q. QED
      BY <2>1, <2>2
  <1>6. CASE Interrupt \/ Unresumable
    <2>1. disk' = Interrupted /\ disk.status = "running"
      BY <1>6 DEF EngInv, BundleIsOpen, Interrupt, Unresumable
    <2>2. disk'.steps = disk.steps
      BY <1>1, <2>1, InterruptedTypes
    <2>q. QED
      BY <2>1, <2>2 DEF Prolongs
  <1>q. QED
    BY <1>2, <1>3, <1>4, <1>5, <1>6

\* run-bundles.md: once state.json tells a terminal status nothing writes it again:
\* neither an engine that lost its row, nor a late write of a node, nor a host
\* that gives the run up.
THEOREM EndedBundleIsFinal == Spec => TerminalIsFinal
  <1>1. EngInv /\ [Next]_vars => [disk.status \in Terminal => disk' = disk]_vars
    BY BundleStep DEF Terminal
  <1>q. QED
    BY <1>1, EngInvariance, PTL DEF Spec, TerminalIsFinal

\* No write of state.json drops or changes a recorded step, whether it comes from
\* the engine, from a node's own update or from a resumed engine.
THEOREM HistoryOnlyGrows == Spec => HistoryIsKept
  <1>1. EngInv /\ [Next]_vars =>
          [\A i \in DOMAIN disk.steps : i \in DOMAIN disk'.steps /\ disk'.steps[i] = disk.steps[i]]_vars
    <2> SUFFICES ASSUME EngInv, [Next]_vars
                 PROVE  Prolongs(disk.steps, disk'.steps)
      BY DEF Prolongs
    <2>1. CASE disk' = disk
      BY <2>1 DEF Prolongs
    <2>2. CASE disk' # disk
      BY <2>2, BundleStep
    <2>q. QED
      BY <2>1, <2>2
  <1>q. QED
    BY <1>1, EngInvariance, PTL DEF Spec, HistoryIsKept

\* A park or cancel that arrives before the node's work begins keeps it from
\* beginning: runNodeWithTimeout looks at the flags once node_started is written.
THEOREM StoppedEngineDoesNotWork == Spec => NoWorkAfterStop
  <1>1. EngInv /\ [Next]_vars => [(parked \/ cancelled) /\ pc # "node" => pc' # "node"]_vars
    <2> SUFFICES ASSUME EngInv, Next, parked \/ cancelled, pc # "node"
                 PROVE  pc' # "node"
      BY DEF vars
    <2>1. CASE Dispatch
      BY <2>1 DEF Dispatch
    <2>2. CASE ReplaceState
      BY <2>2 DEF ReplaceState, EngInv, EventOK, Persisting, Loop
    <2>3. CASE Start \/ Resume \/ Close \/ Interrupt \/ AcceptInput \/ Refuse \/ Return \/ Crash
      BY <2>3
         DEF Start, Resume, Close, Interrupt, AcceptInput, Refuse, Return, Crash, Leave
    <2>4. CASE CreateBundle \/ Prepared \/ Unresumable \/ Conclude \/ AppendEvent
      BY <2>4
         DEF CreateBundle, Prepared, Unresumable, Conclude, AppendEvent, Persist, Finish, Leave
    <2>5. CASE Boundary \/ Held \/ Begin \/ Settled
      BY <2>5
         DEF Boundary, Held, Begin, Settled, BeginNode, Throw, Finish, Persist
    <2>6. CASE Route
      BY <2>6 DEF Route, FailUnrouted, Throw, Finish, Persist
    <2>7. CASE NodeEnds \/ BeginUpdate \/ UpdateStep \/ Cancel \/ Park \/ SetPause
      BY <2>7 DEF NodeEnds, BeginUpdate, UpdateStep, EncodeUpdate, EndUpdate, Cancel, Park, SetPause
    <2>q. QED
      BY <2>1, <2>2, <2>3, <2>4, <2>5, <2>6, <2>7 DEF Next, EngineStep
  <1>q. QED
    BY <1>1, EngInvariance, PTL DEF Spec, NoWorkAfterStop

-----------------------------------------------------------------------------
(* The recorded path.  A write of a node can overtake the record of its attempt *)
(* (EncodeUpdate): what a resume then reads of that attempt is stale, and only   *)
(* of that attempt.                                                              *)

\* n comes after the first i of steps, of which "own" are carried.
Goes(steps, own, i, n) ==
    \/ /\ n = Target(steps[i].node, steps[i].result)
       /\ i > own => ~(IsOk(steps[i].result) /\ steps[i].node \in Checkpoints)
    \/ Relapses(steps, i, n)

Legal(steps, own) ==
    \A i \in DOMAIN steps :
       IF i = 1 THEN steps[i].node = StartAt ELSE Goes(steps, own, i - 1, steps[i].node)

\* n comes next after steps.
Follows(steps, own, n) ==
    IF steps = <<>> THEN n = StartAt ELSE Goes(steps, own, Len(steps), n)

\* Results were returned by steps, and only a node that writes to the bundle may
\* have an older one than its last step's.
Tells(steps, results) ==
    /\ \A n \in Nodes : results[n] # "none" =>
         \E j \in DOMAIN steps : steps[j].node = n /\ steps[j].result = results[n]
    /\ LET last == steps[Len(steps)]
       IN  steps # <<>> /\ last.node \notin Updaters => results[last.node] = last.result

\* What a resume reads of a state: a legal path, the results on record, and an
\* interrupted node only where the path leads.
OnPath(state, own) ==
    /\ Legal(state.steps, own)
    /\ Tells(state.steps, state.results)
    /\ state.current # NoNode => Follows(state.steps, own, state.current)

\* What a node's write is going to leave in state.json.
UpdateOnPath ==
    update # NoUpdate =>
       /\ at \in Updaters
       /\ OnPath(mem, Len(carried))
       /\ {mem.current, update.current} \subseteq {NoNode, at}
       /\ Tells(mem.steps, update.results)
       /\ update.current # NoNode => Follows(mem.steps, Len(carried), update.current)

PathInv ==
    /\ UpdateOnPath
    /\ OnPath(disk, Len(carried))
    /\ pc \in Working =>
         /\ OnPath(mem, Len(carried))
         /\ Where \in Loop \ {"route"} => Follows(mem.steps, Len(carried), at)
         /\ Where = "route" =>
              mem.steps # <<>> /\ LastStep(mem) = [node |-> at, result |-> result]

LEMMA LegalAppend ==
    ASSUME NEW s \in Seq(Step), NEW own \in Nat, NEW x \in Step,
           Legal(s, own), Follows(s, own, x.node)
    PROVE  Legal(Append(s, x), own)
  <1> DEFINE t == Append(s, x)
  <1>1. /\ DOMAIN s = 1..Len(s) /\ DOMAIN t = 1..(Len(s) + 1) /\ Len(s) \in Nat
        /\ \A i \in DOMAIN s : t[i] = s[i]
        /\ t[Len(s) + 1] = x /\ (s = <<>> <=> Len(s) = 0)
    OBVIOUS
  <1> HIDE DEF t
  <1>2. ASSUME NEW i \in DOMAIN s, NEW n, Goes(s, own, i, n)  PROVE  Goes(t, own, i, n)
    <2>1. t[i] = s[i] /\ \A j \in 1..(i - 1) : t[j] = s[j]
      BY <1>1
    <2>q. QED
      BY <1>2, <2>1 DEF Goes, Relapses
  <1> SUFFICES ASSUME NEW i \in DOMAIN t
               PROVE  IF i = 1 THEN t[i].node = StartAt ELSE Goes(t, own, i - 1, t[i].node)
    BY DEF Legal, t
  <1>3. CASE i \in DOMAIN s
    <2>1. t[i] = s[i] /\ (i # 1 => i - 1 \in DOMAIN s)
      BY <1>1, <1>3
    <2>2. IF i = 1 THEN s[i].node = StartAt ELSE Goes(s, own, i - 1, s[i].node)
      BY <1>3 DEF Legal
    <2>q. QED
      BY <1>2, <2>1, <2>2
  <1>4. CASE i = Len(s) + 1
    <2>1. t[i] = x /\ (i = 1 <=> s = <<>>)
      BY <1>1, <1>4
    <2>2. i # 1 => i - 1 = Len(s) /\ Len(s) \in DOMAIN s
      BY <1>1, <1>4
    <2>q. QED
      BY <1>2, <2>1, <2>2 DEF Follows
  <1>q. QED
    BY <1>1, <1>3, <1>4

\* Longer steps tell no less of the results on record.
LEMMA TellsMore ==
    ASSUME NEW s \in Seq(Step), NEW x \in Step, NEW results, Tells(s, results),
           NEW new, \A n \in Nodes : new[n] = results[n] \/ (n = x.node /\ new[n] = x.result),
           x.node \in Updaters \/ new[x.node] = x.result
    PROVE  Tells(Append(s, x), new)
  <1> DEFINE t == Append(s, x)
  <1>1. /\ DOMAIN s \subseteq DOMAIN t /\ Len(t) \in DOMAIN t /\ t[Len(t)] = x
        /\ \A i \in DOMAIN s : t[i] = s[i]
    OBVIOUS
  <1> HIDE DEF t
  <1>2. ASSUME NEW n \in Nodes, new[n] # "none"
        PROVE  \E j \in DOMAIN t : t[j].node = n /\ t[j].result = new[n]
    <2>1. CASE new[n] = results[n]
      BY <1>1, <1>2, <2>1 DEF Tells
    <2>2. CASE n = x.node /\ new[n] = x.result
      BY <1>1, <2>2
    <2>q. QED
      BY <2>1, <2>2
  <1>q. QED
    BY <1>1, <1>2 DEF Tells, t

\* A state with the same path and no node in flight, or the same one.
LEMMA OnPathKept ==
    ASSUME NEW state, NEW new, NEW own, OnPath(state, own),
           new.steps = state.steps, new.results = state.results,
           new.current \in {NoNode, state.current}
    PROVE  OnPath(new, own)
  BY DEF OnPath

\* resumePointFor goes on where the path leads, never past a checkpoint, or with
\* the node whose last result is not on record.
LEMMA ResumeFollows ==
    ASSUME NEW state \in States, OnPath(state, Len(carried)), ResumePoint(state) \in Nodes
    PROVE  Follows(state.steps, Len(carried), ResumePoint(state))
  <1>1. CASE state.current # NoNode
    BY <1>1 DEF OnPath, ResumePoint
  <1>2. CASE state.current = NoNode /\ state.steps = <<>>
    BY <1>2 DEF ResumePoint, Follows
  <1>3. CASE state.current = NoNode /\ state.steps # <<>>
    <2> DEFINE last == LastStep(state)
               next == Target(last.node, LastResult(state))
    <2>1. last = state.steps[Len(state.steps)] /\ last \in Step /\ last.node \in Nodes
      <3>1. last \in Step
        BY <1>3, LastStepTypes
      <3>q. QED
        BY <3>1 DEF Step, LastStep
    <2>2. CASE LastResult(state) = "none"
      <3>1. ResumePoint(state) = last.node
        BY <1>3, <2>2 DEF ResumePoint
      <3>2. last.result # "none"
        <4>1. last.result \in Results
          BY <2>1 DEF Step
        <4>q. QED
          BY <4>1, GraphAssumption DEF Results, Failures
      <3>3. last.node \in Updaters
        BY <1>3, <2>1, <2>2, <3>2 DEF OnPath, Tells, LastResult
      <3>q. QED
        BY <1>3, <2>1, <3>1, <3>3 DEF Follows, Goes, Relapses
    <2>3. CASE LastResult(state) # "none"
      <3>1. ~WaitsAt(state) /\ ResumePoint(state) = next
        <4> HIDE DEF next, last
        <4>1. ResumePoint(state) = CASE WaitsAt(state) -> "waiting"
                 [] ~WaitsAt(state) /\ next = "end" -> "completed"
                 [] ~WaitsAt(state) /\ next = "unrouted" ->
                      IF LastResult(state) = "timed_out" THEN "timed_out" ELSE "failed"
                 [] OTHER -> next
          BY <1>3, <2>3 DEF ResumePoint, next, last
        <4>2. \A end \in {"waiting", "completed", "timed_out", "failed"} : end \notin Nodes
          BY GraphAssumption DEF Terminal
        <4>3. CASE WaitsAt(state)
          BY <4>1, <4>2, <4>3
        <4>4. CASE ~WaitsAt(state)
          BY <4>1, <4>2, <4>4
        <4>q. QED
          BY <4>3, <4>4
      <3>2. CASE LastResult(state) = last.result
        BY <1>3, <2>1, <3>1, <3>2 DEF Follows, Goes, WaitsAt
      <3>3. CASE LastResult(state) # last.result
        <4>1. last.node \in Updaters
          BY <1>3, <2>1, <3>3 DEF OnPath, Tells, LastResult
        <4>2. PICK j \in DOMAIN state.steps :
                state.steps[j].node = last.node /\ state.steps[j].result = LastResult(state)
          BY <2>1, <2>3 DEF OnPath, Tells, LastResult
        <4>3. j \in 1..(Len(state.steps) - 1)
          <5>1. state.steps \in Seq(Step) /\ j # Len(state.steps)
            BY <2>1, <3>3, <4>2 DEF States
          <5>q. QED
            BY <5>1
        <4>q. QED
          BY <1>3, <2>1, <3>1, <4>1, <4>2, <4>3 DEF Follows, Goes, Relapses
      <3>q. QED
        BY <3>2, <3>3
    <2>q. QED
      BY <2>2, <2>3
  <1>q. QED
    BY <1>1, <1>2, <1>3

\* Carried steps are on the path, and their results are the latest.
LEMMA CarriedOnPath ==
    ASSUME NEW c \in Carries
    PROVE  c \in Seq(Step) /\ Len(c) \in Nat /\ Legal(c, Len(c)) /\ Tells(c, ResultsOf(c))
  <1>1. c \in Seq(Step) /\ Len(c) \in Nat /\ DOMAIN c = 1..Len(c)
    BY CarriedAssumption
  <1>2. Legal(c, Len(c))
    <2>1. \A i \in DOMAIN c : ~(i - 1 > Len(c))
      BY <1>1
    <2>2. \A i \in DOMAIN c :
             c[i].node = IF i = 1 THEN StartAt ELSE Target(c[i - 1].node, c[i - 1].result)
      BY CarriedAssumption DEF Target
    <2>q. QED
      BY <2>1, <2>2 DEF Legal, Goes
  <1>3. ASSUME NEW n \in Nodes, \E i \in DOMAIN c : c[i].node = n
        PROVE  \E i \in DOMAIN c :
                 /\ c[i].node = n /\ \A j \in DOMAIN c : c[j].node = n => j <= i
                 /\ ResultsOf(c)[n] = c[i].result
    <2> DEFINE Latest(i) == /\ c[i].node = n
                            /\ \A j \in DOMAIN c : c[j].node = n => j <= i
    <2>1. \E i \in DOMAIN c : Latest(i)
      BY <1>1, <1>3, LatestOfNode
    <2>2. ResultsOf(c)[n] = c[CHOOSE i \in DOMAIN c : Latest(i)].result
      BY <1>3 DEF ResultsOf
    <2>3. PICK i \in DOMAIN c : i = CHOOSE k \in DOMAIN c : Latest(k)
      <3> HIDE DEF Latest
      <3>q. QED
        BY <2>1
    <2>4. Latest(i)
      <3> HIDE DEF Latest
      <3>q. QED
        BY <2>1, <2>3
    <2>q. QED
      BY <2>2, <2>3, <2>4
  <1>4. ASSUME NEW n \in Nodes, ResultsOf(c)[n] # "none"
        PROVE  \E i \in DOMAIN c : c[i].node = n /\ c[i].result = ResultsOf(c)[n]
    <2>1. \E i \in DOMAIN c : c[i].node = n
      BY <1>4 DEF ResultsOf
    <2>q. QED
      BY <1>3, <2>1
  <1>5. ASSUME c # <<>>  PROVE  ResultsOf(c)[c[Len(c)].node] = c[Len(c)].result
    <2>1. Len(c) \in DOMAIN c /\ c[Len(c)] \in Step
      BY <1>1, <1>5
    <2>2. c[Len(c)].node \in Nodes
      BY <2>1 DEF Step
    <2>3. PICK i \in DOMAIN c :
             /\ \A j \in DOMAIN c : c[j].node = c[Len(c)].node => j <= i
             /\ ResultsOf(c)[c[Len(c)].node] = c[i].result
      BY <1>3, <2>1, <2>2
    <2>4. i = Len(c)
      BY <1>1, <2>1, <2>3
    <2>q. QED
      BY <2>3, <2>4
  <1>q. QED
    BY <1>1, <1>2, <1>4, <1>5 DEF Tells

\* PathInv of the next state.
LEMMA NextPath ==
    PathInv' <=> /\ UpdateOnPath'
                 /\ OnPath(disk', Len(carried'))
                 /\ pc' \in Working =>
                      /\ OnPath(mem', Len(carried'))
                      /\ Where' \in Loop \ {"route"} => Follows(mem'.steps, Len(carried'), at')
                      /\ Where' = "route" => /\ mem'.steps # <<>>
                                             /\ LastStep(mem') = [node |-> at', result |-> result']
  BY DEF PathInv, OnPath, Follows, Goes, Relapses, Legal, Tells, Target, IsOk, LastStep

\* A node's write under way ends, or goes on as the node and its state object do.
LEMMA WriteGoesOn ==
    ASSUME PathInv, UNCHANGED carried, update' = NoUpdate \/ UNCHANGED <<update, mem, at>>
    PROVE  UpdateOnPath'
  <1>1. CASE update' = NoUpdate
    BY <1>1 DEF UpdateOnPath
  <1>2. CASE UNCHANGED <<update, mem, at>>
    <2>1. UpdateOnPath
      BY DEF PathInv
    <2>q. QED
      BY <1>2, <2>1 DEF UpdateOnPath
  <1>q. QED
    BY <1>1, <1>2

\* The engine's memory is empty or unchanged, and the bundle's path is kept.
LEMMA PathKept ==
    ASSUME PathInv, UNCHANGED carried, update' = NoUpdate \/ UNCHANGED <<update, mem, at>>,
           disk'.steps = disk.steps, disk'.results = disk.results,
           disk'.current \in {NoNode, disk.current},
           \/ pc' \notin Working
           \/ pc \in Working /\ UNCHANGED <<mem, at, result>> /\ Where' = Where
    PROVE  PathInv'
  <1>1. OnPath(disk', Len(carried'))
    <2>1. OnPath(disk, Len(carried)) /\ carried' = carried
      BY DEF PathInv
    <2>2. PICK new : new = disk'
      OBVIOUS
    <2>3. OnPath(new, Len(carried))
      BY <2>1, <2>2, OnPathKept
    <2>q. QED
      BY <2>1, <2>2, <2>3
  <1>2. CASE pc' \notin Working
    BY <1>1, <1>2, NextPath, WriteGoesOn
  <1>3. CASE pc \in Working /\ UNCHANGED <<mem, at, result>> /\ Where' = Where
    BY <1>1, <1>3, NextPath, WriteGoesOn DEF PathInv
  <1>q. QED
    BY <1>2, <1>3

\* The engine goes on with the same steps, from a place on the path to one on it.
LEMMA PathOnward ==
    ASSUME PathInv, pc \in Working, UNCHANGED <<disk, carried, at>>,
           update' = NoUpdate \/ UNCHANGED <<update, mem>>,
           mem'.steps = mem.steps, mem'.results = mem.results,
           \/ mem'.current \in {NoNode, mem.current}
           \/ mem'.current = at /\ Where \in Loop \ {"route"},
           \/ Where' \notin Loop
           \/ Where \in Loop \ {"route"} /\ Where' \in Loop \ {"route"}
    PROVE  PathInv'
  <1>1. OnPath(mem, Len(carried)) /\ (Where \in Loop \ {"route"} => Follows(mem.steps, Len(carried), at))
    BY DEF PathInv
  <1>2. OnPath(mem', Len(carried))
    <2>1. PICK new : new = mem'
      OBVIOUS
    <2>2. CASE mem'.current \in {NoNode, mem.current}
      <3>1. OnPath(new, Len(carried))
        BY <1>1, <2>1, <2>2, OnPathKept
      <3>q. QED
        BY <2>1, <3>1
    <2>3. CASE mem'.current = at /\ Where \in Loop \ {"route"}
      <3>1. OnPath(new, Len(carried))
        BY <1>1, <2>1, <2>3 DEF OnPath
      <3>q. QED
        BY <2>1, <3>1
    <2>q. QED
      BY <2>2, <2>3
  <1>3. Where' # "route" /\ (Where' \in Loop \ {"route"} => Follows(mem'.steps, Len(carried'), at'))
    BY <1>1 DEF Loop
  <1>q. QED
    BY <1>2, <1>3, NextPath, WriteGoesOn DEF PathInv

\* A run's first and later engines begin where the path leads.
LEMMA PathBegins ==
    ASSUME EngInv, PathInv, CreateBundle \/ Prepared
    PROVE  PathInv'
  <1>1. carried \in Carries /\ disk \in States
    BY TypeParts DEF EngInv, TypesOK
  <1>2. /\ carried' = carried /\ update' = NoUpdate /\ (disk' = disk \/ disk' = mem')
        /\ pc' = "append" /\ todo'.next = IF at' \in Nodes THEN "boundary" ELSE "conclude"
    BY NoUpdateElsewhere DEF CreateBundle, Prepared, Persist, bundleVars, callerVars
  <1>3. OnPath(mem', Len(carried)) /\ (at' \in Nodes => Follows(mem'.steps, Len(carried), at'))
    <2>1. CASE CreateBundle
      <3>1. PICK results \in [Nodes -> Results \union {"none"}] : results = ResultsOf(carried)
        BY <1>1, CarriedOnPath, ResultsTypes
      <3>2. mem' = [NoState EXCEPT !.status = "running", !.steps = carried, !.results = results]
        BY <2>1, <3>1 DEF CreateBundle
      <3>3. carried \in Seq(Step)
        BY <1>1, CarriedOnPath
      <3>4. /\ mem' \in States /\ mem'.steps = carried /\ mem'.results = results
            /\ mem'.current = NoNode
        BY <3>2, <3>3, NoStateTypes DEF States
      <3>5. PICK new \in States : new = mem'
        BY <3>4
      <3>6. OnPath(new, Len(carried))
        <4>1. Legal(carried, Len(carried)) /\ Tells(carried, results)
          BY <1>1, <3>1, CarriedOnPath
        <4>2. new.steps = carried /\ new.results = results /\ new.current = NoNode
          BY <3>4, <3>5
        <4>q. QED
          BY <4>1, <4>2 DEF OnPath
      <3>7. at' = ResumePoint(new)
        BY <2>1, <3>5 DEF CreateBundle
      <3>q. QED
        BY <3>5, <3>6, <3>7, ResumeFollows
    <2>2. CASE Prepared
      <3>1. mem' = [disk EXCEPT !.current = NoNode, !.paused = FALSE] /\ at' = ResumePoint(disk)
        BY <2>2 DEF Prepared
      <3>2. mem'.steps = disk.steps /\ mem'.results = disk.results /\ mem'.current = NoNode
        BY <1>1, <3>1, PlaceUpdates
      <3>3. PICK new : new = mem'
        OBVIOUS
      <3>4. OnPath(new, Len(carried))
        BY <3>2, <3>3, OnPathKept DEF PathInv
      <3>5. at' \in Nodes => Follows(disk.steps, Len(carried), at')
        BY <1>1, <3>1, ResumeFollows DEF PathInv
      <3>q. QED
        BY <3>2, <3>3, <3>4, <3>5
    <2>q. QED
      BY <2>1, <2>2
  <1>4. OnPath(disk', Len(carried))
    BY <1>2, <1>3 DEF PathInv
  <1>5. Where' # "route" /\ (Where' \in Loop => at' \in Nodes)
    BY <1>2 DEF Where, Persisting, Loop
  <1>q. QED
    BY <1>2, <1>3, <1>4, <1>5, NextPath, WriteGoesOn

\* The run ends, or a parked engine returns.
LEMMA PathEnds ==
    ASSUME EngInv, PathInv, pc \in Working, UNCHANGED <<disk, carried, update, at, result>>,
           update = NoUpdate, NEW status \in Terminal, Finish(status) \/ Throw(status)
    PROVE  PathInv'
  <1>1. mem \in States
    BY TypeParts DEF EngInv, TypesOK
  <1>2. CASE pc' = "returned"
    BY <1>2, PathKept DEF Working
  <1>3. ASSUME NEW st \in Terminal, Finish(st)  PROVE  PathInv'
    <2>1. mem' = [mem EXCEPT !.status = st, !.current = NoNode] /\ Where' = "returned"
      BY <1>3 DEF Finish, Persist, Where, Persisting
    <2>2. mem'.steps = mem.steps /\ mem'.results = mem.results /\ mem'.current = NoNode
      BY <1>1, <2>1 DEF States
    <2>q. QED
      BY <2>1, <2>2, PathOnward DEF Loop
  <1>4. CASE Throw(status)
    BY <1>2, <1>3, <1>4 DEF Throw, Terminal
  <1>q. QED
    BY <1>3, <1>4

\* The attempt is recorded, and routed on.
LEMMA PathGrows ==
    ASSUME EngInv, PathInv, Settled \/ Route
    PROVE  PathInv'
  <1>1. /\ pc \in Working /\ Where = pc /\ UNCHANGED <<disk, result, update, carried>>
        /\ mem \in States /\ Len(carried) \in Nat /\ OnPath(mem, Len(carried))
    BY TypeParts, CarriedOnPath
       DEF EngInv, TypesOK, PathInv, Settled, Route, Working, Where, Persisting, bundleVars, flagVars,
           callerVars
  <1>2. CASE Settled /\ parked
    BY <1>1, <1>2, PathKept DEF Settled, Working
  <1>3. CASE Settled /\ ~parked
    <2> DEFINE x == [node |-> at, result |-> result]
    <2>1. at \in Nodes /\ result \in Results /\ mem.current = at
      BY <1>1, <1>3 DEF EngInv, PlaceOK, MemoryOK, Settled, Loop, InFlight
    <2>2. mem.steps \in Seq(Step) /\ x \in Step /\ mem.results \in [Nodes -> Results \union {"none"}]
      BY <1>1, <2>1 DEF States, Step
    <2>3. /\ mem'.steps = Append(mem.steps, x) /\ mem'.results = [mem.results EXCEPT ![at] = result]
          /\ mem'.current = NoNode /\ at' = at /\ result' = result
          /\ pc' = "append" /\ todo'.next = "route"
      <3>1. /\ mem' = [mem EXCEPT !.current = NoNode, !.steps = Append(@, x), !.results[at] = result]
            /\ at' = at /\ result' = result /\ pc' = "append" /\ todo'.next = "route"
        BY <1>1, <1>3 DEF Settled, Persist
      <3> HIDE DEF x
      <3>q. QED
        BY <1>1, <3>1 DEF States
    <2>4. Legal(Append(mem.steps, x), Len(carried))
      <3>1. Legal(mem.steps, Len(carried)) /\ Follows(mem.steps, Len(carried), x.node)
        BY <1>1, <1>3 DEF PathInv, OnPath, Settled, Loop
      <3>2. PICK s \in Seq(Step) : s = mem.steps
        BY <2>2
      <3>3. PICK own \in Nat : own = Len(carried)
        BY <1>1
      <3>4. PICK y \in Step : y = x
        BY <2>2
      <3>5. Legal(Append(s, y), own)
        <4> HIDE DEF x
        <4>1. Legal(s, own) /\ Follows(s, own, y.node)
          BY <3>1, <3>2, <3>3, <3>4
        <4>q. QED
          BY <4>1, LegalAppend
      <3>q. QED
        BY <3>2, <3>3, <3>4, <3>5
    <2>5. mem'.steps # <<>> /\ mem'.steps[Len(mem'.steps)] = x
      BY <2>1, <2>2, <2>3
    <2>6. Tells(Append(mem.steps, x), mem'.results)
      <3>1. Tells(mem.steps, mem.results)
        BY <1>1 DEF OnPath
      <3>2. PICK s \in Seq(Step), y \in Step : s = mem.steps /\ y = x
        BY <2>2
      <3>n. PICK old, new : old = mem.results /\ new = mem'.results
        OBVIOUS
      <3>3. \A n \in Nodes : new[n] = old[n] \/ (n = y.node /\ new[n] = y.result)
        BY <2>2, <2>3, <3>2, <3>n
      <3>4. new[y.node] = y.result
        BY <2>1, <2>2, <2>3, <3>2, <3>n
      <3>5. Tells(Append(s, y), new)
        <4> HIDE DEF x
        <4>1. Tells(s, old)
          BY <3>1, <3>2, <3>n
        <4>q. QED
          BY <3>3, <3>4, <4>1, TellsMore
      <3>q. QED
        BY <3>2, <3>5, <3>n
    <2>7. OnPath(mem', Len(carried))
      <3>1. PICK new : new = mem'
        OBVIOUS
      <3>2. OnPath(new, Len(carried))
        BY <2>3, <2>4, <2>6, <3>1 DEF OnPath
      <3>q. QED
        BY <3>1, <3>2
    <2>8. Where' = "route" /\ LastStep(mem') = [node |-> at', result |-> result']
      BY <2>3, <2>5 DEF Where, Persisting, LastStep
    <2>9. UpdateOnPath'
      <3>1. CASE update = NoUpdate
        BY <1>1, <3>1 DEF UpdateOnPath, NoUpdate, NoResults
      <3>2. CASE update # NoUpdate
        <4>1. /\ at \in Updaters /\ Tells(mem.steps, update.results)
              /\ update.current \in {NoNode, at}
          BY <3>2 DEF PathInv, UpdateOnPath
        <4>2. Tells(mem'.steps, update.results)
          <5>1. PICK s \in Seq(Step), y \in Step : s = mem.steps /\ y = x
            BY <2>2
          <5>n. PICK old : old = update.results
            OBVIOUS
          <5>2. Tells(Append(s, y), old)
            <6>1. Tells(s, old) /\ y.node \in Updaters
              BY <4>1, <5>1, <5>n
            <6> HIDE DEF x
            <6>q. QED
              BY <6>1, TellsMore
          <5>q. QED
            BY <2>3, <5>1, <5>2, <5>n
        <4>3. Follows(mem'.steps, Len(carried), at)
          <5>1. PICK t : t = mem'.steps
            OBVIOUS
          <5>2. Follows(t, Len(carried), at)
            BY <2>5, <4>1, <5>1 DEF Follows, Goes, Relapses
          <5>q. QED
            BY <5>1, <5>2
        <4>4. UNCHANGED <<update, at, carried>>
          BY <1>1, <2>3
        <4>5. PICK new, own : new = mem' /\ own = Len(carried)
          OBVIOUS
        <4>6. /\ OnPath(new, own) /\ new.current = NoNode /\ Tells(new.steps, update.results)
              /\ Follows(new.steps, own, at)
          BY <2>3, <2>7, <4>2, <4>3, <4>5
        <4>q. QED
          BY <4>1, <4>4, <4>5, <4>6 DEF UpdateOnPath
      <3>q. QED
        BY <3>1, <3>2
    <2>q. QED
      BY <1>1, <2>5, <2>7, <2>8, <2>9, NextPath DEF PathInv
  <1>n. Route => update = NoUpdate
    BY NoUpdateElsewhere DEF Route
  <1>4. ASSUME NEW status \in Terminal, Route, UNCHANGED at, Finish(status) \/ Throw(status)
        PROVE  PathInv'
    BY <1>1, <1>4, <1>n, PathEnds
  <1>5. CASE Route /\ FailUnrouted /\ UNCHANGED at
    <2>1. CASE \E status \in Terminal : Throw(status)
      BY <1>4, <1>5, <2>1
    <2>2. CASE pc' = "returned"
      BY <1>1, <1>5, <1>n, <2>2, PathKept DEF Working
    <2>q. QED
      BY <1>5, <2>1, <2>2 DEF FailUnrouted, Terminal
  <1>6. CASE Route /\ Target(at, result) \in Nodes /\ (IsOk(result) => at \notin Checkpoints)
             /\ pc' = "boundary" /\ at' = Target(at, result) /\ UNCHANGED <<mem, todo>>
    <2>1. mem.steps # <<>> /\ LastStep(mem) = [node |-> at, result |-> result]
      BY <1>1, <1>6 DEF PathInv, Route
    <2>2. Follows(mem.steps, Len(carried), at')
      BY <1>6, <2>1 DEF Follows, Goes, LastStep
    <2>3. Where' = "boundary"
      BY <1>6 DEF Where, Persisting
    <2>q. QED
      BY <1>1, <1>6, <1>n, <2>2, <2>3, NextPath, WriteGoesOn DEF PathInv
  <1>7. {"cancelled", "waiting", "completed", "failed"} \subseteq Terminal
    BY DEF Terminal
  <1>8. CASE Route
    BY <1>4, <1>5, <1>6, <1>7, <1>8 DEF Route
  <1>q. QED
    BY <1>2, <1>3, <1>8

\* The engine goes on between two records.
LEMMA PathGoesOn ==
    ASSUME EngInv, PathInv, AppendEvent \/ ReplaceState \/ Boundary \/ Held \/ Begin \/ Dispatch
                            \/ NodeEnds
    PROVE  PathInv'
  <1>1. pc \in Working /\ mem \in States /\ UNCHANGED <<carried, update, at>>
    BY TypeParts
       DEF EngInv, TypesOK, PathInv, AppendEvent, ReplaceState, Boundary, Held, Begin, Dispatch,
           NodeEnds, Working, bundleVars, flagVars, callerVars
  <1>2. CASE AppendEvent
    <2>1. Where' = Where
      BY <1>2 DEF AppendEvent, Where, Persisting
    <2>q. QED
      BY <1>1, <1>2, <2>1, PathKept DEF AppendEvent
  <1>3. CASE ReplaceState
    <2>1. disk' = mem /\ mem' = mem /\ result' = result /\ Where' = Where
      <3>1. Where = todo.next /\ todo.next \notin {"append", "project"}
        BY <1>3 DEF EngInv, EventOK, ReplaceState, Where, Persisting, Loop
      <3>q. QED
        BY <1>3, <3>1 DEF ReplaceState, Where, Persisting
    <2>q. QED
      BY <1>1, <2>1, NextPath, WriteGoesOn DEF PathInv
  <1>4. CASE Dispatch \/ NodeEnds
    <2>1. UNCHANGED <<disk, mem>> /\ {Where, Where'} \subseteq {"dispatch", "node", "settled"}
      BY <1>4 DEF Dispatch, NodeEnds, Where, Persisting, bundleVars
    <2>q. QED
      BY <1>1, <2>1, PathOnward DEF Loop
  <1>5. CASE Boundary \/ Held \/ Begin
    <2>n. update = NoUpdate
      BY <1>5, NoUpdateElsewhere DEF Boundary, Held, Begin
    <2>1. UNCHANGED <<disk, result>> /\ Where \in {"boundary", "held", "begin"}
      BY <1>5 DEF Boundary, Held, Begin, Where, Persisting, bundleVars
    <2>2. ASSUME NEW status \in Terminal, Finish(status) \/ Throw(status)  PROVE  PathInv'
      BY <1>1, <2>1, <2>2, <2>n, PathEnds
    <2>3. CASE pc' = "returned"
      BY <1>1, <2>1, <2>3, <2>n, PathKept DEF Working
    <2>4. CASE BeginNode /\ ~StepsExhausted(mem)
      <3>1. /\ mem'.steps = mem.steps /\ mem'.results = mem.results /\ mem'.current = at
            /\ Where' = "dispatch"
        BY <1>1, <2>4 DEF BeginNode, Persist, Where, Persisting, States
      <3>q. QED
        BY <1>1, <2>1, <2>n, <3>1, PathOnward DEF Loop
    <2>5. CASE BeginNode
      BY <2>2, <2>4, <2>5 DEF BeginNode, Terminal
    <2>6. ASSUME NEW b \in BOOLEAN, NEW event, NEW next \in {"held", "begin", "returned"},
                 Persist(event, next),
                 \/ mem' = [mem EXCEPT !.paused = b]
                 \/ mem' = [mem EXCEPT !.paused = b, !.status = "cancelled"]
          PROVE  PathInv'
      <3>1. mem'.steps = mem.steps /\ mem'.results = mem.results /\ mem'.current = mem.current
        BY <1>1, <2>6 DEF States
      <3>2. Where' = next
        BY <2>6 DEF Persist, Where, Persisting
      <3>q. QED
        BY <1>1, <2>1, <2>n, <3>1, <3>2, PathOnward DEF Loop
    <2>7. CASE Boundary
      BY <2>2, <2>3, <2>5, <2>6, <2>7 DEF Boundary, Terminal
    <2>8. CASE Held
      BY <2>3, <2>6, <2>8 DEF Held
    <2>9. CASE Begin
      BY <2>5, <2>9 DEF Begin
    <2>q. QED
      BY <1>5, <2>7, <2>8, <2>9
  <1>q. QED
    BY <1>2, <1>3, <1>4, <1>5

\* Callers, conclusions and ends keep the path of the bundle.
LEMMA PathStays ==
    ASSUME EngInv, PathInv,
           \/ Start \/ Resume \/ Close \/ Interrupt \/ AcceptInput \/ Refuse \/ Unresumable
           \/ Conclude \/ Return \/ Crash \/ Cancel \/ Park \/ SetPause \/ UNCHANGED vars
    PROVE  PathInv'
  <1>1. disk \in States
    BY TypeParts DEF EngInv, TypesOK
  <1>2. CASE Conclude /\ at # "error"
    <2>1. at \in Terminal /\ pc \in Working /\ update = NoUpdate
      BY <1>2, NoUpdateElsewhere DEF EngInv, PlaceOK, Conclude, Where, Persisting, Working, Terminal
    <2>q. QED
      BY <1>2, <2>1, PathEnds DEF Conclude, bundleVars
  <1>3. CASE Cancel \/ Park \/ SetPause \/ UNCHANGED vars
    <2>1. UNCHANGED <<disk, mem, pc, at, result, todo, update, carried>> /\ Where' = Where
      BY <1>3 DEF Cancel, Park, SetPause, vars, Where, Persisting, bundleVars, callerVars
    <2>q. QED
      BY <2>1, PathKept
  <1>4. CASE \/ Start \/ Resume \/ Close \/ Interrupt \/ AcceptInput \/ Refuse \/ Unresumable
             \/ (Conclude /\ at = "error") \/ Return \/ Crash
    <2>1. /\ UNCHANGED carried /\ update' = NoUpdate /\ pc' \notin Working
          /\ disk' = disk \/ disk' = Interrupted
      <3>1. CASE Start \/ Resume \/ AcceptInput
        BY <3>1, NoUpdateElsewhere
           DEF EngInv, RowIsHeld, Start, Resume, AcceptInput, Working, bundleVars, callerVars
      <3>2. CASE Close \/ Interrupt
        BY <3>2, NoUpdateElsewhere
           DEF EngInv, RowIsHeld, Close, Interrupt, Working, bundleVars
      <3>3. CASE Refuse \/ Unresumable \/ (Conclude /\ at = "error") \/ Return \/ Crash
        BY <1>1, <3>3
           DEF Refuse, Unresumable, Conclude, Return, Crash, Leave, Working, bundleVars
      <3>q. QED
        BY <1>4, <3>1, <3>2, <3>3
    <2>2. /\ disk'.steps = disk.steps /\ disk'.results = disk.results
          /\ disk'.current \in {NoNode, disk.current}
      BY <1>1, <2>1, InterruptedTypes
    <2>q. QED
      BY <2>1, <2>2, PathKept
  <1>q. QED
    BY <1>2, <1>3, <1>4

\* A node's own write: what it read before and after the attempt's record goes to
\* state.json together.
LEMMA PathWrites ==
    ASSUME EngInv, PathInv, BeginUpdate \/ UpdateStep
    PROVE  PathInv'
  <1>1. /\ UNCHANGED <<mem, pc, at, result, todo, carried>> /\ Where' = Where
        /\ mem \in States
    BY TypeParts
       DEF EngInv, TypesOK, BeginUpdate, UpdateStep, EncodeUpdate, EndUpdate, Where, Persisting,
           bundleVars, flagVars, callerVars
  <1>2. ASSUME UpdateOnPath', OnPath(disk', Len(carried'))  PROVE  PathInv'
    BY <1>1, <1>2, NextPath DEF PathInv
  <1>3. CASE BeginUpdate
    <2>1. pc \in Working /\ Where = "node" /\ at \in Updaters
      BY <1>3 DEF BeginUpdate, Working, Where, Persisting
    <2>2. mem.current = at /\ OnPath(mem, Len(carried))
      BY <2>1 DEF EngInv, MemoryOK, InFlight, PathInv
    <2>3. update' = [stage |-> "results", current |-> NoNode, results |-> mem.results]
      BY <1>3 DEF BeginUpdate
    <2>4. PICK new, own : new = mem /\ own = Len(carried)
      OBVIOUS
    <2>5. OnPath(new, own) /\ Tells(new.steps, new.results) /\ new.current = at
      BY <2>2, <2>4 DEF OnPath
    <2>6. UpdateOnPath'
      BY <1>1, <2>1, <2>3, <2>4, <2>5 DEF UpdateOnPath
    <2>q. QED
      BY <1>2, <1>3, <2>6 DEF BeginUpdate, bundleVars, callerVars, PathInv
  <1>4. CASE EncodeUpdate
    <2>1. UpdateOnPath'
      BY <1>1, <1>4, NoStateTypes DEF EncodeUpdate, PathInv, UpdateOnPath, OnPath
    <2>q. QED
      BY <1>1, <1>2, <1>4, <2>1 DEF EncodeUpdate, bundleVars, PathInv
  <1>5. CASE EndUpdate
    <2>1. update # NoUpdate /\ update' = NoUpdate
      BY <1>5, NoStateTypes DEF EndUpdate
    <2>2. disk' = [mem EXCEPT !.current = update.current, !.results = update.results]
      BY <1>5 DEF EndUpdate
    <2>3. disk'.steps = mem.steps /\ disk'.current = update.current /\ disk'.results = update.results
      BY <1>1, <2>2 DEF States
    <2>4. PICK new : new = disk'
      OBVIOUS
    <2>5. OnPath(new, Len(carried))
      BY <2>1, <2>3, <2>4 DEF PathInv, UpdateOnPath, OnPath
    <2>6. UpdateOnPath'
      BY <1>1, <2>1, WriteGoesOn
    <2>q. QED
      BY <1>1, <1>2, <2>4, <2>5, <2>6
  <1>q. QED
    BY <1>3, <1>4, <1>5 DEF UpdateStep

\* OnlyUpdatersRelapse: whatever crashes, parks, cancels and resumes interrupted a
\* run, resumePointFor repeats nothing, skips nothing and passes no checkpoint, but
\* behind a node whose own write encodeRunState mixed with the attempt's record.
\* For a graph without such nodes this is PathIsLegal.
THEOREM PathCorrect ==
    Spec => [](OnlyUpdatersRelapse /\ (Updaters = {} => PathIsLegal))
  <1>1. Init => PathInv
    <2> SUFFICES ASSUME Init  PROVE  PathInv
      OBVIOUS
    <2>1. update = NoUpdate /\ disk = NoState /\ pc = "off"
      BY DEF Init
    <2>2. OnPath(disk, Len(carried))
      BY <2>1, NoStateTypes DEF OnPath, Legal, Tells, NoState, NoResults
    <2>q. QED
      BY <2>1, <2>2 DEF PathInv, UpdateOnPath, Working
  <1>2. EngInv /\ PathInv /\ [Next]_vars => PathInv'
    BY PathBegins, PathGrows, PathGoesOn, PathStays, PathWrites DEF Next, EngineStep
  <1>3. PathInv => OnlyUpdatersRelapse /\ (Updaters = {} => PathIsLegal)
    BY DEF PathInv, OnPath, Legal, Goes, Leads, Relapses, OnlyUpdatersRelapse, PathIsLegal
  <1>q. QED
    BY <1>1, <1>2, <1>3, EngInvariance, PTL DEF Spec
=============================================================================
