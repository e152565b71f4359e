------------------------ MODULE HumanDecisionsProofs ------------------------
(* Proofs about human decisions, for any sessions, answers and mishaps, and *)
(* about the Telegram channel that carries them, for any hosts and updates.  *)
EXTENDS HumanDecisions, TelegramChannel, FiniteSetTheorems, TLAPS

\* Every record that exists is the record of the one resolution.
RecordsAgree ==
    /\ accepted \in {Absent, resolution} /\ tombstone \in {Absent, resolution}
    /\ receipt \in {Absent, resolution} /\ runs \in {<<>>, <<resolution>>}
    /\ receipt # Absent \/ runs # <<>> => resolution # Absent

\* What a thread at its pc knows of the resolution.
Knows(th) ==
    /\ th.pc \in {"check", "claim"} => th.by \in Decisions
    /\ th.pc = "confirm" => resolution # Absent
    /\ th.pc \in {"own", "record", "start", "run"} => th.by = resolution /\ th.by \in Decisions
    /\ th.pc \in {"unless", "cancel"} => th.by \in Tombstones
    /\ th.pc = "bury" => th.by = resolution /\ th.by \in Tombstones

ThreadsKnow == \A th \in Threads, s \in Sessions : Knows(ThreadOf(th, s))

\* One thread at most is about to start the run, and none has been started yet.
OneStarter ==
    /\ \A th \in Threads, s \in Sessions :
          /\ AtPc(th, s, "run") => slot = "claimed" /\ runs = <<>>
          /\ \A th2 \in Threads, s2 \in Sessions :
                AtPc(th, s, "run") /\ AtPc(th2, s2, "run") => th = th2 /\ s = s2
    /\ slot = "free" => runs = <<>>

DecInv == DecTypeOK /\ RecordsAgree /\ ThreadsKnow /\ OneStarter

-----------------------------------------------------------------------------
(* Threads *)

ThreadStates == [pc : Pcs, by : Decisions \union Tombstones \union {Absent}]

\* A thread that moves leaves every other thread where it was.
LEMMA MovesOne ==
    ASSUME DecTypeOK, NEW th \in Threads, NEW s \in Sessions, NEW next \in ThreadStates,
           Moves(th, s, next)
    PROVE  /\ hand' \in [Sessions -> ThreadStates] /\ timer' \in [Sessions -> ThreadStates]
           /\ ThreadOf(th, s)' = next
           /\ \A th2 \in Threads, s2 \in Sessions :
                 th2 # th \/ s2 # s => ThreadOf(th2, s2)' = ThreadOf(th2, s2)
  <1>1. hand \in [Sessions -> ThreadStates] /\ timer \in [Sessions -> ThreadStates]
    BY DEF DecTypeOK, ThreadStates
  <1>2. CASE th = "hand"
    BY <1>1, <1>2 DEF Moves, ThreadOf, Threads
  <1>3. CASE th = "timer"
    BY <1>1, <1>3 DEF Moves, ThreadOf, Threads
  <1>q. QED
    BY <1>2, <1>3 DEF Threads

LEMMA ThreadTypes ==
    ASSUME DecTypeOK, NEW th \in Threads, NEW s \in Sessions
    PROVE  /\ ThreadOf(th, s) \in ThreadStates
           /\ Idle \in ThreadStates
           /\ \A pc \in Pcs : /\ [ThreadOf(th, s) EXCEPT !.pc = pc] \in ThreadStates
                              /\ [ThreadOf(th, s) EXCEPT !.pc = pc].pc = pc
                              /\ [ThreadOf(th, s) EXCEPT !.pc = pc].by = ThreadOf(th, s).by
  <1>1. hand \in [Sessions -> ThreadStates] /\ timer \in [Sessions -> ThreadStates]
    BY DEF DecTypeOK, ThreadStates
  <1>2. ThreadOf(th, s) \in ThreadStates
    BY <1>1 DEF ThreadOf, Threads
  <1>3. Idle \in ThreadStates
    BY DEF Idle, ThreadStates, Pcs
  <1>q. QED
    BY <1>2, <1>3 DEF ThreadStates

LEMMA GoesOn ==
    ASSUME DecInv, NEW th \in Threads, NEW s \in Sessions, NEW pc \in Pcs,
           NEW next, next = [ThreadOf(th, s) EXCEPT !.pc = pc]
    PROVE  next \in ThreadStates /\ next.pc = pc /\ next.by = ThreadOf(th, s).by
  <1>1. DecTypeOK
    BY DEF DecInv
  <1>2. /\ [ThreadOf(th, s) EXCEPT !.pc = pc] \in ThreadStates
        /\ [ThreadOf(th, s) EXCEPT !.pc = pc].pc = pc
        /\ [ThreadOf(th, s) EXCEPT !.pc = pc].by = ThreadOf(th, s).by
    BY <1>1, ThreadTypes
  <1>q. QED
    BY <1>2

LEMMA AllPcs == \A pc \in {"check", "claim", "confirm", "own", "record", "start", "run", "unless",
                           "cancel", "bury", "settle"} : pc \in Pcs
  BY DEF Pcs

\* Nobody's knowledge is disturbed when one thread moves to a state it knows
\* enough for, and the resolution is written once.
LEMMA KnowledgeKept ==
    ASSUME DecInv, NEW th \in Threads, NEW s \in Sessions, NEW next \in ThreadStates,
           Moves(th, s, next),
           resolution = Absent \/ resolution' = resolution,
           Knows(next)'
    PROVE  ThreadsKnow'
  <1>1. ASSUME NEW th2 \in Threads, NEW s2 \in Sessions PROVE Knows(ThreadOf(th2, s2))'
    <2>1. CASE th2 = th /\ s2 = s
      BY <2>1, MovesOne DEF DecInv, Knows
    <2>2. CASE th2 # th \/ s2 # s
      <3>1. ThreadOf(th2, s2)' = ThreadOf(th2, s2)
        BY <2>2, MovesOne DEF DecInv
      <3>2. Knows(ThreadOf(th2, s2))
        BY DEF DecInv, ThreadsKnow
      <3>q. QED
        BY <3>1, <3>2, AnswerAssumption DEF Knows, Decisions, Tombstones, Absent, Timeout
    <2>q. QED
      BY <2>1, <2>2
  <1>q. QED
    BY <1>1 DEF ThreadsKnow

\* Nothing is started twice when one thread moves elsewhere than to the start.
LEMMA StarterKept ==
    ASSUME DecInv, NEW th \in Threads, NEW s \in Sessions, NEW next \in ThreadStates,
           Moves(th, s, next), next.pc # "run", UNCHANGED <<slot, runs>>
    PROVE  OneStarter'
  <1>1. \A th2 \in Threads, s2 \in Sessions : AtPc(th2, s2, "run")' => AtPc(th2, s2, "run")
    BY MovesOne DEF DecInv, AtPc
  <1>q. QED
    BY <1>1 DEF DecInv, OneStarter

\* The types of everything but the threads.
DataTypeOK ==
    /\ policy \in {"required", "expires", "auto"} /\ late \in BOOLEAN
    /\ resolution \in Decisions \union Tombstones \union {Absent}
    /\ accepted \in Decisions \union {Absent}
    /\ tombstone \in Tombstones \union {Absent}
    /\ receipt \in Decisions \union {Absent}
    /\ origin \in Sessions \union {Absent}
    /\ slot \in {"free", "claimed", "queued"}
    /\ \A k \in DOMAIN runs : runs[k] \in Decisions
    /\ dialog \in [Sessions -> BOOLEAN] /\ busy \in [Sessions -> BOOLEAN]
    /\ acts \in 0..MaxActs

LEMMA TypeParts ==
    DecTypeOK <=> /\ DataTypeOK
                  /\ hand \in [Sessions -> ThreadStates] /\ timer \in [Sessions -> ThreadStates]
  BY DEF DecTypeOK, DataTypeOK, ThreadStates

\* One step of one thread that does not start the run.
LEMMA ThreadMoved ==
    ASSUME DecInv, NEW th \in Threads, NEW s \in Sessions, NEW next \in ThreadStates,
           Moves(th, s, next), next.pc # "run", Knows(next)',
           resolution = Absent \/ resolution' = resolution, UNCHANGED <<slot, runs>>,
           DataTypeOK', RecordsAgree'
    PROVE  DecInv'
  <1>1. DecTypeOK'
    <2>1. hand' \in [Sessions -> ThreadStates] /\ timer' \in [Sessions -> ThreadStates]
      BY MovesOne DEF DecInv
    <2>q. QED
      BY <2>1 DEF DecTypeOK, DataTypeOK, ThreadStates
  <1>q. QED
    BY <1>1, KnowledgeKept, StarterKept DEF DecInv

\* An idle thread knows nothing, nor does one that settles.
LEMMA NothingToKnow ==
    ASSUME DecInv, NEW th \in Threads, NEW s \in Sessions,
           NEW next, next = Idle \/ next = [ThreadOf(th, s) EXCEPT !.pc = "settle"]
    PROVE  next \in ThreadStates /\ next.pc # "run" /\ Knows(next)'
  <1>1. CASE next = Idle
    <2>1. Idle \in ThreadStates /\ Idle.pc = "idle"
      BY ThreadTypes DEF DecInv, Idle
    <2>q. QED
      BY <1>1, <2>1 DEF Knows
  <1>2. CASE next = [ThreadOf(th, s) EXCEPT !.pc = "settle"]
    <2>1. next \in ThreadStates /\ next.pc = "settle"
      BY <1>2, GoesOn, AllPcs
    <2>q. QED
      BY <2>1 DEF Knows
  <1>q. QED
    BY <1>1, <1>2

-----------------------------------------------------------------------------
(* The steps of a thread *)

\* accept: a person's answer claims and confirms, as a recovered timeout does.
LEMMA AcceptStep ==
    ASSUME DecInv, NEW th \in Threads, NEW s \in Sessions,
           (th = "hand" /\ Check(s)) \/ Claim(th, s) \/ Confirm(th, s)
    PROVE  DecInv'
  <1>k. Knows(ThreadOf(th, s)) /\ DataTypeOK /\ RecordsAgree
    BY TypeParts DEF DecInv, ThreadsKnow
  <1>1. CASE th = "hand" /\ Check(s)
    <2>1. PICK next \in {Idle, [ThreadOf(th, s) EXCEPT !.pc = "claim"]} : Moves(th, s, next)
      BY <1>1 DEF Check, Stops, Goes
    <2>2. next \in ThreadStates /\ next.pc # "run" /\ Knows(next)'
      <3>1. CASE next = Idle
        BY <3>1, NothingToKnow
      <3>2. CASE next = [ThreadOf(th, s) EXCEPT !.pc = "claim"]
        <4>1. next \in ThreadStates /\ next.pc = "claim" /\ next.by = ThreadOf(th, s).by
          BY <3>2, GoesOn, AllPcs
        <4>2. ThreadOf(th, s).by \in Decisions
          BY <1>1, <1>k DEF Check, AtPc, Knows
        <4>q. QED
          BY <4>1, <4>2 DEF Knows
      <3>q. QED
        BY <2>1, <3>1, <3>2
    <2>3. DataTypeOK' /\ RecordsAgree' /\ UNCHANGED <<resolution, slot, runs>>
      BY <1>1, <1>k DEF Check, ReadCancellation, WriteOnce, DataTypeOK, RecordsAgree
    <2>q. QED
      BY <2>1, <2>2, <2>3, ThreadMoved
  <1>2. CASE Claim(th, s)
    <2>0. PICK next : next = [ThreadOf(th, s) EXCEPT !.pc = "confirm"]
      OBVIOUS
    <2>1. Moves(th, s, next) /\ UNCHANGED <<slot, runs>>
      BY <1>2, <2>0 DEF Claim, Goes
    <2>2. resolution' = WriteOnce(resolution, ThreadOf(th, s).by) /\ ThreadOf(th, s).by \in Decisions
      BY <1>2, <1>k DEF Claim, AtPc, Knows
    <2>3. resolution' # Absent /\ (resolution = Absent \/ resolution' = resolution)
      BY <2>2, AnswerAssumption DEF WriteOnce, Decisions, Absent, Timeout
    <2>4. next \in ThreadStates /\ next.pc # "run" /\ Knows(next)'
      <3>1. next \in ThreadStates /\ next.pc = "confirm"
        BY <2>0, GoesOn, AllPcs
      <3>q. QED
        BY <2>3, <3>1 DEF Knows
    <2>5. DataTypeOK'
      BY <1>2, <1>k, <2>2 DEF Claim, WriteOnce, DataTypeOK
    <2>6. RecordsAgree'
      BY <1>2, <1>k, <2>3 DEF Claim, RecordsAgree
    <2>q. QED
      BY <2>1, <2>3, <2>4, <2>5, <2>6, ThreadMoved
  <1>3. CASE Confirm(th, s)
    <2>1. ThreadOf(th, s).pc = "confirm" /\ resolution # Absent
      BY <1>3, <1>k DEF Confirm, AtPc, Knows
    <2>2. DataTypeOK' /\ RecordsAgree' /\ UNCHANGED <<resolution, slot, runs>>
      BY <1>3, <1>k DEF Confirm, ReadCancellation, WriteOnce, IsCancelled, DataTypeOK, RecordsAgree
    <2>3. PICK next : /\ Moves(th, s, next)
                      /\ \/ next = Idle
                         \/ next = [ThreadOf(th, s) EXCEPT !.pc = "settle"]
                         \/ ~IsCancelled /\ next = [pc |-> "own", by |-> resolution]
      BY <1>3 DEF Confirm, Stops, Goes
    <2>4. next \in ThreadStates /\ next.pc # "run" /\ Knows(next)'
      <3>1. CASE next = Idle
        BY <3>1, NothingToKnow
      <3>2. CASE next = [ThreadOf(th, s) EXCEPT !.pc = "settle"]
        BY <3>2, NothingToKnow
      <3>3. CASE ~IsCancelled /\ next = [pc |-> "own", by |-> resolution]
        <4>1. resolution \in Decisions
          BY <1>k, <2>1, <3>3 DEF IsCancelled, DataTypeOK
        <4>q. QED
          BY <2>2, <3>3, <4>1 DEF ThreadStates, Knows, Pcs
      <3>q. QED
        BY <2>3, <3>1, <3>2, <3>3
    <2>q. QED
      BY <2>2, <2>3, <2>4, ThreadMoved
  <1>q. QED
    BY <1>1, <1>2, <1>3

\* The adoption of the run and the record of its continuation, up to the start.
LEMMA ContinueStep ==
    ASSUME DecInv, NEW th \in Threads, NEW s \in Sessions,
           Own(th, s) \/ Record(th, s) \/ Settle(th, s)
    PROVE  DecInv'
  <1>k. Knows(ThreadOf(th, s)) /\ DataTypeOK /\ RecordsAgree
    BY TypeParts DEF DecInv, ThreadsKnow
  <1>1. CASE Own(th, s)
    <2>1. PICK next \in {Idle, [ThreadOf(th, s) EXCEPT !.pc = "record"]} : Moves(th, s, next)
      BY <1>1 DEF Own, Stops, Goes
    <2>2. next \in ThreadStates /\ next.pc # "run" /\ Knows(next)'
      <3>1. CASE next = Idle
        BY <3>1, NothingToKnow
      <3>2. CASE next = [ThreadOf(th, s) EXCEPT !.pc = "record"]
        <4>1. next \in ThreadStates /\ next.pc = "record" /\ next.by = ThreadOf(th, s).by
          BY <3>2, GoesOn, AllPcs
        <4>2. ThreadOf(th, s).by = resolution' /\ ThreadOf(th, s).by \in Decisions
          BY <1>1, <1>k DEF Own, AtPc, Knows, files
        <4>q. QED
          BY <4>1, <4>2 DEF Knows
      <3>q. QED
        BY <2>1, <3>1, <3>2
    <2>3. DataTypeOK' /\ RecordsAgree' /\ UNCHANGED <<resolution, slot, runs>>
      BY <1>1, <1>k DEF Own, files, DataTypeOK, RecordsAgree
    <2>q. QED
      BY <2>1, <2>2, <2>3, ThreadMoved
  <1>2. CASE Record(th, s)
    <2>1. PICK next \in {[ThreadOf(th, s) EXCEPT !.pc = "settle"],
                         [ThreadOf(th, s) EXCEPT !.pc = "start"]} : Moves(th, s, next)
      BY <1>2 DEF Record, Goes
    <2>2. ThreadOf(th, s).by = resolution /\ ThreadOf(th, s).by \in Decisions
      BY <1>2, <1>k DEF Record, AtPc, Knows
    <2>3. next \in ThreadStates /\ next.pc # "run" /\ Knows(next)'
      <3>1. CASE next = [ThreadOf(th, s) EXCEPT !.pc = "settle"]
        BY <3>1, NothingToKnow
      <3>2. CASE next = [ThreadOf(th, s) EXCEPT !.pc = "start"]
        <4>1. next \in ThreadStates /\ next.pc = "start" /\ next.by = ThreadOf(th, s).by
          BY <3>2, GoesOn, AllPcs
        <4>q. QED
          BY <1>2, <2>2, <4>1 DEF Knows, Record
      <3>q. QED
        BY <2>1, <3>1, <3>2
    <2>4. resolution # Absent
      BY <2>2, AnswerAssumption DEF Decisions, Absent, Timeout
    <2>5. DataTypeOK' /\ RecordsAgree' /\ UNCHANGED <<resolution, slot, runs>>
      BY <1>2, <1>k, <2>2, <2>4 DEF Record, WriteOnce, DataTypeOK, RecordsAgree
    <2>q. QED
      BY <2>1, <2>3, <2>5, ThreadMoved
  <1>3. CASE Settle(th, s)
    <2>1. DataTypeOK' /\ RecordsAgree' /\ UNCHANGED <<resolution, slot, runs>>
      BY <1>3, <1>k DEF Settle, files, DataTypeOK, RecordsAgree
    <2>2. Moves(th, s, Idle)
      BY <1>3 DEF Settle, Stops
    <2>q. QED
      BY <2>1, <2>2, NothingToKnow, ThreadMoved
  <1>q. QED
    BY <1>1, <1>2, <1>3

\* enqueueWorkflowRun and continueRun: the slot of the parent has one taker.
LEMMA StartStep ==
    ASSUME DecInv, NEW th \in Threads, NEW s \in Sessions, Start(th, s) \/ Run(th, s)
    PROVE  DecInv'
  <1>k. Knows(ThreadOf(th, s)) /\ DataTypeOK /\ RecordsAgree
    BY TypeParts DEF DecInv, ThreadsKnow
  <1>1. CASE Start(th, s) /\ (busy[s] \/ ~SlotIsFree)
    <2>1. DataTypeOK' /\ RecordsAgree' /\ UNCHANGED <<resolution, slot, runs>>
      BY <1>1, <1>k DEF Start, files, DataTypeOK, RecordsAgree
    <2>2. Moves(th, s, Idle)
      BY <1>1 DEF Start, Stops
    <2>q. QED
      BY <2>1, <2>2, NothingToKnow, ThreadMoved
  <1>2. CASE Start(th, s) /\ ~busy[s] /\ SlotIsFree
    <2>0. PICK next : next = [ThreadOf(th, s) EXCEPT !.pc = "run"]
      OBVIOUS
    <2>1. Moves(th, s, next) /\ slot' = "claimed" /\ UNCHANGED <<files, runs>>
      BY <1>2, <2>0 DEF Start, Goes
    <2>2. next \in ThreadStates /\ next.pc = "run" /\ next.by = ThreadOf(th, s).by
      BY <2>0, GoesOn, AllPcs
    <2>3. Knows(next)'
      BY <1>2, <1>k, <2>1, <2>2 DEF Start, AtPc, Knows, files
    <2>4. ThreadsKnow'
      BY <2>1, <2>2, <2>3, KnowledgeKept DEF files
    <2>5. slot = "free" /\ runs = <<>>
      BY <1>2 DEF SlotIsFree, DecInv, OneStarter
    <2>6. \A th2 \in Threads, s2 \in Sessions :
             AtPc(th2, s2, "run")' => th2 = th /\ s2 = s
      <3>1. \A th2 \in Threads, s2 \in Sessions : ~AtPc(th2, s2, "run")
        BY <2>5 DEF DecInv, OneStarter
      <3>q. QED
        BY <2>1, <2>2, <3>1, MovesOne DEF DecInv, AtPc
    <2>7. OneStarter'
      BY <2>1, <2>5, <2>6 DEF OneStarter
    <2>8. DataTypeOK' /\ RecordsAgree'
      BY <1>2, <1>k, <2>1 DEF Start, files, DataTypeOK, RecordsAgree
    <2>9. DecTypeOK'
      BY <2>1, <2>2, <2>8, MovesOne, TypeParts DEF DecInv, DecTypeOK, DataTypeOK, ThreadStates
    <2>q. QED
      BY <2>4, <2>7, <2>8, <2>9 DEF DecInv
  <1>3. CASE Run(th, s)
    <2>0. PICK next : next = [ThreadOf(th, s) EXCEPT !.pc = "settle"]
      OBVIOUS
    <2>1. Moves(th, s, next) /\ UNCHANGED <<resolution, slot>>
      BY <1>3, <2>0 DEF Run, Goes
    <2>2. next \in ThreadStates /\ next.pc # "run" /\ Knows(next)'
      BY <2>0, NothingToKnow
    <2>3. /\ ThreadOf(th, s).by = resolution /\ resolution \in Decisions
          /\ slot = "claimed" /\ runs = <<>>
      BY <1>3, <1>k DEF Run, AtPc, Knows, DecInv, OneStarter
    <2>4. resolution # Absent
      BY <2>3, AnswerAssumption DEF Decisions, Absent, Timeout
    <2>5. runs' \in {<<>>, <<resolution>>}
      BY <1>3, <2>3 DEF Run
    <2>6. accepted' \in {accepted, resolution}
      BY <1>3 DEF Run, ReadResolved, WriteOnce
    <2>7. RecordsAgree' /\ DataTypeOK'
      BY <1>3, <1>k, <2>3, <2>4, <2>5, <2>6 DEF Run, RecordsAgree, DataTypeOK
    <2>8. \A th2 \in Threads, s2 \in Sessions : ~AtPc(th2, s2, "run")'
      <3>1. \A th2 \in Threads, s2 \in Sessions : AtPc(th2, s2, "run") => th2 = th /\ s2 = s
        BY <1>3 DEF Run, DecInv, OneStarter
      <3>q. QED
        BY <2>1, <2>2, <3>1, MovesOne DEF DecInv, AtPc
    <2>9. OneStarter'
      BY <2>1, <2>3, <2>8 DEF OneStarter
    <2>10. ThreadsKnow'
      BY <2>1, <2>2, KnowledgeKept
    <2>11. DecTypeOK'
      BY <2>1, <2>2, <2>7, MovesOne DEF DecInv, DecTypeOK, DataTypeOK, ThreadStates
    <2>q. QED
      BY <2>7, <2>9, <2>10, <2>11 DEF DecInv
  <1>q. QED
    BY <1>1, <1>2, <1>3 DEF Start

\* cancel: the tombstone is written by the cancellation that won.
LEMMA CancelStep ==
    ASSUME DecInv, NEW th \in Threads, NEW s \in Sessions,
           UnlessResolved(th, s) \/ ClaimCancellation(th, s) \/ Bury(th, s)
    PROVE  DecInv'
  <1>k. Knows(ThreadOf(th, s)) /\ DataTypeOK /\ RecordsAgree
    BY TypeParts DEF DecInv, ThreadsKnow
  <1>1. CASE UnlessResolved(th, s)
    <2>1. PICK next \in {Idle, [ThreadOf(th, s) EXCEPT !.pc = "cancel"]} : Moves(th, s, next)
      BY <1>1 DEF UnlessResolved, Stops, Goes
    <2>2. next \in ThreadStates /\ next.pc # "run" /\ Knows(next)'
      <3>1. CASE next = Idle
        BY <3>1, NothingToKnow
      <3>2. CASE next = [ThreadOf(th, s) EXCEPT !.pc = "cancel"]
        <4>1. next \in ThreadStates /\ next.pc = "cancel" /\ next.by = ThreadOf(th, s).by
          BY <3>2, GoesOn, AllPcs
        <4>2. ThreadOf(th, s).by \in Tombstones
          BY <1>1, <1>k DEF UnlessResolved, AtPc, Knows
        <4>q. QED
          BY <4>1, <4>2 DEF Knows
      <3>q. QED
        BY <2>1, <3>1, <3>2
    <2>3. DataTypeOK' /\ RecordsAgree' /\ UNCHANGED <<resolution, slot, runs>>
      BY <1>1, <1>k DEF UnlessResolved, ReadResolved, WriteOnce, DataTypeOK, RecordsAgree
    <2>q. QED
      BY <2>1, <2>2, <2>3, ThreadMoved
  <1>2. CASE ClaimCancellation(th, s)
    <2>1. /\ resolution' = WriteOnce(resolution, ThreadOf(th, s).by)
          /\ ThreadOf(th, s).by \in Tombstones /\ UNCHANGED <<slot, runs>>
      BY <1>2, <1>k DEF ClaimCancellation, AtPc, Knows
    <2>2. PICK next : /\ Moves(th, s, next)
                      /\ \/ next = Idle
                         \/ /\ next = [ThreadOf(th, s) EXCEPT !.pc = "bury"]
                            /\ resolution' = ThreadOf(th, s).by
      BY <1>2 DEF ClaimCancellation, Stops, Goes
    <2>3. resolution' # Absent /\ (resolution = Absent \/ resolution' = resolution)
      BY <2>1 DEF WriteOnce, Tombstones, Absent
    <2>4. next \in ThreadStates /\ next.pc # "run" /\ Knows(next)'
      <3>1. CASE next = Idle
        BY <3>1, NothingToKnow
      <3>2. CASE /\ next = [ThreadOf(th, s) EXCEPT !.pc = "bury"]
                 /\ resolution' = ThreadOf(th, s).by
        <4>1. next \in ThreadStates /\ next.pc = "bury" /\ next.by = ThreadOf(th, s).by
          BY <3>2, GoesOn, AllPcs
        <4>q. QED
          BY <2>1, <3>2, <4>1 DEF Knows
      <3>q. QED
        BY <2>2, <3>1, <3>2
    <2>5. DataTypeOK'
      BY <1>2, <1>k, <2>1 DEF ClaimCancellation, WriteOnce, DataTypeOK
    <2>6. RecordsAgree'
      BY <1>2, <1>k, <2>3 DEF ClaimCancellation, RecordsAgree
    <2>q. QED
      BY <2>1, <2>2, <2>3, <2>4, <2>5, <2>6, ThreadMoved
  <1>3. CASE Bury(th, s)
    <2>0. PICK next : next = [ThreadOf(th, s) EXCEPT !.pc = "settle"]
      OBVIOUS
    <2>1. Moves(th, s, next) /\ UNCHANGED <<resolution, slot, runs>>
      BY <1>3, <2>0 DEF Bury, Goes
    <2>2. resolution \in Tombstones
      BY <1>3, <1>k DEF Bury, AtPc, Knows
    <2>3. DataTypeOK' /\ RecordsAgree'
      BY <1>3, <1>k, <2>2 DEF Bury, WriteOnce, DataTypeOK, RecordsAgree
    <2>q. QED
      BY <2>0, <2>1, <2>3, NothingToKnow, ThreadMoved
  <1>q. QED
    BY <1>1, <1>2, <1>3

\* A person answers or cancels, or the recovery pass of a session finds work.
LEMMA BeginStep ==
    ASSUME DecInv, NEW s \in Sessions,
           \/ Cancel(s) \/ Recover(s) \/ \E key \in Answers : Answer(s, key)
    PROVE  DecInv'
  <1>k. DataTypeOK /\ RecordsAgree
    BY TypeParts DEF DecInv
  <1>1. ASSUME NEW key \in Answers, Answer(s, key) PROVE DecInv'
    <2>0. PICK next : next = [pc |-> "check", by |-> key]
      OBVIOUS
    <2>1. Moves("hand", s, next) /\ UNCHANGED <<resolution, slot, runs>>
      BY <1>1, <2>0 DEF Answer, files
    <2>2. next \in ThreadStates /\ next.pc # "run" /\ Knows(next)'
      BY <2>0 DEF ThreadStates, Knows, Decisions, Pcs
    <2>3. DataTypeOK' /\ RecordsAgree'
      <3>1. [dialog EXCEPT ![s] = FALSE] \in [Sessions -> BOOLEAN]
        BY <1>k DEF DataTypeOK
      <3>2. dialog' \in [Sessions -> BOOLEAN]
        BY <1>1, <1>k, <3>1 DEF Answer, DataTypeOK
      <3>3. acts' \in 0..MaxActs
        BY <1>1, <1>k, DecisionAssumption DEF Answer, Act, DataTypeOK
      <3>q. QED
        BY <1>1, <1>k, <3>2, <3>3 DEF Answer, files, DataTypeOK, RecordsAgree
    <2>q. QED
      BY <2>1, <2>2, <2>3, ThreadMoved DEF Threads
  <1>2. CASE Cancel(s)
    <2>0. PICK next : next = [pc |-> "unless", by |-> "cancelled"]
      OBVIOUS
    <2>1. Moves("hand", s, next) /\ UNCHANGED <<resolution, slot, runs>>
      BY <1>2, <2>0 DEF Cancel, files
    <2>2. next \in ThreadStates /\ next.pc # "run" /\ Knows(next)'
      BY <2>0 DEF ThreadStates, Knows, Tombstones, Pcs
    <2>3. DataTypeOK' /\ RecordsAgree'
      BY <1>2, <1>k, DecisionAssumption DEF Cancel, Act, files, DataTypeOK, RecordsAgree
    <2>q. QED
      BY <2>1, <2>2, <2>3, ThreadMoved DEF Threads
  <1>3. CASE Recover(s)
    <2>1. UNCHANGED <<resolution, slot, runs>>
      BY <1>3 DEF Recover
    <2>2. CASE IsResolved /\ ReadResolved /\ Moves("timer", s, [pc |-> "own", by |-> accepted'])
               /\ UNCHANGED tombstone
      <3>0. PICK next : next = [pc |-> "own", by |-> accepted']
        OBVIOUS
      <3>1. accepted' = resolution /\ resolution \in Decisions
        BY <1>k, <2>2 DEF IsResolved, ReadResolved, WriteOnce, DataTypeOK, RecordsAgree
      <3>2. next \in ThreadStates /\ next.pc # "run" /\ Knows(next)'
        BY <2>1, <3>0, <3>1 DEF ThreadStates, Knows, Pcs
      <3>3. DataTypeOK' /\ RecordsAgree'
        BY <1>3, <1>k, <2>2, <3>1 DEF Recover, DataTypeOK, RecordsAgree
      <3>q. QED
        BY <2>1, <2>2, <3>0, <3>2, <3>3, ThreadMoved DEF Threads
    <2>3. CASE ReadCancellation /\ Moves("timer", s, [pc |-> "settle", by |-> tombstone'])
               /\ UNCHANGED accepted
      <3>0. PICK next : next = [pc |-> "settle", by |-> tombstone']
        OBVIOUS
      <3>1. DataTypeOK' /\ RecordsAgree'
        BY <1>3, <1>k, <2>3 DEF Recover, ReadCancellation, WriteOnce, DataTypeOK, RecordsAgree
      <3>2. next \in ThreadStates /\ next.pc # "run" /\ Knows(next)'
        BY <3>0, <3>1 DEF ThreadStates, Knows, DataTypeOK, Pcs
      <3>q. QED
        BY <2>1, <2>3, <3>0, <3>1, <3>2, ThreadMoved DEF Threads
    <2>4. ASSUME UNCHANGED <<accepted, tombstone>>,
                 NEW next \in {[pc |-> "claim", by |-> Timeout], [pc |-> "unless", by |-> "expired"]},
                 Moves("timer", s, next)
          PROVE  DecInv'
      <3>1. DataTypeOK' /\ RecordsAgree'
        BY <1>3, <1>k, <2>4 DEF Recover, DataTypeOK, RecordsAgree
      <3>2. next \in ThreadStates /\ next.pc # "run" /\ Knows(next)'
        BY <2>4 DEF ThreadStates, Knows, Decisions, Tombstones, Timeout, Pcs
      <3>q. QED
        BY <2>1, <2>4, <3>1, <3>2, ThreadMoved DEF Threads
    <2>q. QED
      BY <1>3, <2>2, <2>3, <2>4 DEF Recover
  <1>q. QED
    BY <1>1, <1>2, <1>3

-----------------------------------------------------------------------------
(* The rest: the clock, the screens, the queue and the deaths of sessions *)

LEMMA SurroundingStep ==
    ASSUME DecInv, NEW s \in Sessions,
           Expire \/ Present(s) \/ OtherRunEnds(s) \/ UNCHANGED decVars
    PROVE  DecInv'
  <1>1. DecTypeOK'
    BY DEF DecInv, DecTypeOK, Expire, Present, OtherRunEnds, decVars, files
  <1>2. UNCHANGED <<files, slot, runs, hand, timer>>
    BY DEF Expire, Present, OtherRunEnds, decVars
  <1>q. QED
    BY <1>1, <1>2 DEF DecInv, RecordsAgree, ThreadsKnow, OneStarter, Knows, ThreadOf, AtPc, files

LEMMA QueueStep == ASSUME DecInv, QueueResumes PROVE DecInv'
  <1>1. /\ accepted' \in {accepted, resolution}
        /\ IsResolved => accepted' = resolution /\ resolution \in Decisions
    BY DEF QueueResumes, ReadResolved, WriteOnce, IsResolved, DecInv, DecTypeOK, RecordsAgree
  <1>2. /\ runs' \in {<<>>, <<resolution>>} /\ (runs' # <<>> => resolution \in Decisions)
        /\ slot' = "claimed" /\ UNCHANGED <<resolution, tombstone, receipt, hand, timer>>
    BY <1>1 DEF QueueResumes
  <1>3. DecTypeOK'
    BY <1>1, <1>2 DEF QueueResumes, ReadResolved, WriteOnce, DecInv, DecTypeOK
  <1>4. RecordsAgree'
    BY <1>1, <1>2, AnswerAssumption DEF DecInv, RecordsAgree, Decisions, Timeout, Absent
  <1>5. ThreadsKnow' /\ OneStarter'
    BY <1>2 DEF QueueResumes, DecInv, ThreadsKnow, OneStarter, Knows, ThreadOf, AtPc
  <1>q. QED
    BY <1>3, <1>4, <1>5 DEF DecInv

\* A session that dies at the start leaves the row to the queue.
LEMMA DeathStep == ASSUME DecInv, NEW s \in Sessions, Die(s) PROVE DecInv'
  <1>1. /\ hand' = [hand EXCEPT ![s] = Idle] /\ timer' = [timer EXCEPT ![s] = Idle]
        /\ UNCHANGED <<files, runs>>
    BY DEF Die
  <1>2. /\ hand' \in [Sessions -> ThreadStates] /\ timer' \in [Sessions -> ThreadStates]
        /\ \A th \in Threads, s2 \in Sessions :
              ThreadOf(th, s2)' = IF s2 = s THEN Idle ELSE ThreadOf(th, s2)
    BY <1>1, TypeParts, ThreadTypes DEF DecInv, ThreadOf, Threads
  <1>3. DataTypeOK'
    BY TypeParts, DecisionAssumption DEF DecInv, Die, Act, files, DataTypeOK
  <1>4. RecordsAgree'
    BY <1>1 DEF DecInv, RecordsAgree, files
  <1>5. ThreadsKnow'
    BY <1>1, <1>2 DEF DecInv, ThreadsKnow, Knows, Idle, files
  <1>6. \A th \in Threads, s2 \in Sessions :
           AtPc(th, s2, "run")' => AtPc(th, s2, "run") /\ s2 # s
    BY <1>2 DEF AtPc, Idle
  <1>7. OneStarter'
    <2>1. CASE \E th \in Threads : AtPc(th, s, "run")
      <3>1. \A th \in Threads, s2 \in Sessions : ~AtPc(th, s2, "run")'
        BY <1>6, <2>1 DEF DecInv, OneStarter
      <3>2. slot' = "queued"
        BY <2>1 DEF Die
      <3>q. QED
        BY <3>1, <3>2 DEF OneStarter
    <2>2. CASE ~\E th \in Threads : AtPc(th, s, "run")
      <3>1. slot' = slot
        BY <2>2 DEF Die
      <3>q. QED
        BY <1>1, <1>6, <3>1 DEF DecInv, OneStarter
    <2>q. QED
      BY <2>1, <2>2
  <1>q. QED
    BY <1>2, <1>3, <1>4, <1>5, <1>7, TypeParts DEF DecInv, DecTypeOK, DataTypeOK, ThreadStates

-----------------------------------------------------------------------------
LEMMA DecInvInit == ASSUME DecInit PROVE DecInv
  <1>1. origin \in Sessions
    BY DecisionAssumption DEF DecInit
  <1>2. DecTypeOK
    <2>1. dialog \in [Sessions -> BOOLEAN] /\ busy \in [Sessions -> BOOLEAN]
      <3>1. dialog = [s \in Sessions |-> s = origin]
        BY DEF DecInit
      <3>2. dialog \in [Sessions -> BOOLEAN]
        BY <3>1
      <3>3. busy = dialog \/ busy = [s \in Sessions |-> FALSE]
        BY DEF DecInit
      <3>q. QED
        BY <3>2, <3>3
    <2>2. \A k \in DOMAIN runs : runs[k] \in Decisions
      BY DEF DecInit
    <2>3. Idle \in ThreadStates
      BY DEF Idle, ThreadStates, Pcs
    <2>4. hand \in [Sessions -> ThreadStates] /\ timer \in [Sessions -> ThreadStates]
      BY <2>3 DEF DecInit
    <2>5. DataTypeOK
      <3>1. /\ policy \in {"required", "expires", "auto"} /\ late = FALSE /\ slot = "free"
            /\ resolution = Absent /\ accepted = Absent /\ tombstone = Absent /\ receipt = Absent
            /\ acts = 0
        BY DEF DecInit
      <3>2. late \in BOOLEAN
        BY <3>1
      <3>3. acts \in 0..MaxActs
        BY <3>1, DecisionAssumption
      <3>q. QED
        BY <1>1, <2>1, <2>2, <3>1, <3>2, <3>3 DEF DataTypeOK
    <2>q. QED
      BY <2>4, <2>5, TypeParts
  <1>q. QED
    BY <1>2 DEF DecInit, DecInv, RecordsAgree, ThreadsKnow, OneStarter, Knows, ThreadOf, AtPc,
                Idle, Threads

LEMMA DecInvNext == ASSUME DecInv, [DecNext]_decVars PROVE DecInv'
  <1>1. PICK z \in Sessions : TRUE
    BY DecisionAssumption
  <1>2. CASE Expire \/ UNCHANGED decVars
    BY <1>1, <1>2, SurroundingStep
  <1>3. CASE QueueResumes
    BY <1>3, QueueStep
  <1>4. ASSUME NEW s \in Sessions, NEW th \in Threads, ThreadStep(th, s) PROVE DecInv'
    BY <1>4, AcceptStep, ContinueStep, StartStep, CancelStep DEF ThreadStep
  <1>5. ASSUME NEW s \in Sessions, Check(s) PROVE DecInv'
    BY <1>5, AcceptStep DEF Threads
  <1>6. ASSUME NEW s \in Sessions, Recover(s) \/ Cancel(s) \/ \E key \in Answers : Answer(s, key)
        PROVE  DecInv'
    BY <1>6, BeginStep
  <1>7. ASSUME NEW s \in Sessions, Present(s) \/ OtherRunEnds(s) PROVE DecInv'
    BY <1>7, SurroundingStep
  <1>8. ASSUME NEW s \in Sessions, Die(s) PROVE DecInv'
    BY <1>8, DeathStep
  <1>q. QED
    BY <1>2, <1>3, <1>4, <1>5, <1>6, <1>7, <1>8
       DEF DecNext, HandStep, TimerStep, Threads

\* The invariant of a decision: every record and every thread past the claim agree
\* with resolution.json, and one thread at most is about to start the run.
THEOREM DecInvariance == DecSpec => []DecInv
  BY DecInvInit, DecInvNext, PTL DEF DecSpec

\* However answers, timeouts, cancellations and deaths of sessions race, one outcome
\* wins: every record is the winner's and at most one continuation is started, with
\* the winner's response (HumanDecisionStore, recoverHumanDecisions).
THEOREM OneDecision == DecSpec => []OneOutcome
  <1>1. DecInv => OneOutcome
    <2> SUFFICES ASSUME RecordsAgree PROVE OneOutcome
      BY DEF DecInv
    <2>1. Len(runs) <= 1 /\ \A k \in DOMAIN runs : runs[k] = resolution
      <3>1. CASE runs = <<>>
        BY <3>1
      <3>2. CASE runs = <<resolution>>
        BY <3>2
      <3>q. QED
        BY <3>1, <3>2 DEF RecordsAgree
    <2>q. QED
      BY <2>1 DEF RecordsAgree, OneOutcome
  <1>q. QED
    BY <1>1, DecInvariance, PTL

\* Every variable of a decision keeps its type; in particular no record of an answer
\* holds a cancellation and no tombstone an answer.
THEOREM DecTypeCorrect == DecSpec => []DecTypeOK
  BY DecInvariance, PTL DEF DecInv

-----------------------------------------------------------------------------
(* The Telegram channel: its offset and its sends *)

PollStates == [pc : {"loop", "handle", "store"}, next : Nat]

\* Every update before the stored offset, or before the position of a host in
\* its batch, has been handled.
HandledBelow(bound) == \A u \in Nat \ {0} : u < bound => u \in handled

PollHandles ==
    /\ offset \in Nat \ {0} /\ poll \in [Hosts -> PollStates]
    /\ HandledBelow(offset)
    /\ \A h \in Hosts : /\ poll[h].pc = "handle" => HandledBelow(poll[h].next)
                        /\ poll[h].pc = "store" => HandledBelow(poll[h].next + 1)
    /\ updates \in Seq({"button", "text", "reply"})

\* A step of a host that stores no offset.
LEMMA HostMoves ==
    ASSUME PollHandles, NEW h \in Hosts, NEW st \in PollStates,
           poll' = [poll EXCEPT ![h] = st], UNCHANGED <<updates, offset>>,
           handled \subseteq handled',
           st.pc = "handle" => HandledBelow(st.next)',
           st.pc = "store" => HandledBelow(st.next + 1)'
    PROVE  PollHandles'
  <1>1. poll' \in [Hosts -> PollStates] /\ poll'[h] = st /\ \A i \in Hosts \ {h} : poll'[i] = poll[i]
    BY DEF PollHandles
  <1>2. ASSUME NEW bound \in Nat, HandledBelow(bound) PROVE HandledBelow(bound)'
    BY <1>2 DEF HandledBelow
  <1>3. \A i \in Hosts : poll[i] \in PollStates
    BY DEF PollHandles
  <1>4. ASSUME NEW i \in Hosts
        PROVE  /\ poll'[i].pc = "handle" => HandledBelow(poll[i].next)'
               /\ poll'[i].pc = "store" => HandledBelow(poll[i].next + 1)'
    <2>1. CASE i = h
      BY <2>1, <1>1
    <2>2. CASE i # h
      <3>1. poll[i].next \in Nat /\ poll'[i] = poll[i]
        BY <2>2, <1>1, <1>3 DEF PollStates
      <3>q. QED
        BY <3>1, <1>2 DEF PollHandles, HandledBelow
    <2>q. QED
      BY <2>1, <2>2
  <1>q. QED
    BY <1>1, <1>2, <1>4 DEF PollHandles, HandledBelow

LEMMA HandledInit == TelInit => PollHandles
  <1>1. <<>> \in Seq({"button", "text", "reply"})
    OBVIOUS
  <1>q. QED
    BY <1>1 DEF TelInit, PollHandles, PollStates, HandledBelow, Loop

LEMMA HandledNext == PollHandles /\ [TelNext]_telVars => PollHandles'
  <1> SUFFICES ASSUME PollHandles, [TelNext]_telVars PROVE PollHandles'
    OBVIOUS
  <1> USE DEF pollVars
  <1>1. CASE UNCHANGED pollVars
    BY <1>1 DEF PollHandles, HandledBelow
  \* Steps that leave offset, handled and poll alone.
  <1>2. ASSUME UNCHANGED <<offset, handled, poll>>, updates' \in Seq({"button", "text", "reply"})
        PROVE  PollHandles'
    BY <1>2 DEF PollHandles, HandledBelow
  <1>3. ASSUME LoseProjection \/ LeaseExpires PROVE PollHandles'
    BY <1>2, <1>3 DEF LoseProjection, LeaseExpires, PollHandles
  <1>4. ASSUME NEW kind \in {"button", "text"}, Press(kind) \/ Reply PROVE PollHandles'
    <2>1. updates' \in Seq({"button", "text", "reply"})
      BY <1>4 DEF Press, Reply, PollHandles
    <2>q. QED
      BY <2>1, <1>2, <1>4 DEF Press, Reply
  <1>5. ASSUME NEW h \in Hosts PROVE PollGoesOn(h) \/ HostDies(h) => PollHandles'
    <2>0. poll[h] \in PollStates /\ Loop \in PollStates /\ Loop.pc = "loop" /\ offset \in Nat
      BY DEF PollHandles, PollStates, Loop
    <2>1. CASE Fetch(h)
      <3>1. PICK st \in PollStates : st = [pc |-> "handle", next |-> offset]
        BY <2>0 DEF PollStates
      <3>2. HandledBelow(st.next)'
        BY <2>1, <3>1 DEF Fetch, PollHandles, HandledBelow
      <3>q. QED
        BY <2>1, <3>1, <3>2, HostMoves DEF Fetch
    <2>2. CASE HandleUpdate(h)
      <3>1. PICK st \in PollStates : st = [poll[h] EXCEPT !.pc = "store"]
        BY <2>0 DEF PollStates
      <3>2. st.pc = "store" /\ st.next = poll[h].next /\ st.next \in Nat
        BY <3>1, <2>0 DEF PollStates
      <3>3. poll' = [poll EXCEPT ![h] = st] /\ handled' = handled \union {st.next}
            /\ UNCHANGED <<updates, offset>>
        BY <2>2, <3>1, <3>2 DEF HandleUpdate
      <3>4. HandledBelow(st.next)
        BY <2>2, <3>2 DEF HandleUpdate, PollHandles
      <3>5. HandledBelow(st.next + 1)'
        BY <3>2, <3>3, <3>4 DEF HandledBelow
      <3>q. QED
        BY <3>2, <3>3, <3>5, HostMoves
    <2>3. CASE HandleThrows(h) \/ EndBatch(h) \/ HostDies(h)
      <3>1. poll' = [poll EXCEPT ![h] = Loop] /\ UNCHANGED <<updates, offset, handled>>
        BY <2>3 DEF HandleThrows, EndBatch, HostDies
      <3>q. QED
        BY <3>1, <2>0, HostMoves
    <2>4. CASE StoreOffset(h)
      <3>n. PICK n \in Nat : n = poll[h].next
        BY <2>0 DEF PollStates
      <3>r. [pc |-> "handle", next |-> n + 1] \in PollStates
        BY DEF PollStates
      <3>s. PICK st \in PollStates : st = [pc |-> "handle", next |-> n + 1]
        BY <3>r
      <3>0. n = poll[h].next /\ st = [pc |-> "handle", next |-> n + 1]
        BY <3>n, <3>s
      <3>1. st.pc = "handle" /\ st.next = n + 1
        BY <3>0
      <3>2. poll' = [poll EXCEPT ![h] = st] /\ UNCHANGED <<updates, handled>>
            /\ offset' \in {offset, n + 1}
        BY <2>4, <3>0 DEF StoreOffset
      <3>3. HandledBelow(n + 1) /\ HandledBelow(offset)
        BY <2>4, <3>0 DEF StoreOffset, PollHandles
      <3>4. HandledBelow(n + 1)' /\ HandledBelow(offset)' /\ offset' \in Nat \ {0}
        BY <3>2, <3>3 DEF HandledBelow, PollHandles
      <3>5. \A i \in Hosts : poll'[i] = IF i = h THEN st ELSE poll[i]
        BY <3>2 DEF PollHandles
      <3>6. poll' \in [Hosts -> PollStates]
        BY <3>1, <3>2 DEF PollHandles
      <3>7. ASSUME NEW i \in Hosts
            PROVE  /\ poll'[i].pc = "handle" => HandledBelow(poll[i].next)'
                   /\ poll'[i].pc = "store" => HandledBelow(poll[i].next + 1)'
        <4>1. CASE i = h
          BY <4>1, <3>5, <3>4, <3>1 DEF HandledBelow
        <4>2. CASE i # h
          BY <4>2, <3>5, <3>2 DEF PollHandles, HandledBelow
        <4>q. QED
          BY <4>1, <4>2
      <3>q. QED
        BY <3>2, <3>4, <3>6, <3>7 DEF PollHandles
    <2>q. QED
      BY <2>1, <2>2, <2>3, <2>4 DEF PollGoesOn
  <1>6. CASE UNCHANGED telVars
    BY <1>6, <1>1 DEF telVars
  <1>q. QED
    BY <1>1, <1>3, <1>4, <1>5, <1>6
    DEF TelNext, DeliverGoesOn, Deliver, DeliverPart, CallIsAnswered, RecordPart,
        CompleteDelivery, CallFails, DeliveryDies, DecidedElsewhere, SettleChannel

\* poll stores next_offset only behind an update whose handling has returned, in
\* every host and across lost leases, crashes and answers that are refused: no
\* update is passed over.
THEOREM NoUpdateLost == TelSpec => []NoUpdateSkipped
  <1>1. PollHandles => NoUpdateSkipped
    BY DEF PollHandles, HandledBelow, NoUpdateSkipped
  <1>q. QED
    BY <1>1, HandledInit, HandledNext, PTL DEF TelSpec

-----------------------------------------------------------------------------
(* What the delivery records say of the sends *)

PartRecords == {"intent", "confirmed", "failed", "unknown"}

DeliveryTypes ==
    /\ records \in [AllParts -> SUBSET PartRecords]
    /\ arrived \in [AllParts -> Nat]
    /\ delivery \in [pc : {"idle", "part", "call", "confirmed", "failed", "unknown"},
                     part : Nat \ {0}, prior : SUBSET AllParts]

\* An attempt that has not come to part p finds its result in what it has read.
ReadRightly(p) ==
    /\ "intent" \in records[p] => records[p] \intersect {"confirmed", "failed"} # {}
    /\ "confirmed" \in records[p] => p \in delivery.prior

\* A copy in the chat has its intent on record, and a second one a refusal; while
\* a part is being sent, no copy is there but those that a refusal accounts for.
SendsAccounted ==
    /\ \A p \in AllParts :
         "failed" \notin records[p] => /\ arrived[p] \in {0, 1}
                                       /\ arrived[p] = 1 => "intent" \in records[p]
    /\ delivery.pc = "part" => \A p \in AllParts : p >= delivery.part => ReadRightly(p)
    /\ delivery.pc \notin {"idle", "part"} =>
         /\ delivery.part \in AllParts
         /\ \A p \in AllParts : p > delivery.part => ReadRightly(p)
    /\ delivery.pc = "call" =>
         /\ "intent" \in records[delivery.part]
         /\ "failed" \notin records[delivery.part] => arrived[delivery.part] = 0

SendInv == DeliveryTypes /\ SendsAccounted

LEMMA SendTypes == ASSUME DeliveryTypes, TelNext PROVE DeliveryTypes'
  <1> DEFINE q == delivery.part
  <1>a. NoDelivery \in [pc : {"idle", "part", "call", "confirmed", "failed", "unknown"},
                        part : Nat \ {0}, prior : SUBSET AllParts]
    BY DEF NoDelivery
  <1>b. [arrived EXCEPT ![q] = @ + 1] \in [AllParts -> Nat]
    <2>1. \A p \in AllParts : arrived[p] + 1 \in Nat
      BY DEF DeliveryTypes
    <2>q. QED
      BY <2>1 DEF DeliveryTypes
  <1>1. CASE Deliver
    BY <1>1 DEF Deliver, DeliveryTypes
  <1>2. CASE DeliverPart
    BY <1>2, <1>a DEF DeliverPart, DeliveryTypes, PartRecords
  <1>3. CASE CallIsAnswered \/ CallFails
    BY <1>3, <1>b DEF CallIsAnswered, CallFails, DeliveryTypes
  <1>4. CASE RecordPart
    <2>1. delivery.pc \in PartRecords /\ q + 1 \in Nat \ {0}
      BY <1>4 DEF RecordPart, DeliveryTypes, PartRecords
    <2>2. records' = [records EXCEPT ![q] = @ \union {delivery.pc}] /\ UNCHANGED arrived
          /\ (delivery' = NoDelivery \/ delivery' = [delivery EXCEPT !.pc = "part", !.part = q + 1])
      BY <1>4 DEF RecordPart
    <2>3. records' \in [AllParts -> SUBSET PartRecords]
      BY <2>1, <2>2 DEF DeliveryTypes
    <2>q. QED
      BY <2>1, <2>2, <2>3, <1>a DEF DeliveryTypes
  <1>5. CASE CompleteDelivery \/ DeliveryDies
    BY <1>5, <1>a, <1>b DEF CompleteDelivery, DeliveryDies, DeliveryTypes
  <1>6. CASE UNCHANGED <<records, arrived, delivery>>
    BY <1>6 DEF DeliveryTypes
  <1>q. QED
    BY <1>1, <1>2, <1>3, <1>4, <1>5, <1>6
    DEF TelNext, DeliverGoesOn, LoseProjection, Press, Reply, LeaseExpires, DecidedElsewhere,
        SettleChannel, PollGoesOn, Fetch, HandleUpdate, HandleThrows, StoreOffset, EndBatch,
        HostDies, deliveryVars

LEMMA SendInit == TelInit => SendInv
  BY DEF TelInit, SendInv, DeliveryTypes, SendsAccounted, NoDelivery

\* A part whose records are left alone, or only gain a refusal or an answer, and
\* whose copies stay, is accounted for as before.
LEMMA AttemptEnds ==
    ASSUME SendInv, DeliveryTypes', delivery' = NoDelivery,
           \A p \in AllParts :
             \/ arrived'[p] = arrived[p] /\ records[p] \subseteq records'[p]
             \/ /\ records'[p] = records[p]
                /\ "failed" \notin records[p] => arrived'[p] \in {0, 1} /\ "intent" \in records[p]
    PROVE  SendInv'
  <1>1. ASSUME NEW p \in AllParts, "failed" \notin records'[p]
        PROVE  arrived'[p] \in {0, 1} /\ (arrived'[p] = 1 => "intent" \in records'[p])
    <2>1. CASE arrived'[p] = arrived[p] /\ records[p] \subseteq records'[p]
      BY <2>1, <1>1 DEF SendInv, SendsAccounted
    <2>2. CASE /\ records'[p] = records[p]
               /\ "failed" \notin records[p] => arrived'[p] \in {0, 1} /\ "intent" \in records[p]
      BY <2>2, <1>1
    <2>q. QED
      BY <2>1, <2>2
  <1>q. QED
    BY <1>1 DEF SendInv, SendsAccounted, NoDelivery

LEMMA SendNext == SendInv /\ [TelNext]_telVars => SendInv'
  <1> SUFFICES ASSUME SendInv, [TelNext]_telVars PROVE SendInv'
    OBVIOUS
  <1> DEFINE q == delivery.part
  <1>0. CASE UNCHANGED <<records, arrived, delivery>>
    BY <1>0 DEF SendInv, DeliveryTypes, SendsAccounted, ReadRightly
  <1>1. CASE Deliver
    <2>1. DeliveryTypes' /\ UNCHANGED <<records, arrived>>
      BY <1>1, SendTypes DEF SendInv, TelNext, DeliverGoesOn, Deliver
    <2>2. delivery'.pc = "part" /\ delivery'.prior = {p \in AllParts : "confirmed" \in records[p]}
      BY <1>1 DEF Deliver
    <2>3. ASSUME NEW p \in AllParts PROVE ReadRightly(p)'
      <3>1. records[p] # {"intent"} /\ "unknown" \notin records[p] /\ records[p] \subseteq PartRecords
        BY <1>1 DEF Deliver, HasUnsettledIntent, IsUnknown, SendInv, DeliveryTypes
      <3>2. "intent" \in records[p] => records[p] \intersect {"confirmed", "failed"} # {}
        BY <3>1 DEF PartRecords
      <3>q. QED
        BY <3>2, <2>1, <2>2 DEF ReadRightly
    <2>q. QED
      BY <2>1, <2>2, <2>3 DEF SendInv, SendsAccounted
  <1>2. CASE DeliverPart
    <2>0. DeliveryTypes' /\ UNCHANGED arrived /\ q \in AllParts /\ delivery.pc = "part"
      BY <1>2, SendTypes DEF SendInv, TelNext, DeliverGoesOn, DeliverPart
    <2>1. CASE delivery' = [delivery EXCEPT !.part = q + 1] /\ UNCHANGED records
      <3>1. delivery'.pc = "part" /\ delivery'.part = q + 1 /\ delivery'.prior = delivery.prior
        BY <2>1, <2>0 DEF SendInv, DeliveryTypes
      <3>2. \A p \in AllParts : p >= q + 1 => p >= q
        BY <2>0 DEF AllParts
      <3>q. QED
        BY <2>0, <2>1, <3>1, <3>2 DEF SendInv, SendsAccounted, ReadRightly
    <2>2. CASE records' = [records EXCEPT ![q] = @ \union {"unknown"}] /\ delivery' = NoDelivery
      <3>1. \A p \in AllParts : records[p] \subseteq records'[p]
        BY <2>2 DEF SendInv, DeliveryTypes
      <3>q. QED
        BY <3>1, <2>0, <2>2, AttemptEnds
    <2>3. CASE q \notin delivery.prior /\ records' = [records EXCEPT ![q] = @ \union {"intent"}]
               /\ delivery' = [delivery EXCEPT !.pc = "call"]
      <3>1. delivery'.pc = "call" /\ delivery'.part = q /\ delivery'.prior = delivery.prior
        BY <2>3 DEF SendInv, DeliveryTypes
      <3>2. records'[q] = records[q] \union {"intent"}
            /\ \A p \in AllParts : p # q => records'[p] = records[p]
        BY <2>3, <2>0 DEF SendInv, DeliveryTypes
      <3>3. ReadRightly(q)
        BY <2>0 DEF SendInv, SendsAccounted, AllParts
      <3>4. "failed" \notin records[q] => arrived[q] = 0
        BY <3>3, <2>0, <2>3 DEF ReadRightly, SendInv, SendsAccounted
      <3>5. \A p \in AllParts : p > q => p # q /\ p >= q
        BY <2>0 DEF AllParts
      <3>6. \A p \in AllParts : p > q => ReadRightly(p)'
        BY <3>5, <3>1, <3>2, <2>0 DEF SendInv, SendsAccounted, ReadRightly
      <3>q. QED
        BY <2>0, <3>1, <3>2, <3>4, <3>6 DEF SendInv, SendsAccounted
    <2>q. QED
      BY <1>2, <2>1, <2>2, <2>3 DEF DeliverPart
  <1>3. CASE CallIsAnswered \/ CallFails
    <2>0. /\ DeliveryTypes' /\ UNCHANGED records /\ delivery.pc = "call"
          /\ q \in AllParts /\ "intent" \in records[q]
          /\ "failed" \notin records[q] => arrived[q] = 0
          /\ \A p \in AllParts : p > q => ReadRightly(p)
      BY <1>3, SendTypes
      DEF SendInv, SendsAccounted, TelNext, DeliverGoesOn, CallIsAnswered, CallFails
    <2>1. /\ arrived' \in {arrived, [arrived EXCEPT ![q] = @ + 1]}
          /\ \E pc \in {"confirmed", "failed", "unknown"} : delivery' = [delivery EXCEPT !.pc = pc]
      BY <1>3 DEF CallIsAnswered, CallFails
    <2>2. /\ delivery'.pc \in {"confirmed", "failed", "unknown"}
          /\ delivery'.part = q /\ delivery'.prior = delivery.prior
      BY <2>1 DEF SendInv, DeliveryTypes
    <2>3. \A p \in AllParts : p # q => arrived'[p] = arrived[p]
      BY <2>1 DEF SendInv, DeliveryTypes
    <2>4. "failed" \notin records[q] => arrived'[q] \in {0, 1}
      BY <2>0, <2>1 DEF SendInv, DeliveryTypes
    <2>5. \A p \in AllParts : p > q => ReadRightly(p)'
      BY <2>0, <2>2 DEF ReadRightly
    <2>q. QED
      BY <2>0, <2>2, <2>3, <2>4, <2>5 DEF SendInv, SendsAccounted
  <1>4. CASE RecordPart
    <2>0. /\ DeliveryTypes' /\ UNCHANGED arrived /\ delivery.pc \in {"confirmed", "failed", "unknown"}
          /\ q \in AllParts /\ \A p \in AllParts : p > q => ReadRightly(p)
      BY <1>4, SendTypes DEF SendInv, SendsAccounted, TelNext, DeliverGoesOn, RecordPart
    <2>1. \A p \in AllParts : /\ records[p] \subseteq records'[p]
                              /\ p # q => records'[p] = records[p]
      BY <1>4 DEF RecordPart, SendInv, DeliveryTypes
    <2>2. CASE delivery.pc = "confirmed"
      <3>1. delivery'.pc = "part" /\ delivery'.part = q + 1 /\ delivery'.prior = delivery.prior
        BY <2>2, <1>4 DEF RecordPart, SendInv, DeliveryTypes
      <3>2. \A p \in AllParts : p >= q + 1 => p > q /\ p # q
        BY <2>0 DEF AllParts
      <3>3. \A p \in AllParts : p >= q + 1 => ReadRightly(p)'
        BY <3>1, <3>2, <2>0, <2>1 DEF ReadRightly
      <3>q. QED
        BY <2>0, <2>1, <3>1, <3>3 DEF SendInv, SendsAccounted
    <2>3. CASE delivery.pc # "confirmed"
      BY <2>3, <2>0, <2>1, <1>4, AttemptEnds DEF RecordPart
    <2>q. QED
      BY <2>2, <2>3
  <1>5. CASE CompleteDelivery \/ DeliveryDies
    <2>0. DeliveryTypes' /\ UNCHANGED records /\ delivery' = NoDelivery
      BY <1>5, SendTypes DEF SendInv, TelNext, DeliverGoesOn, CompleteDelivery, DeliveryDies
    <2>1. CASE UNCHANGED arrived
      BY <2>0, <2>1, AttemptEnds
    <2>2. CASE delivery.pc = "call" /\ arrived' = [arrived EXCEPT ![q] = @ + 1]
      <3>1. q \in AllParts /\ "intent" \in records[q] /\ ("failed" \notin records[q] => arrived[q] = 0)
        BY <2>2 DEF SendInv, SendsAccounted
      <3>2. "failed" \notin records[q] => arrived'[q] \in {0, 1}
        BY <3>1, <2>2 DEF SendInv, DeliveryTypes
      <3>3. \A p \in AllParts : p # q => arrived'[p] = arrived[p]
        BY <2>2 DEF SendInv, DeliveryTypes
      <3>q. QED
        BY <3>1, <3>2, <3>3, <2>0, AttemptEnds
    <2>q. QED
      BY <1>5, <2>1, <2>2 DEF CompleteDelivery, DeliveryDies
  <1>6. CASE UNCHANGED telVars
    BY <1>6, <1>0 DEF telVars
  <1>q. QED
    BY <1>0, <1>1, <1>2, <1>3, <1>4, <1>5, <1>6
    DEF TelNext, DeliverGoesOn, LoseProjection, Press, Reply, LeaseExpires, DecidedElsewhere,
        SettleChannel, PollGoesOn, Fetch, HandleUpdate, HandleThrows, StoreOffset, EndBatch,
        HostDies, deliveryVars

\* deliver stores an intent before a send and reads what is on record before it
\* sends again: whatever answers are lost and wherever the process dies, a second
\* copy of a part follows a recorded refusal of it.
THEOREM NoPartTwice == TelSpec => []NoBlindResend
  <1>1. SendInv => NoBlindResend
    BY DEF SendInv, DeliveryTypes, SendsAccounted, NoBlindResend
  <1>q. QED
    BY <1>1, SendInit, SendNext, PTL DEF TelSpec

-----------------------------------------------------------------------------
(* The bounds of the channel's variables *)

ChatTypes ==
    /\ finished \subseteq {"confirmed", "failed", "unknown"}
    /\ projected \in [AllParts -> BOOLEAN]
    /\ handled \subseteq Updates
    /\ verdict \in Updates \union {Open, Elsewhere} /\ lease \in Hosts \union {Nobody, Ghost}
    /\ Len(settled) <= MaxSettlements /\ trouble \in 0..MaxTrouble
    /\ settled \in Seq({"confirmed", "failed"})

\* The Bot API holds one reply and the presses; what a host stores is one of its updates.
UpdatesFit ==
    /\ \A u, v \in DOMAIN updates : updates[u] = "reply" /\ updates[v] = "reply" => u = v
    /\ Len(updates) <= 2 * MaxPresses
    /\ (\A u \in DOMAIN updates : updates[u] # "reply") => Len(updates) <= MaxPresses
    /\ offset <= Len(updates) + 1
    /\ \A h \in Hosts : poll[h].pc = "store" => poll[h].next \in DOMAIN updates

\* But for the copy whose call was answered, a trouble accounts for each copy of a part.
CopiesCounted ==
    /\ \A p \in AllParts :
         \/ arrived[p] <= trouble
         \/ /\ arrived[p] = trouble + 1
            /\ "confirmed" \in records[p] \/ (delivery.pc = "confirmed" /\ delivery.part = p)
    /\ delivery.pc = "call" => "confirmed" \notin records[delivery.part]

TelInv == PollHandles /\ SendInv /\ ChatTypes /\ UpdatesFit /\ CopiesCounted

LEMMA TelInvInit == TelInit => TelInv
  <1> SUFFICES ASSUME TelInit PROVE TelInv
    OBVIOUS
  <1>1. Len(<<>>) = 0 /\ DOMAIN <<>> = {} /\ <<>> \in Seq({"confirmed", "failed"})
    OBVIOUS
  <1>2. ChatTypes
    BY <1>1, TelegramAssumption DEF TelInit, ChatTypes, MaxSettlements
  <1>3. UpdatesFit
    BY <1>1, TelegramAssumption DEF TelInit, UpdatesFit, Loop
  <1>4. CopiesCounted
    BY DEF TelInit, CopiesCounted, NoDelivery
  <1>q. QED
    BY <1>2, <1>3, <1>4, HandledInit, SendInit DEF TelInv

\* Of the updates all but the one reply are presses.
LEMMA PressesCount ==
    ASSUME TelInv
    PROVE  /\ IsFiniteSet({u \in DOMAIN updates : updates[u] # "reply"})
           /\ Cardinality({u \in DOMAIN updates : updates[u] # "reply"}) \in Nat
           /\ Len(updates) <= Cardinality({u \in DOMAIN updates : updates[u] # "reply"}) + 1
           /\ (\A u \in DOMAIN updates : updates[u] # "reply") =>
                Len(updates) <= Cardinality({u \in DOMAIN updates : updates[u] # "reply"})
  <1> DEFINE P == {u \in DOMAIN updates : updates[u] # "reply"}
  <1>1. DOMAIN updates = 1..Len(updates) /\ Len(updates) \in Nat
    BY DEF TelInv, PollHandles
  <1>2. IsFiniteSet(DOMAIN updates) /\ Cardinality(DOMAIN updates) = Len(updates)
    <2>1. PICK n \in Nat : n = Len(updates)
      BY <1>1
    <2>2. IsFiniteSet(1..n) /\ Cardinality(1..n) = IF 1 > n THEN 0 ELSE n - 1 + 1
      BY FS_Interval
    <2>3. (IF 1 > n THEN 0 ELSE n - 1 + 1) = n
      OBVIOUS
    <2>q. QED
      BY <1>1, <2>1, <2>2, <2>3
  <1>3. IsFiniteSet(P) /\ Cardinality(P) \in Nat
    BY <1>2, FS_Subset, FS_CardinalityType
  <1>4. ASSUME \A u \in DOMAIN updates : updates[u] # "reply" PROVE Len(updates) = Cardinality(P)
    <2>1. P = DOMAIN updates
      BY <1>4
    <2>q. QED
      BY <1>2, <2>1
  <1>5. ASSUME NEW r \in DOMAIN updates, updates[r] = "reply" PROVE Len(updates) = Cardinality(P) + 1
    <2>1. P \union {r} = DOMAIN updates /\ r \notin P
      BY <1>5 DEF TelInv, UpdatesFit
    <2>q. QED
      BY <1>2, <1>3, <2>1, FS_AddElement
  <1>6. Len(updates) <= Cardinality(P) + 1
        /\ ((\A u \in DOMAIN updates : updates[u] # "reply") => Len(updates) <= Cardinality(P))
    <2> HIDE DEF P
    <2>q. QED
      BY <1>1, <1>3, <1>4, <1>5
  <1>q. QED
    BY <1>3, <1>6

LEMMA ChatTypesNext == ASSUME TelInv, TelNext PROVE ChatTypes'
  <1> USE TelegramAssumption DEF deliveryVars, pollVars, MaxSettlements
  <1>0. ChatTypes /\ trouble \in Nat /\ MaxTrouble \in Nat /\ Len(settled) \in Nat
        /\ delivery.pc \in {"idle", "part", "call", "confirmed", "failed", "unknown"}
    BY DEF TelInv, ChatTypes, SendInv, DeliveryTypes
  <1>u. \A u \in DOMAIN updates : u \in Updates
    BY DEF TelInv, PollHandles, UpdatesFit, Updates
  <1>1. CASE UNCHANGED <<finished, projected, handled, verdict, settled>> /\ (trouble' = trouble \/ Trouble)
             /\ lease' \in {lease, Nobody, Ghost}
    BY <1>0, <1>1 DEF ChatTypes, Trouble
  <1>2. CASE CallIsAnswered
    <2>1. projected' \in [AllParts -> BOOLEAN]
      BY <1>0, <1>2 DEF CallIsAnswered, ChatTypes
    <2>q. QED
      BY <1>0, <1>2, <2>1 DEF CallIsAnswered, ChatTypes
  <1>3. CASE RecordPart \/ CompleteDelivery
    BY <1>0, <1>3 DEF RecordPart, CompleteDelivery, ChatTypes
  <1>4. CASE LoseProjection
    BY <1>0, <1>4 DEF LoseProjection, Trouble, ChatTypes
  <1>5. CASE DecidedElsewhere
    BY <1>0, <1>5 DEF DecidedElsewhere, ChatTypes
  <1>6. CASE SettleChannel
    <2>1. settled' \in {Append(settled, "confirmed"), Append(settled, "failed")}
          /\ Len(settled) < MaxSettlements /\ (trouble' = trouble \/ Trouble)
      BY <1>6 DEF SettleChannel
    <2>2. settled' \in Seq({"confirmed", "failed"}) /\ Len(settled') = Len(settled) + 1
      BY <1>0, <2>1 DEF ChatTypes
    <2>q. QED
      BY <1>0, <1>6, <2>1, <2>2 DEF SettleChannel, ChatTypes, Trouble
  <1>7. ASSUME NEW h \in Hosts, Fetch(h) PROVE ChatTypes'
    BY <1>0, <1>7 DEF Fetch, ChatTypes
  <1>8. ASSUME NEW h \in Hosts, HandleUpdate(h) PROVE ChatTypes'
    <2>1. poll[h].next \in Updates /\ handled' = handled \union {poll[h].next}
          /\ (verdict' = verdict \/ verdict' = poll[h].next)
          /\ UNCHANGED <<finished, projected, lease, settled, trouble>>
      BY <1>8, <1>u DEF HandleUpdate
    <2>q. QED
      BY <1>0, <2>1 DEF ChatTypes
  <1>9. ASSUME NEW h \in Hosts, HostDies(h) PROVE ChatTypes'
    BY <1>1, <1>9 DEF HostDies
  <1>q. QED
    BY <1>1, <1>2, <1>3, <1>4, <1>5, <1>6, <1>7, <1>8, <1>9
    DEF TelNext, DeliverGoesOn, Deliver, DeliverPart, CallFails, DeliveryDies, Press, Reply, LeaseExpires,
        PollGoesOn, HandleThrows, StoreOffset, EndBatch

LEMMA UpdatesFitNext == ASSUME TelInv, TelNext, PollHandles' PROVE UpdatesFit'
  <1> USE TelegramAssumption DEF deliveryVars, pollVars
  <1>0. /\ UpdatesFit /\ updates \in Seq({"button", "text", "reply"}) /\ Len(updates) \in Nat
        /\ DOMAIN updates = 1..Len(updates) /\ offset \in Nat /\ poll \in [Hosts -> PollStates]
        /\ MaxPresses \in Nat
    BY DEF TelInv, PollHandles
  <1>1. CASE UNCHANGED <<updates, offset, poll>>
    BY <1>0, <1>1 DEF UpdatesFit
  <1>2. ASSUME NEW kind \in {"button", "text", "reply"}, updates' = Append(updates, kind),
               UNCHANGED <<offset, poll>>, Len(updates) < 2 * MaxPresses,
               kind = "reply" => \A u \in DOMAIN updates : updates[u] # "reply",
               kind # "reply" /\ (\A u \in DOMAIN updates : updates[u] # "reply") => Len(updates) < MaxPresses
        PROVE  UpdatesFit'
    <2>1. /\ Len(updates') = Len(updates) + 1 /\ DOMAIN updates' = 1..Len(updates) + 1
          /\ updates'[Len(updates) + 1] = kind
          /\ \A u \in 1..Len(updates) : updates'[u] = updates[u]
      BY <1>0, <1>2
    <2>2. \A u, v \in DOMAIN updates' : updates'[u] = "reply" /\ updates'[v] = "reply" => u = v
      BY <1>0, <1>2, <2>1 DEF UpdatesFit
    <2>3. (\A u \in DOMAIN updates' : updates'[u] # "reply") => Len(updates') <= MaxPresses
      <3> SUFFICES ASSUME \A u \in DOMAIN updates' : updates'[u] # "reply" PROVE Len(updates') <= MaxPresses
        OBVIOUS
      <3>1. Len(updates) + 1 \in DOMAIN updates' /\ \A u \in 1..Len(updates) : u \in DOMAIN updates'
        BY <1>0, <2>1
      <3>2. kind # "reply" /\ \A u \in 1..Len(updates) : updates[u] # "reply"
        BY <3>1, <2>1
      <3>q. QED
        BY <1>0, <1>2, <2>1, <3>2
    <2>4. \A h \in Hosts : poll'[h].pc = "store" => poll'[h].next \in DOMAIN updates'
      BY <1>0, <1>2, <2>1 DEF UpdatesFit
    <2>q. QED
      BY <1>0, <1>2, <2>1, <2>2, <2>3, <2>4 DEF UpdatesFit
  <1>3. ASSUME NEW kind \in {"button", "text"}, Press(kind) PROVE UpdatesFit'
    <2>1. /\ Cardinality({u \in DOMAIN updates : updates[u] # "reply"}) < MaxPresses
          /\ updates' = Append(updates, kind) /\ UNCHANGED <<offset, poll>>
      BY <1>3 DEF Press
    <2>2. Len(updates) < 2 * MaxPresses
      BY <1>0, <2>1, PressesCount
    <2>3. (\A u \in DOMAIN updates : updates[u] # "reply") => Len(updates) < MaxPresses
      BY <1>0, <2>1, PressesCount
    <2>q. QED
      BY <1>2, <2>1, <2>2, <2>3
  <1>4. CASE Reply
    BY <1>2, <1>4 DEF Reply
  <1>5. ASSUME NEW h \in Hosts, NEW st \in PollStates, poll' = [poll EXCEPT ![h] = st], updates' = updates,
               offset' \in Nat, offset' <= Len(updates) + 1, st.pc = "store" => st.next \in DOMAIN updates
        PROVE  UpdatesFit'
    <2>1. \A i \in Hosts : poll'[i] = IF i = h THEN st ELSE poll[i]
      BY <1>0, <1>5
    <2>q. QED
      BY <1>0, <1>5, <2>1 DEF UpdatesFit
  <1>6. ASSUME NEW h \in Hosts, PollGoesOn(h) \/ HostDies(h) PROVE UpdatesFit'
    <2>0. poll[h] \in PollStates /\ Loop \in PollStates /\ Loop.pc = "loop" /\ offset <= Len(updates) + 1
      BY <1>0 DEF PollStates, Loop, UpdatesFit
    <2>1. CASE Fetch(h)
      <3>1. PICK st \in PollStates : st = [pc |-> "handle", next |-> offset]
        BY <1>0 DEF PollStates
      <3>q. QED
        BY <1>0, <1>5, <2>0, <2>1, <3>1 DEF Fetch
    <2>2. CASE HandleUpdate(h)
      <3>1. PICK st \in PollStates : st = [poll[h] EXCEPT !.pc = "store"]
        BY <2>0 DEF PollStates
      <3>2. st.next \in DOMAIN updates
        BY <2>0, <2>2, <3>1 DEF HandleUpdate, PollStates
      <3>3. poll' = [poll EXCEPT ![h] = st] /\ UNCHANGED <<updates, offset>>
        BY <2>2, <3>1 DEF HandleUpdate
      <3>q. QED
        BY <1>0, <1>5, <2>0, <3>2, <3>3
    <2>3. CASE HandleThrows(h) \/ EndBatch(h) \/ HostDies(h)
      <3>1. poll' = [poll EXCEPT ![h] = Loop] /\ UNCHANGED <<updates, offset>>
        BY <2>3 DEF HandleThrows, EndBatch, HostDies
      <3>q. QED
        BY <1>0, <1>5, <2>0, <3>1
    <2>4. CASE StoreOffset(h)
      <3>n. PICK n \in Nat : n = poll[h].next
        BY <2>0 DEF PollStates
      <3>r. [pc |-> "handle", next |-> n + 1] \in PollStates
        BY DEF PollStates
      <3>s. PICK st \in PollStates : st = [pc |-> "handle", next |-> n + 1]
        BY <3>r
      <3>1. n \in DOMAIN updates /\ st.pc = "handle"
        BY <2>4, <3>n, <3>s DEF StoreOffset, TelInv, UpdatesFit
      <3>2. poll' = [poll EXCEPT ![h] = st] /\ updates' = updates /\ offset' \in {offset, n + 1}
        BY <2>4, <3>n, <3>s DEF StoreOffset
      <3>3. offset' \in Nat /\ offset' <= Len(updates) + 1
        BY <1>0, <2>0, <3>1, <3>2
      <3>q. QED
        BY <1>5, <3>1, <3>2, <3>3
    <2>q. QED
      BY <1>6, <2>1, <2>2, <2>3, <2>4 DEF PollGoesOn
  <1>q. QED
    BY <1>1, <1>3, <1>4, <1>6
    DEF TelNext, DeliverGoesOn, Deliver, DeliverPart, CallIsAnswered, RecordPart, CompleteDelivery,
        CallFails, DeliveryDies, LoseProjection, LeaseExpires, DecidedElsewhere, SettleChannel

LEMMA CopiesNext == ASSUME TelInv, TelNext PROVE CopiesCounted'
  <1> DEFINE q == delivery.part
  <1>0. /\ CopiesCounted /\ trouble \in Nat /\ \A p \in AllParts : arrived[p] \in Nat
        /\ arrived \in [AllParts -> Nat] /\ records \in [AllParts -> SUBSET PartRecords]
    BY DEF TelInv, ChatTypes, SendInv, DeliveryTypes
  <1>t. trouble' = trouble \/ trouble' = trouble + 1
    BY DEF TelNext, DeliverGoesOn, Deliver, DeliverPart, CallIsAnswered, RecordPart, CompleteDelivery, CallFails,
           DeliveryDies, LoseProjection, Press, Reply, LeaseExpires, DecidedElsewhere, SettleChannel, PollGoesOn,
           Fetch, HandleUpdate, HandleThrows, StoreOffset, EndBatch, HostDies, Trouble
  \* A step with no call under way that sends nothing.
  <1>1. ASSUME arrived' = arrived, \A p \in AllParts : records[p] \subseteq records'[p],
               delivery'.pc = "call" => "confirmed" \notin records'[delivery'.part],
               \/ delivery.pc # "confirmed"
               \/ trouble' = trouble + 1
               \/ delivery' = delivery
               \/ delivery.part \in AllParts => "confirmed" \in records'[delivery.part]
        PROVE  CopiesCounted'
    BY <1>0, <1>1, <1>t DEF CopiesCounted
  <1>2. CASE UNCHANGED <<records, arrived, delivery>>
    BY <1>0, <1>1, <1>2 DEF CopiesCounted
  <1>3. CASE Deliver \/ CompleteDelivery
    BY <1>1, <1>3 DEF Deliver, CompleteDelivery, NoDelivery
  <1>4. CASE DeliverPart
    <2>0. arrived' = arrived /\ delivery.pc = "part" /\ q \in AllParts
      BY <1>4 DEF DeliverPart
    <2>1. \A p \in AllParts : records[p] \subseteq records'[p]
      BY <1>0, <1>4 DEF DeliverPart
    <2>2. delivery'.pc = "call" => "confirmed" \notin records'[delivery'.part]
      <3> SUFFICES ASSUME delivery'.pc = "call" PROVE "confirmed" \notin records'[delivery'.part]
        OBVIOUS
      <3>1. /\ q \notin delivery.prior /\ records' = [records EXCEPT ![q] = @ \union {"intent"}]
            /\ delivery'.part = q
        BY <1>4, <2>0 DEF DeliverPart, NoDelivery, TelInv, SendInv, DeliveryTypes
      <3>2. ReadRightly(q)
        BY <2>0 DEF TelInv, SendInv, SendsAccounted, AllParts
      <3>3. records'[q] = records[q] \union {"intent"}
        BY <1>0, <2>0, <3>1
      <3>q. QED
        BY <3>1, <3>2, <3>3 DEF ReadRightly
    <2>q. QED
      BY <1>1, <2>0, <2>1, <2>2
  <1>5. CASE CallIsAnswered
    <2>0. /\ delivery.pc = "call" /\ q \in AllParts /\ "confirmed" \notin records[q]
          /\ records' = records /\ trouble' = trouble
      BY <1>0, <1>5 DEF CallIsAnswered, CopiesCounted, TelInv, SendInv, SendsAccounted
    <2>1. /\ arrived'[q] = arrived[q] + 1
          /\ \A p \in AllParts : p # q => arrived'[p] = arrived[p]
          /\ delivery'.pc = "confirmed" /\ delivery'.part = q
      BY <1>0, <1>5, <2>0 DEF CallIsAnswered, TelInv, SendInv, DeliveryTypes
    <2>2. arrived[q] <= trouble
      BY <1>0, <2>0 DEF CopiesCounted
    <2>q. QED
      BY <1>0, <2>0, <2>1, <2>2 DEF CopiesCounted
  <1>6. CASE CallFails
    <2>0. /\ delivery.pc = "call" /\ q \in AllParts /\ "confirmed" \notin records[q]
          /\ records' = records /\ trouble' = trouble + 1
      BY <1>0, <1>6 DEF CallFails, Trouble, CopiesCounted, TelInv, SendInv, SendsAccounted
    <2>1. /\ arrived'[q] \in {arrived[q], arrived[q] + 1}
          /\ \A p \in AllParts : p # q => arrived'[p] = arrived[p]
          /\ delivery'.pc \in {"failed", "unknown"}
      BY <1>0, <1>6, <2>0 DEF CallFails, TelInv, SendInv, DeliveryTypes
    <2>2. arrived[q] <= trouble
      BY <1>0, <2>0 DEF CopiesCounted
    <2>q. QED
      BY <1>0, <2>0, <2>1, <2>2 DEF CopiesCounted
  <1>7. CASE RecordPart
    <2>1. /\ arrived' = arrived /\ delivery.pc \in {"confirmed", "failed", "unknown"}
          /\ records' = [records EXCEPT ![q] = @ \union {delivery.pc}]
          /\ delivery'.pc \in {"part", "idle"}
      <3>1. delivery' = NoDelivery \/ delivery' = [delivery EXCEPT !.pc = "part", !.part = @ + 1]
        BY <1>7 DEF RecordPart
      <3>2. NoDelivery.pc = "idle" /\ [delivery EXCEPT !.pc = "part", !.part = @ + 1].pc = "part"
        BY DEF NoDelivery, TelInv, SendInv, DeliveryTypes
      <3>q. QED
        BY <1>7, <3>1, <3>2 DEF RecordPart
    <2>2. /\ \A p \in AllParts : records[p] \subseteq records'[p]
          /\ q \in AllParts => delivery.pc \in records'[q]
      BY <1>0, <2>1
    <2>q. QED
      BY <1>1, <2>1, <2>2
  <1>8. CASE DeliveryDies
    <2>0. /\ records' = records /\ trouble' = trouble + 1 /\ delivery'.pc = "idle"
      BY <1>8 DEF DeliveryDies, Trouble, NoDelivery
    <2>1. CASE arrived' = arrived
      BY <1>1, <2>0, <2>1
    <2>2. CASE delivery.pc = "call" /\ arrived' = [arrived EXCEPT ![q] = @ + 1]
      <3>0. q \in AllParts /\ "confirmed" \notin records[q]
        BY <1>0, <2>2 DEF CopiesCounted, TelInv, SendInv, SendsAccounted
      <3>1. arrived'[q] = arrived[q] + 1 /\ \A p \in AllParts : p # q => arrived'[p] = arrived[p]
        BY <1>0, <2>2, <3>0
      <3>2. arrived[q] <= trouble
        BY <1>0, <2>2, <3>0 DEF CopiesCounted
      <3>q. QED
        BY <1>0, <2>0, <2>2, <3>0, <3>1, <3>2 DEF CopiesCounted
    <2>q. QED
      BY <1>8, <2>1, <2>2 DEF DeliveryDies
  <1>q. QED
    BY <1>2, <1>3, <1>4, <1>5, <1>6, <1>7, <1>8
    DEF TelNext, DeliverGoesOn, LoseProjection, Press, Reply, LeaseExpires, DecidedElsewhere,
        SettleChannel, PollGoesOn, Fetch, HandleUpdate, HandleThrows, StoreOffset, EndBatch,
        HostDies, deliveryVars

LEMMA TelInvNext == TelInv /\ [TelNext]_telVars => TelInv'
  <1> SUFFICES ASSUME TelInv, [TelNext]_telVars PROVE TelInv'
    OBVIOUS
  <1>1. PollHandles' /\ SendInv'
    BY HandledNext, SendNext DEF TelInv
  <1>2. CASE TelNext
    BY <1>1, <1>2, ChatTypesNext, UpdatesFitNext, CopiesNext DEF TelInv
  <1>3. CASE UNCHANGED telVars
    BY <1>1, <1>3 DEF telVars, TelInv, ChatTypes, UpdatesFit, CopiesCounted
  <1>q. QED
    BY <1>2, <1>3

LEMMA TelTypes == ASSUME TelInv PROVE TelTypeOK
  <1>0. /\ MaxPresses \in Nat /\ MaxTrouble \in Nat /\ trouble \in 0..MaxTrouble
        /\ \A p \in AllParts : arrived[p] \in Nat
    BY TelegramAssumption DEF TelInv, ChatTypes, SendInv, DeliveryTypes
  <1>1. \A p \in AllParts : arrived[p] \in 0..MaxTrouble + 1
    <2>1. \A p \in AllParts : arrived[p] <= trouble + 1
      BY <1>0 DEF TelInv, CopiesCounted
    <2>q. QED
      BY <1>0, <2>1
  <1>2. Len(updates) \in 0..2 * MaxPresses /\ offset \in 1..2 * MaxPresses + 1
    BY <1>0 DEF TelInv, UpdatesFit, PollHandles
  <1>3. /\ records \in [AllParts -> SUBSET {"intent", "confirmed", "failed", "unknown"}]
        /\ delivery.pc \in {"idle", "part", "call", "confirmed", "failed", "unknown"}
    BY DEF TelInv, SendInv, DeliveryTypes, PartRecords
  <1>4. ChatTypes
    BY DEF TelInv
  <1>5. projected \in [AllParts -> BOOLEAN] /\ finished \subseteq {"confirmed", "failed", "unknown"}
    BY <1>4, Zenon DEF ChatTypes
  <1>6. handled \subseteq Updates /\ verdict \in Updates \union {Open, Elsewhere} /\ lease \in Hosts \union {Nobody, Ghost}
    BY <1>4, Zenon DEF ChatTypes
  <1>7. Len(settled) <= MaxSettlements /\ trouble \in 0..MaxTrouble
    BY <1>4, Zenon DEF ChatTypes
  <1>q. QED
    BY <1>1, <1>2, <1>3, <1>5, <1>6, <1>7, Zenon DEF TelTypeOK

\* The variables of TelegramDecisionChannel keep their types: mishaps bound the copies of
\* a part, and presses the updates, the offset and the answers.
THEOREM TelTypeCorrect == TelSpec => []TelTypeOK
  BY TelInvInit, TelInvNext, TelTypes, PTL DEF TelSpec
=============================================================================
