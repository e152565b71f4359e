------------------------ MODULE HostOwnershipProofs -------------------------
(* Proofs about HostOwnership, for any hosts, starts and agent processes. *)
EXTENDS HostOwnership, TLAPS

\* Between the taking of the process lock and its release.
Holding == {"lease", "recheck", "write", "owner", "starting", "running", "release", "releaseLease"}

\* A host between the two holds the lock, which has one holder.
LockIsHeld == \A h \in HostIds : proc[h].pc \in Holding => lock = h

\* The lease is its owner's own, also of a start that has failed as owner.
LeaseIsOwn ==
    \A h \in HostIds :
        Owns(h) \/ (HostAt(h, "failed") /\ lock = h) => lease.nonce = proc[h].nonce

\* The health file is fresh only beside the fresh lease of the same start.
HealthHasLease == health.fresh => lease.fresh /\ lease.nonce = health.nonce

\* Nobody writes or gives back the lease beside a fresh health file.
HealthIsOld == \A h \in HostIds : proc[h].pc \in {"write", "releaseLease"} => ~health.fresh

\* Every process a host knows of has been spawned.
ChildrenSpawned == \A h \in HostIds : proc[h].pids \subseteq 1..spawned

Agreement == LockIsHeld /\ LeaseIsOwn /\ HealthHasLease /\ HealthIsOld

HostInv == HostTypeOK /\ ChildrenSpawned /\ Agreement

-----------------------------------------------------------------------------
(* The invariant is inductive *)

LEMMA HostInvInit == ASSUME HostInit PROVE HostInv
  BY HostAssumption
     DEF HostInit, HostInv, HostTypeOK, ChildrenSpawned, Agreement, LockIsHeld, LeaseIsOwn,
         HealthHasLease, HealthIsOld, Off, NoLease, Pcs, Torn, Holding, Owns, HostAt

\* What a host remembers.
Memory == [pc : Pcs, nonce : 0..MaxStarts, pids : SUBSET (1..MaxChildren), stopping : BOOLEAN]

\* The lease file between its creation and its first write.
TornLease == [nonce |-> Torn, fresh |-> TRUE]

\* A started host has its nonce and the memory of one that is off.
LEMMA StartedHost ==
    ASSUME NEW host \in Memory, NEW n \in 0..MaxStarts
    PROVE  LET started == [host EXCEPT !.pc = "lock", !.nonce = n]
           IN  started \in Memory /\ started.pids = host.pids
  BY DEF Memory, Pcs

\* Hosts remember nothing at the start, and one that moves on keeps its memory.
LEMMA MemoryTypes ==
    ASSUME HostTypeOK, NEW h \in HostIds
    PROVE  /\ Off \in Memory
           /\ \A host \in Memory : [proc EXCEPT ![h] = host] \in [HostIds -> Memory]
           /\ \A pc \in Pcs : Goto(h, pc) =>
                 proc' \in [HostIds -> Memory] /\ \A k \in HostIds : proc'[k].pids = proc[k].pids
           /\ proc[h] \in Memory
  <1>1. Off \in Memory
    BY HostAssumption DEF Off, Memory, Pcs
  <1>2. proc \in [HostIds -> Memory]
    BY DEF HostTypeOK, Memory
  <1>3. ASSUME NEW host \in Memory PROVE [proc EXCEPT ![h] = host] \in [HostIds -> Memory]
    BY <1>2
  <1>4. ASSUME NEW pc \in Pcs, Goto(h, pc)
        PROVE  proc' \in [HostIds -> Memory] /\ \A k \in HostIds : proc'[k].pids = proc[k].pids
    <2>1. [proc[h] EXCEPT !.pc = pc] \in Memory /\ [proc[h] EXCEPT !.pc = pc].pids = proc[h].pids
      BY <1>2 DEF Memory
    <2>q. QED
      BY <1>2, <1>4, <2>1 DEF Goto
  <1>q. QED
    BY <1>1, <1>2, <1>3, <1>4

\* A host that turns to another task, or that forgets its children.
LEMMA HostTurns ==
    ASSUME HostTypeOK, NEW h \in HostIds, NEW pc \in Pcs, NEW b \in BOOLEAN,
           proc' = [proc EXCEPT ![h].pc = pc, ![h].stopping = b]
    PROVE  proc' \in [HostIds -> Memory] /\ \A k \in HostIds : proc'[k].pids = proc[k].pids
  <1>1. proc \in [HostIds -> Memory]
    BY DEF HostTypeOK, Memory
  <1>2. /\ [proc[h] EXCEPT !.pc = pc, !.stopping = b] \in Memory
        /\ [proc[h] EXCEPT !.pc = pc, !.stopping = b].pids = proc[h].pids
    BY <1>1 DEF Memory
  <1>3. proc' = [proc EXCEPT ![h] = [proc[h] EXCEPT !.pc = pc, !.stopping = b]]
    OBVIOUS
  <1>q. QED
    BY <1>1, <1>2, <1>3

LEMMA HostForgets ==
    ASSUME HostTypeOK, NEW h \in HostIds, NEW pc \in Pcs,
           proc' = [proc EXCEPT ![h].pc = pc, ![h].pids = {}]
    PROVE  proc' \in [HostIds -> Memory] /\ \A k \in HostIds : proc'[k].pids \subseteq proc[k].pids
  <1>1. proc \in [HostIds -> Memory]
    BY DEF HostTypeOK, Memory
  <1>2. /\ [proc[h] EXCEPT !.pc = pc, !.pids = {}] \in Memory
        /\ [proc[h] EXCEPT !.pc = pc, !.pids = {}].pids = {}
    BY <1>1 DEF Memory
  <1>3. proc' = [proc EXCEPT ![h] = [proc[h] EXCEPT !.pc = pc, !.pids = {}]]
    OBVIOUS
  <1>q. QED
    BY <1>1, <1>2, <1>3

\* No step leaves a variable outside its type.
LEMMA TypeStep == ASSUME HostTypeOK, ChildrenSpawned, [HostNext]_hostVars
                  PROVE  HostTypeOK' /\ ChildrenSpawned'
  <1> USE HostAssumption DEF HostTypeOK, ChildrenSpawned, Goto, Files, Kids, Pcs, Torn
  <1>1. ASSUME NEW h \in HostIds, HostStep(h) PROVE HostTypeOK' /\ ChildrenSpawned'
    <2>1. CASE StartHost(h)
      <3>1. starts' \in 0..MaxStarts /\ starts' = starts + 1
        BY <2>1 DEF StartHost
      <3>2. Off \in Memory /\ Off.pids = {}
        BY MemoryTypes DEF Off
      <3>3. /\ [Off EXCEPT !.pc = "lock", !.nonce = starts'] \in Memory
            /\ [Off EXCEPT !.pc = "lock", !.nonce = starts'].pids = {}
        BY <3>1, <3>2, StartedHost
      <3>4. proc' \in [HostIds -> Memory]
        BY <2>1, <3>3, MemoryTypes DEF StartHost
      <3>5. \A k \in HostIds : proc'[k].pids \subseteq proc[k].pids
        BY <2>1, <3>3 DEF StartHost
      <3>q. QED
        BY <2>1, <3>1, <3>4, <3>5 DEF StartHost, Memory
    <2>2. CASE AcquireProcessLock(h)
      BY <2>2 DEF AcquireProcessLock, Refused, LockFree
    <2>3. CASE AcquireLease(h)
      <3>1. lease' \in {lease, TornLease} /\ lock' \in {lock, NoHost}
        BY <2>3 DEF AcquireLease, Refused, TornLease
      <3>2. PICK pc \in Pcs : proc' = [proc EXCEPT ![h].pc = pc]
        BY <2>3 DEF AcquireLease, Refused
      <3>3. UNCHANGED <<health, Kids, starts>>
        BY <2>3 DEF AcquireLease, Refused
      <3>4. proc' \in [HostIds -> Memory] /\ \A k \in HostIds : proc'[k].pids = proc[k].pids
        BY <3>2, MemoryTypes
      <3>5. TornLease \in [nonce : Torn..MaxStarts, fresh : BOOLEAN]
        BY DEF TornLease
      <3>6. lock' \in HostIds \cup {NoHost}
        BY <3>1
      <3>q. QED
        BY <3>1, <3>3, <3>4, <3>5, <3>6 DEF Memory
    <2>4. CASE Recheck(h)
      BY <2>4 DEF Recheck, Refused
    <2>5. CASE TakeLease(h)
      BY <2>5 DEF TakeLease, OwnLease
    <2>6. CASE ReapOrphans(h)
      BY <2>6 DEF ReapOrphans
    <2>7. CASE Refresh(h)
      <3>1. CASE lease.nonce = proc[h].nonce
        <4>1. proc' = [proc EXCEPT ![h].pc = "running"] /\ UNCHANGED <<lock, Kids, starts>>
          BY <2>7, <3>1 DEF Refresh
        <4>2. proc' \in [HostIds -> Memory] /\ \A k \in HostIds : proc'[k].pids = proc[k].pids
          BY <4>1, MemoryTypes
        <4>3. lease' = OwnLease(h) /\ health' = OwnLease(h)
          BY <2>7, <3>1 DEF Refresh
        <4>4. OwnLease(h) \in [nonce : 0..MaxStarts, fresh : BOOLEAN]
          BY DEF OwnLease
        <4>q. QED
          BY <4>1, <4>2, <4>3, <4>4 DEF Memory
      <3>2. CASE lease.nonce # proc[h].nonce
        <4>1. PICK pc \in Pcs, b \in BOOLEAN :
                  proc' = [proc EXCEPT ![h].pc = pc, ![h].stopping = b]
          BY <2>7, <3>2 DEF Refresh, HostAt
        <4>2. proc' \in [HostIds -> Memory] /\ \A k \in HostIds : proc'[k].pids = proc[k].pids
          BY <4>1, HostTurns
        <4>3. UNCHANGED <<lock, lease, health, Kids, starts>>
          BY <2>7, <3>2 DEF Refresh
        <4>q. QED
          BY <4>2, <4>3 DEF Memory
      <3>q. QED
        BY <3>1, <3>2
    <2>8. CASE StartFails(h)
      BY <2>8 DEF StartFails
    <2>9. CASE FailedStartEnds(h)
      <3>1. PICK pc \in {"release", "off"} : proc' = [proc EXCEPT ![h].pc = pc, ![h].pids = {}]
        BY <2>9 DEF FailedStartEnds
      <3>2. pc \in Pcs
        OBVIOUS
      <3>3. proc' \in [HostIds -> Memory] /\ \A k \in HostIds : proc'[k].pids \subseteq proc[k].pids
        BY <3>1, <3>2, HostForgets
      <3>4. living' \subseteq living /\ registry' = {} /\ UNCHANGED <<lock, lease, health, spawned, starts>>
        BY <2>9 DEF FailedStartEnds, KillAll
      <3>q. QED
        BY <3>3, <3>4 DEF Memory
    <2>10. CASE Stop(h)
      <3>1. proc' = [proc EXCEPT ![h].pc = "release", ![h].stopping = TRUE] /\ "release" \in Pcs
            /\ UNCHANGED <<lock, lease, health, Kids, starts>>
        BY <2>10 DEF Stop
      <3>2. proc' \in [HostIds -> Memory] /\ \A k \in HostIds : proc'[k].pids = proc[k].pids
        BY <3>1, HostTurns
      <3>q. QED
        BY <3>1, <3>2 DEF Memory
    <2>11. CASE ReleaseHealth(h)
      BY <2>11 DEF ReleaseHealth, NoLease
    <2>12. CASE ReleaseLease(h)
      BY <2>12 DEF ReleaseLease, NoLease
    <2>13. CASE DrainEnds(h)
      <3>1. proc' \in [HostIds -> Memory]
        BY <2>13, MemoryTypes DEF DrainEnds
      <3>2. \A k \in HostIds : proc'[k].pids \subseteq proc[k].pids
        BY <2>13 DEF DrainEnds, Off
      <3>q. QED
        BY <2>13, <3>1, <3>2 DEF DrainEnds, KillAll, Memory
    <2>14. CASE SpawnAgent(h)
      <3>1. spawned' = spawned + 1 /\ spawned' \in 1..MaxChildren
        BY <2>14 DEF SpawnAgent
      <3>2. 1..spawned \subseteq 1..spawned' /\ spawned' \in 1..spawned'
        BY <3>1
      <3>3. /\ proc' = [proc EXCEPT ![h].pids = proc[h].pids \cup {spawned'}]
            /\ living' = living \cup {spawned'} /\ registry' = proc'[h].pids
            /\ UNCHANGED <<lock, lease, health, starts>>
        BY <2>14 DEF SpawnAgent
      <3>4. proc'[h].pids \subseteq 1..spawned' /\ proc'[h].pids \subseteq 1..MaxChildren
        BY <3>1, <3>2, <3>3
      <3>5. proc' \in [HostIds -> [pc : Pcs, nonce : 0..MaxStarts,
                                   pids : SUBSET (1..MaxChildren), stopping : BOOLEAN]]
        BY <3>1, <3>3
      <3>6. ChildrenSpawned'
        BY <3>2, <3>3, <3>4
      <3>q. QED
        BY <3>1, <3>2, <3>3, <3>4, <3>5, <3>6
    <2>15. CASE Unregister(h)
      BY <2>15 DEF Unregister
    <2>16. CASE HostCrashes(h)
      BY <2>16 DEF HostCrashes, Off
    <2>q. QED
      BY <1>1, <2>1, <2>2, <2>3, <2>4, <2>5, <2>6, <2>7, <2>8, <2>9, <2>10, <2>11, <2>12, <2>13, <2>14, <2>15, <2>16 DEF HostStep
  <1>2. ASSUME NEW c \in 1..MaxChildren, ChildExits(c) PROVE HostTypeOK' /\ ChildrenSpawned'
    BY <1>2 DEF ChildExits
  <1>3. CASE LeaseAges
    BY <1>3 DEF LeaseAges
  <1>4. CASE UNCHANGED hostVars
    BY <1>4 DEF hostVars
  <1>q. QED
    BY <1>1, <1>2, <1>3, <1>4 DEF HostNext

\* No step breaks the agreement of lock, lease and health file.
LEMMA AgreementStep == ASSUME HostInv, [HostNext]_hostVars PROVE Agreement'
  <1> USE HostAssumption
  <1> USE DEF HostInv, HostTypeOK, Agreement, LockIsHeld, LeaseIsOwn, HealthHasLease, HealthIsOld,
              Goto, HostAt, Owns, Holding, Files, Kids
  <1>1. ASSUME NEW h \in HostIds, HostStep(h) PROVE Agreement'
    <2>1. CASE StartHost(h)
      BY <2>1 DEF StartHost, Off
    <2>2. CASE AcquireProcessLock(h)
      BY <2>2 DEF AcquireProcessLock, Refused, LockFree
    <2>3. CASE AcquireLease(h)
      BY <2>3 DEF AcquireLease, Refused, ClassifyLease
    <2>4. CASE Recheck(h)
      BY <2>4 DEF Recheck, Refused, ClassifyLease
    <2>5. CASE TakeLease(h)
      BY <2>5 DEF TakeLease, OwnLease
    <2>6. CASE ReapOrphans(h)
      BY <2>6 DEF ReapOrphans
    <2>7. CASE Refresh(h)
      BY <2>7 DEF Refresh, OwnLease
    <2>8. CASE StartFails(h)
      BY <2>8 DEF StartFails
    <2>9. CASE FailedStartEnds(h)
      BY <2>9 DEF FailedStartEnds, KillAll
    <2>10. CASE Stop(h)
      BY <2>10 DEF Stop
    <2>11. CASE ReleaseHealth(h)
      BY <2>11 DEF ReleaseHealth, NoLease
    <2>12. CASE ReleaseLease(h)
      BY <2>12 DEF ReleaseLease, NoLease
    <2>13. CASE DrainEnds(h)
      BY <2>13 DEF DrainEnds, KillAll, Off
    <2>14. CASE SpawnAgent(h)
      BY <2>14 DEF SpawnAgent
    <2>15. CASE Unregister(h)
      BY <2>15 DEF Unregister
    <2>16. CASE HostCrashes(h)
      BY <2>16 DEF HostCrashes, Off
    <2>q. QED
      BY <1>1, <2>1, <2>2, <2>3, <2>4, <2>5, <2>6, <2>7, <2>8, <2>9, <2>10, <2>11, <2>12, <2>13, <2>14, <2>15, <2>16 DEF HostStep
  <1>2. ASSUME NEW c \in 1..MaxChildren, ChildExits(c) PROVE Agreement'
    BY <1>2 DEF ChildExits
  <1>3. CASE LeaseAges
    BY <1>3 DEF LeaseAges
  <1>4. CASE UNCHANGED hostVars
    BY <1>4 DEF hostVars
  <1>q. QED
    BY <1>1, <1>2, <1>3, <1>4 DEF HostNext

LEMMA HostInvStep == HostInv /\ [HostNext]_hostVars => HostInv'
  BY TypeStep, AgreementStep DEF HostInv

\* The invariant of the hosts: whatever starts, stops, kills and suspensions come
\* between the steps of acquire and release, the lock, the lease and the health
\* file belong to one start.
THEOREM HostInvariance == HostSpec => []HostInv
  BY HostInvInit, HostInvStep, PTL DEF HostSpec

\* One host at most is between acquire and the end of release, the lease file is
\* its own all that time, and no fresh health file is left without a lease
\* (acquire and release of WorkflowHostOwnership).
THEOREM OneOwner == HostSpec => []OneHostOwner
  <1>1. HostInv => OneHostOwner
    BY DEF HostInv, OneHostOwner, Agreement, LockIsHeld, LeaseIsOwn, HealthHasLease, Owns, Holding, NoLease
  <1>q. QED
    BY <1>1, HostInvariance, PTL
=============================================================================
