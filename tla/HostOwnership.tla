---------------------------- MODULE HostOwnership -----------------------------
(***************************************************************************)
(* Who owns a project: workflow hosts are started, stopped and killed, and  *)
(* agree through a SQLite lock the operating system frees with its process, *)
(* a lease file with a heartbeat, a health file and a registry of the agent *)
(* processes they spawn.  Every start of a process has a nonce of its own;  *)
(* a lease of an earlier start is of a dead process, whether its pid is     *)
(* free, reused or of another boot.  Crashes may hit between any two steps. *)
(***************************************************************************)
EXTENDS Integers, FiniteSets

CONSTANTS HostIds, NoHost, MaxStarts, MaxChildren

ASSUME HostAssumption ==
    NoHost \notin HostIds /\ MaxStarts \in Nat /\ MaxChildren \in Nat

VARIABLES
    proc,      \* each host: pc, nonce, registered child pids, whether it is stopping
    lock,      \* who has the exclusive transaction of host.owner.sqlite
    lease,     \* host.lease.json: nonce (0: no file, Torn: empty file), heartbeat fresh
    health,    \* host.health.json: the same, without Torn
    registry,  \* host.children.json: pids
    living,    \* the child processes alive
    starts, spawned

hostVars == <<proc, lock, lease, health, registry, living, starts, spawned>>

Torn == -1
Off == [pc |-> "off", nonce |-> 0, pids |-> {}, stopping |-> FALSE]
NoLease == [nonce |-> 0, fresh |-> FALSE]
OwnLease(h) == [nonce |-> proc[h].nonce, fresh |-> TRUE]

HostAt(h, pc) == proc[h].pc = pc
Goto(h, pc) == proc' = [proc EXCEPT ![h].pc = pc]
Files == <<lease, health>>
Kids == <<registry, living, spawned>>

StartHost(h) ==
    /\ HostAt(h, "off") /\ starts < MaxStarts /\ starts' = starts + 1
    /\ proc' = [proc EXCEPT ![h] = [Off EXCEPT !.pc = "lock", !.nonce = starts']]
    /\ UNCHANGED <<lock, Files, Kids>>

\* Refused: acquire throws; the lock is given back if it was taken.
Refused(h) ==
    /\ Goto(h, "failed") /\ lock' = IF lock = h THEN NoHost ELSE lock
    /\ UNCHANGED <<Files, Kids, starts>>

\* Variant: a lock that nobody holds back.
LockAlwaysFree == TRUE

LockFree == lock = NoHost

AcquireProcessLock(h) ==
    /\ HostAt(h, "lock")
    /\ \/ /\ LockFree /\ lock' = h /\ Goto(h, "lease")
          /\ UNCHANGED <<Files, Kids, starts>>
       \/ ~LockFree /\ Refused(h)

Alive(nonce) == \E h \in HostIds : proc[h].pc # "off" /\ proc[h].nonce = nonce

ClassifyLease ==
    IF lease.nonce = Torn THEN "inconsistent"
    ELSE IF Alive(lease.nonce) THEN IF lease.fresh THEN "live" ELSE "inconsistent"
    ELSE IF lease.fresh THEN "inconsistent" ELSE "stale"

\* AcquireLease: the file is created and written, or read and, if stale, replaced. A
\* fresh health file without a lease is refused (the orphan health check).
AcquireLease(h) ==
    /\ HostAt(h, "lease")
    /\ \/ /\ lease = NoLease /\ ~health.fresh /\ lease' = [nonce |-> Torn, fresh |-> TRUE]
          /\ Goto(h, "write")
          /\ UNCHANGED <<lock, health, Kids, starts>>
       \/ /\ lease # NoLease /\ ClassifyLease = "stale" /\ Goto(h, "recheck")
          /\ UNCHANGED <<lock, Files, Kids, starts>>
       \/ /\ IF lease = NoLease THEN health.fresh ELSE ClassifyLease # "stale"
          /\ Refused(h)

\* Recheck: the stale lease is read and judged once more before it is replaced.
Recheck(h) ==
    /\ HostAt(h, "recheck")
    /\ IF ClassifyLease = "stale"
       THEN Goto(h, "write") /\ UNCHANGED <<lock, Files, Kids, starts>>
       ELSE Refused(h)

TakeLease(h) ==
    /\ HostAt(h, "write") /\ lease' = OwnLease(h) /\ Goto(h, "owner")
    /\ UNCHANGED <<lock, health, Kids, starts>>

ReapOrphans(h) ==
    /\ HostAt(h, "owner") /\ Goto(h, "starting")
    /\ living' = living \ registry /\ registry' = {}
    /\ UNCHANGED <<lock, Files, spawned, starts>>

\* Refresh: the heartbeat; the first one ends the start. A lost lease stops the host.
Refresh(h) ==
    /\ HostAt(h, "starting") \/ HostAt(h, "running")
    /\ IF lease.nonce = proc[h].nonce
       THEN lease' = OwnLease(h) /\ health' = OwnLease(h) /\ Goto(h, "running")
       ELSE /\ proc' = [proc EXCEPT ![h].pc = IF @ = "running" THEN "release" ELSE "failed",
                                    ![h].stopping = HostAt(h, "running")]
            /\ UNCHANGED Files
    /\ UNCHANGED <<lock, Kids, starts>>

StartFails(h) ==
    /\ HostAt(h, "owner") \/ HostAt(h, "starting")
    /\ Goto(h, "failed") /\ UNCHANGED <<lock, Files, Kids, starts>>

\* KillAll: persists the set of this process, emptied, whoever owns the file.
KillAll(h) == living' = living \ proc[h].pids /\ registry' = {}

FailedStartEnds(h) ==
    /\ HostAt(h, "failed") /\ KillAll(h)
    /\ proc' = [proc EXCEPT ![h].pc = IF lock = h THEN "release" ELSE "off", ![h].pids = {}]
    /\ UNCHANGED <<lock, Files, spawned, starts>>

Stop(h) ==
    /\ HostAt(h, "running")
    /\ proc' = [proc EXCEPT ![h].pc = "release", ![h].stopping = TRUE]
    /\ UNCHANGED <<lock, Files, Kids, starts>>

\* ReleaseHealth, ReleaseLease: own files only, the health first; then the lock.
ReleaseHealth(h) ==
    /\ HostAt(h, "release") /\ Goto(h, "releaseLease")
    /\ health' = IF proc[h].nonce = lease.nonce /\ proc[h].nonce = health.nonce
                 THEN NoLease ELSE health
    /\ UNCHANGED <<lock, lease, Kids, starts>>

ReleaseLease(h) ==
    /\ HostAt(h, "releaseLease") /\ Goto(h, IF proc[h].stopping THEN "draining" ELSE "off")
    /\ lease' = IF lease.nonce = proc[h].nonce THEN NoLease ELSE lease
    /\ lock' = IF lock = h THEN NoHost ELSE lock
    /\ UNCHANGED <<health, Kids, starts>>

DrainEnds(h) ==
    /\ HostAt(h, "draining") /\ KillAll(h) /\ proc' = [proc EXCEPT ![h] = Off]
    /\ UNCHANGED <<lock, Files, spawned, starts>>

\* SpawnAgent: a step of a run needs an agent process; runs go on while the host drains.
SpawnAgent(h) ==
    /\ HostAt(h, "running") \/ HostAt(h, "draining")
    /\ spawned < MaxChildren /\ spawned' = spawned + 1
    /\ living' = living \cup {spawned'}
    /\ proc' = [proc EXCEPT ![h].pids = @ \cup {spawned'}]
    /\ registry' = proc'[h].pids
    /\ UNCHANGED <<lock, Files, starts>>

ChildExits(c) ==
    /\ c \in living /\ living' = living \ {c}
    /\ UNCHANGED <<proc, lock, Files, registry, spawned, starts>>

\* Unregister: on the exit of a child the host spawned.
Unregister(h) == \E c \in proc[h].pids \ living :
    /\ proc' = [proc EXCEPT ![h].pids = @ \ {c}]
    /\ registry' = proc'[h].pids
    /\ UNCHANGED <<lock, Files, living, spawned, starts>>

HostCrashes(h) ==
    /\ ~HostAt(h, "off") /\ proc' = [proc EXCEPT ![h] = Off]
    /\ lock' = IF lock = h THEN NoHost ELSE lock
    /\ UNCHANGED <<Files, Kids, starts>>

\* LeaseAges: no heartbeat for the stale time, of a dead host or a suspended one.
LeaseAges ==
    /\ lease.fresh /\ lease' = [lease EXCEPT !.fresh = FALSE]
    /\ health' = [health EXCEPT !.fresh = FALSE]
    /\ UNCHANGED <<proc, lock, Kids, starts>>

----------------------------------------------------------------------------
HostInit ==
    /\ proc = [h \in HostIds |-> Off] /\ lock = NoHost /\ lease = NoLease /\ health = NoLease
    /\ registry = {} /\ living = {} /\ starts = 0 /\ spawned = 0

HostStep(h) ==
    \/ StartHost(h) \/ AcquireProcessLock(h) \/ AcquireLease(h) \/ Recheck(h)
    \/ TakeLease(h) \/ ReapOrphans(h) \/ Refresh(h) \/ StartFails(h) \/ FailedStartEnds(h) \/ Stop(h)
    \/ ReleaseHealth(h) \/ ReleaseLease(h) \/ DrainEnds(h) \/ SpawnAgent(h) \/ Unregister(h)
    \/ HostCrashes(h)

HostNext ==
    \/ \E h \in HostIds : HostStep(h)
    \/ \E c \in 1..MaxChildren : ChildExits(c)
    \/ LeaseAges

HostSpec == HostInit /\ [][HostNext]_hostVars

----------------------------------------------------------------------------
Pcs == {"off", "lock", "lease", "write", "recheck", "owner", "starting", "running",
        "failed", "release", "releaseLease", "draining"}

HostTypeOK ==
    /\ proc \in [HostIds -> [pc : Pcs, nonce : 0..MaxStarts, pids : SUBSET (1..MaxChildren),
                             stopping : BOOLEAN]]
    /\ lock \in HostIds \cup {NoHost}
    /\ lease \in [nonce : Torn..MaxStarts, fresh : BOOLEAN] 
    /\ health \in [nonce : 0..MaxStarts, fresh : BOOLEAN]
    /\ registry \subseteq 1..spawned /\ living \subseteq 1..spawned
    /\ starts \in 0..MaxStarts /\ spawned \in 0..MaxChildren

Owns(h) == proc[h].pc \in {"owner", "starting", "running", "release", "releaseLease"}

\* OneHostOwner (acquire, release): however starts, stops, kills and suspensions overlap,
\* one host at most is between acquire and the end of release, the lease file is its own
\* all that time, and no kill leaves a fresh health file without a lease, which would
\* refuse the next start.
OneHostOwner ==
    /\ \A h, k \in HostIds : Owns(h) /\ Owns(k) => h = k
    /\ \A h \in HostIds : Owns(h) => lease.nonce = proc[h].nonce
    /\ health.fresh => lease # NoLease

\* ChildrenAreFound ("so a killed host never leaves orphans working", processes.ts): a child
\* whose host is gone is in the registry, where the next host finds it.
ChildrenAreFound ==
    \A c \in living : c \in registry \/ \E h \in HostIds : c \in proc[h].pids

\* ReapsOrphansOnly ("previous host that died without cleanup", processes.ts): a start
\* kills no child of a host that is alive.
ReapsOrphansOnly ==
    [][\A h \in HostIds : ReapOrphans(h) =>
         \A k \in HostIds : living \cap registry \cap proc[k].pids = {}]_hostVars

\* NoLastingRefusal (acquireLease): a lease no host is writing can become stale.
NoLastingRefusal ==
    lease.nonce = Torn => \E h \in HostIds : HostAt(h, "write")

=============================================================================
