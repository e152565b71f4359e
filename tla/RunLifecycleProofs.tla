------------------------- MODULE RunLifecycleProofs -------------------------
(* Proofs about RunLifecycle, for every value of its constants. *)
EXTENDS RunLifecycle, TLAPS

-----------------------------------------------------------------------------
(* The rows that the queue's statements leave *)

\* Every statement leaves a well-formed row.
LEMMA RowTypes ==
    ASSUME NEW r \in Runs, NEW row \in Rows
    PROVE  /\ AbsentRow \in Rows
           /\ QueuedRow(r) \in Rows
           /\ CancelledRow(row) \in Rows
           /\ RepairedRow(row) \in Rows
           /\ row.status = "starting" => RunningRow(row) \in Rows
           /\ ExpiredRow(row) \in Rows
  BY DEF AbsentRow, QueuedRow, CancelledRow, RepairedRow, ReleasedRow, RunningRow,
         ExpiredRow, HasParent, Rows, Status

LEMMA ClaimedRowTypes ==
    ASSUME NEW r \in Runs, NEW w \in Workers, NEW row \in Rows
    PROVE  /\ EnqueuedRow(r, w) \in Rows
           /\ RunningRow(EnqueuedRow(r, w)) \in Rows
           /\ ClaimedRow(row, w) \in Rows
           /\ ParkedRow(row, w) \in Rows
           /\ CompletedRow(row, w) \in Rows
           /\ FailedRow(row, w) \in Rows
           /\ DeletedRow(row, w) \in Rows
  BY QueueAssumption
     DEF EnqueuedRow, RunningRow, ClaimedRow, ParkedRow, CompletedRow, FailedRow, DeletedRow,
         ReleasedRow, HasParent, Rows, Status


\* A statement that clears a claim leaves the row alone, or the claim it clears
\* is the caller's own (or, in the repair of sources, one that ran out).
LEMMA RowReleased ==
    ASSUME NEW w \in Workers, NEW row \in Rows
    PROVE  /\ \A new \in {ParkedRow(row, w), CompletedRow(row, w), FailedRow(row, w),
                           DeletedRow(row, w)} :
                \/ new = row
                \/ row.token = w /\ new.token = Nobody /\ ~Reserving(new)
           /\ \/ RepairedRow(row) = row
              \/ /\ row.status = "starting" /\ ~row.live
                 /\ RepairedRow(row).token = Nobody /\ ~Reserving(RepairedRow(row))
  <1>1. ASSUME NEW status \in Status
        PROVE  /\ ReleasedRow(row, status).status = status
               /\ ReleasedRow(row, status).token = Nobody
    BY DEF ReleasedRow, Rows
  <1>2. ASSUME NEW status \in Status \ {"starting", "running"}
        PROVE  ReleasedRow(row, status) \in Rows
    BY DEF ReleasedRow, Rows
  <1>3. ASSUME NEW status \in Status \ {"starting", "running"}
        PROVE  /\ [ReleasedRow(row, status) EXCEPT !.slot = FALSE].status = status
               /\ [ReleasedRow(row, status) EXCEPT !.slot = FALSE].token = Nobody
    BY <1>1, <1>2 DEF Rows
  <1>q. QED
    BY <1>1, <1>3 DEF ParkedRow, CompletedRow, FailedRow, DeletedRow, RepairedRow,
                      Reserving, Status


\* The repair of sources takes no claim away but one that ran out in setup.
LEMMA RepairKeepsClaims ==
    ASSUME QueueTypeOK, RepairQueue, NEW w \in Workers, NEW r \in Runs
    PROVE  \/ queue'[r] = queue[r]
           \/ /\ queue[r].status = "starting" /\ ~queue[r].live
              /\ queue'[r].token = Nobody /\ ~Reserving(queue'[r])
  <1>1. queue[r] \in Rows
    BY DEF QueueTypeOK
  <1>2. queue'[r] \in {queue[r], RepairedRow(queue[r])}
    BY DEF RepairQueue
  <1>q. QED
    BY <1>1, <1>2, RowReleased

\* Releasing a run changes its row only, and only under the releaser's claim.
LEMMA ReleaseKeepsClaims ==
    ASSUME TypeOK, NEW w \in Workers, ClaimHeld(w), Release(w)
    PROVE  LET r == task[w].run IN
           /\ r \in Runs
           /\ \A o \in Runs \ {r} : queue'[o] = queue[o]
           /\ \/ queue'[r] = queue[r]
              \/ queue[r].token = w /\ queue'[r].token = Nobody /\ ~Reserving(queue'[r])
           /\ queue'[r] \in Rows
  <1> DEFINE r == task[w].run
  <1>1. r \in Runs /\ task[w].what \in {"done", "park", "delete"}
    BY DEF Release, ClaimHeld
  <1>2. queue[r] \in Rows /\ DOMAIN queue = Runs
    BY <1>1 DEF TypeOK, QueueTypeOK
  <1>3. /\ \A o \in Runs \ {r} : queue'[o] = queue[o]
        /\ queue'[r] \in {CompletedRow(queue[r], w), ParkedRow(queue[r], w), DeletedRow(queue[r], w)}
    BY <1>1, <1>2 DEF TypeOK, QueueTypeOK, Release, Put
  <1>q. QED
    BY <1>1, <1>2, <1>3, RowReleased, ClaimedRowTypes

-----------------------------------------------------------------------------
(* Every variable keeps its type *)

\* An empty table and no process.
LEMMA TypeInit == ASSUME Init PROVE TypeOK
  BY QueueAssumption, LifecycleAssumption
     DEF Init, QueueInit, TypeOK, QueueTypeOK, AbsentRow, Rows, Status, Tasks, Idle,
         PCs, Vias, Whats

\* No step leaves a variable outside its type: in particular no statement of
\* the queue leaves a token on a row that is not claimed.
LEMMA TypeStep == ASSUME IInv, [Next]_vars PROVE TypeOK'
  <1> USE QueueAssumption, LifecycleAssumption
  <1> USE DEF TypeOK, QueueTypeOK, Put, Assign, Go, Dismiss, Forget, Disrupt, Idle,
              Tasks, PCs, Vias, Whats, WorkersOf, Procs
  <1>c. ASSUME NEW w \in Workers, task[w].pc \notin {"idle", "resolve"}
        PROVE  task[w].run \in Runs
    BY <1>c DEF IInv, ClaimsHeld, ClaimHeld
  <1>t. TypeOK
    BY DEF IInv
  <1>1. ASSUME NEW s \in Sessions, SessionNext(s) PROVE TypeOK'
    <2>1. CASE OpenSession(s)
      BY <1>t, <2>1, RowTypes DEF OpenSession, RepairQueue
    <2>2. CASE RecoverSession(s)
      <3>1. ASSUME NEW w \in WorkersOf(s), NEW r \in Runs,
                   Put(r, ClaimedRow(queue[r], w)), Assign(w, "setup", r, "reopen")
            PROVE  TypeOK'
        BY <1>t, <2>2, <3>1, ClaimedRowTypes DEF RecoverSession
      <3>2. CASE UNCHANGED <<queue, task>>
        BY <1>t, <2>2, <3>2 DEF RecoverSession
      <3>q. QED
        BY <2>2, <3>1, <3>2 DEF RecoverSession
    <2>3. CASE CloseSession(s)
      BY <1>t, <2>3 DEF CloseSession
    <2>4. CASE RunStopped(s)
      BY <1>t, <2>4 DEF RunStopped
    <2>5. CASE SessionClosed(s)
      BY <1>t, <2>5 DEF SessionClosed
    <2>6. ASSUME NEW r \in Runs, ReserveLaunch(s, r) PROVE TypeOK'
      BY <1>t, <2>6, RowTypes DEF ReserveLaunch
    <2>7. ASSUME NEW r \in Runs, CancelLaunch(s, r) PROVE TypeOK'
      BY <1>t, <2>7, RowTypes DEF CancelLaunch
    <2>8. ASSUME NEW w \in WorkersOf(s), CommandStart(s, w) PROVE TypeOK'
      BY <1>t, <2>8 DEF CommandStart
    <2>9. ASSUME NEW w \in WorkersOf(s), NEW r \in Runs, ActivatePrepared(s, w, r)
          PROVE TypeOK'
      BY <1>t, <2>9, ClaimedRowTypes DEF ActivatePrepared
    <2>q. QED
      BY <1>1, <2>1, <2>2, <2>3, <2>4, <2>5, <2>6, <2>7, <2>8, <2>9 DEF SessionNext
  <1>2. ASSUME NEW h \in Hosts, HostNext(h) PROVE TypeOK'
    <2>1. CASE StartHost(h)
      BY <1>t, <2>1, RowTypes DEF StartHost, RepairQueue
    <2>2. CASE StopHost(h)
      BY <1>t, <2>2 DEF StopHost
    <2>3. CASE HostStopped(h)
      BY <1>t, <2>3 DEF HostStopped
    <2>4. ASSUME NEW w \in WorkersOf(h), NEW r \in Runs, HostClaims(h, w, r)
          PROVE TypeOK'
      BY <1>t, <2>4, ClaimedRowTypes DEF HostClaims
    <2>q. QED
      BY <1>2, <2>1, <2>2, <2>3, <2>4 DEF HostNext
  <1>3. ASSUME NEW w \in Workers, WorkerNext(w) PROVE TypeOK'
    <2>1. ASSUME NEW r \in Runs, CommandRun(w, r) PROVE TypeOK'
      BY <1>t, <2>1, ClaimedRowTypes DEF CommandRun
    <2>2. CASE CommandFails(w)
      BY <1>t, <2>2 DEF CommandFails
    <2>3. CASE LaunchFails(w)
      BY <1>t, <1>c, <2>3, ClaimedRowTypes DEF LaunchFails
    <2>4. CASE ReopenFails(w)
      BY <1>t, <1>c, <2>4, ClaimedRowTypes DEF ReopenFails
    <2>5. CASE HostParksEarly(w)
      BY <1>t, <1>c, <2>5, ClaimedRowTypes DEF HostParksEarly
    <2>6. CASE HostSkips(w)
      BY <1>t, <1>c, <2>6, ClaimedRowTypes DEF HostSkips, IsHostWorker
    <2>7. CASE HostGivesUp(w)
      BY <1>t, <1>c, <2>7 DEF HostGivesUp
    <2>i. CASE InspectBundle(w)
      BY <1>t, <1>c, <2>i DEF InspectBundle
    <2>8. CASE MarkInterrupted(w)
      BY <1>t, <1>c, <2>8 DEF MarkInterrupted
    <2>9. CASE HostDiesUnclaimed(w)
      BY <1>t, <2>9 DEF HostDiesUnclaimed, IsHostWorker
    <2>10. CASE StartEngine(w)
      BY <1>t, <1>c, <2>10, RowTypes DEF StartEngine, CanMarkRunning
    <2>11. CASE BeginWrite(w)
      BY <1>t, <1>c, <2>11 DEF BeginWrite
    <2>12. CASE BeginFails(w)
      BY <1>t, <1>c, <2>12 DEF BeginFails
    <2>13. ASSUME NEW s \in {"running", "waiting", "ended"}, PassFence(w, s) PROVE TypeOK'
      BY <1>t, <1>c, <2>13 DEF PassFence
    <2>14. CASE WriteBundle(w)
      <3>1. task[w].run \in Runs
        BY <1>c, <2>14 DEF WriteBundle
      <3>2. task[w].what \in {"running", "waiting", "ended"}
        BY <2>14 DEF WriteBundle, IInv, ClaimsHeld, ClaimHeld
      <3>3. bundle' = [bundle EXCEPT ![task[w].run] = task[w].what]
        BY <2>14 DEF WriteBundle
      <3>4. Go(w, "exec", "none") \/ Go(w, "ending", "done")
        BY <2>14 DEF WriteBundle
      <3>5. UNCHANGED <<queue, proc, skipped, followup, disruptions>>
        BY <2>14 DEF WriteBundle
      <3>q. QED
        BY <1>t, <3>1, <3>2, <3>3, <3>4, <3>5
    <2>15. CASE LoseClaim(w)
      BY <1>t, <2>15 DEF LoseClaim
    <2>16. CASE ParkEngine(w)
      BY <1>t, <1>c, <2>16 DEF ParkEngine
    <2>17. CASE Release(w)
      <3> DEFINE r == task[w].run
      <3>1. r \in Runs /\ task[w].what \in {"done", "park", "delete"}
        BY <2>17, <1>c DEF Release, IInv, ClaimsHeld, ClaimHeld
      <3>2. queue[r] \in Rows
        BY <1>t, <3>1
      <3>3. queue'[r] \in {CompletedRow(queue[r], w), ParkedRow(queue[r], w), DeletedRow(queue[r], w)}
        BY <1>t, <2>17, <3>1 DEF Release
      <3>4. queue' = [queue EXCEPT ![r] = queue'[r]]
        BY <1>t, <2>17, <3>1 DEF Release
      <3>q. QED
        BY <1>t, <2>17, <3>1, <3>2, <3>3, <3>4, ClaimedRowTypes DEF Release
    <2>q. QED
      BY <1>3, <2>1, <2>2, <2>3, <2>4, <2>5, <2>6, <2>7, <2>i, <2>8, <2>9, <2>10, <2>11,
         <2>12, <2>13, <2>14, <2>15, <2>16, <2>17 DEF WorkerNext
  <1>4. ASSUME NEW r \in Runs, Expire(r) PROVE TypeOK'
    BY <1>t, <1>4, RowTypes DEF Expire
  <1>5. ASSUME NEW p \in Procs, Crash(p) PROVE TypeOK'
    BY <1>t, <1>5 DEF Crash
  <1>6. CASE UNCHANGED vars
    BY <1>t, <1>6 DEF vars
  <1> QED
    BY <1>1, <1>2, <1>3, <1>4, <1>5, <1>6 DEF Next
-----------------------------------------------------------------------------
(* Every engine works under its own live claim *)

\* A task keeps its claim while its own state and bundle stay, and its row stays
\* or is freed without having been its live claim.
LEMMA ClaimKept ==
    ASSUME NEW v \in Workers, ClaimHeld(v), task'[v] = task[v], UNCHANGED bundle,
           task[v].run \in Runs =>
             LET r == task[v].run IN
             \/ queue'[r] = queue[r]
             \/ /\ ~ClaimIsLive(v, r) /\ queue[r].status # "cancelled"
                /\ queue'[r].token # v
    PROVE  ClaimHeld(v)'
  <1> DEFINE r == task[v].run
  <1>1. CASE task[v].pc \in {"idle", "resolve"}
    BY <1>1 DEF ClaimHeld, Active, Executing
  <1>2. CASE task[v].pc \notin {"idle", "resolve"}
    <2>1. r \in Runs
      BY <1>2 DEF ClaimHeld
    <2>2. CASE queue'[r] = queue[r]
      BY <2>2 DEF ClaimHeld, ClaimIsLive, HoldsRow, Claimed
    <2>3. CASE ~ClaimIsLive(v, r) /\ queue[r].status # "cancelled" /\ queue'[r].token # v
      BY <2>3 DEF ClaimHeld
    <2>q. QED
      BY <2>1, <2>2, <2>3
  <1>q. QED
    BY <1>1, <1>2

\* A starting process that repairs sources takes no claim from a task at work.
LEMMA RepairStep ==
    ASSUME TypeOK, RepairQueue, UNCHANGED <<task, bundle>>,
           NEW v \in Workers, ClaimHeld(v)
    PROVE  ClaimHeld(v)'
  <1> DEFINE r == task[v].run
  <1>1. ASSUME r \in Runs
        PROVE  \/ queue'[r] = queue[r]
               \/ /\ ~ClaimIsLive(v, r) /\ queue[r].status # "cancelled"
                  /\ queue'[r].token # v
    <2>1. \/ queue'[r] = queue[r]
          \/ /\ queue[r].status = "starting" /\ ~queue[r].live
             /\ queue'[r].token = Nobody
      BY <1>1, RepairKeepsClaims DEF TypeOK
    <2>q. QED
      BY <2>1, QueueAssumption DEF ClaimIsLive
  <1>q. QED
    BY <1>1, ClaimKept

\* A task that releases its run takes no claim from another one.
LEMMA ReleaseStep ==
    ASSUME TypeOK, NEW v \in Workers, NEW w \in Workers, ClaimHeld(v), ClaimHeld(w),
           Release(w)
    PROVE  ClaimHeld(v)'
  <1>1. UNCHANGED bundle /\ task' = [task EXCEPT ![w] = Idle]
    BY DEF Release, Dismiss
  <1>2. CASE v = w
    <2>1. task'[v].pc = "idle"
      BY <1>1, <1>2 DEF TypeOK, Idle
    <2>q. QED
      BY <2>1 DEF ClaimHeld, Active, Executing
  <1>3. CASE v # w
    <2> DEFINE r == task[v].run
    <2>1. task'[v] = task[v]
      BY <1>1, <1>3 DEF TypeOK
    <2>2. ASSUME r \in Runs
          PROVE  \/ queue'[r] = queue[r]
                 \/ queue[r].token = w /\ queue'[r].token = Nobody
      BY <2>2, ReleaseKeepsClaims
    <2>3. ASSUME r \in Runs, queue[r].token = w, queue'[r].token = Nobody
          PROVE  ClaimHeld(v)'
      <3>1. queue[r].token # v /\ queue'[r].token # v
        BY <2>3, <1>3, QueueAssumption
      <3>2. queue[r].status # "cancelled"
        BY <2>3, QueueAssumption DEF TypeOK, QueueTypeOK, Rows
      <3>q. QED
        BY <1>1, <2>1, <3>1, <3>2, <2>3, ClaimKept DEF ClaimIsLive, HoldsRow
    <2>q. QED
      BY <1>1, <2>1, <2>2, <2>3, ClaimKept
  <1>q. QED
    BY <1>2, <1>3

\* A task that gives up before its engine runs parks or fails its own row only.
LEMMA GiveUpStep ==
    ASSUME TypeOK, NEW v \in Workers, NEW w \in Workers, ClaimHeld(v), ClaimHeld(w),
           task[w].pc \in {"setup", "begin"},
           NEW row \in {ParkedRow(queue[task[w].run], w), FailedRow(queue[task[w].run], w)},
           Put(task[w].run, row), Dismiss(w), UNCHANGED bundle
    PROVE  ClaimHeld(v)'
  <1> DEFINE mine == task[w].run
  <1>1. mine \in Runs /\ queue[mine] \in Rows
    BY DEF ClaimHeld, TypeOK, QueueTypeOK
  <1>2. \/ row = queue[mine]
        \/ queue[mine].token = w /\ row.token = Nobody
    BY <1>1, RowReleased
  <1>3. /\ queue'[mine] = row
        /\ \A o \in Runs \ {mine} : queue'[o] = queue[o]
    BY <1>1 DEF Put, TypeOK, QueueTypeOK
  <1>4. CASE v = w
    <2>1. task'[v].pc = "idle"
      BY <1>4 DEF TypeOK, Dismiss, Idle
    <2>q. QED
      BY ONLY <2>1 DEF ClaimHeld, Active, Executing
  <1>5. CASE v # w
    <2> DEFINE r == task[v].run
    <2>1. task'[v] = task[v]
      BY <1>5 DEF TypeOK, Dismiss
    <2>2. CASE r \in Runs /\ queue'[r] # queue[r]
      <3>1. queue[r].token = w /\ queue'[r].token = Nobody /\ queue[r] \in Rows
        BY <1>1, <1>2, <1>3, <2>2
      <3>2. queue[r].token # v /\ queue'[r].token # v /\ queue[r].status # "cancelled"
        BY <1>5, <3>1, QueueAssumption DEF Rows
      <3>q. QED
        BY <2>1, <3>2, ClaimKept DEF ClaimIsLive, HoldsRow
    <2>3. CASE ~(r \in Runs /\ queue'[r] # queue[r])
      BY <2>1, <2>3, ClaimKept
    <2>q. QED
      BY <2>2, <2>3
  <1>q. QED
    BY <1>4, <1>5

\* No step of any process takes a claim away from an engine at work, and a task
\* comes to execute only under a claim of its own.
LEMMA ClaimStep == ASSUME IInv, [Next]_vars, NEW v \in Workers PROVE ClaimHeld(v)'
  <1> USE QueueAssumption, LifecycleAssumption
  <1> USE DEF TypeOK, QueueTypeOK, Put, Assign, Go, Dismiss, Forget, Idle, WorkersOf, Tasks,
              ClaimHeld, ClaimIsLive, HoldsRow, Claimed, Active, Executing, ReleasedRow,
              ClaimedRow, Rows, PCs, Whats, FenceIsPrompt, LeaseIsKept, MarkIsPrompt
  <1>t. TypeOK /\ \A w \in Workers : ClaimHeld(w)
    BY DEF IInv, ClaimsHeld
  <1>1. ASSUME NEW s \in Sessions, SessionNext(s) PROVE ClaimHeld(v)'
    <2>1. CASE OpenSession(s)
      BY <1>t, <2>1, RepairStep DEF OpenSession
    <2>2. CASE RecoverSession(s)
      <3>1. ASSUME NEW w \in WorkersOf(s), NEW r \in Runs, Reopens(s, w, r),
                   Put(r, ClaimedRow(queue[r], w)), Assign(w, "setup", r, "reopen")
            PROVE  ClaimHeld(v)'
        <4>1. UNCHANGED bundle /\ OriginOf[r] = s /\ task[w].pc = "idle" /\ Claimable(r)
          BY <2>2, <3>1 DEF RecoverSession, Reopens, IsOldest, SessionCandidate
        <4>2. CASE v = w
          BY <1>t, <3>1, <4>1, <4>2
        <4>3. CASE v # w
          BY <1>t, <3>1, <4>1, <4>3 DEF Claimable
        <4>q. QED
          BY <4>2, <4>3
      <3>2. CASE UNCHANGED <<queue, task>>
        BY <1>t, <2>2, <3>2 DEF RecoverSession
      <3>q. QED
        BY <2>2, <3>1, <3>2 DEF RecoverSession
    <2>3. CASE CloseSession(s)
      BY <1>t, <2>3 DEF CloseSession
    <2>4. CASE RunStopped(s)
      BY <1>t, <2>4 DEF RunStopped
    <2>5. CASE SessionClosed(s)
      BY <1>t, <2>5 DEF SessionClosed
    <2>6. ASSUME NEW r \in Runs, ReserveLaunch(s, r) PROVE ClaimHeld(v)'
      BY <1>t, <2>6 DEF ReserveLaunch, CanInsert, QueuedRow
    <2>7. ASSUME NEW r \in Runs, CancelLaunch(s, r) PROVE ClaimHeld(v)'
      BY <1>t, <2>7 DEF CancelLaunch, CancelledRow
    <2>8. ASSUME NEW w \in WorkersOf(s), CommandStart(s, w) PROVE ClaimHeld(v)'
      BY <1>t, <2>8 DEF CommandStart
    <2>9. ASSUME NEW w \in WorkersOf(s), NEW r \in Runs, ActivatePrepared(s, w, r) PROVE ClaimHeld(v)'
      BY <1>t, <2>9 DEF ActivatePrepared, CanClaim, PreparedRuns, ReservedRuns
    <2>q. QED
      BY <1>1, <2>1, <2>2, <2>3, <2>4, <2>5, <2>6, <2>7, <2>8, <2>9 DEF SessionNext, WorkersOf
  <1>2. ASSUME NEW h \in Hosts, HostNext(h) PROVE ClaimHeld(v)'
    <2>1. CASE StartHost(h)
      BY <1>t, <2>1, RepairStep DEF StartHost
    <2>2. CASE StopHost(h)
      BY <1>t, <2>2 DEF StopHost
    <2>3. CASE HostStopped(h)
      BY <1>t, <2>3 DEF HostStopped
    <2>4. ASSUME NEW w \in WorkersOf(h), NEW r \in Runs, HostClaims(h, w, r) PROVE ClaimHeld(v)'
      BY <1>t, <2>4 DEF HostClaims, IsOldest, HostCandidate, Claimable
    <2>q. QED
      BY <1>2, <2>1, <2>2, <2>3, <2>4 DEF HostNext, WorkersOf
  <1>3. ASSUME NEW w \in Workers, WorkerNext(w) PROVE ClaimHeld(v)'
    <2>1. ASSUME NEW r \in Runs, CommandRun(w, r) PROVE ClaimHeld(v)'
      BY <1>t, <2>1 DEF CommandRun, CanInsert, EnqueuedRow, RunningRow
    <2>2. CASE CommandFails(w)
      BY <1>t, <2>2 DEF CommandFails
    <2>3. CASE LaunchFails(w)
      BY ONLY <1>t, <2>3, GiveUpStep DEF LaunchFails
    <2>4. CASE ReopenFails(w)
      BY ONLY <1>t, <2>4, GiveUpStep DEF ReopenFails
    <2>5. CASE HostParksEarly(w)
      BY ONLY <1>t, <2>5, GiveUpStep DEF HostParksEarly
    <2>6. CASE HostSkips(w)
      BY ONLY <1>t, <2>6, GiveUpStep DEF HostSkips
    <2>7. CASE HostGivesUp(w)
      <3>1. CASE ClaimIsLive(w, task[w].run)
        BY <1>t, <2>7, <3>1 DEF HostGivesUp
      <3>2. CASE ~ClaimIsLive(w, task[w].run)
        <4>1. Go(w, "ending", "done") /\ UNCHANGED <<queue, bundle>>
          BY <2>7, <3>2 DEF HostGivesUp
        <4>2. task[w].pc \in {"setup", "begin"}
          BY <2>7 DEF HostGivesUp
        <4>q. QED
          BY <1>t, <4>1, <4>2
      <3>q. QED
        BY <3>1, <3>2
    <2>i. CASE InspectBundle(w)
      BY <1>t, <2>i DEF InspectBundle
    <2>8. CASE MarkInterrupted(w)
      BY <1>t, <2>8 DEF MarkInterrupted
    <2>9. CASE HostDiesUnclaimed(w)
      BY <1>t, <2>9 DEF HostDiesUnclaimed
    <2>10. CASE StartEngine(w)
      BY <1>t, <2>10 DEF StartEngine, CanMarkRunning, RunningRow
    <2>11. CASE BeginWrite(w)
      BY <1>t, <2>11 DEF BeginWrite, AcceptsBundle
    <2>12. CASE BeginFails(w)
      BY <1>t, <2>12 DEF BeginFails
    <2>13. ASSUME NEW s \in {"running", "waiting", "ended"}, PassFence(w, s) PROVE ClaimHeld(v)'
      BY <1>t, <2>13 DEF PassFence
    <2>14. CASE WriteBundle(w)
      <3>1. /\ task[w].pc = "write" /\ UNCHANGED queue
            /\ task[w].what \in {"running", "waiting", "ended"}
            /\ bundle' = [bundle EXCEPT ![task[w].run] = task[w].what]
        BY <1>t, <2>14 DEF WriteBundle
      <3>2. CASE v = w
        <4>1. task'[w] \in {[pc |-> "exec", run |-> task[w].run, via |-> "none", what |-> "none"],
                            [pc |-> "ending", run |-> task[w].run, via |-> "none", what |-> "done"]}
          BY <1>t, <2>14 DEF WriteBundle
        <4>q. QED
          BY <1>t, <3>1, <3>2, <4>1
      <3>3. CASE v # w
        <4>1. task'[v] = task[v]
          BY <1>t, <2>14, <3>3 DEF WriteBundle
        <4>2. bundle'[task[v].run] \in {bundle[task[v].run], "running", "waiting", "ended"}
          BY <1>t, <3>1
        <4>q. QED
          BY <1>t, <3>1, <4>1, <4>2
      <3>q. QED
        BY <3>2, <3>3
    <2>15. CASE LoseClaim(w)
      BY <1>t, <2>15 DEF LoseClaim
    <2>16. CASE ParkEngine(w)
      BY <1>t, <2>16 DEF ParkEngine
    <2>17. CASE Release(w)
      BY <1>t, <2>17, ReleaseStep
    <2>q. QED
      BY <1>3, <2>1, <2>2, <2>3, <2>4, <2>5, <2>6, <2>7, <2>i, <2>8, <2>9, <2>10, <2>11, <2>12, <2>13, <2>14, <2>15, <2>16, <2>17 DEF WorkerNext, WorkersOf
  <1>4. ASSUME NEW r \in Runs, Expire(r) PROVE ClaimHeld(v)'
    BY <1>t, <1>4 DEF Expire, ExpiredRow
  <1>5. ASSUME NEW p \in Procs, Crash(p) PROVE ClaimHeld(v)'
    BY <1>t, <1>5 DEF Crash
  <1>6. CASE UNCHANGED vars
    BY <1>t, <1>6 DEF vars
  <1> QED
    BY <1>1, <1>2, <1>3, <1>4, <1>5, <1>6 DEF Next

-----------------------------------------------------------------------------
(* One reservation per session *)

\* Replacing one row keeps the reservation index, when the new row is not in
\* it, the old one was, or the session had no other.
LEMMA PutKeepsReservation ==
    ASSUME TypeOK, OneReservation, NEW r \in Runs, NEW row, Put(r, row),
           Reserving(row) => Reserving(queue[r]) \/ SessionFree(r)
    PROVE  OneReservation'
  <1>1. \A o \in Runs : queue'[o] = IF o = r THEN row ELSE queue[o]
    BY DEF Put, TypeOK, QueueTypeOK
  <1>2. ASSUME NEW o \in Runs \ {r}, OriginOf[o] = OriginOf[r], Reserving(row)
        PROVE  ~Reserving(queue[o])
    BY <1>2 DEF OneReservation, SessionFree
  <1>3. ASSUME NEW n \in Runs, NEW o \in Runs, OriginOf[n] = OriginOf[o],
               Reserving(queue'[n]), Reserving(queue'[o])
        PROVE  n = o
    <2>1. CASE n # r /\ o # r
      BY <1>1, <1>3, <2>1 DEF OneReservation
    <2>2. CASE n = r
      BY <1>1, <1>2, <1>3, <2>2
    <2>3. CASE o = r
      BY <1>1, <1>2, <1>3, <2>3
    <2>q. QED
      BY <2>1, <2>2, <2>3
  <1>q. QED
    BY <1>3 DEF OneReservation

\* A row that is only released, in place, needs no look at the index.
LEMMA FreeingKeepsReservation ==
    ASSUME OneReservation, \A r \in Runs : Reserving(queue'[r]) => Reserving(queue[r])
    PROVE  OneReservation'
  BY DEF OneReservation

\* Every INSERT and every claim is checked against the index, or finds the
\* row in it already.
LEMMA ReservationStep == ASSUME IInv, [Next]_vars PROVE OneReservation'
  <1>t. TypeOK /\ OneReservation /\ \A w \in Workers : ClaimHeld(w)
    BY DEF IInv, ClaimsHeld
  <1>u. UNCHANGED queue => OneReservation'
    BY <1>t, FreeingKeepsReservation
  <1>w. \A r \in Runs : queue[r] \in Rows
    BY <1>t DEF TypeOK, QueueTypeOK
  <1>r. ASSUME RepairQueue PROVE OneReservation'
    <2>1. \A r \in Runs : Reserving(queue'[r]) => Reserving(queue[r])
      <3>1. ASSUME NEW r \in Runs PROVE Reserving(queue'[r]) => Reserving(queue[r])
        <4>1. queue'[r] \in {queue[r], RepairedRow(queue[r])}
          BY <1>r DEF RepairQueue
        <4>2. RepairedRow(queue[r]) = queue[r] \/ ~Reserving(RepairedRow(queue[r]))
          BY <1>w DEF RepairedRow, ReleasedRow, Reserving, Rows
        <4>q. QED
          BY <4>1, <4>2
      <3>q. QED
        BY <3>1
    <2>q. QED
      BY <1>t, <2>1, FreeingKeepsReservation
  <1>1. ASSUME NEW s \in Sessions, SessionNext(s) PROVE OneReservation'
    <2>1. CASE OpenSession(s)
      BY <1>r, <2>1 DEF OpenSession
    <2>2. CASE RecoverSession(s)
      <3>1. ASSUME NEW w \in WorkersOf(s), NEW r \in Runs, Reopens(s, w, r),
                   Put(r, ClaimedRow(queue[r], w))
            PROVE  OneReservation'
        BY <1>t, <3>1, PutKeepsReservation DEF Reopens
      <3>q. QED
        BY <1>u, <2>2, <3>1 DEF RecoverSession
    <2>3. CASE CloseSession(s)
      BY <1>u, <2>3 DEF CloseSession
    <2>4. CASE RunStopped(s)
      BY <1>u, <2>4 DEF RunStopped
    <2>5. CASE SessionClosed(s)
      BY <1>u, <2>5 DEF SessionClosed
    <2>6. ASSUME NEW r \in Runs, ReserveLaunch(s, r) PROVE OneReservation'
      BY <1>t, <2>6, PutKeepsReservation DEF ReserveLaunch, CanInsert
    <2>7. ASSUME NEW r \in Runs, CancelLaunch(s, r) PROVE OneReservation'
      <3>1. Reserving(queue[r])
        BY <2>7 DEF CancelLaunch, Reserving
      <3>q. QED
        BY <1>t, <2>7, <3>1, PutKeepsReservation DEF CancelLaunch
    <2>8. ASSUME NEW w \in WorkersOf(s), CommandStart(s, w) PROVE OneReservation'
      BY <1>u, <2>8 DEF CommandStart
    <2>9. ASSUME NEW w \in WorkersOf(s), NEW r \in Runs, ActivatePrepared(s, w, r)
          PROVE OneReservation'
      <3>1. Reserving(queue[r])
        BY <2>9 DEF ActivatePrepared, PreparedRuns, ReservedRuns
      <3>q. QED
        BY <1>t, <2>9, <3>1, PutKeepsReservation DEF ActivatePrepared
    <2>q. QED
      BY <1>1, <2>1, <2>2, <2>3, <2>4, <2>5, <2>6, <2>7, <2>8, <2>9 DEF SessionNext
  <1>2. ASSUME NEW h \in Hosts, HostNext(h) PROVE OneReservation'
    <2>1. CASE StartHost(h)
      BY <1>r, <2>1 DEF StartHost
    <2>2. CASE StopHost(h)
      BY <1>u, <2>2 DEF StopHost
    <2>3. CASE HostStopped(h)
      BY <1>u, <2>3 DEF HostStopped
    <2>4. ASSUME NEW w \in WorkersOf(h), NEW r \in Runs, HostClaims(h, w, r)
          PROVE OneReservation'
      BY <1>t, <2>4, PutKeepsReservation DEF HostClaims
    <2>q. QED
      BY <1>2, <2>1, <2>2, <2>3, <2>4 DEF HostNext
  <1>3. ASSUME NEW w \in Workers, WorkerNext(w) PROVE OneReservation'
    <2> DEFINE r == task[w].run
    <2>w. task[w].pc \notin {"idle", "resolve"} => r \in Runs
      BY <1>t DEF ClaimHeld
    <2>p. ASSUME r \in Runs,
                 \/ Put(r, ParkedRow(queue[r], w))
                 \/ Put(r, FailedRow(queue[r], w))
          PROVE  OneReservation'
      <3>1. PICK row \in {ParkedRow(queue[r], w), FailedRow(queue[r], w)} : Put(r, row)
        BY <2>p
      <3>2. queue[r] \in Rows
        BY <1>w, <2>p
      <3>3. Reserving(row) => Reserving(queue[r])
        BY <3>1, <3>2, RowReleased
      <3>q. QED
        BY <1>t, <2>p, <3>1, <3>3, PutKeepsReservation
    <2>1. ASSUME NEW n \in Runs, CommandRun(w, n) PROVE OneReservation'
      BY <1>t, <2>1, PutKeepsReservation DEF CommandRun, CanInsert
    <2>2. CASE CommandFails(w)
      BY <1>u, <2>2 DEF CommandFails
    <2>3. CASE LaunchFails(w)
      BY <2>3, <2>w, <2>p DEF LaunchFails
    <2>4. CASE ReopenFails(w)
      BY <2>4, <2>w, <2>p DEF ReopenFails
    <2>5. CASE HostParksEarly(w)
      BY <2>5, <2>w, <2>p DEF HostParksEarly
    <2>6. CASE HostSkips(w)
      BY <2>6, <2>w, <2>p DEF HostSkips
    <2>7. CASE HostGivesUp(w)
      BY <1>u, <2>7 DEF HostGivesUp
    <2>i. CASE InspectBundle(w)
      BY <1>u, <2>i DEF InspectBundle
    <2>8. CASE MarkInterrupted(w)
      BY <1>u, <2>8 DEF MarkInterrupted
    <2>9. CASE HostDiesUnclaimed(w)
      BY <1>u, <2>9 DEF HostDiesUnclaimed
    <2>10. CASE StartEngine(w)
      <3>1. r \in Runs /\ Reserving(queue[r]) /\ Put(r, RunningRow(queue[r]))
        BY <2>10, <2>w DEF StartEngine, CanMarkRunning, Reserving
      <3>q. QED
        BY <1>t, <3>1, PutKeepsReservation
    <2>11. CASE BeginWrite(w)
      BY <1>u, <2>11 DEF BeginWrite
    <2>12. CASE BeginFails(w)
      BY <1>u, <2>12 DEF BeginFails
    <2>13. ASSUME NEW s \in {"running", "waiting", "ended"}, PassFence(w, s)
           PROVE OneReservation'
      BY <1>u, <2>13 DEF PassFence
    <2>14. CASE WriteBundle(w)
      BY <1>u, <2>14 DEF WriteBundle
    <2>15. CASE LoseClaim(w)
      BY <1>u, <2>15 DEF LoseClaim
    <2>16. CASE ParkEngine(w)
      BY <1>u, <2>16 DEF ParkEngine
    <2>17. CASE Release(w)
      <3>1. \A o \in Runs : queue'[o] = queue[o] \/ ~Reserving(queue'[o])
        BY <1>t, <2>17, ReleaseKeepsClaims
      <3>q. QED
        BY <1>t, <3>1, FreeingKeepsReservation
    <2>q. QED
      BY <1>3, <2>1, <2>2, <2>3, <2>4, <2>5, <2>6, <2>7, <2>i, <2>8, <2>9, <2>10, <2>11,
         <2>12, <2>13, <2>14, <2>15, <2>16, <2>17 DEF WorkerNext
  <1>4. ASSUME NEW r \in Runs, Expire(r) PROVE OneReservation'
    <2>1. Reserving(queue[r]) /\ Put(r, ExpiredRow(queue[r]))
      BY <1>4 DEF Expire, Claimed, Reserving
    <2>q. QED
      BY <1>t, <2>1, PutKeepsReservation
  <1>5. ASSUME NEW p \in Procs, Crash(p) PROVE OneReservation'
    BY <1>u, <1>5 DEF Crash
  <1>6. CASE UNCHANGED vars
    BY <1>u, <1>6 DEF vars
  <1>q. QED
    BY <1>1, <1>2, <1>3, <1>4, <1>5, <1>6 DEF Next

-----------------------------------------------------------------------------
(* A cancelled launch *)

\* No statement brings a cancelled row back.
LEMMA CancelledRowStays ==
    ASSUME NEW w \in Workers, NEW row \in Rows, row.status = "cancelled"
    PROVE  {row} = {RepairedRow(row), ParkedRow(row, w), CompletedRow(row, w),
                    FailedRow(row, w), DeletedRow(row, w)}
  BY QueueAssumption
     DEF RepairedRow, ParkedRow, CompletedRow, FailedRow, DeletedRow, Rows

\* cancelWorkflowRun is final: whoever had claimed the row meanwhile neither
\* revives it nor starts the run.
LEMMA CancelledStep ==
    ASSUME IInv, FenceIsPrompt, [Next]_vars, NEW n \in Runs, queue[n].status = "cancelled"
    PROVE  queue'[n].status = "cancelled" /\ (bundle[n] = "none" => bundle'[n] = "none")
  <1> DEFINE Goal == queue'[n].status = "cancelled" /\ (bundle[n] = "none" => bundle'[n] = "none")
  <1>t. TypeOK /\ \A w \in Workers : ClaimHeld(w)
    BY DEF IInv, ClaimsHeld
  <1>w. queue[n] \in Rows /\ queue[n].token = Nobody
    BY <1>t DEF TypeOK, QueueTypeOK, Rows
  <1>u. UNCHANGED <<queue, bundle>> => Goal
    OBVIOUS
  <1>p. ASSUME NEW r \in Runs, NEW row, Put(r, row), UNCHANGED bundle,
               r = n => row.status = "cancelled"
        PROVE  Goal
    BY <1>p, <1>t DEF Put, TypeOK, QueueTypeOK
  <1>r. ASSUME RepairQueue, UNCHANGED bundle PROVE Goal
    <2>1. queue'[n] \in {queue[n], RepairedRow(queue[n])}
      BY <1>r DEF RepairQueue
    <2>2. RepairedRow(queue[n]) = queue[n]
      BY DEF RepairedRow
    <2>q. QED
      BY <2>1, <2>2, <1>r
  <1>1. ASSUME NEW s \in Sessions, SessionNext(s) PROVE Goal
    <2>1. CASE OpenSession(s)
      BY <1>r, <2>1 DEF OpenSession
    <2>2. CASE RecoverSession(s)
      <3>1. ASSUME NEW w \in WorkersOf(s), NEW r \in Runs, Reopens(s, w, r),
                   Put(r, ClaimedRow(queue[r], w))
            PROVE  Goal
        <4>1. r # n
          BY <3>1 DEF Reopens, IsOldest, SessionCandidate, Claimable, Claimed
        <4>q. QED
          BY <2>2, <3>1, <4>1, <1>p DEF RecoverSession
      <3>q. QED
        BY <1>u, <2>2, <3>1 DEF RecoverSession
    <2>3. CASE CloseSession(s)
      BY <1>u, <2>3 DEF CloseSession
    <2>4. CASE RunStopped(s)
      BY <1>u, <2>4 DEF RunStopped
    <2>5. CASE SessionClosed(s)
      BY <1>u, <2>5 DEF SessionClosed
    <2>6. ASSUME NEW r \in Runs, ReserveLaunch(s, r) PROVE Goal
      BY <1>p, <2>6 DEF ReserveLaunch, CanInsert
    <2>7. ASSUME NEW r \in Runs, CancelLaunch(s, r) PROVE Goal
      BY <1>p, <2>7 DEF CancelLaunch
    <2>8. ASSUME NEW w \in WorkersOf(s), CommandStart(s, w) PROVE Goal
      BY <1>u, <2>8 DEF CommandStart
    <2>9. ASSUME NEW w \in WorkersOf(s), NEW r \in Runs, ActivatePrepared(s, w, r)
          PROVE Goal
      BY <1>p, <2>9 DEF ActivatePrepared, CanClaim
    <2>q. QED
      BY <1>1, <2>1, <2>2, <2>3, <2>4, <2>5, <2>6, <2>7, <2>8, <2>9 DEF SessionNext
  <1>2. ASSUME NEW h \in Hosts, HostNext(h) PROVE Goal
    <2>1. CASE StartHost(h)
      BY <1>r, <2>1 DEF StartHost
    <2>2. CASE StopHost(h)
      BY <1>u, <2>2 DEF StopHost
    <2>3. CASE HostStopped(h)
      BY <1>u, <2>3 DEF HostStopped
    <2>4. ASSUME NEW w \in WorkersOf(h), NEW r \in Runs, HostClaims(h, w, r) PROVE Goal
      BY <1>p, <2>4 DEF HostClaims, IsOldest, HostCandidate, Claimable, Claimed
    <2>q. QED
      BY <1>2, <2>1, <2>2, <2>3, <2>4 DEF HostNext
  <1>3. ASSUME NEW w \in Workers, WorkerNext(w) PROVE Goal
    <2> DEFINE r == task[w].run
    <2>w. task[w].pc \notin {"idle", "resolve"} => r \in Runs
      BY <1>t DEF ClaimHeld
    <2>p. ASSUME r \in Runs, UNCHANGED bundle,
                 \/ Put(r, ParkedRow(queue[r], w))
                 \/ Put(r, FailedRow(queue[r], w))
          PROVE  Goal
      <3>1. r = n => ParkedRow(queue[r], w) = queue[r] /\ FailedRow(queue[r], w) = queue[r]
        BY <1>w, CancelledRowStays
      <3>q. QED
        BY <2>p, <3>1, <1>p
    <2>b. ASSUME task[w].pc = "write" PROVE r # n
      BY <1>t, <2>b DEF ClaimHeld, Executing, ClaimIsLive, HoldsRow, Claimed
    <2>1. ASSUME NEW o \in Runs, CommandRun(w, o) PROVE Goal
      BY <1>p, <2>1 DEF CommandRun, CanInsert
    <2>2. CASE CommandFails(w)
      BY <1>u, <2>2 DEF CommandFails
    <2>3. CASE LaunchFails(w)
      BY <2>3, <2>w, <2>p DEF LaunchFails
    <2>4. CASE ReopenFails(w)
      BY <2>4, <2>w, <2>p DEF ReopenFails
    <2>5. CASE HostParksEarly(w)
      BY <2>5, <2>w, <2>p DEF HostParksEarly
    <2>6. CASE HostSkips(w)
      BY <2>6, <2>w, <2>p DEF HostSkips
    <2>7. CASE HostGivesUp(w)
      BY <1>u, <2>7 DEF HostGivesUp
    <2>i. CASE InspectBundle(w)
      BY <1>u, <2>i DEF InspectBundle
    <2>8. CASE MarkInterrupted(w)
      <3>1. r \in Runs /\ bundle[r] # "none"
        BY <1>t, <2>8 DEF MarkInterrupted, ClaimHeld
      <3>q. QED
        BY <1>t, <2>8, <3>1 DEF MarkInterrupted, TypeOK
    <2>9. CASE HostDiesUnclaimed(w)
      BY <1>u, <2>9 DEF HostDiesUnclaimed
    <2>10. CASE StartEngine(w)
      BY <1>p, <2>w, <2>10 DEF StartEngine, CanMarkRunning
    <2>11. CASE BeginWrite(w)
      BY <1>u, <2>11 DEF BeginWrite
    <2>12. CASE BeginFails(w)
      BY <1>u, <2>12 DEF BeginFails
    <2>13. ASSUME NEW s \in {"running", "waiting", "ended"}, PassFence(w, s) PROVE Goal
      BY <1>u, <2>13 DEF PassFence
    <2>14. CASE WriteBundle(w)
      BY <1>t, <2>14, <2>w, <2>b DEF WriteBundle, TypeOK
    <2>15. CASE LoseClaim(w)
      BY <1>u, <2>15 DEF LoseClaim
    <2>16. CASE ParkEngine(w)
      BY <1>u, <2>16 DEF ParkEngine
    <2>17. CASE Release(w)
      <3>1. queue'[n] = queue[n]
        BY <1>t, <1>w, <2>17, ReleaseKeepsClaims, QueueAssumption
      <3>q. QED
        BY <2>17, <3>1 DEF Release
    <2>q. QED
      BY <1>3, <2>1, <2>2, <2>3, <2>4, <2>5, <2>6, <2>7, <2>i, <2>8, <2>9, <2>10, <2>11,
         <2>12, <2>13, <2>14, <2>15, <2>16, <2>17 DEF WorkerNext
  <1>4. ASSUME NEW r \in Runs, Expire(r) PROVE Goal
    BY <1>p, <1>4 DEF Expire, Claimed
  <1>5. ASSUME NEW p \in Procs, Crash(p) PROVE Goal
    BY <1>u, <1>5 DEF Crash
  <1>6. CASE UNCHANGED vars
    BY <1>u, <1>6 DEF vars
  <1>q. QED
    BY <1>1, <1>2, <1>3, <1>4, <1>5, <1>6 DEF Next

-----------------------------------------------------------------------------
(* The bundles of the tasks at work *)

\* A task that neither executes nor is about to mark a bundle.
WritesNothing(t) == t.pc \notin Executing /\ ~(t.pc = "interrupt" /\ t.what = "ended")

\* Every action but the fences, the writes and a host's interruption leaves the
\* bundles alone; a task it moves does not come to write.
LEMMA OtherSteps ==
    ASSUME TypeOK, [Next]_vars,
           \A w \in Workers :
             /\ ~BeginWrite(w) /\ ~WriteBundle(w)
             /\ ~InspectBundle(w) /\ ~MarkInterrupted(w)
             /\ \A s \in {"running", "waiting", "ended"} : ~PassFence(w, s)
    PROVE  UNCHANGED bundle /\ \A w \in Workers : task'[w] = task[w] \/ WritesNothing(task'[w])
  <1> DEFINE Goal == /\ UNCHANGED bundle
                     /\ \A w \in Workers : task'[w] = task[w] \/ WritesNothing(task'[w])
  <1>u. UNCHANGED <<bundle, task>> => Goal
    OBVIOUS
  <1>f. ASSUME NEW p \in Procs, Forget(p), UNCHANGED bundle PROVE Goal
    BY <1>f DEF Forget, WritesNothing, Executing, Idle
  <1>g. ASSUME UNCHANGED bundle, NEW v \in Workers, NEW new, WritesNothing(new),
               task' = [task EXCEPT ![v] = new]
        PROVE  Goal
    BY <1>g DEF TypeOK
  <1>a. ASSUME UNCHANGED bundle, NEW v \in Workers, NEW r, NEW via,
               NEW pc \in {"setup", "begin", "resolve"}, Assign(v, pc, r, via)
        PROVE  Goal
    BY <1>a, <1>g DEF Assign, WritesNothing, Executing
  <1>o. ASSUME UNCHANGED bundle, NEW v \in Workers,
               \/ Go(v, "interrupt", "none") \/ Go(v, "ending", "done") \/ Go(v, "ending", "park")
        PROVE  Goal
    <2>1. PICK pc \in {"ending", "interrupt"}, what \in {"none", "done", "park"} :
            /\ pc = "interrupt" => what = "none"
            /\ task' = [task EXCEPT ![v] = [pc |-> pc, run |-> task[v].run,
                                            via |-> "none", what |-> what]]
      BY <1>o DEF Go
    <2>q. QED
      BY <1>o, <1>g, <2>1 DEF WritesNothing, Executing
  <1>d. ASSUME UNCHANGED bundle, NEW v \in Workers, Dismiss(v) PROVE Goal
    BY <1>d, <1>g DEF Dismiss, Idle, WritesNothing, Executing
  <1>1. ASSUME NEW s \in Sessions, SessionNext(s) PROVE Goal
    <2>1. CASE OpenSession(s) \/ CloseSession(s) \/ RunStopped(s)
      BY <1>u, <2>1 DEF OpenSession, CloseSession, RunStopped
    <2>2. CASE RecoverSession(s)
      BY <1>u, <1>a, <2>2 DEF RecoverSession, WorkersOf
    <2>3. CASE SessionClosed(s)
      BY <1>f, <2>3 DEF SessionClosed, Procs
    <2>4. ASSUME NEW r \in Runs, ReserveLaunch(s, r) \/ CancelLaunch(s, r) PROVE Goal
      BY <1>u, <2>4 DEF ReserveLaunch, CancelLaunch
    <2>5. ASSUME NEW w \in WorkersOf(s), CommandStart(s, w) PROVE Goal
      BY <1>a, <2>5 DEF CommandStart, WorkersOf
    <2>6. ASSUME NEW w \in WorkersOf(s), NEW r \in Runs, ActivatePrepared(s, w, r)
          PROVE Goal
      BY <1>a, <2>6 DEF ActivatePrepared, WorkersOf
    <2>q. QED
      BY <1>1, <2>1, <2>2, <2>3, <2>4, <2>5, <2>6 DEF SessionNext
  <1>2. ASSUME NEW h \in Hosts, HostNext(h) PROVE Goal
    <2>1. CASE StartHost(h) \/ StopHost(h)
      BY <1>u, <2>1 DEF StartHost, StopHost
    <2>2. CASE HostStopped(h)
      BY <1>f, <2>2 DEF HostStopped, Procs
    <2>3. ASSUME NEW w \in WorkersOf(h), NEW r \in Runs, HostClaims(h, w, r) PROVE Goal
      BY <1>a, <2>3 DEF HostClaims, WorkersOf
    <2>q. QED
      BY <1>2, <2>1, <2>2, <2>3 DEF HostNext
  <1>3. ASSUME NEW w \in Workers, WorkerNext(w) PROVE Goal
    <2>1. ASSUME NEW r \in Runs, CommandRun(w, r) PROVE Goal
      BY <1>a, <2>1 DEF CommandRun
    <2>2. CASE \/ CommandFails(w) \/ LaunchFails(w) \/ ReopenFails(w)
               \/ HostParksEarly(w) \/ HostSkips(w) \/ LoseClaim(w) \/ Release(w)
      BY <1>d, <2>2 DEF CommandFails, LaunchFails, ReopenFails, HostParksEarly, HostSkips,
                        LoseClaim, Release
    <2>3. CASE HostGivesUp(w) \/ BeginFails(w) \/ ParkEngine(w)
      <3>1. UNCHANGED bundle
        BY <2>3 DEF HostGivesUp, BeginFails, ParkEngine
      <3>2. CASE BeginFails(w)
        <4>1. PICK what : task' = [task EXCEPT ![w] = [pc |-> "ending", run |-> task[w].run,
                                                      via |-> "none", what |-> what]]
          BY <3>2 DEF BeginFails, Go
        <4>q. QED
          BY <1>g, <3>1, <4>1 DEF WritesNothing, Executing
      <3>3. CASE HostGivesUp(w)
        <4>1. Go(w, "interrupt", "none") \/ Go(w, "ending", "done")
          BY <3>3 DEF HostGivesUp
        <4>q. QED
          BY <1>o, <3>1, <4>1
      <3>4. CASE ParkEngine(w)
        <4>1. Go(w, "ending", "park")
          BY <3>4 DEF ParkEngine
        <4>q. QED
          BY <1>o, <3>1, <4>1
      <3>q. QED
        BY <2>3, <3>2, <3>3, <3>4
    <2>4. CASE HostDiesUnclaimed(w)
      BY <1>f, <2>4, LifecycleAssumption DEF HostDiesUnclaimed
    <2>5. CASE StartEngine(w)
      BY <1>a, <2>5 DEF StartEngine
    <2>q. QED
      BY <1>3, <2>1, <2>2, <2>3, <2>4, <2>5 DEF WorkerNext
  <1>4. ASSUME NEW r \in Runs, Expire(r) PROVE Goal
    BY <1>u, <1>4 DEF Expire
  <1>5. ASSUME NEW p \in Procs, Crash(p) PROVE Goal
    BY <1>f, <1>5 DEF Crash
  <1>6. CASE UNCHANGED vars
    BY <1>u, <1>6 DEF vars
  <1>q. QED
    BY <1>1, <1>2, <1>3, <1>4, <1>5, <1>6 DEF Next

\* Under kept leases a task has the bundle of its run to itself.
LEMMA BundleStep ==
    ASSUME IInv, LeaseIsKept, MarkIsPrompt, [Next]_vars, NEW v \in Workers
    PROVE  BundleHeld(v)'
  <1> DEFINE r == task[v].run
  <1>t. TypeOK /\ \A w \in Workers : ClaimHeld(w) /\ BundleHeld(w)
    BY DEF IInv, ClaimsHeld, BundlesHeld
  <1>k. ASSUME task'[v] = task[v], bundle'[r] = bundle[r] PROVE BundleHeld(v)'
    BY <1>t, <1>k DEF BundleHeld
  <1>n. ASSUME WritesNothing(task'[v]) PROVE BundleHeld(v)'
    BY <1>n DEF WritesNothing, BundleHeld
  <1>1. ASSUME NEW w \in Workers, BeginWrite(w) PROVE BundleHeld(v)'
    <2>1. CASE v = w
      <3>1. task'[v].run = r /\ task'[v].pc = "write"
        BY <1>t, <1>1, <2>1 DEF BeginWrite, Go, TypeOK
      <3>2. bundle'[r] \in {"none", "running"}
        BY <1>1, <2>1 DEF BeginWrite, AcceptsBundle
      <3>q. QED
        BY <3>1, <3>2 DEF BundleHeld
    <2>2. CASE v # w
      BY <1>t, <1>1, <1>k, <2>2 DEF BeginWrite, Go, TypeOK
    <2>q. QED
      BY <2>1, <2>2
  <1>2. ASSUME NEW w \in Workers, NEW s \in {"running", "waiting", "ended"}, PassFence(w, s)
        PROVE  BundleHeld(v)'
    <2>1. CASE v = w
      <3>1. task'[v].run = r /\ task'[v].pc = "write"
        BY <1>t, <1>2, <2>1 DEF PassFence, Go, TypeOK
      <3>2. bundle'[r] \in {"none", "running"}
        BY <1>t, <1>2, <2>1 DEF PassFence, BundleHeld, Executing
      <3>q. QED
        BY <3>1, <3>2 DEF BundleHeld
    <2>2. CASE v # w
      BY <1>t, <1>2, <1>k, <2>2 DEF PassFence, Go, TypeOK
    <2>q. QED
      BY <2>1, <2>2
  <1>3. ASSUME NEW w \in Workers, WriteBundle(w) PROVE BundleHeld(v)'
    <2>1. task[w].run \in Runs /\ ClaimIsLive(w, task[w].run) /\ task[w].pc = "write"
      BY <1>t, <1>3 DEF WriteBundle, ClaimHeld, LeaseIsKept
    <2>2. CASE v = w
      <3>1. CASE task[v].what = "running"
        <4>1. task'[v].run = r /\ task'[v].pc = "exec"
          BY <1>t, <1>3, <2>2, <3>1 DEF WriteBundle, Go, TypeOK
        <4>2. bundle'[r] = "running"
          BY <1>t, <1>3, <2>1, <2>2, <3>1 DEF WriteBundle, TypeOK
        <4>q. QED
          BY <4>1, <4>2 DEF BundleHeld
      <3>2. CASE task[v].what # "running"
        <4>1. task'[v].pc = "ending"
          BY <1>t, <1>3, <2>2, <3>2 DEF WriteBundle, Go, TypeOK
        <4>q. QED
          BY <4>1, <1>n DEF WritesNothing, Executing
      <3>q. QED
        BY <3>1, <3>2
    <2>3. CASE v # w
      <3>1. task'[v] = task[v]
        BY <1>t, <1>3, <2>3 DEF WriteBundle, Go, TypeOK
      <3>2. CASE r # task[w].run
        <4>1. bundle'[r] = bundle[r]
          BY <1>t, <1>3, <3>2 DEF WriteBundle, TypeOK
        <4>q. QED
          BY <1>k, <3>1, <4>1
      <3>3. CASE r = task[w].run
        <4>1. ~ClaimIsLive(v, r) /\ queue[r].status # "cancelled"
          BY <2>1, <2>3, <3>3 DEF ClaimIsLive, HoldsRow, Claimed
        <4>2. WritesNothing(task[v])
          BY <1>t, <4>1 DEF ClaimHeld, WritesNothing, Executing, LeaseIsKept
        <4>q. QED
          BY <1>n, <3>1, <4>2
      <3>q. QED
        BY <3>2, <3>3
    <2>q. QED
      BY <2>2, <2>3
  <1>4. ASSUME NEW w \in Workers, InspectBundle(w) PROVE BundleHeld(v)'
    <2>1. CASE v = w
      BY <1>t, <1>4, <2>1 DEF InspectBundle, Go, TypeOK, BundleHeld, Executing
    <2>2. CASE v # w
      BY <1>t, <1>4, <1>k, <2>2 DEF InspectBundle, Go, TypeOK
    <2>q. QED
      BY <2>1, <2>2
  <1>5. ASSUME NEW w \in Workers, MarkInterrupted(w) PROVE BundleHeld(v)'
    <2>1. /\ task[w].run \in Runs /\ task[w].pc = "interrupt"
          /\ ClaimIsLive(w, task[w].run) \/ queue[task[w].run].status = "cancelled"
      BY <1>t, <1>5 DEF MarkInterrupted, ClaimHeld
    <2>2. CASE v = w
      <3>1. task'[v].pc = "ending"
        BY <1>t, <1>5, <2>2 DEF MarkInterrupted, Go, TypeOK
      <3>q. QED
        BY <3>1, <1>n DEF WritesNothing, Executing
    <2>3. CASE v # w
      <3>1. task'[v] = task[v]
        BY <1>t, <1>5, <2>3 DEF MarkInterrupted, Go, TypeOK
      <3>2. CASE r # task[w].run
        <4>1. bundle'[r] = bundle[r]
          BY <1>t, <1>5, <3>2 DEF MarkInterrupted, TypeOK
        <4>q. QED
          BY <1>k, <3>1, <4>1
      <3>3. CASE r = task[w].run
        <4>1. ~ClaimIsLive(v, r)
          BY <2>1, <2>3, <3>3 DEF ClaimIsLive, HoldsRow, Claimed
        <4>2. task[v].pc \notin Executing
          BY <1>t, <4>1 DEF ClaimHeld, Executing, LeaseIsKept
        <4>3. bundle'[r] = "ended"
          BY <1>t, <1>5, <2>1, <3>3 DEF MarkInterrupted, TypeOK
        <4>q. QED
          BY <3>1, <4>2, <4>3 DEF BundleHeld
      <3>q. QED
        BY <3>2, <3>3
    <2>q. QED
      BY <2>2, <2>3
  <1>6. CASE \A w \in Workers :
               /\ ~BeginWrite(w) /\ ~WriteBundle(w)
               /\ ~InspectBundle(w) /\ ~MarkInterrupted(w)
               /\ \A s \in {"running", "waiting", "ended"} : ~PassFence(w, s)
    BY <1>t, <1>6, <1>k, <1>n, OtherSteps
  <1>q. QED
    BY <1>1, <1>2, <1>3, <1>4, <1>5, <1>6

-----------------------------------------------------------------------------
(* The theorems *)

\* The claim discipline is inductive: whatever crashes, stalls or is cancelled,
\* a task holds the live claim of its run wherever its lease is kept, and each
\* session has one reservation at most.
THEOREM Invariance == Spec => []IInv
  <1>1. Init => IInv
    <2> SUFFICES ASSUME Init PROVE IInv
      OBVIOUS
    <2>1. ClaimsHeld /\ BundlesHeld
      BY DEF Init, Idle, ClaimsHeld, ClaimHeld, BundlesHeld, BundleHeld, Active, Executing
    <2>2. OneReservation
      BY DEF Init, QueueInit, AbsentRow, OneReservation, Reserving
    <2>q. QED
      BY <2>1, <2>2, TypeInit DEF IInv
  <1>2. IInv /\ [Next]_vars => IInv'
    <2> SUFFICES ASSUME IInv, [Next]_vars PROVE IInv'
      OBVIOUS
    <2>1. ClaimsHeld'
      <3>1. \A w \in Workers : ClaimHeld(w)'
        BY ClaimStep
      <3>q. QED
        BY <3>1 DEF ClaimsHeld
    <2>2. BundlesHeld'
      <3>1. LeaseIsKept /\ MarkIsPrompt => \A w \in Workers : BundleHeld(w)'
        BY BundleStep
      <3>q. QED
        BY <3>1 DEF BundlesHeld, LeaseIsKept, FenceIsPrompt, MarkIsPrompt
    <2>q. QED
      BY <2>1, <2>2, TypeStep, ReservationStep DEF IInv
  <1>q. QED
    BY <1>1, <1>2, PTL DEF Spec

\* Every reachable state is typed; a row's token is set while it is claimed.
THEOREM TypeCorrectness == Spec => []TypeOK
  <1>1. IInv => TypeOK
    BY DEF IInv
  <1>q. QED
    BY <1>1, Invariance, PTL

\* Two engines never work on one run: each holds the claim, and the row has
\* one token.
THEOREM ExecutionPerRun == ASSUME LeaseIsKept PROVE Spec => []OneExecutionPerRun
  <1>1. IInv => OneExecutionPerRun
    BY DEF IInv, ClaimsHeld, ClaimHeld, OneExecutionPerRun, Executes, Executing, LeaseIsKept,
           ClaimIsLive, HoldsRow
  <1>q. QED
    BY <1>1, Invariance, PTL

\* Two engines never work in one session, although startRun checks activeRun
\* long before it sets it: their two rows would both be in the index.
THEOREM ExecutionPerSession == ASSUME LeaseIsKept PROVE Spec => []OneExecutionPerSession
  <1>1. IInv => OneExecutionPerSession
    <2> SUFFICES ASSUME IInv, NEW s \in Sessions, NEW v \in WorkersOf(s),
                        NEW w \in WorkersOf(s),
                        task[v].pc \in Executing, task[w].pc \in Executing
                 PROVE  v = w
      BY DEF OneExecutionPerSession
    <2>1. ASSUME NEW u \in WorkersOf(s), task[u].pc \in Executing
          PROVE  /\ task[u].run \in Runs /\ OriginOf[task[u].run] = s
                 /\ queue[task[u].run].token = u /\ Reserving(queue[task[u].run])
      BY <2>1 DEF IInv, ClaimsHeld, ClaimHeld, Executing, LeaseIsKept, WorkersOf, ClaimIsLive,
                  HoldsRow, Claimed, Reserving
    <2>2. task[v].run = task[w].run
      BY <2>1 DEF IInv, OneReservation
    <2>q. QED
      BY <2>1, <2>2
  <1>q. QED
    BY <1>1, Invariance, PTL

\* The fence holds its promise wherever a runner has stalled before it, at work
\* included: what it needs is that a lease outlives the gap between the fence and
\* the write.
THEOREM WriteUnderClaim == ASSUME FenceIsPrompt PROVE Spec => NoForeignWrite
  <1>1. IInv => \A w, v \in Workers :
                  Lands(w, "write") /\ HoldsRow(v, task[w].run) => v = w
    BY DEF IInv, ClaimsHeld, ClaimHeld, Lands, ClaimIsLive, HoldsRow
  <1>q. QED
    BY <1>1, Invariance, PTL DEF NoForeignWrite

\* The interruption mark has no fence: it lands under its task's own claim only
\* if the claim's lease outlives what is read before it.
THEOREM MarkUnderClaim == ASSUME MarkIsPrompt PROVE Spec => NoForeignMark
  <1>1. IInv => \A w, v \in Workers :
                  Lands(w, "interrupt") /\ HoldsRow(v, task[w].run) => v = w
    BY DEF IInv, ClaimsHeld, ClaimHeld, Lands, ClaimIsLive, HoldsRow, Claimed
  <1>q. QED
    BY <1>1, Invariance, PTL DEF NoForeignMark

\* Only an engine that found the bundle running writes it, and a host marks a
\* running bundle only: what waits or has ended is final.
THEOREM FinalBundles == ASSUME LeaseIsKept, MarkIsPrompt PROVE Spec => EndedBundleIsFinal
  <1>1. IInv /\ [Next]_vars =>
          \A r \in Runs : bundle[r] \in {"waiting", "ended"} => bundle'[r] = bundle[r]
    <2> SUFFICES ASSUME IInv, [Next]_vars, NEW r \in Runs,
                        bundle[r] \in {"waiting", "ended"}
                 PROVE  bundle'[r] = bundle[r]
      OBVIOUS
    <2>1. ASSUME NEW w \in Workers, MarkInterrupted(w) PROVE bundle'[r] = bundle[r]
      <3>1. bundle[task[w].run] \in {"running", "ended"}
        BY <2>1 DEF MarkInterrupted, IInv, BundlesHeld, BundleHeld
      <3>q. QED
        BY <2>1, <3>1 DEF MarkInterrupted, IInv, TypeOK
    <2>2. ASSUME NEW w \in Workers, WriteBundle(w) PROVE bundle'[r] = bundle[r]
      <3>1. bundle[task[w].run] \in {"none", "running"}
        BY <2>2 DEF WriteBundle, IInv, BundlesHeld, BundleHeld, Executing
      <3>q. QED
        BY <2>2, <3>1 DEF WriteBundle, IInv, TypeOK
    <2>3. CASE UNCHANGED bundle
      BY <2>3
    <2>4. \/ UNCHANGED bundle
          \/ \E w \in Workers : MarkInterrupted(w) \/ WriteBundle(w)
      BY DEF Next, SessionNext, HostNext, WorkerNext, WorkersOf, vars, OpenSession,
             RecoverSession, CloseSession, RunStopped, SessionClosed, ReserveLaunch,
             CancelLaunch, CommandStart, ActivatePrepared, StartHost, StopHost,
             HostStopped, HostClaims, CommandRun, CommandFails, LaunchFails, ReopenFails,
             HostParksEarly, HostSkips, HostGivesUp, InspectBundle, HostDiesUnclaimed,
             StartEngine, BeginWrite, BeginFails, PassFence, LoseClaim, ParkEngine, Release, Expire,
             Crash
    <2>q. QED
      BY <2>1, <2>2, <2>3, <2>4
  <1>q. QED
    BY <1>1, Invariance, PTL DEF Spec, EndedBundleIsFinal

\* Cancelling a launch wins over every activation that has not started its
\* engine's first write under a claim of its own.
THEOREM CancelIsFinal == ASSUME FenceIsPrompt PROVE Spec => CancelledLaunchNeverRuns
  <1>1. IInv /\ [Next]_vars =>
          \A r \in Runs : queue[r].status = "cancelled" =>
             /\ queue'[r].status = "cancelled"
             /\ bundle[r] = "none" => bundle'[r] = "none"
    BY CancelledStep
  <1>q. QED
    BY <1>1, Invariance, PTL DEF Spec, CancelledLaunchNeverRuns

-----------------------------------------------------------------------------
(* RunLifecycle implements RunOwnership *)


\* The claim names the one engine that can be at work on a run.
LEMMA OwnerIsExecutor ==
    ASSUME IInv, LeaseIsKept, NEW w \in Workers, NEW r \in Runs, Executes(w, r)
    PROVE  OwnerOf(r) = w
  <1>1. \A v \in Workers : Executes(v, r) => v = w
    BY DEF IInv, ClaimsHeld, ClaimHeld, LeaseIsKept, Executing, Executes, ClaimIsLive, HoldsRow
  <1>2. (CHOOSE v \in Workers : Executes(v, r)) = w
    BY <1>1
  <1>q. QED
    BY <1>2 DEF OwnerOf

\* A run on which no engine is at work has no owner.
LEMMA NobodyOwns ==
    ASSUME NEW r \in Runs, \A w \in Workers : ~Executes(w, r)
    PROVE  OwnerOf(r) = Nobody
  BY DEF OwnerOf

\* The engines at work run on runs.
LEMMA ExecutedIsRun ==
    ASSUME IInv, NEW w \in Workers, task[w].pc \in Executing
    PROVE  task[w].run \in Runs
  BY DEF IInv, ClaimsHeld, ClaimHeld, Executing

\* A step after which an engine is at work only where it was before, and that
\* writes no bundle, is a Leave of the runs that have lost their owner.
LEMMA LeavingStep ==
    ASSUME IInv, IInv', LeaseIsKept, UNCHANGED bundle,
           \A w \in Workers, r \in Runs : Executes(w, r)' => Executes(w, r)
    PROVE  Ownership!Next
  <1> DEFINE S == {r \in Runs : \A w \in Workers : ~Executes(w, r)'}
  <1>1. \A r \in S : OwnerOf(r)' = Nobody
    BY DEF OwnerOf
  <1>2. ASSUME NEW r \in Runs \ S PROVE OwnerOf(r)' = OwnerOf(r)
    <2>1. PICK w \in Workers : Executes(w, r)'
      BY <1>2
    <2>2. Executes(w, r)
      BY <2>1
    <2>3. OwnerOf(r) = w
      BY <2>2, OwnerIsExecutor
    <2>4. \A v \in Workers : Executes(v, r)' => v = w
      BY <2>1 DEF IInv, ClaimsHeld, ClaimHeld, LeaseIsKept, Executing, Executes, ClaimIsLive, HoldsRow
    <2>5. OwnerOf(r)' = w
      <3>1. (CHOOSE v \in Workers : Executes(v, r)') = w
        BY <2>1, <2>4
      <3>q. QED
        BY <2>1, <3>1 DEF OwnerOf
    <2>q. QED
      BY <2>3, <2>5
  <1>3. Ownership!Leave(S)
    BY <1>1, <1>2 DEF Ownership!Leave
  <1>4. S \in SUBSET Runs
    OBVIOUS
  <1>q. QED
    BY <1>3, <1>4 DEF Ownership!Next

\* The engine that starts or resumes a bundle acquires the run.
LEMMA AcquiringStep ==
    ASSUME IInv, IInv', LeaseIsKept, NEW w \in Workers, BeginWrite(w)
    PROVE  Ownership!Next
  <1> DEFINE r == task[w].run
  <1>1. /\ r \in Runs /\ ClaimIsLive(w, r) /\ bundle[r] \in {"none", "running"}
        /\ task[w].pc = "begin"
    BY DEF BeginWrite, AcceptsBundle, IInv, ClaimsHeld, ClaimHeld
  <1>2. \A v \in Workers : task'[v].pc = IF v = w THEN "write" ELSE task[v].pc
    BY DEF BeginWrite, Go, IInv, TypeOK
  <1>3. \A v \in Workers : task'[v].run = task[v].run
    BY DEF BeginWrite, Go, IInv, TypeOK
  <1>4. OwnerOf(r) = Nobody
    <2>1. \A v \in Workers : ~Executes(v, r)
      BY <1>1 DEF Executes, Executing, LeaseIsKept, IInv, ClaimsHeld, ClaimHeld, ClaimIsLive, HoldsRow
    <2>q. QED
      BY <1>1, <2>1, NobodyOwns
  <1>5. OwnerOf(r)' = w
    <2>1. Executes(w, r)'
      BY <1>1, <1>2, <1>3 DEF Executes, Executing
    <2>2. \A v \in Workers : Executes(v, r)' => v = w
      BY <1>1, <1>2, <1>3
         DEF Executes, Executing, LeaseIsKept, IInv, ClaimsHeld, ClaimHeld, ClaimIsLive, HoldsRow
    <2>3. (CHOOSE v \in Workers : Executes(v, r)') = w
      BY <2>1, <2>2
    <2>q. QED
      BY <2>1, <2>3 DEF OwnerOf
  <1>6. ASSUME NEW o \in Runs \ {r} PROVE OwnerOf(o)' = OwnerOf(o)
    <2>1. \A v \in Workers : Executes(v, o)' <=> Executes(v, o)
      BY <1>1, <1>2, <1>3 DEF Executes, Executing
    <2>q. QED
      BY <2>1 DEF OwnerOf
  <1>7. [n \in Runs |-> OwnerOf(n)]' = [[n \in Runs |-> OwnerOf(n)] EXCEPT ![r] = w]
    BY <1>1, <1>3, <1>5, <1>6
  <1>8. UNCHANGED bundle
    BY DEF BeginWrite
  <1>9. Ownership!Acquire(w, r)
    BY <1>1, <1>4, <1>7, <1>8 DEF Ownership!Acquire
  <1>q. QED
    BY <1>1, <1>9 DEF Ownership!Next

\* A write that lands is its owner's, and the last one gives the run up.
LEMMA PublishingStep ==
    ASSUME IInv, IInv', LeaseIsKept, NEW w \in Workers, WriteBundle(w)
    PROVE  Ownership!Next
  <1> DEFINE r == task[w].run
             status == task[w].what
  <1>1. /\ r \in Runs /\ status \in {"running", "waiting", "ended"}
        /\ Executes(w, r)
    BY DEF WriteBundle, IInv, ClaimsHeld, ClaimHeld, LeaseIsKept, Executes, Executing
  <1>2. OwnerOf(r) = w
    BY <1>1, OwnerIsExecutor
  <1>3. \A v \in Workers :
           /\ v # w => task'[v] = task[v]
           /\ task'[w].run = r
           /\ task'[w].pc = IF status = "running" THEN "exec" ELSE "ending"
    BY DEF WriteBundle, Go, IInv, TypeOK
  <1>4. \A v \in Workers : Executes(v, r) => v = w
    BY <1>1 DEF IInv, ClaimsHeld, ClaimHeld, LeaseIsKept, Executing, Executes, ClaimIsLive, HoldsRow
  <1>5. ASSUME NEW o \in Runs \ {r} PROVE OwnerOf(o)' = OwnerOf(o)
    <2>1. \A v \in Workers : Executes(v, o)' <=> Executes(v, o)
      BY <1>1, <1>3 DEF Executes, Executing
    <2>q. QED
      BY <2>1 DEF OwnerOf
  <1>6. OwnerOf(r)' = IF status = "running" THEN w ELSE Nobody
    <2>1. \A v \in Workers : Executes(v, r)' => v = w
      BY <1>3, <1>4 DEF Executes
    <2>2. Executes(w, r)' <=> status = "running"
      BY <1>3 DEF Executes, Executing
    <2>3. CASE status = "running"
      <3>1. (CHOOSE v \in Workers : Executes(v, r)') = w
        BY <2>1, <2>2, <2>3
      <3>q. QED
        BY <2>2, <2>3, <3>1 DEF OwnerOf
    <2>4. CASE status # "running"
      BY <2>1, <2>2, <2>4 DEF OwnerOf
    <2>q. QED
      BY <2>3, <2>4
  <1>7. [n \in Runs |-> OwnerOf(n)]' =
          IF status = "running" THEN [n \in Runs |-> OwnerOf(n)]
                                ELSE [[n \in Runs |-> OwnerOf(n)] EXCEPT ![r] = Nobody]
    BY <1>1, <1>2, <1>3, <1>5, <1>6
  <1>8. bundle' = [bundle EXCEPT ![r] = status]
    BY DEF WriteBundle
  <1>9. Ownership!Publish(w, r, status)
    BY <1>1, <1>2, <1>7, <1>8 DEF Ownership!Publish
  <1>q. QED
    BY <1>1, <1>9 DEF Ownership!Next

\* A host that interrupts a run does so in its owner's absence.
LEMMA AbandoningStep ==
    ASSUME IInv, LeaseIsKept, MarkIsPrompt, NEW w \in Workers, MarkInterrupted(w)
    PROVE  [Ownership!Next]_(Ownership!ownershipVars)
  <1> DEFINE r == task[w].run
  <1>1. /\ r \in Runs
        /\ ClaimIsLive(w, r) \/ queue[r].status = "cancelled"
        /\ task[w].pc = "interrupt"
    BY DEF MarkInterrupted, IInv, ClaimsHeld, ClaimHeld
  <1>2. \A v \in Workers : ~Executes(v, r)
    BY <1>1 DEF Executes, Executing, LeaseIsKept, IInv, ClaimsHeld, ClaimHeld, ClaimIsLive, HoldsRow,
                Claimed
  <1>3. OwnerOf(r) = Nobody
    BY <1>1, <1>2, NobodyOwns
  <1>4. \A o \in Runs : OwnerOf(o)' = OwnerOf(o)
    <2>1. ASSUME NEW v \in Workers, NEW o \in Runs PROVE Executes(v, o)' <=> Executes(v, o)
      <3>1. v # w => task'[v] = task[v]
        BY DEF MarkInterrupted, Go, IInv, TypeOK
      <3>2. task'[w].pc = "ending"
        BY DEF MarkInterrupted, Go, IInv, TypeOK
      <3>q. QED
        BY <1>1, <3>1, <3>2 DEF Executes, Executing
    <2>q. QED
      BY <2>1 DEF OwnerOf
  <1>5. [n \in Runs |-> OwnerOf(n)]' = [n \in Runs |-> OwnerOf(n)]
    BY <1>4
  <1>b. bundle' = [bundle EXCEPT ![r] = "ended"] /\ bundle[r] \in {"running", "ended"}
    BY DEF MarkInterrupted, IInv, BundlesHeld, BundleHeld
  <1>6. CASE bundle[r] = "running"
    <2>2. Ownership!Abandon(r)
      BY <1>1, <1>3, <1>5, <1>6, <1>b DEF Ownership!Abandon
    <2>q. QED
      BY <1>1, <2>2 DEF Ownership!Next
  <1>7. CASE bundle[r] # "running"
    <2>1. UNCHANGED bundle
      BY <1>1, <1>7, <1>b DEF IInv, TypeOK
    <2>q. QED
      BY <1>5, <2>1 DEF Ownership!ownershipVars
  <1>q. QED
    BY <1>6, <1>7

\* One engine at a time works on a run, and none on a run that waits or has
\* ended, whatever the sessions, the host and the clock do.
THEOREM Refinement == ASSUME LeaseIsKept, MarkIsPrompt PROVE Spec => ImplementsOwnership
  <1>1. Init => Ownership!Init
    BY DEF Init, Ownership!Init, OwnerOf, Executes, Executing, Idle
  <1>2. ASSUME IInv, IInv', LeaseIsKept, [Next]_vars
        PROVE  [Ownership!Next]_(Ownership!ownershipVars)
    <2>1. ASSUME NEW w \in Workers, BeginWrite(w) PROVE Ownership!Next
      BY <1>2, <2>1, AcquiringStep
    <2>2. ASSUME NEW w \in Workers, WriteBundle(w) PROVE Ownership!Next
      BY <1>2, <2>2, PublishingStep
    <2>3. ASSUME NEW w \in Workers, MarkInterrupted(w)
          PROVE  [Ownership!Next]_(Ownership!ownershipVars)
      BY <1>2, <2>3, AbandoningStep
    <2>4. ASSUME NEW w \in Workers, NEW s \in {"running", "waiting", "ended"}, PassFence(w, s)
          PROVE  Ownership!Next
      <3>1. task[w].pc = "exec" /\ UNCHANGED bundle
        BY <2>4 DEF PassFence
      <3>2. \A v \in Workers : task'[v].run = task[v].run /\ (v # w => task'[v] = task[v])
        BY <1>2, <2>4 DEF PassFence, Go, IInv, TypeOK
      <3>3. \A v \in Workers, r \in Runs : Executes(v, r)' => Executes(v, r)
        BY <3>1, <3>2 DEF Executes, Executing
      <3>q. QED
        BY <1>2, <3>1, <3>3, LeavingStep
    <2>i. ASSUME NEW w \in Workers, InspectBundle(w) PROVE Ownership!Next
      <3>1. UNCHANGED bundle /\ \A v \in Workers : v # w => task'[v] = task[v]
        BY <1>2, <2>i DEF InspectBundle, Go, IInv, TypeOK
      <3>2. task'[w].pc \notin Executing
        BY <1>2, <2>i DEF InspectBundle, Go, IInv, TypeOK, Executing
      <3>3. \A v \in Workers, r \in Runs : Executes(v, r)' => Executes(v, r)
        BY <3>1, <3>2 DEF Executes
      <3>q. QED
        BY <1>2, <3>1, <3>3, LeavingStep
    <2>5. CASE \A w \in Workers :
                 /\ ~BeginWrite(w) /\ ~WriteBundle(w)
                 /\ ~InspectBundle(w) /\ ~MarkInterrupted(w)
                 /\ \A s \in {"running", "waiting", "ended"} : ~PassFence(w, s)
      <3>1. TypeOK
        BY <1>2 DEF IInv
      <3>2. /\ UNCHANGED bundle
            /\ \A w \in Workers, r \in Runs : Executes(w, r)' => Executes(w, r)
        <4>1. /\ UNCHANGED bundle
              /\ \A w \in Workers : task'[w] = task[w] \/ WritesNothing(task'[w])
          BY <1>2, <2>5, <3>1, OtherSteps
        <4>q. QED
          BY <4>1 DEF WritesNothing, Executes
      <3>q. QED
        BY <1>2, <3>2, LeavingStep
    <2>q. QED
      BY <2>1, <2>2, <2>3, <2>4, <2>i, <2>5
  <1>q. QED
    BY <1>1, <1>2, Invariance, PTL DEF Spec, ImplementsOwnership, Ownership!Spec
=============================================================================
