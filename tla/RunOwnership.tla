---------------------------- MODULE RunOwnership ----------------------------
(***************************************************************************)
(* What the run queue, the claims and the fences are for: a run is worked  *)
(* on by one engine at a time, an engine that leaves it unfinished may be  *)
(* followed by another, and a run that waits at a checkpoint or has ended  *)
(* is never worked on again.  RunLifecycle implements this specification.  *)
(***************************************************************************)
CONSTANTS Runs, Workers, Nobody

VARIABLES
    owner,    \* run -> the worker whose engine is at work on it, or Nobody
    outcome   \* run -> status of its bundle

ownershipVars == <<owner, outcome>>

Init ==
    /\ owner = [r \in Runs |-> Nobody]
    /\ outcome = [r \in Runs |-> "none"]

\* An engine starts on a new run or takes an unfinished one up again.
Acquire(w, r) ==
    /\ owner[r] = Nobody
    /\ outcome[r] \in {"none", "running"}
    /\ owner' = [owner EXCEPT ![r] = w]
    /\ UNCHANGED outcome

\* The owner publishes progress, or its last word.
Publish(w, r, status) ==
    /\ owner[r] = w
    /\ outcome' = [outcome EXCEPT ![r] = status]
    /\ owner' = IF status = "running" THEN owner ELSE [owner EXCEPT ![r] = Nobody]

\* Engines stop without a last word: parked, crashed, or without their claim.
Leave(S) ==
    /\ owner' = [r \in Runs |-> IF r \in S THEN Nobody ELSE owner[r]]
    /\ UNCHANGED outcome

\* Nobody can resume the run: it is closed in its owner's absence.
Abandon(r) ==
    /\ owner[r] = Nobody
    /\ outcome[r] = "running"
    /\ outcome' = [outcome EXCEPT ![r] = "ended"]
    /\ UNCHANGED owner

Next ==
    \/ \E w \in Workers, r \in Runs :
         \/ Acquire(w, r)
         \/ \E status \in {"running", "waiting", "ended"} : Publish(w, r, status)
    \/ \E S \in SUBSET Runs : Leave(S)
    \/ \E r \in Runs : Abandon(r)

Spec == Init /\ [][Next]_ownershipVars
=============================================================================
