------------------------ MODULE WorkspacePreparation ------------------------
(***************************************************************************)
(* The workspace-preparation workflow: it inspects a repository, adopts the  *)
(* branch it finds or has an agent name a new one, and creates that branch   *)
(* or worktree.  Its receipt is handed to later requests, which revalidate   *)
(* it.  People use the same repository meanwhile, and a crash reruns the     *)
(* step it met.  A revision is the set of the commits in its history, so one *)
(* is an ancestor of another when it is a subset of it.                      *)
(***************************************************************************)
EXTENDS Naturals, Functions

CONSTANTS
    Branches, Main,  \* branch names, and the repository's default branch
    NoReceipt,
    MaxCommits,      \* commits ever made
    WorkRequests,    \* requests served
    WorkActs         \* acts of people and crashes

ASSUME WorkspaceAssumption ==
    /\ Main \in Branches /\ "discovered" \notin Branches
    /\ {MaxCommits, WorkRequests, WorkActs} \subseteq Nat \ {0}

VARIABLES
    git,         \* branches and their revisions, HEAD and changes of the main checkout,
                 \* the worktrees by the name they were created for, branches on origin
    wanted,      \* input: mode, authority, base branch, receipt and its repository
    workNode,
    seen,        \* the branch the inspection found checked out
    inspection,  \* outputs.inspect of a proposal: mode, base branch and revision, changes
    proposal,    \* outputs.propose
    workspace,   \* the prepared workspace returned last
    calm,        \* nobody else has touched the repository since the request
    spent        \* requests and acts so far

workVars == <<git, wanted, workNode, seen, inspection, proposal, workspace, calm, spent>>

Commits == 1..MaxCommits
\* A base branch the request names, or the default branch it is left to.
Bases == {"discovered"} \cup (Branches \ {Main})
Inspected == [mode : {"branch", "worktree", "defaultBranch"}, base : Branches,
              revision : SUBSET Commits, changes : BOOLEAN]
Receipts == [mode : {"branch", "worktree", "defaultBranch"}, base : Branches,
             revision : SUBSET Commits, work : Branches, changes : BOOLEAN]

ASSUME ReceiptAssumption == NoReceipt \notin Receipts

\* A request that starts afresh, and one that brings a receipt: of the requested repository
\* (ours) or not.  Only a request without a receipt reads its mode, and only direct work
\* and a receipt read the authority.
FreshRequests ==
    [mode : {"auto", "branch", "worktree"}, authorized : {FALSE},
     base : Bases, receipt : {NoReceipt}, ours : {TRUE}] \cup
    [mode : {"defaultBranch"}, authorized : BOOLEAN,
     base : Bases, receipt : {NoReceipt}, ours : {TRUE}]
RequestsWith(r) ==
    [mode : {"auto"}, authorized : BOOLEAN, base : Bases, receipt : {r}, ours : BOOLEAN]

\* Extended: a function with one more name in its domain.
Extended(f, name, value) ==
    [n \in DOMAIN f \cup {name} |-> IF n = name THEN value ELSE f[n]]

Heads == {git.head} \cup Range(git.trees)

\* Checkout: the branch at a receipt's path, or in the repository when there is no receipt.
Checkout(r) ==
    IF r = NoReceipt \/ r.mode # "worktree" THEN git.head
    ELSE IF r.work \in DOMAIN git.trees THEN git.trees[r.work] ELSE "missing"

Turn(n) == workNode' = n /\ UNCHANGED <<git, wanted, inspection, proposal, calm, spent>>
Ready(r) == Turn("ready") /\ workspace' = r /\ UNCHANGED seen

----------------------------------------------------------------------------
\* ReadBranch: the first git call of the inspection; people may act before the rest.
ReadBranch ==
    /\ workNode = "inspect" /\ Turn("reading")
    /\ seen' = Checkout(wanted.receipt)
    /\ UNCHANGED workspace

\* ReceiptHolds: every check on a receipt a caller brings; one for direct work is always an
\* authorised one.
ReceiptHolds(r) ==
    /\ wanted.ours /\ wanted.base \in {"discovered", r.base}
    /\ seen = r.work
    /\ {Checkout(r), r.work} \subseteq DOMAIN git.branches
    /\ git.branches[Checkout(r)] = git.branches[r.work]
    /\ r.revision \subseteq git.branches[r.work]
    /\ r.mode = "defaultBranch" => r.work = r.base /\ wanted.authorized
    /\ r.mode = "worktree" => Checkout(r) = r.work

Revalidate ==
    /\ workNode = "reading" /\ wanted.receipt # NoReceipt
    /\ IF ReceiptHolds(wanted.receipt) THEN Ready(wanted.receipt)
       ELSE Turn("blocked") /\ UNCHANGED <<seen, workspace>>

BaseBranch == IF wanted.base = "discovered" THEN Main ELSE wanted.base

FreshReading ==
    workNode = "reading" /\ wanted.receipt = NoReceipt /\ BaseBranch \in DOMAIN git.branches

Adopted(mode) ==
    Ready([mode |-> mode, base |-> BaseBranch, revision |-> git.branches[BaseBranch],
           work |-> seen, changes |-> git.dirty])

\* MayWorkDirectly: what direct work on the default branch takes.
MayWorkDirectly ==
    BaseBranch = Main /\ seen = Main /\ wanted.authorized /\ ~git.dirty

InspectDirect ==
    /\ FreshReading /\ wanted.mode = "defaultBranch"
    /\ MayWorkDirectly /\ Adopted("defaultBranch")

OnTaskBranch == wanted.mode \in {"auto", "branch"} /\ seen # BaseBranch

AdoptBranch ==
    /\ FreshReading /\ OnTaskBranch
    /\ git.branches[BaseBranch] \subseteq git.branches[git.head]
    /\ Adopted("branch")

AskForName ==
    /\ FreshReading /\ wanted.mode # "defaultBranch" /\ ~OnTaskBranch
    /\ LET mode == IF wanted.mode = "worktree" \/ (wanted.mode = "auto" /\ git.dirty)
                   THEN "worktree" ELSE "branch"
       IN /\ mode = "branch" => ~git.dirty
          /\ inspection' = [mode |-> mode, base |-> BaseBranch,
                            revision |-> git.branches[BaseBranch], changes |-> git.dirty]
    /\ workNode' = "propose"
    /\ UNCHANGED <<git, wanted, seen, proposal, workspace, calm, spent>>

\* InspectBlocked: nothing above applies, or a git call fails.
InspectBlocked ==
    workNode \in {"inspect", "reading"} /\ Turn("blocked") /\ UNCHANGED <<seen, workspace>>

Propose ==
    /\ workNode = "propose" /\ workNode' = "apply"
    /\ proposal' \in Branches
    /\ UNCHANGED <<git, wanted, seen, inspection, workspace, calm, spent>>

----------------------------------------------------------------------------
\* ValidateBranchName: neither the base branch nor one that exists here or on origin.
ValidateBranchName ==
    /\ workNode = "apply"
    /\ proposal # inspection.base
    /\ proposal \notin DOMAIN git.branches \cup git.origin
    /\ Turn("creating") /\ UNCHANGED <<seen, workspace>>

\* Creatable: git refuses a branch that exists, and a path in use.
Creatable ==
    /\ proposal \notin DOMAIN git.branches
    /\ inspection.mode = "worktree" => proposal \notin DOMAIN git.trees

\* Created: after `git switch -c` or `git worktree add -b` from the inspected base revision.
Created ==
    LET named == [git EXCEPT !.branches = Extended(@, proposal, inspection.revision)]
    IN IF inspection.mode = "branch" THEN [named EXCEPT !.head = proposal]
       ELSE [named EXCEPT !.trees = Extended(@, proposal, proposal)]

CreateWorkspace ==
    /\ workNode = "creating" /\ Creatable
    /\ git' = Created /\ workNode' = "created"
    /\ UNCHANGED <<wanted, seen, inspection, proposal, workspace, calm, spent>>

\* ReturnWorkspace: the receipt of what was created, with the changes seen at the inspection.
ReturnWorkspace ==
    /\ workNode = "created"
    /\ Ready([mode |-> inspection.mode, base |-> inspection.base,
              revision |-> inspection.revision, work |-> proposal,
              changes |-> inspection.changes])

\* ApplyBlocked: an invalid name, or a git call that fails; one that times out may have
\* done its work.
ApplyBlocked ==
    /\ workNode \in {"apply", "creating"} /\ workNode' = "blocked"
    /\ git' \in {git} \cup (IF workNode = "creating" /\ Creatable THEN {Created} ELSE {})
    /\ UNCHANGED <<wanted, seen, inspection, proposal, workspace, calm, spent>>

\* NextRequest: another workflow asks, with the receipt or afresh.
NextRequest ==
    /\ workNode \in {"ready", "blocked"} /\ spent.requests < WorkRequests
    /\ wanted' \in FreshRequests \cup
         (IF workspace = NoReceipt THEN {} ELSE RequestsWith(workspace))
    /\ workNode' = "inspect" /\ calm' = TRUE
    /\ spent' = [spent EXCEPT !.requests = @ + 1]
    /\ UNCHANGED <<git, seen, inspection, proposal, workspace>>

\* WorkCrash: the step is run again from the inputs it had.
WorkCrash ==
    /\ spent.acts < WorkActs
    /\ \/ workNode = "reading" /\ workNode' = "inspect"
       \/ workNode \in {"creating", "created"} /\ workNode' = "apply"
    /\ spent' = [spent EXCEPT !.acts = @ + 1]
    /\ UNCHANGED <<git, wanted, seen, inspection, proposal, workspace, calm>>

----------------------------------------------------------------------------
\* What people, and the agents of other workflows, do with git.
NextCommit == git.made + 1

SwitchHead == \E b \in DOMAIN git.branches \ Heads : git' = [git EXCEPT !.head = b]
SwitchTree == \E t \in DOMAIN git.trees, b \in DOMAIN git.branches \ Heads :
    git' = [git EXCEPT !.trees[t] = b]
Edit == git' = [git EXCEPT !.dirty = ~@]
NewBranch == \E b \in Branches \ DOMAIN git.branches :
    git' = [git EXCEPT !.head = b, !.branches = Extended(@, b, @[git.head])]
DeleteBranch == \E b \in DOMAIN git.branches \ (Heads \cup {Main}) :
    git' = [git EXCEPT !.branches = Restrict(@, DOMAIN @ \ {b})]
RemoveTree == \E t \in DOMAIN git.trees :
    git' = [git EXCEPT !.trees = Restrict(@, DOMAIN @ \ {t})]
CommitOrRebase == \E b \in Heads :
    /\ NextCommit \in Commits
    /\ \E old \in {git.branches[b], git.branches[Main]} :
         git' = [git EXCEPT !.made = NextCommit, !.branches[b] = old \cup {NextCommit}]

People ==
    /\ spent.acts < WorkActs
    /\ \/ SwitchHead \/ SwitchTree \/ Edit \/ NewBranch \/ DeleteBranch \/ RemoveTree
       \/ CommitOrRebase
    /\ calm' = FALSE /\ spent' = [spent EXCEPT !.acts = @ + 1]
    /\ UNCHANGED <<wanted, workNode, seen, inspection, proposal, workspace>>

----------------------------------------------------------------------------
NotInspected == [mode |-> "branch", base |-> Main, revision |-> {}, changes |-> FALSE]

WorkInit ==
    /\ git \in [branches : {[b \in {Main} |-> {1}]}, head : {Main}, dirty : BOOLEAN,
                trees : {[b \in {} |-> Main]}, origin : SUBSET (Branches \ {Main}), made : {1}]
    /\ wanted \in FreshRequests
    /\ workNode = "inspect" /\ seen = Main /\ proposal = Main
    /\ inspection = NotInspected /\ workspace = NoReceipt /\ calm = TRUE
    /\ spent = [requests |-> 1, acts |-> 0]

WorkNext ==
    \/ ReadBranch \/ Revalidate \/ InspectDirect \/ AdoptBranch \/ AskForName \/ InspectBlocked
    \/ Propose \/ ValidateBranchName \/ CreateWorkspace \/ ReturnWorkspace \/ ApplyBlocked
    \/ NextRequest \/ WorkCrash \/ People

WorkSpec == WorkInit /\ [][WorkNext]_workVars

----------------------------------------------------------------------------
WorkTypeOK ==
    /\ DOMAIN git.branches \cup DOMAIN git.trees \cup git.origin \subseteq Branches
    /\ Range(git.branches) \subseteq SUBSET Commits
    /\ git.dirty \in BOOLEAN /\ git.made \in Commits
    /\ Heads \subseteq DOMAIN git.branches
    /\ \/ wanted \in FreshRequests
       \/ wanted.receipt \in Receipts /\ wanted \in RequestsWith(wanted.receipt)
    /\ workNode \in {"inspect", "reading", "propose", "apply", "creating", "created",
                     "ready", "blocked"}
    /\ seen \in Branches \cup {"missing"} /\ proposal \in Branches
    /\ inspection \in Inspected /\ workspace \in Receipts \cup {NoReceipt}
    /\ spent \in [requests : 1..WorkRequests, acts : 0..WorkActs] /\ calm \in BOOLEAN

\* ReadyMeansOwned (inspectWorkspace, prepareWorkspace): a workspace is returned on its base
\* branch only for direct work that this very request authorises; and when nobody else has
\* touched the repository since the request, the branch is checked out where the receipt
\* says, contains the base revision and, unless the receipt is a caller's, the recorded
\* changes are those of the checkout, whatever crashes and earlier requests did.
ReadyMeansOwned ==
    workNode = "ready" =>
        /\ workspace.work = workspace.base => workspace.mode = "defaultBranch" /\ wanted.authorized
        /\ calm =>
             /\ Checkout(workspace) = workspace.work
             /\ workspace.revision \subseteq git.branches[workspace.work]
             /\ wanted.receipt = NoReceipt => workspace.changes = git.dirty

\* DirectWorkIsAuthorised ("Direct default-branch work requires explicit authority"; a branch
\* in use is adopted as an "Existing non-default task branch"): a workspace on the default
\* branch is one the request authorises, also when the request names another base branch.
DirectWorkIsAuthorised ==
    workNode = "ready" /\ calm /\ workspace.work = Main => wanted.authorized

=============================================================================
