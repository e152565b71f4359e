------------------------------ MODULE MCGraphs ------------------------------
(***************************************************************************)
(* The engine beside the graphs it runs: five built-in workflows, included  *)
(* workflows, and the command batches of their shell steps, in one TLC run. *)
(* They share no state, so a behaviour is one of one part, chosen at the    *)
(* start, while the others rest in one of their initial states.             *)
(***************************************************************************)
EXTENDS MCEngine, Autoimplement, Monitor, ChangeVerification, PlanChange,
        WorkspacePreparation, Composition, CommandBatch

VARIABLE part

grfVars == <<part, vars, autVars, monVars, verVars, planVars, workVars, comVars, batVars>>

GrfInit ==
    /\ part \in {"engine", "autoimplement", "monitor", "verification", "planChange",
                "workspace", "composition", "batch"}
    /\ Init /\ AutInit /\ MonInit /\ VerInit /\ PlanInit /\ WorkInit /\ ComInit /\ BatInit
    /\ part # "engine" => carried = <<>>
    /\ part # "autoimplement" => job = [plan |-> TRUE, checks |-> TRUE, mode |-> "pullRequest"]
    /\ part # "monitor" => mayRepair
    /\ part # "verification" => request = [fixes |-> {}, untested |-> FALSE]
    /\ part # "planChange" => asked = [mode |-> "skip", previous |-> NoPlan, receipt |-> NoPlan]
    /\ part # "workspace" =>
         /\ wanted = [mode |-> "auto", authorized |-> FALSE, base |-> "discovered",
                      receipt |-> NoReceipt, ours |-> TRUE]
         /\ ~git.dirty /\ git.origin = {}

\* A step of one part, which leaves the variables of the others alone.
Of(name, A, others) == part = name /\ A /\ UNCHANGED <<part, others>>

GrfNext ==
    \/ Of("engine", Next, <<autVars, monVars, verVars, planVars, workVars, comVars, batVars>>)
    \/ Of("autoimplement", AutNext, <<vars, monVars, verVars, planVars, workVars, comVars, batVars>>)
    \/ Of("monitor", MonNext, <<vars, autVars, verVars, planVars, workVars, comVars, batVars>>)
    \/ Of("verification", VerNext, <<vars, autVars, monVars, planVars, workVars, comVars, batVars>>)
    \/ Of("planChange", PlanNext, <<vars, autVars, monVars, verVars, workVars, comVars, batVars>>)
    \/ Of("workspace", WorkNext, <<vars, autVars, monVars, verVars, planVars, comVars, batVars>>)
    \/ Of("composition", ComNext, <<vars, autVars, monVars, verVars, planVars, workVars, batVars>>)
    \/ Of("batch", BatNext, <<vars, autVars, monVars, verVars, planVars, workVars, comVars>>)

GrfSpec == GrfInit /\ [][GrfNext]_grfVars

\* GrfTypeOK: every variable of the eight parts keeps its type.
GrfTypeOK ==
    /\ TypeOK /\ AutTypeOK /\ MonTypeOK /\ VerTypeOK /\ PlanTypeOK /\ WorkTypeOK
    /\ ComTypeOK /\ BatTypeOK

\* VerdictIsEarned (autoimplement, change-verification, plan-change,
\* workspace-preparation): a completed
\* implementation was checked, published, reviewed and found ready after its last change,
\* a change verified as ready passed its checks after its last repair, a plan that is ready
\* is the one that was documented and approved last, and a workspace that is ready is the
\* branch it says, authorised if it is the base branch itself.
VerdictIsEarned ==
    /\ CompletedMeansChecked /\ ReadyMeansPassed
    /\ ReadyMeansApproved /\ ReadyMeansOwned

\* NoRepairTwice (the repair guards of monitor and change-verification): neither
\* workflow repairs the same failure twice.
NoRepairTwice == MonitorRepairsOnce /\ VerificationRepairsOnce

=============================================================================
