------------------------------ MODULE Composition -----------------------------
(***************************************************************************)
(* Workflows that include workflows.  A compiled graph runs on one state:   *)
(* one list of steps and one table of outputs, with the nodes of an include *)
(* qualified by its mount path.  What a node of an include is shown of that *)
(* state is projected from it.  The reference is a call stack: every        *)
(* invocation of an include has a frame of its own, which starts empty.     *)
(* Scope 0 is the workflow that runs, scope d + 1 is mounted in scope d.    *)
(***************************************************************************)
EXTENDS Integers, Sequences, FiniteSets

CONSTANTS Depth, Names, MaxRunSteps

ASSUME CompositionAssumption ==
    /\ Depth \in Nat /\ MaxRunSteps \in Nat
    /\ Names \cap {"entry", "exit", "child"} = {}  \* ids the compiler keeps apart

VARIABLES
    scope,    \* where the run is
    runSteps, \* state.steps: node, outcome, value
    outputs,  \* state.outputs: value of a node, 0 if it has none
    frames    \* the call stack (reference): scope d is frames[d + 1]

comVars == <<scope, runSteps, outputs, frames>>

Scopes == 0..Depth
Mounts == 1..Depth
Node(d, n) == [scope |-> d, name |-> n]
EntryNode(d) == Node(d, "entry")  \* the mount path itself
ExitNode(d) == Node(d, "exit")    \* __piw_exit_<name> under the mount path
Locals == Names \cup {"child"}    \* what a node may read by name: nodes and the mount

\* A value is the position of the step that made it, so no two steps make the same.
Value == Len(runSteps) + 1

EmptyFrame(input) ==
    [input |-> input, out |-> [n \in Locals |-> 0], steps |-> <<>>]

\* RecordAttempt: a failed repeat deletes the output of the earlier success.
RecordAttempt(node, ok) ==
    /\ Len(runSteps) < MaxRunSteps
    /\ runSteps' = Append(runSteps, [node |-> node, ok |-> ok, value |-> Value])
    /\ outputs' = [outputs EXCEPT
                     ![node] = IF ok THEN Value ELSE 0,
                     ![EntryNode(node.scope)] =
                         IF node.name \in {"entry", "exit"} THEN Value ELSE @]

\* Local: one step of a frame of the reference.
Local(n, ok, v) ==
    [frames[scope + 1] EXCEPT !.out[n] = IF ok THEN v ELSE 0,
                              !.steps = Append(@, [name |-> n, ok |-> ok, value |-> v])]

----------------------------------------------------------------------------
\* RunNode: a node whose failure, if it fails, the graph routes.
RunNode(n) == \E ok \in BOOLEAN :
    /\ RecordAttempt(Node(scope, n), ok)
    /\ frames' = [frames EXCEPT ![scope + 1] = Local(n, ok, Value)]
    /\ UNCHANGED scope

\* EnterInclude: the entry node records the mapped input.
EnterInclude ==
    /\ scope < Depth /\ scope' = scope + 1
    /\ RecordAttempt(EntryNode(scope'), TRUE)
    /\ frames' = Append(frames, EmptyFrame(Value))

LatestStepIndex(node) ==
    LET S == {i \in DOMAIN runSteps : runSteps[i].node = node}
    IN  CHOOSE i \in S \cup {0} : \A j \in S : j <= i

\* ExitInclude: after the node the exit is from, which is the last that ran; the exit's
\* output is the result of the mount.
ExitInclude ==
    /\ scope > 0 /\ scope' = scope - 1
    /\ \E n \in Names : LatestStepIndex(Node(scope, n)) = Len(runSteps) /\ outputs[Node(scope, n)] # 0
    /\ RecordAttempt(ExitNode(scope), TRUE)
    /\ frames' = [d \in 1..scope |->
                    IF d < scope THEN frames[d]
                    ELSE [frames[d] EXCEPT !.out["child"] = Value,
                            !.steps = Append(@, [name |-> "child", ok |-> TRUE, value |-> Value])]]

----------------------------------------------------------------------------
(***************************************************************************)
(* projectWorkflowContext: what a node of scope d is shown.                 *)
(***************************************************************************)
EntryIndex(d) == IF d = 0 THEN 0 ELSE LatestStepIndex(EntryNode(d))

\* Variant: whatever the table has is shown.
ShownEver(d, node) == outputs[node] # 0

\* Shown: made since the scope was entered last.
Shown(d, node) == LatestStepIndex(node) > EntryIndex(d) /\ outputs[node] # 0

ProjectedOutputs(d) == [n \in Locals |->
    IF n # "child" THEN IF Shown(d, Node(d, n)) THEN outputs[Node(d, n)] ELSE 0
    ELSE IF d < Depth /\ LatestStepIndex(ExitNode(d + 1)) > EntryIndex(d)
         THEN outputs[EntryNode(d + 1)] ELSE 0]

IsLocalStep(d, s) ==
    s.node \in {Node(d, n) : n \in Names} \cup {ExitNode(d + 1)}
LocalStep(s) ==
    [name |-> IF s.node.name = "exit" THEN "child" ELSE s.node.name,
     ok |-> s.ok, value |-> s.value]
LocalSince(d) == {i \in EntryIndex(d) + 1..Len(runSteps) : IsLocalStep(d, runSteps[i])}

\* The k-th number of S in order.
Ranked(S, k) == CHOOSE i \in S : Cardinality({j \in S : j <= i}) = k

ProjectedSteps(d) ==
    [k \in 1..Cardinality(LocalSince(d)) |-> LocalStep(runSteps[Ranked(LocalSince(d), k)])]

ProjectWorkflowContext(d) ==
    [input |-> IF d = 0 THEN 0 ELSE runSteps[EntryIndex(d)].value,
     out |-> ProjectedOutputs(d), steps |-> ProjectedSteps(d)]

----------------------------------------------------------------------------
ComInit ==
    /\ scope = 0 /\ runSteps = <<>> /\ frames = <<EmptyFrame(0)>>
    /\ outputs = [node \in [scope : Scopes, name : Names \cup {"entry", "exit"}] |-> 0]

ComNext == (\E n \in Names : RunNode(n)) \/ EnterInclude \/ ExitInclude

ComSpec == ComInit /\ [][ComNext]_comVars

----------------------------------------------------------------------------
ComTypeOK ==
    /\ scope \in Scopes /\ Len(runSteps) \in 0..MaxRunSteps /\ Len(frames) = scope + 1
    /\ \A i \in DOMAIN runSteps :
         runSteps[i].node \in [scope : Scopes, name : Names \cup {"entry", "exit"}]
    /\ \A node \in DOMAIN outputs : outputs[node] \in 0..Len(runSteps)

\* IncludesAreFrames (projectWorkflowContext, recordAttempt): however often a workflow is
\* included, left and entered again, a node sees exactly what a call of its own would
\* show it: its input, the outputs and steps made in this invocation, none of an earlier
\* one, and the result of an include it has left.
IncludesAreFrames == ProjectWorkflowContext(scope) = frames[scope + 1]

=============================================================================
