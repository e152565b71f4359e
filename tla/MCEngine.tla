------------------------------ MODULE MCEngine ------------------------------
(***************************************************************************)
(* A loop of two nodes with a checkpoint: "plan" leads to "work" or stops  *)
(* the run; "work" leads to the "gate", back to "plan" when it has failed, *)
(* has no case for a cancelled attempt and no route for a timeout; the     *)
(* answered gate leads back to "plan".                                     *)
(***************************************************************************)
EXTENDS Engine

CONSTANTS plan, work, gate

MCEdge ==
    [n \in {plan, work, gate} |-> [r \in {"go", "stop"} \union Failures |->
       CASE n = plan -> (CASE r = "go" -> work [] r = "stop" -> "end" [] OTHER -> "unrouted")
         [] n = work -> (CASE r = "go" -> gate [] r = "stop" -> "error"
                           [] r = "failed" -> plan [] OTHER -> "unrouted")
         [] n = gate -> (CASE r = "go" -> plan [] r = "stop" -> "error" [] OTHER -> "unrouted")]]

Answered == <<[node |-> plan, result |-> "go"], [node |-> work, result |-> "go"],
              [node |-> gate, result |-> "go"]>>

Unanswerable == <<[node |-> plan, result |-> "go"], [node |-> work, result |-> "go"],
                  [node |-> gate, result |-> "stop"]>>

MCFreshRun == {<<>>}

MCCarries == {<<>>, Answered, Unanswerable}
=============================================================================
