--------------------------- MODULE MCRunLifecycle ---------------------------
(* Small instances of RunLifecycle for TLC. *)
EXTENDS RunLifecycle, TLC

CONSTANTS s1, h1, h2, a, b, c, d

\* Two tasks for the one session, or one; one for a host, or for each of two.
MCWorkersPair == {<<s1, a>>, <<s1, b>>, <<h1, c>>}
MCWorkersHosts == {<<s1, a>>, <<h1, c>>, <<h2, d>>}
MCWorkersSolo == {<<s1, a>>, <<h1, c>>}

MCProcOf == [w \in Workers |-> w[1]]

\* Runs that all belong to one session.
MCOriginOne == [r \in Runs |-> s1]

\* No continuations, or runs 2 and 3 competing to continue run 1.
MCNoParents == [r \in Runs |-> NoRun]
MCParents == [r \in Runs |-> IF r = 1 THEN NoRun ELSE 1]

\* The two tasks of a session are interchangeable.
MCSymmetry == Permutations({a, b})
=============================================================================
