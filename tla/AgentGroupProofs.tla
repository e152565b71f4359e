-------------------------- MODULE AgentGroupProofs --------------------------
(* Proofs about AgentGroup, for any number of agents and any width of the pool, *)
(* and about the parts of MCWorkflows together.                                 *)
EXTENDS MCWorkflows, HumanDecisionsProofs

-----------------------------------------------------------------------------
(* An agent, its session and what it has told *)

AgentStates == [pc : Guarded \cup {"queued", "closing", "over"},
                abort : {"none", "timeout", "cancelled"},
                owns : BOOLEAN, asked : BOOLEAN,
                failure : {"none", "failed", "cancelled"}]

\* Past the creation of its session and before the finally block.
WithSession == {"created", "stopping", "prompting", "settling"}

\* The session that was handed to an agent is the agent's until it is disposed
\* of, an abort reaches it, and no session but one has been disposed of.
Fits(a, f, d) ==
    /\ a.pc \in WithSession => f = "handed"
    /\ f = "handed" => a.pc = "created" \/ (a.owns /\ a.pc \in WithSession \cup {"closing"})
    /\ a.owns /\ a.pc # "over" => f = "handed"
    /\ a.pc = "queued" => f = "idle"
    /\ a.pc = "prompting" => a.abort = "none"
    /\ a.pc \in {"stopping", "settling"} /\ a.abort # "none" => a.asked
    /\ a.pc = "closing" /\ a.failure = "none" => a.owns
    /\ f # "done" => d = 0

\* An agent tells its end when it is over; after a success its session is gone,
\* so that no extension of it can raise an error any more.
Tells(a, f, u, t) ==
    /\ a.pc = "over" => t = <<Verdict(a)>>
    /\ a.pc \notin {"queued", "over"} => t = <<>>
    /\ a.pc = "over" /\ a.failure = "none" => "throws" \notin u /\ f = "done"

GrpTypes ==
    /\ failFast \in BOOLEAN /\ external \in BOOLEAN /\ internal \in BOOLEAN
    /\ next \in 1..(AgentCount + 1) /\ worker \in [Pool -> 0..Gone]
    /\ primary \in 0..AgentCount
    /\ group \in {"loading", "running", "returned", "threw"}
    /\ agent \in [Requests -> AgentStates]
    /\ factory \in [Requests -> FactoryStages]
    /\ disposals \in [Requests -> 0..1]
    /\ unruly \in [Requests -> SUBSET {"registers", "throws"}]
    /\ told \in [Requests -> {<<>>} \cup {<<v>> : v \in {"completed", "failed", "cancelled"}}]

AgentsFit == \A r \in Requests : Fits(agent[r], factory[r], disposals[r])
AgentsTell == \A r \in Requests : Tells(agent[r], factory[r], unruly[r], told[r])

-----------------------------------------------------------------------------
(* The pool and the end of the group *)

\* Who is at work is some worker's; a worker that is gone has found an end, an
\* abort or a failure; and a failure no worker is about to report is known.
PoolFits ==
    /\ \A r \in Requests : agent[r].pc = "queued" <=> r >= next
    /\ \A r \in Requests : agent[r].pc \notin {"queued", "over"} => \E k \in Pool : worker[k] = r
    /\ group # "running" => \A k \in Pool : worker[k] \notin Requests
    /\ internal => primary # 0
    /\ worker[1] = Gone => external \/ primary # 0 \/ next = Gone
    /\ \A r \in Requests : agent[r].pc = "over" /\ agent[r].failure # "none" =>
          external \/ primary # 0 \/ \E k \in Pool : worker[k] = r

\* The end of the group speaks for the requests nobody took.
EndFits ==
    /\ \A r \in Requests : agent[r].pc = "queued" =>
          /\ group \in {"loading", "running"} => told[r] = <<>>
          /\ group = "threw" /\ ~external => told[r] = <<"cancelled">>
          /\ told[r] \in {<<>>, <<"cancelled">>}
    /\ group = "returned" => \A r \in Requests : agent[r].pc = "over" /\ agent[r].failure = "none"

GrpInv == GrpTypes /\ AgentsFit /\ AgentsTell /\ PoolFits /\ EndFits

-----------------------------------------------------------------------------
(* Steps of an agent *)

\* An abort keeps an agent and its session together.
LEMMA AbortFits ==
    ASSUME NEW a \in AgentStates, NEW f, NEW d, a.pc \in Guarded, Fits(a, f, d),
           NEW kind \in {"timeout", "cancelled"}
    PROVE  /\ AbortSession(a, kind) \in AgentStates
           /\ Fits(AbortSession(a, kind), f, d)
           /\ AbortSession(a, kind).pc \in Guarded \cup {"closing"}
  <1> DEFINE why == IF a.abort = "none" THEN kind ELSE a.abort
             b == AbortSession(a, kind)
  <1>1. why \in {"timeout", "cancelled"}
    BY DEF AgentStates
  <1>2. CASE a.pc = "creating"
    <2>1. b = [a EXCEPT !.abort = why, !.asked = a.asked \/ a.owns, !.pc = "closing",
                        !.failure = IF why = "timeout" THEN "failed" ELSE "cancelled"]
      BY <1>2 DEF AbortSession
    <2>2. /\ b.abort = why /\ b.pc = "closing" /\ b.failure # "none" /\ b.owns = a.owns
          /\ b \in AgentStates
      BY <1>1, <2>1 DEF AgentStates, Guarded
    <2>q. QED
      BY <1>2, <2>2 DEF Fits, WithSession, Guarded
  <1>3. CASE a.pc = "prompting"
    <2>1. b = [a EXCEPT !.abort = why, !.asked = a.asked \/ a.owns, !.pc = "settling",
                        !.failure = a.failure]
      BY <1>3 DEF AbortSession
    <2>2. /\ b.abort = why /\ b.pc = "settling" /\ b.owns = a.owns
          /\ b.asked = (a.asked \/ a.owns) /\ b \in AgentStates
      BY <1>1, <2>1 DEF AgentStates, Guarded
    <2>q. QED
      BY <1>3, <2>2 DEF Fits, WithSession, Guarded
  <1>4. CASE a.pc \notin {"creating", "prompting"}
    <2>1. b = [a EXCEPT !.abort = why, !.asked = a.asked \/ a.owns, !.pc = a.pc,
                        !.failure = a.failure]
      BY <1>4 DEF AbortSession
    <2>2. /\ b.abort = why /\ b.pc = a.pc /\ b.owns = a.owns
          /\ b.asked = (a.asked \/ a.owns) /\ b \in AgentStates
      BY <1>1, <2>1 DEF AgentStates, Guarded
    <2>q. QED
      BY <1>4, <2>2 DEF Fits, WithSession, Guarded
  <1>q. QED
    BY <1>2, <1>3, <1>4

\* An agent that fails goes to its finally block with the failure.
LEMMA FailsClosing ==
    ASSUME NEW a \in AgentStates
    PROVE  /\ Fails(a) \in AgentStates
           /\ Fails(a).pc = "closing" /\ Fails(a).failure # "none" /\ Fails(a).owns = a.owns
  BY DEF Fails, AgentStates

TellStates == {<<>>} \cup {<<v>> : v \in {"completed", "failed", "cancelled"}}

\* A step of one request that does not start or restart it.
LEMMA RequestMoves ==
    ASSUME GrpInv, NEW r \in Requests, NEW a \in AgentStates, NEW f \in FactoryStages,
           NEW d \in 0..1, NEW t \in TellStates, NEW u \in SUBSET {"registers", "throws"},
           agent' = [agent EXCEPT ![r] = a], factory' = [factory EXCEPT ![r] = f],
           disposals' = [disposals EXCEPT ![r] = d], told' = [told EXCEPT ![r] = t],
           unruly' = [unruly EXCEPT ![r] = u], UNCHANGED poolVars,
           Fits(a, f, d), Tells(a, f, u, t), a.pc # "queued", agent[r].pc # "queued",
           agent[r].pc = "over" => a = agent[r],
           a.pc = "over" => agent[r].pc \in {"closing", "over"}
    PROVE  GrpInv'
  <1> USE DEF poolVars
  <1>1. GrpTypes'
    BY DEF GrpInv, GrpTypes, TellStates
  <1>2. /\ agent'[r] = a /\ factory'[r] = f /\ disposals'[r] = d /\ told'[r] = t /\ unruly'[r] = u
        /\ \A i \in Requests : i # r =>
             /\ agent'[i] = agent[i] /\ factory'[i] = factory[i] /\ disposals'[i] = disposals[i]
             /\ told'[i] = told[i] /\ unruly'[i] = unruly[i]
    BY DEF GrpInv, GrpTypes
  <1>3. AgentsFit'
    BY <1>2 DEF GrpInv, AgentsFit
  <1>4. AgentsTell'
    BY <1>2 DEF GrpInv, AgentsTell
  <1>5. PoolFits'
    <2>1. \A i \in Requests : agent'[i].pc = "queued" <=> i >= next
      BY <1>2 DEF GrpInv, PoolFits
    <2>2. \A i \in Requests : agent'[i].pc \notin {"queued", "over"} => \E k \in Pool : worker[k] = i
      BY <1>2 DEF GrpInv, PoolFits
    <2>3. \A i \in Requests : agent'[i].pc = "over" /\ agent'[i].failure # "none" =>
            external \/ primary # 0 \/ \E k \in Pool : worker[k] = i
      BY <1>2 DEF GrpInv, PoolFits
    <2>q. QED
      BY <2>1, <2>2, <2>3 DEF GrpInv, PoolFits
  <1>6. EndFits'
    BY <1>2 DEF GrpInv, EndFits
  <1>q. QED
    BY <1>1, <1>3, <1>4, <1>5, <1>6 DEF GrpInv

\* What may be assumed of one request.
LEMMA RequestFits ==
    ASSUME GrpInv, NEW r \in Requests
    PROVE  /\ agent[r] \in AgentStates /\ factory[r] \in FactoryStages /\ disposals[r] \in 0..1
           /\ told[r] \in TellStates /\ unruly[r] \in SUBSET {"registers", "throws"}
           /\ Fits(agent[r], factory[r], disposals[r])
           /\ Tells(agent[r], factory[r], unruly[r], told[r])
           /\ agent = [agent EXCEPT ![r] = agent[r]]
           /\ factory = [factory EXCEPT ![r] = factory[r]]
           /\ disposals = [disposals EXCEPT ![r] = disposals[r]]
           /\ told = [told EXCEPT ![r] = told[r]]
           /\ unruly = [unruly EXCEPT ![r] = unruly[r]]
  BY DEF GrpInv, GrpTypes, AgentsFit, AgentsTell, TellStates

\* A step of the session factory: the agent that still waits gets the session or
\* the failure, one that has given up nothing.
LEMMA FactoryMoves ==
    ASSUME GrpInv, NEW r \in Requests, factory[r] \in {"admitting", "making", "binding", "authorizing", "late"},
           NEW f \in FactoryStages \ {"idle"}, NEW d \in 0..1,
           factory' = [factory EXCEPT ![r] = f], disposals' = [disposals EXCEPT ![r] = d],
           UNCHANGED <<poolVars, told, unruly>>,
           f # "done" => d = 0,
           \/ f # "handed" /\ UNCHANGED agent
           \/ /\ agent[r].pc = "creating"
              /\ \/ f = "handed" /\ agent' = [agent EXCEPT ![r] = [agent[r] EXCEPT !.pc = "created"]]
                 \/ f # "handed" /\ agent' = [agent EXCEPT ![r] = Fails(agent[r])]
    PROVE  GrpInv'
  <1>0. /\ agent[r].pc \notin WithSession \cup {"queued"}
        /\ agent[r].owns => agent[r].pc = "over"
        /\ agent[r].pc = "over" => agent[r].failure # "none"
    BY RequestFits DEF Fits, Tells
  <1>1. CASE f # "handed" /\ UNCHANGED agent
    <2>1. Fits(agent[r], f, d) /\ Tells(agent[r], f, unruly[r], told[r])
      BY <1>0, <1>1, RequestFits DEF Fits, Tells
    <2>2. PICK a \in AgentStates : a = agent[r]
      BY RequestFits
    <2>3. agent' = [agent EXCEPT ![r] = a] /\ Fits(a, f, d) /\ Tells(a, f, unruly[r], told[r])
      BY <1>1, <2>1, <2>2, RequestFits
    <2>4. /\ a.pc # "queued" /\ agent[r].pc # "queued"
          /\ agent[r].pc = "over" => a = agent[r]
          /\ a.pc = "over" => agent[r].pc \in {"closing", "over"}
      BY <1>0, <2>2
    <2>5. PICK t \in TellStates, u \in SUBSET {"registers", "throws"} :
             t = told[r] /\ u = unruly[r]
      BY RequestFits
    <2>6. told' = [told EXCEPT ![r] = t] /\ unruly' = [unruly EXCEPT ![r] = u]
      BY <2>5, RequestFits
    <2>q. QED
      BY <2>3, <2>4, <2>5, <2>6, RequestMoves
  <1>2. ASSUME agent[r].pc = "creating", NEW a \in AgentStates, agent' = [agent EXCEPT ![r] = a],
               a.owns = agent[r].owns,
               \/ f = "handed" /\ a.pc = "created"
               \/ f # "handed" /\ a.pc = "closing" /\ a.failure # "none"
        PROVE  GrpInv'
    <2>1. Fits(a, f, d)
      BY <1>0, <1>2 DEF Fits, WithSession
    <2>2. Tells(a, f, unruly[r], told[r])
      BY <1>2, RequestFits DEF Tells
    <2>3. a.pc \notin {"queued", "over"}
      BY <1>2
    <2>q. QED
      BY <1>2, <2>1, <2>2, <2>3, RequestFits, RequestMoves
  <1>3. CASE /\ agent[r].pc = "creating" /\ f = "handed"
             /\ agent' = [agent EXCEPT ![r] = [agent[r] EXCEPT !.pc = "created"]]
    <2>1. PICK a : a = [agent[r] EXCEPT !.pc = "created"]
      OBVIOUS
    <2>2. a \in AgentStates /\ a.pc = "created" /\ a.owns = agent[r].owns
      BY <2>1, RequestFits DEF AgentStates, Guarded
    <2>q. QED
      BY <1>2, <1>3, <2>1, <2>2
  <1>4. CASE /\ agent[r].pc = "creating" /\ f # "handed"
             /\ agent' = [agent EXCEPT ![r] = Fails(agent[r])]
    <2>1. PICK a : a = Fails(agent[r])
      OBVIOUS
    <2>2. a \in AgentStates /\ a.pc = "closing" /\ a.failure # "none" /\ a.owns = agent[r].owns
      BY <2>1, RequestFits, FailsClosing
    <2>q. QED
      BY <1>2, <1>4, <2>1, <2>2
  <1>q. QED
    BY <1>1, <1>3, <1>4

LEMMA FactoryNextFits ==
    ASSUME GrpInv, NEW r \in Requests, FactoryNext(r)
    PROVE  GrpInv'
  <1>0. /\ agent[r] \in AgentStates /\ disposals[r] \in 0..1
        /\ factory[r] # "done" => disposals[r] = 0
        /\ disposals = [disposals EXCEPT ![r] = disposals[r]]
    BY RequestFits DEF Fits
  <1> DEFINE Working == {"admitting", "making", "binding", "authorizing", "late"}
  \* The ways a factory step ends: with or without a session that is disposed of.
  <1>1. ASSUME factory[r] \in Working, Drop(r), UNCHANGED <<poolVars, told, unruly>>,
               UNCHANGED disposals \/ Disposed(r)
        PROVE  GrpInv'
    <2>1. PICK d \in 0..1 : disposals' = [disposals EXCEPT ![r] = d]
      <3>1. CASE UNCHANGED disposals
        BY <3>1, <1>0
      <3>2. CASE Disposed(r)
        <4>1. disposals' = [disposals EXCEPT ![r] = 0 + 1]
          BY <3>2, <1>0, <1>1 DEF Disposed
        <4>q. QED
          BY <4>1
      <3>q. QED
        BY <3>1, <3>2, <1>1
    <2>2. CASE agent[r].pc = "creating"
      <3>1. agent' = [agent EXCEPT ![r] = Fails(agent[r])]
        BY <2>2, <1>1 DEF Drop
      <3>q. QED
        BY <3>1, <2>1, <2>2, <1>1, FactoryMoves DEF Drop, FactoryStages
    <2>3. CASE agent[r].pc # "creating"
      BY <2>3, <2>1, <1>1, FactoryMoves DEF Drop, FactoryStages
    <2>q. QED
      BY <2>2, <2>3
  <1>2. ASSUME factory[r] \in Working, Hand(r), UNCHANGED <<poolVars, told, unruly, disposals>>
        PROVE  GrpInv'
    <2>1. PICK d \in 0..1 : d = 0 /\ disposals' = [disposals EXCEPT ![r] = d]
      BY <1>0, <1>2
    <2>2. CASE agent[r].pc = "creating"
      <3>1. /\ agent' = [agent EXCEPT ![r] = [agent[r] EXCEPT !.pc = "created"]]
            /\ factory' = [factory EXCEPT ![r] = "handed"]
        BY <2>2, <1>2 DEF Hand
      <3>q. QED
        BY <3>1, <2>1, <2>2, <1>2, FactoryMoves DEF FactoryStages, SessionOpen
    <2>3. CASE agent[r].pc # "creating"
      <3>1. factory' = [factory EXCEPT ![r] = "late"] /\ UNCHANGED agent
        BY <2>3, <1>2 DEF Hand
      <3>q. QED
        BY <3>1, <2>1, <2>3, <1>2, FactoryMoves DEF FactoryStages, SessionOpen
    <2>q. QED
      BY <2>2, <2>3
  <1>3. ASSUME factory[r] \in Working, NEW f \in {"making", "binding", "authorizing"},
               factory' = [factory EXCEPT ![r] = f], UNCHANGED <<poolVars, told, unruly, disposals, agent>>
        PROVE  GrpInv'
    <2>1. PICK d \in 0..1 : d = 0 /\ disposals' = [disposals EXCEPT ![r] = d]
      BY <1>0, <1>3
    <2>2. f \in FactoryStages \ {"idle"} /\ f # "handed"
      BY <1>3 DEF FactoryStages, SessionOpen
    <2>q. QED
      BY <2>1, <2>2, <1>3, FactoryMoves
  <1>4. CASE CleanUpLate(r)
    <2>0. disposals' = [disposals EXCEPT ![r] = 0 + 1] /\ factory' = [factory EXCEPT ![r] = "done"]
      BY <1>0, <1>4 DEF CleanUpLate, FactoryStep, Disposed
    <2>1. PICK d \in 0..1 :
             disposals' = [disposals EXCEPT ![r] = d] /\ factory' = [factory EXCEPT ![r] = "done"]
      BY <2>0
    <2>2. UNCHANGED <<poolVars, told, unruly, agent>> /\ factory[r] = "late"
      BY <1>4 DEF CleanUpLate, FactoryStep
    <2>3. "done" \in FactoryStages \ {"idle"}
      BY DEF FactoryStages
    <2>q. QED
      BY <2>1, <2>2, <2>3, FactoryMoves
  <1>5. CASE Admit(r)
    BY <1>1, <1>3, <1>5 DEF Admit, FactoryStep
  <1>6. CASE MakeSession(r)
    BY <1>1, <1>2, <1>3, <1>6 DEF MakeSession, FactoryStep
  <1>7. CASE BindExtensions(r)
    BY <1>1, <1>3, <1>7 DEF BindExtensions, FactoryStep
  <1>8. CASE Authorize(r)
    BY <1>1, <1>2, <1>8 DEF Authorize, FactoryStep
  <1>q. QED
    BY <1>4, <1>5, <1>6, <1>7, <1>8 DEF FactoryNext

\* An agent that goes on, with its session or to its finally block.
LEMMA AgentMoves ==
    ASSUME GrpInv, NEW r \in Requests, NEW a \in AgentStates,
           agent' = [agent EXCEPT ![r] = a], UNCHANGED <<poolVars, factory, disposals, unruly, told>>,
           agent[r].pc \notin {"queued", "over"}, a.pc \notin {"queued", "over"},
           Fits(a, factory[r], disposals[r])
    PROVE  GrpInv'
  <1>1. Tells(a, factory[r], unruly[r], told[r])
    BY RequestFits DEF Tells
  <1>2. PICK f \in FactoryStages, d \in 0..1 : f = factory[r] /\ d = disposals[r]
    BY RequestFits
  <1>3. /\ factory' = [factory EXCEPT ![r] = f] /\ disposals' = [disposals EXCEPT ![r] = d]
        /\ Fits(a, f, d) /\ Tells(a, f, unruly[r], told[r])
    BY <1>1, <1>2, RequestFits
  <1>q. QED
    BY <1>3, RequestFits, RequestMoves

LEMMA AgentNextFits ==
    ASSUME GrpInv, NEW r \in Requests,
           AgentTimesOut(r) \/ GotSession(r) \/ StoppedEarly(r) \/ PromptEnds(r) \/ SettleAgent(r)
    PROVE  GrpInv'
  <1> DEFINE a == agent[r]
             f == factory[r]
             d == disposals[r]
  <1>0. a \in AgentStates /\ Fits(a, f, d)
    BY RequestFits
  <1>1. ASSUME NEW b \in AgentStates, agent' = [agent EXCEPT ![r] = b],
               UNCHANGED <<poolVars, factory, disposals, unruly, told>>, Fits(b, f, d),
               a.pc \notin {"queued", "over"}, b.pc \notin {"queued", "over"}
        PROVE  GrpInv'
    BY <1>1, AgentMoves
  \* An agent that owns its session leaves it to the finally block.
  <1>2. ASSUME NEW b \in AgentStates, a.pc \in WithSession, b.pc = "closing", b.owns
        PROVE  Fits(b, f, d)
    BY <1>0, <1>2 DEF Fits, WithSession
  <1>3. ASSUME NEW b \in AgentStates, a.pc \in WithSession, b.owns, AgentStep(r, a.pc, Fails(b)),
               UNCHANGED <<disposals, told>>
        PROVE  GrpInv'
    <2>1. PICK c : c = Fails(b)
      OBVIOUS
    <2>2. c \in AgentStates /\ c.pc = "closing" /\ c.owns
      BY <2>1, <1>3, FailsClosing
    <2>q. QED
      BY <2>1, <2>2, <1>1, <1>2, <1>3 DEF AgentStep, WithSession
  <1>4. CASE AgentTimesOut(r)
    <2>1. PICK b : b = AbortSession(a, "timeout")
      OBVIOUS
    <2>2. b \in AgentStates /\ Fits(b, f, d) /\ b.pc \in Guarded \cup {"closing"}
      BY <2>1, <1>0, <1>4, AbortFits DEF AgentTimesOut
    <2>q. QED
      BY <2>1, <2>2, <1>1, <1>4 DEF AgentTimesOut, Guarded
  <1>5. CASE GotSession(r)
    <2>0. a.pc = "created" /\ UNCHANGED <<disposals, told>>
      BY <1>5 DEF GotSession, AgentStep
    <2>1. PICK b : b = [a EXCEPT !.owns = TRUE]
      OBVIOUS
    <2>2. b \in AgentStates /\ b.pc = "created" /\ b.owns /\ b.abort = a.abort
      BY <2>0, <2>1, <1>0 DEF AgentStates
    <2>3. CASE AgentStep(r, "created", Fails(b))
      BY <2>0, <2>2, <2>3, <1>3 DEF WithSession
    <2>4. CASE AgentStep(r, "created", [AbortSession(b, "cancelled") EXCEPT !.pc = "stopping"])
      <3>1. Fits(b, f, d)
        BY <2>0, <2>2, <1>0 DEF Fits, WithSession
      <3>2. PICK c : c = [AbortSession(b, "cancelled") EXCEPT !.pc = "stopping"]
        OBVIOUS
      <3>3. AbortSession(b, "cancelled") =
              [b EXCEPT !.abort = IF b.abort = "none" THEN "cancelled" ELSE b.abort,
                        !.asked = b.asked \/ b.owns, !.pc = b.pc, !.failure = b.failure]
        BY <2>2 DEF AbortSession
      <3>4. c \in AgentStates /\ c.pc = "stopping" /\ c.owns /\ c.asked
        BY <3>2, <3>3, <2>2 DEF AgentStates, Guarded
      <3>5. Fits(c, f, d)
        BY <3>4, <2>0, <1>0 DEF Fits, WithSession
      <3>q. QED
        BY <3>2, <3>4, <3>5, <2>0, <2>4, <1>1 DEF AgentStep
    <2>5. CASE a.abort = "none" /\ AgentStep(r, "created", [b EXCEPT !.pc = "prompting"])
      <3>1. PICK c : c = [b EXCEPT !.pc = "prompting"]
        OBVIOUS
      <3>2. c \in AgentStates /\ c.pc = "prompting" /\ c.owns /\ c.abort = "none"
        BY <3>1, <2>2, <2>5 DEF AgentStates, Guarded
      <3>3. Fits(c, f, d)
        BY <3>2, <2>0, <1>0 DEF Fits, WithSession
      <3>q. QED
        BY <3>1, <3>2, <3>3, <2>0, <2>5, <1>1 DEF AgentStep
    <2>q. QED
      BY <2>1, <2>3, <2>4, <2>5, <1>5 DEF GotSession
  <1>6. ASSUME a.pc \in {"stopping", "prompting", "settling"} PROVE a.owns /\ f = "handed"
    BY <1>0, <1>6 DEF Fits, WithSession
  <1>7. CASE StoppedEarly(r)
    BY <1>0, <1>3, <1>6, <1>7 DEF StoppedEarly, AgentStep, WithSession
  <1>8. CASE PromptEnds(r)
    <2>0. a.pc = "prompting" /\ UNCHANGED <<disposals, told>>
      BY <1>8 DEF PromptEnds, AgentStep
    <2>1. CASE AgentStep(r, "prompting", Fails(a))
      BY <2>0, <2>1, <1>0, <1>3, <1>6 DEF WithSession
    <2>2. CASE AgentStep(r, "prompting", [a EXCEPT !.pc = "settling"])
      <3>1. PICK c : c = [a EXCEPT !.pc = "settling"]
        OBVIOUS
      <3>2. c \in AgentStates /\ c.pc = "settling" /\ c.owns = a.owns /\ c.abort = a.abort
        BY <3>1, <1>0 DEF AgentStates, Guarded
      <3>3. Fits(c, f, d)
        BY <3>2, <2>0, <1>0, <1>6 DEF Fits, WithSession
      <3>q. QED
        BY <3>1, <3>2, <3>3, <2>0, <2>2, <1>1 DEF AgentStep
    <2>q. QED
      BY <2>1, <2>2, <1>8 DEF PromptEnds
  <1>9. CASE SettleAgent(r)
    <2>0. a.pc = "settling" /\ UNCHANGED <<disposals, told>>
      BY <1>9 DEF SettleAgent, AgentStep
    <2>1. CASE AgentStep(r, "settling", Fails(a))
      BY <2>0, <2>1, <1>0, <1>3, <1>6 DEF WithSession
    <2>2. CASE AgentStep(r, "settling", [a EXCEPT !.pc = "closing"])
      <3>1. PICK c : c = [a EXCEPT !.pc = "closing"]
        OBVIOUS
      <3>2. c \in AgentStates /\ c.pc = "closing" /\ c.owns
        BY <3>1, <2>0, <1>0, <1>6 DEF AgentStates
      <3>q. QED
        BY <3>1, <3>2, <2>0, <2>2, <1>1, <1>2 DEF AgentStep, WithSession
    <2>q. QED
      BY <2>1, <2>2, <1>9 DEF SettleAgent
  <1>q. QED
    BY <1>4, <1>5, <1>7, <1>8, <1>9

LEMMA CloseFits == ASSUME GrpInv, NEW r \in Requests, Close(r) PROVE GrpInv'
  <1> DEFINE f == factory[r]
             d == disposals[r]
             u == unruly[r]
  <1>0. /\ agent[r] \in AgentStates /\ agent[r].pc = "closing" /\ told[r] = <<>>
        /\ Fits(agent[r], f, d) /\ f \in FactoryStages /\ d \in 0..1
    BY RequestFits DEF Close, Tells
  <1>p. PICK ok \in BOOLEAN :
          LET kept == ok /\ "throws" \notin u
              b == [agent[r] EXCEPT !.pc = "over",
                        !.failure = IF agent[r].failure = "none" /\ ~kept
                                    THEN "failed" ELSE agent[r].failure]
          IN  /\ agent' = [agent EXCEPT ![r] = b]
              /\ told' = [told EXCEPT ![r] = Append(told[r], Verdict(b))]
              /\ IF b.owns THEN Disposed(r) /\ factory' = [factory EXCEPT ![r] = "done"]
                           ELSE UNCHANGED <<disposals, factory>>
    BY DEF Close
  <1>1. PICK a :
          /\ a = [agent[r] EXCEPT !.pc = "over",
                       !.failure = IF agent[r].failure = "none" /\ ~(ok /\ "throws" \notin u)
                                   THEN "failed" ELSE agent[r].failure]
          /\ agent' = [agent EXCEPT ![r] = a]
          /\ told' = [told EXCEPT ![r] = Append(told[r], Verdict(a))]
          /\ IF a.owns THEN Disposed(r) /\ factory' = [factory EXCEPT ![r] = "done"]
                       ELSE UNCHANGED <<disposals, factory>>
    BY <1>p
  <1>2. /\ a \in AgentStates /\ a.pc = "over" /\ a.owns = agent[r].owns
        /\ a.failure = "none" => agent[r].failure = "none" /\ "throws" \notin u
    BY <1>0, <1>1 DEF AgentStates
  <1>3. PICK t \in TellStates : t = <<Verdict(a)>> /\ told' = [told EXCEPT ![r] = t]
    <2>1. Append(told[r], Verdict(a)) = <<Verdict(a)>>
      BY <1>0
    <2>2. <<Verdict(a)>> \in TellStates
      BY <1>2 DEF TellStates, Verdict, AgentStates
    <2>q. QED
      BY <2>1, <2>2, <1>1
  <1>4. UNCHANGED <<poolVars, unruly>>
    BY DEF Close
  <1>a. ASSUME NEW e \in FactoryStages, NEW n \in 0..1, factory' = [factory EXCEPT ![r] = e],
               disposals' = [disposals EXCEPT ![r] = n], Fits(a, e, n), Tells(a, e, u, t)
        PROVE  GrpInv'
    <2>1. PICK w \in SUBSET {"registers", "throws"} : w = u /\ unruly' = [unruly EXCEPT ![r] = w]
      BY <1>4, RequestFits
    <2>2. /\ a.pc # "queued" /\ agent[r].pc # "queued" /\ agent[r].pc # "over"
          /\ agent[r].pc \in {"closing", "over"} /\ Tells(a, e, w, t)
          /\ agent' = [agent EXCEPT ![r] = a] /\ told' = [told EXCEPT ![r] = t]
          /\ UNCHANGED poolVars /\ a \in AgentStates
      BY <1>0, <1>1, <1>2, <1>3, <1>4, <1>a, <2>1
    <2>q. QED
      BY <1>a, <2>1, <2>2, RequestMoves
  <1>5. CASE agent[r].owns
    <2>0. disposals' = [disposals EXCEPT ![r] = 0 + 1] /\ factory' = [factory EXCEPT ![r] = "done"]
      BY <1>0, <1>1, <1>2, <1>5 DEF Fits, Disposed
    <2>a. PICK e \in FactoryStages : e = "done"
      BY DEF FactoryStages
    <2>b. PICK n \in 0..1 : n = 0 + 1
      OBVIOUS
    <2>1. e = "done" /\ factory' = [factory EXCEPT ![r] = e] /\ disposals' = [disposals EXCEPT ![r] = n]
      BY <2>0, <2>a, <2>b
    <2>2. Fits(a, e, n) /\ Tells(a, e, u, t)
      BY <2>1, <1>2, <1>3 DEF Fits, Tells, WithSession
    <2>q. QED
      BY <2>1, <2>2, <1>a
  <1>6. CASE ~agent[r].owns
    <2>1. PICK e \in FactoryStages, n \in 0..1 :
             /\ e = f /\ n = d
             /\ factory' = [factory EXCEPT ![r] = e] /\ disposals' = [disposals EXCEPT ![r] = n]
      BY <1>1, <1>2, <1>6, RequestFits
    <2>2. Fits(a, e, n) /\ Tells(a, e, u, t)
      BY <2>1, <1>0, <1>2, <1>3, <1>6 DEF Fits, Tells, WithSession
    <2>q. QED
      BY <2>1, <2>2, <1>a
  <1>q. QED
    BY <1>5, <1>6

LEMMA MisbehaveFits ==
    ASSUME GrpInv, NEW r \in Requests, NEW how \in {"registers", "throws"}, Misbehave(r, how)
    PROVE  GrpInv'
  <1>1. PICK w \in SUBSET {"registers", "throws"} : unruly' = [unruly EXCEPT ![r] = w]
    BY RequestFits DEF Misbehave
  <1>2. PICK a \in AgentStates, f \in FactoryStages, d \in 0..1, t \in TellStates :
          a = agent[r] /\ f = factory[r] /\ d = disposals[r] /\ t = told[r]
    BY RequestFits
  <1>3. /\ agent' = [agent EXCEPT ![r] = a] /\ factory' = [factory EXCEPT ![r] = f]
        /\ disposals' = [disposals EXCEPT ![r] = d] /\ told' = [told EXCEPT ![r] = t]
        /\ UNCHANGED poolVars
    BY <1>2, RequestFits DEF Misbehave
  <1>4. f \in SessionOpen \cup {"making"}
    BY <1>2 DEF Misbehave
  <1>5. Fits(a, f, d) /\ Tells(a, f, w, t) /\ a.pc # "queued"
    BY <1>2, <1>4, RequestFits DEF Fits, Tells, SessionOpen
  <1>q. QED
    BY <1>1, <1>2, <1>3, <1>5, RequestMoves

-----------------------------------------------------------------------------
(* Steps of the pool *)

LEMMA PoolWidth == 1 \in Pool /\ Gone \notin Requests /\ 0 \notin Requests /\ Gone = AgentCount + 1
  BY AgentAssumption DEF Pool, Gone, Requests

\* An abort of the group reaches every agent that is at work and no other.
LEMMA AllAbort ==
    ASSUME GrpInv
    PROVE  /\ AbortAll(agent) \in [Requests -> AgentStates]
           /\ \A r \in Requests :
                /\ Fits(AbortAll(agent)[r], factory[r], disposals[r])
                /\ Tells(AbortAll(agent)[r], factory[r], unruly[r], told[r])
                /\ \/ AbortAll(agent)[r] = agent[r]
                   \/ /\ AbortAll(agent)[r].pc \notin {"queued", "over"}
                      /\ agent[r].pc \notin {"queued", "over"}
  <1> DEFINE b(r) == AbortAll(agent)[r]
  <1>1. ASSUME NEW r \in Requests
        PROVE  /\ b(r) \in AgentStates /\ Fits(b(r), factory[r], disposals[r])
               /\ Tells(b(r), factory[r], unruly[r], told[r])
               /\ b(r) = agent[r] \/ (b(r).pc \notin {"queued", "over"} /\ agent[r].pc \notin {"queued", "over"})
    <2>0. agent[r] \in AgentStates /\ Fits(agent[r], factory[r], disposals[r])
          /\ Tells(agent[r], factory[r], unruly[r], told[r])
      BY RequestFits
    <2>1. CASE agent[r].pc \in Guarded
      <3>1. b(r) = AbortSession(agent[r], "cancelled")
        BY <2>1 DEF AbortAll
      <3>2. b(r) \in AgentStates /\ Fits(b(r), factory[r], disposals[r])
            /\ b(r).pc \in Guarded \cup {"closing"}
        BY <3>1, <2>0, <2>1, AbortFits
      <3>3. b(r).pc \notin {"queued", "over"} /\ agent[r].pc \notin {"queued", "over"}
        BY <3>2, <2>1 DEF Guarded
      <3>4. Tells(b(r), factory[r], unruly[r], told[r])
        BY <3>3, <2>0 DEF Tells
      <3>q. QED
        BY <3>2, <3>3, <3>4
    <2>2. CASE agent[r].pc \notin Guarded
      <3>1. b(r) = agent[r]
        BY <2>2 DEF AbortAll
      <3>q. QED
        BY <3>1, <2>0
    <2>q. QED
      BY <2>1, <2>2
  <1>2. AbortAll(agent) = [r \in Requests |-> b(r)]
    BY DEF AbortAll
  <1>q. QED
    BY <1>1, <1>2

LEMMA LoadFits == GrpInv /\ LoadRuntime => GrpInv'
  <1> SUFFICES ASSUME GrpInv, LoadRuntime PROVE GrpInv'
    OBVIOUS
  <1>1. GrpTypes' /\ AgentsFit' /\ AgentsTell'
    BY DEF GrpInv, LoadRuntime, GrpTypes, AgentsFit, AgentsTell
  <1>2. group' \in {"running", "threw"} /\ (group' = "threw" => external) /\ group = "loading"
    BY DEF LoadRuntime
  <1>3. PoolFits' /\ EndFits'
    BY <1>2 DEF GrpInv, LoadRuntime, PoolFits, EndFits
  <1>q. QED
    BY <1>1, <1>3 DEF GrpInv

LEMMA TakeFits == ASSUME GrpInv, NEW k \in Pool, TakeRequest(k) PROVE GrpInv'
  <1>0. /\ group = "running" /\ worker[k] = 0 /\ worker \in [Pool -> 0..Gone]
        /\ UNCHANGED <<failFast, external, internal, primary, group, disposals, unruly, told>>
    BY DEF TakeRequest, GrpInv, GrpTypes
  <1>1. CASE ~MoreToTake
    <2>1. worker' = [worker EXCEPT ![k] = Gone] /\ UNCHANGED <<next, agent, factory>>
      BY <1>1 DEF TakeRequest
    <2>2. worker' \in [Pool -> 0..Gone]
      BY <2>1, <1>0, AgentAssumption DEF Gone
    <2>3. GrpTypes' /\ AgentsFit' /\ AgentsTell' /\ EndFits'
      BY <2>1, <2>2, <1>0 DEF GrpInv, GrpTypes, AgentsFit, AgentsTell, EndFits
    <2>4. \A r \in Requests, j \in Pool : worker[j] = r => worker'[j] = r
      BY <2>1, <1>0, PoolWidth
    <2>5. external \/ primary # 0 \/ next = Gone
      <3>1. external \/ internal \/ ~(next <= AgentCount)
        BY <1>1 DEF MoreToTake
      <3>2. next \in 1..(AgentCount + 1) /\ (internal => primary # 0)
        BY DEF GrpInv, GrpTypes, PoolFits
      <3>q. QED
        BY <3>1, <3>2, AgentAssumption DEF Gone
    <2>6. PoolFits'
      <3>1. \A r \in Requests : agent[r].pc \notin {"queued", "over"} => \E j \in Pool : worker'[j] = r
        BY <2>4 DEF GrpInv, PoolFits
      <3>2. \A r \in Requests : agent[r].pc = "over" /\ agent[r].failure # "none" =>
              external \/ primary # 0 \/ \E j \in Pool : worker'[j] = r
        BY <2>4 DEF GrpInv, PoolFits
      <3>q. QED
        BY <3>1, <3>2, <2>1, <2>5, <1>0 DEF GrpInv, PoolFits
    <2>q. QED
      BY <2>3, <2>6 DEF GrpInv
  <1>2. CASE MoreToTake
    <2>0. next \in Requests /\ next \in Nat
      BY <1>2 DEF MoreToTake, GrpInv, GrpTypes, Requests
    <2>1. PICK n \in Requests : n = next
      BY <2>0
    <2>2. PICK a : a = [agent[n] EXCEPT !.pc = "creating"]
      OBVIOUS
    <2>3. /\ worker' = [worker EXCEPT ![k] = n] /\ next' = n + 1
          /\ agent' = [agent EXCEPT ![n] = a] /\ factory' = [factory EXCEPT ![n] = "admitting"]
      BY <1>2, <2>1, <2>2 DEF TakeRequest
    <2>4. agent[n].pc = "queued"
      BY <2>0, <2>1 DEF GrpInv, PoolFits, Requests
    <2>5. /\ a \in AgentStates /\ a.pc = "creating" /\ a.owns = agent[n].owns
          /\ factory[n] = "idle" /\ ~agent[n].owns /\ disposals[n] = 0 /\ told[n] = <<>>
      BY <2>2, <2>4, <1>0, RequestFits DEF Fits, AgentStates, Guarded, GrpInv, EndFits
    <2>6. /\ agent'[n] = a /\ factory'[n] = "admitting" /\ worker'[k] = n
          /\ \A i \in Requests : i # n => agent'[i] = agent[i] /\ factory'[i] = factory[i]
      BY <2>3, <1>0 DEF GrpInv, GrpTypes
    <2>7. GrpTypes'
      <3>1. n + 1 \in 1..(AgentCount + 1) /\ n \in 0..Gone
        BY AgentAssumption DEF Requests, Gone
      <3>2. "admitting" \in FactoryStages
        BY DEF FactoryStages
      <3>q. QED
        BY <3>1, <3>2, <2>3, <2>5, <1>0 DEF GrpInv, GrpTypes
    <2>8. AgentsFit'
      <3>1. Fits(a, "admitting", 0)
        BY <2>5 DEF Fits, WithSession
      <3>q. QED
        BY <3>1, <2>5, <2>6, <1>0 DEF GrpInv, AgentsFit
    <2>9. AgentsTell'
      <3>1. Tells(a, "admitting", unruly[n], told[n])
        BY <2>5 DEF Tells
      <3>q. QED
        BY <3>1, <2>6, <1>0 DEF GrpInv, AgentsTell
    <2>10. \A r \in Requests, j \in Pool : worker[j] = r => worker'[j] = r
      BY <2>3, <1>0, PoolWidth
    <2>11. PoolFits'
      <3>1. \A r \in Requests : agent'[r].pc = "queued" <=> r >= n + 1
        BY <2>1, <2>5, <2>6 DEF GrpInv, PoolFits, Requests
      <3>2. \A r \in Requests : agent'[r].pc \notin {"queued", "over"} => \E j \in Pool : worker'[j] = r
        BY <2>6, <2>10 DEF GrpInv, PoolFits
      <3>3. \A r \in Requests : agent'[r].pc = "over" /\ agent'[r].failure # "none" =>
              external \/ primary # 0 \/ \E j \in Pool : worker'[j] = r
        BY <2>5, <2>6, <2>10 DEF GrpInv, PoolFits
      <3>4. worker'[1] = Gone => external \/ primary # 0
        <4>1. worker'[1] = Gone => worker[1] = Gone
          BY <2>3, <1>0, PoolWidth
        <4>2. next # Gone
          BY <2>0, PoolWidth
        <4>q. QED
          BY <4>1, <4>2 DEF GrpInv, PoolFits
      <3>q. QED
        BY <3>1, <3>2, <3>3, <3>4, <2>3, <1>0 DEF GrpInv, PoolFits
    <2>12. EndFits'
      BY <2>5, <2>6, <1>0 DEF GrpInv, EndFits
    <2>q. QED
      BY <2>7, <2>8, <2>9, <2>11, <2>12 DEF GrpInv
  <1>q. QED
    BY <1>1, <1>2

\* An abort of the group leaves the agents' accounts in order.
LEMMA AbortKeeps ==
    ASSUME GrpInv, UNCHANGED <<factory, disposals, unruly, told>>,
           agent' = agent \/ agent' = AbortAll(agent)
    PROVE  /\ agent' \in [Requests -> AgentStates] /\ AgentsFit' /\ AgentsTell'
           /\ \A r \in Requests : \/ agent'[r] = agent[r]
                                  \/ /\ agent'[r].pc \notin {"queued", "over"}
                                     /\ agent[r].pc \notin {"queued", "over"}
  <1>1. CASE agent' = agent
    BY <1>1 DEF GrpInv, GrpTypes, AgentsFit, AgentsTell
  <1>2. CASE agent' = AbortAll(agent)
    BY <1>2, AllAbort DEF AgentsFit, AgentsTell
  <1>q. QED
    BY <1>1, <1>2

LEMMA ReturnFits == ASSUME GrpInv, NEW k \in Pool, AgentReturns(k) PROVE GrpInv'
  <1>1. PICK r \in Requests : r = worker[k] /\ agent[r].pc = "over"
    BY DEF AgentReturns
  <1>2. PICK g \in {0, Gone} : /\ worker' = [worker EXCEPT ![k] = g]
                               /\ g = Gone => agent[r].failure # "none"
    <2>1. worker' = [worker EXCEPT ![k] = IF agent[r].failure # "none" /\ failFast THEN Gone ELSE 0]
      BY <1>1 DEF AgentReturns
    <2>2. 0 # Gone
      BY PoolWidth, AgentAssumption
    <2>3. CASE agent[r].failure # "none" /\ failFast
      BY <2>1, <2>3
    <2>4. CASE ~(agent[r].failure # "none" /\ failFast)
      BY <2>1, <2>2, <2>4
    <2>q. QED
      BY <2>3, <2>4
  <1>3. /\ UNCHANGED <<failFast, external, next, group, factory, disposals, unruly, told>>
        /\ agent' = agent \/ agent' = AbortAll(agent)
    BY DEF AgentReturns
  <1>4. /\ primary' \in {primary, r} /\ (primary # 0 => primary' = primary)
        /\ agent[r].failure # "none" => external \/ primary' # 0
        /\ internal' = (internal \/ (failFast /\ primary' # primary))
    BY <1>1, PoolWidth DEF AgentReturns, FirstFailure
  <1>5. primary' # 0 \/ primary' = primary
    BY <1>4, PoolWidth
  <1>6. worker \in [Pool -> 0..Gone] /\ primary \in 0..AgentCount
    BY DEF GrpInv, GrpTypes
  <1>7. GrpTypes'
    <2>1. 0 \in 0..Gone /\ Gone \in 0..Gone /\ r \in 0..AgentCount
      BY AgentAssumption DEF Gone, Requests
    <2>2. worker' \in [Pool -> 0..Gone] /\ primary' \in 0..AgentCount
      BY <2>1, <1>2, <1>4, <1>6
    <2>3. internal' \in BOOLEAN /\ agent' \in [Requests -> AgentStates]
      BY <1>3, <1>4, AbortKeeps DEF GrpInv, GrpTypes
    <2>q. QED
      BY <2>2, <2>3, <1>3 DEF GrpInv, GrpTypes
  <1>8. AgentsFit' /\ AgentsTell'
    BY <1>3, AbortKeeps
  <1>9. \A i \in Requests : \/ agent'[i] = agent[i]
                            \/ /\ agent'[i].pc \notin {"queued", "over"}
                               /\ agent[i].pc \notin {"queued", "over"}
    BY <1>3, AbortKeeps
  <1>10. \A i \in Requests, j \in Pool : worker[j] = i /\ i # r => worker'[j] = i
    BY <1>1, <1>2, <1>6
  <1>11. PoolFits'
    <2>1. \A i \in Requests : agent'[i].pc = "queued" <=> i >= next
      BY <1>9 DEF GrpInv, PoolFits
    <2>2. \A i \in Requests : agent'[i].pc \notin {"queued", "over"} => \E j \in Pool : worker'[j] = i
      <3>1. ASSUME NEW i \in Requests, agent'[i].pc \notin {"queued", "over"}
            PROVE  \E j \in Pool : worker'[j] = i
        <4>1. agent[i].pc \notin {"queued", "over"} /\ i # r
          BY <3>1, <1>1, <1>9
        <4>q. QED
          BY <4>1, <1>10 DEF GrpInv, PoolFits
      <3>q. QED
        BY <3>1
    <2>3. \A i \in Requests : agent'[i].pc = "over" /\ agent'[i].failure # "none" =>
            external \/ primary' # 0 \/ \E j \in Pool : worker'[j] = i
      <3>1. ASSUME NEW i \in Requests, agent'[i].pc = "over", agent'[i].failure # "none",
                   ~external, primary' = 0
            PROVE  \E j \in Pool : worker'[j] = i
        <4>1. agent[i].pc = "over" /\ agent[i].failure # "none" /\ primary = 0
          BY <3>1, <1>4, <1>9
        <4>2. i # r
          BY <4>1, <3>1, <1>4
        <4>3. PICK j \in Pool : worker[j] = i
          BY <4>1, <3>1 DEF GrpInv, PoolFits
        <4>q. QED
          BY <4>2, <4>3, <1>10
      <3>q. QED
        BY <3>1
    <2>4. group = "running"
      BY <1>1 DEF GrpInv, PoolFits
    <2>5. worker'[1] = Gone => external \/ primary' # 0 \/ next = Gone
      <3>1. CASE k = 1
        <4>1. worker'[1] = g
          BY <3>1, <1>2, <1>6
        <4>q. QED
          BY <4>1, <1>2, <1>4
      <3>2. CASE k # 1
        <4>1. worker'[1] = worker[1]
          BY <3>2, <1>2, <1>6, PoolWidth
        <4>q. QED
          BY <4>1, <1>4 DEF GrpInv, PoolFits
      <3>q. QED
        BY <3>1, <3>2
    <2>6. internal' => primary' # 0
      BY <1>4, <1>5 DEF GrpInv, PoolFits
    <2>q. QED
      BY <2>1, <2>2, <2>3, <2>4, <2>5, <2>6, <1>3 DEF PoolFits
  <1>12. EndFits'
    BY <1>3, <1>9 DEF GrpInv, EndFits
  <1>q. QED
    BY <1>7, <1>8, <1>11, <1>12 DEF GrpInv

LEMMA CallerFits == ASSUME GrpInv, CallerAborts PROVE GrpInv'
  <1>1. /\ UNCHANGED <<failFast, internal, next, worker, primary, group, factory, disposals, unruly, told>>
        /\ external' = TRUE /\ agent' = AbortAll(agent) /\ group \in {"loading", "running"}
    BY DEF CallerAborts
  <1>2. agent' \in [Requests -> AgentStates] /\ AgentsFit' /\ AgentsTell'
    BY <1>1, AbortKeeps
  <1>3. \A i \in Requests : \/ agent'[i] = agent[i]
                            \/ /\ agent'[i].pc \notin {"queued", "over"}
                               /\ agent[i].pc \notin {"queued", "over"}
    BY <1>1, AbortKeeps
  <1>4. GrpTypes'
    BY <1>1, <1>2 DEF GrpInv, GrpTypes
  <1>5. PoolFits'
    BY <1>1, <1>3 DEF GrpInv, PoolFits
  <1>6. EndFits'
    BY <1>1, <1>3 DEF GrpInv, EndFits
  <1>q. QED
    BY <1>2, <1>4, <1>5, <1>6 DEF GrpInv

\* When all workers are gone nobody is at work, and without an abort or a failure
\* every request was taken and has succeeded.
LEMMA AllGone ==
    ASSUME GrpInv, \A k \in Pool : worker[k] = Gone
    PROVE  /\ \A r \in Requests : agent[r].pc \in {"queued", "over"}
           /\ \A k \in Pool : worker[k] \notin Requests
           /\ ~external /\ primary = 0 =>
                \A r \in Requests : agent[r].pc = "over" /\ agent[r].failure = "none"
  <1>1. \A k \in Pool : worker[k] \notin Requests
    BY PoolWidth
  <1>2. \A r \in Requests : agent[r].pc \in {"queued", "over"}
    BY <1>1 DEF GrpInv, PoolFits
  <1>3. ASSUME ~external, primary = 0, NEW r \in Requests
        PROVE  agent[r].pc = "over" /\ agent[r].failure = "none"
    <2>1. next = AgentCount + 1
      BY <1>3, PoolWidth DEF GrpInv, PoolFits
    <2>2. agent[r].pc # "queued"
      BY <2>1, AgentAssumption DEF GrpInv, PoolFits, Requests
    <2>3. agent[r].pc = "over"
      BY <2>2, <1>2
    <2>4. agent[r].failure = "none"
      BY <2>3, <1>1, <1>3 DEF GrpInv, PoolFits
    <2>q. QED
      BY <2>3, <2>4
  <1>q. QED
    BY <1>1, <1>2, <1>3

LEMMA EndGroupFits == ASSUME GrpInv, EndGroup PROVE GrpInv'
  <1>0. /\ UNCHANGED <<failFast, external, internal, next, worker, primary, agent, factory, disposals, unruly>>
        /\ group = "running"
        /\ group' = IF external \/ primary # 0 THEN "threw" ELSE "returned"
    BY DEF EndGroup
  <1>1. /\ \A k \in Pool : worker[k] \notin Requests
        /\ ~external /\ primary = 0 =>
             \A r \in Requests : agent[r].pc = "over" /\ agent[r].failure = "none"
    BY AllGone DEF EndGroup
  <1>2. \A r \in Requests : agent[r].pc = "queued" <=> r >= next
    BY DEF GrpInv, PoolFits
  <1>3. \A r \in Requests : agent[r].pc = "queued" =>
          told[r] = <<>> /\ Append(told[r], "cancelled") = <<"cancelled">>
    <2>1. Append(<<>>, "cancelled") = <<"cancelled">>
      OBVIOUS
    <2>q. QED
      BY <2>1, <1>0 DEF GrpInv, EndFits
  <1>4. told' = IF ~external /\ primary # 0
                THEN [r \in Requests |-> IF r >= next THEN Append(told[r], "cancelled") ELSE told[r]]
                ELSE told
    BY DEF EndGroup
  <1>5. told \in [Requests -> TellStates]
    BY DEF GrpInv, GrpTypes, TellStates
  <1>6. \A r \in Requests :
          /\ agent[r].pc # "queued" => told'[r] = told[r]
          /\ agent[r].pc = "queued" => told'[r] = IF ~external /\ primary # 0 THEN <<"cancelled">> ELSE <<>>
    BY <1>2, <1>3, <1>4
  <1>7. told' \in [Requests -> TellStates]
    <2>1. told' = [r \in Requests |-> told'[r]]
      BY <1>4, <1>5
    <2>2. \A r \in Requests : told'[r] \in TellStates
      BY <1>5, <1>6 DEF TellStates
    <2>q. QED
      BY <2>1, <2>2
  <1>8. GrpTypes' /\ AgentsFit'
    BY <1>0, <1>7 DEF GrpInv, GrpTypes, AgentsFit, TellStates
  <1>9. AgentsTell'
    <2>1. \A r \in Requests : Tells(agent[r], factory[r], unruly[r], told'[r])
      BY <1>6 DEF GrpInv, AgentsTell, Tells
    <2>q. QED
      BY <2>1, <1>0 DEF AgentsTell
  <1>10. PoolFits'
    BY <1>0, <1>1 DEF GrpInv, PoolFits
  <1>11. EndFits'
    BY <1>0, <1>1, <1>6 DEF EndFits
  <1>q. QED
    BY <1>8, <1>9, <1>10, <1>11 DEF GrpInv

-----------------------------------------------------------------------------
(* The group *)

LEMMA GrpInvInit == GrpInit => GrpInv
  <1> SUFFICES ASSUME GrpInit PROVE GrpInv
    OBVIOUS
  <1>1. PICK width \in 1..MaxConcurrency : worker = [k \in Pool |-> IF k <= width THEN 0 ELSE Gone]
    BY DEF GrpInit
  <1>2. worker \in [Pool -> 0..Gone] /\ worker[1] = 0 /\ \A k \in Pool : worker[k] \notin Requests
    BY <1>1, PoolWidth, AgentAssumption DEF Gone
  <1>3. /\ agent = [r \in Requests |-> Fresh] /\ Fresh \in AgentStates
        /\ Fresh.pc = "queued" /\ ~Fresh.owns
    BY DEF GrpInit, Fresh, AgentStates, Guarded
  <1>4. GrpTypes
    <2>1. agent \in [Requests -> AgentStates] /\ factory \in [Requests -> FactoryStages]
      BY <1>3 DEF GrpInit, FactoryStages
    <2>2. disposals \in [Requests -> 0..1] /\ unruly \in [Requests -> SUBSET {"registers", "throws"}]
      BY DEF GrpInit
    <2>3. told \in [Requests -> {<<>>} \cup {<<v>> : v \in {"completed", "failed", "cancelled"}}]
      BY DEF GrpInit
    <2>4. next \in 1..(AgentCount + 1) /\ primary \in 0..AgentCount
      BY AgentAssumption DEF GrpInit
    <2>q. QED
      BY <2>1, <2>2, <2>3, <2>4, <1>2 DEF GrpInit, GrpTypes
  <1>5. AgentsFit /\ AgentsTell
    BY <1>3 DEF GrpInit, AgentsFit, AgentsTell, Fits, Tells, WithSession
  <1>6. PoolFits /\ EndFits
    <2>1. \A r \in Requests : agent[r].pc = "queued" /\ r >= 1 /\ told[r] = <<>>
      BY <1>3 DEF GrpInit, Requests
    <2>2. worker[1] # Gone
      BY <1>2, PoolWidth, AgentAssumption
    <2>q. QED
      BY <2>1, <2>2, <1>2 DEF GrpInit, PoolFits, EndFits
  <1>q. QED
    BY <1>4, <1>5, <1>6 DEF GrpInv

LEMMA GrpInvNext == GrpInv /\ [GrpNext]_grpVars => GrpInv'
  <1> SUFFICES ASSUME GrpInv, [GrpNext]_grpVars PROVE GrpInv'
    OBVIOUS
  <1>1. CASE PoolNext
    BY <1>1, LoadFits, EndGroupFits, TakeFits, ReturnFits DEF PoolNext
  <1>2. CASE CallerAborts
    BY <1>2, CallerFits
  <1>3. ASSUME NEW r \in Requests, FactoryNext(r) PROVE GrpInv'
    BY <1>3, FactoryNextFits
  <1>4. ASSUME NEW r \in Requests, AgentNext(r) \/ PromptEnds(r) PROVE GrpInv'
    BY <1>4, AgentNextFits, CloseFits DEF AgentNext
  <1>5. ASSUME NEW r \in Requests, NEW how \in {"registers", "throws"}, Misbehave(r, how) PROVE GrpInv'
    BY <1>5, MisbehaveFits
  <1>6. CASE UNCHANGED grpVars
    BY <1>6 DEF grpVars, GrpInv, GrpTypes, AgentsFit, AgentsTell, PoolFits, EndFits
  <1>q. QED
    BY <1>1, <1>2, <1>3, <1>4, <1>5, <1>6 DEF GrpNext

LEMMA GrpInvTypes == GrpInv => GrpTypeOK
  BY DEF GrpInv, GrpTypes, GrpTypeOK, AgentStates

\* The variables of runPiAgentGroup keep their types.
THEOREM GroupTypes == GrpSpec => []GrpTypeOK
  BY GrpInvInit, GrpInvNext, GrpInvTypes, PTL DEF GrpSpec

\* runPiAgentGroup, for any number of agents, any width of the pool and any set of
\* provider sessions: whenever timers, the caller and failures of other agents stop an
\* agent and however late its session arrives, the session is disposed of at most once
\* and stays open only in the hands of its agent, its factory or its cleanup, the agent
\* tells its end once, and the group returns only when every agent completed.
THEOREM GroupAccounts == GrpSpec => []GroupIsAccounted
  <1>1. GrpInv => GroupIsAccounted
    <2> SUFFICES ASSUME GrpInv PROVE GroupIsAccounted
      OBVIOUS
    <2>1. ASSUME NEW r \in Requests
          PROVE  /\ disposals[r] <= 1 /\ Len(told[r]) <= 1
                 /\ factory[r] = "handed" => agent[r].pc \in Guarded \cup {"closing"}
                 /\ agent[r].pc \in {"stopping", "settling"} /\ agent[r].abort # "none" => agent[r].asked
                 /\ told[r] = <<"completed">> => "throws" \notin unruly[r]
      <3>1. disposals[r] \in 0..1 /\ Len(told[r]) <= 1
        <4>1. disposals[r] \in 0..1 /\ told[r] \in TellStates
          BY RequestFits
        <4>2. CASE told[r] = <<>>
          BY <4>1, <4>2
        <4>3. ASSUME NEW v, told[r] = <<v>> PROVE Len(told[r]) <= 1
          BY <4>3
        <4>q. QED
          BY <4>1, <4>2, <4>3 DEF TellStates
      <3>2. factory[r] = "handed" => agent[r].pc \in Guarded \cup {"closing"}
        BY RequestFits DEF Fits, WithSession, Guarded
      <3>3. agent[r].pc \in {"stopping", "settling"} /\ agent[r].abort # "none" => agent[r].asked
        BY RequestFits DEF Fits
      <3>4. ASSUME told[r] = <<"completed">> PROVE "throws" \notin unruly[r]
        <4>1. agent[r].pc # "queued"
          BY <3>4 DEF GrpInv, EndFits
        <4>2. agent[r].pc = "over" /\ Verdict(agent[r]) = "completed"
          BY <3>4, <4>1, RequestFits DEF Tells
        <4>3. agent[r].failure = "none"
          BY <4>2, RequestFits DEF Verdict, AgentStates
        <4>q. QED
          BY <4>2, <4>3, RequestFits DEF Tells
      <3>q. QED
        BY <3>1, <3>2, <3>3, <3>4
    <2>2. group \in {"returned", "threw"} => \A r \in Requests : agent[r].pc \in {"queued", "over"}
      BY DEF GrpInv, PoolFits
    <2>3. group = "returned" => \A r \in Requests : told[r] = <<"completed">>
      BY RequestFits DEF GrpInv, EndFits, Tells, Verdict
    <2>4. ASSUME group = "threw", ~external, NEW r \in Requests PROVE Len(told[r]) = 1
      <3>1. agent[r].pc \in {"queued", "over"}
        BY <2>2, <2>4
      <3>2. CASE agent[r].pc = "queued"
        BY <3>2, <2>4 DEF GrpInv, EndFits
      <3>3. CASE agent[r].pc = "over"
        <4>1. told[r] = <<Verdict(agent[r])>>
          BY <3>3, RequestFits DEF Tells
        <4>q. QED
          BY <4>1
      <3>q. QED
        BY <3>1, <3>2, <3>3
    <2>q. QED
      BY <2>1, <2>2, <2>3, <2>4 DEF GroupIsAccounted
  <1>q. QED
    BY <1>1, GrpInvInit, GrpInvNext, PTL DEF GrpSpec

-----------------------------------------------------------------------------
(* Decisions, the channel and the groups together *)

\* Every variable of the three parts keeps its type, whichever of them moves: steps of the
\* others leave what is a part's own alone.
THEOREM WflTypeCorrect == WflSpec => []WflTypeOK
  <1>1. WflInit => DecInv /\ TelInv /\ GrpInv
    BY DecInvInit, TelInvInit, GrpInvInit DEF WflInit
  <1>2. ASSUME DecInv, TelInv, GrpInv, [WflNext]_wflVars PROVE DecInv' /\ TelInv' /\ GrpInv'
    <2>1. [DecNext]_decVars
      BY <1>2 DEF WflNext, wflVars, OfDecisions, OfTelegram, OfGroup
    <2>2. [TelNext]_telVars
      BY <1>2 DEF WflNext, wflVars, OfDecisions, OfTelegram, OfGroup
    <2>3. [GrpNext]_grpVars
      BY <1>2 DEF WflNext, wflVars, OfDecisions, OfTelegram, OfGroup
    <2>q. QED
      BY <1>2, <2>1, <2>2, <2>3, DecInvNext, TelInvNext, GrpInvNext
  <1>3. DecInv /\ TelInv /\ GrpInv => WflTypeOK
    BY TelTypes, GrpInvTypes DEF DecInv, WflTypeOK
  <1>q. QED
    BY <1>1, <1>2, <1>3, PTL DEF WflSpec
=============================================================================
