----------------------------- MODULE AgentGroup -----------------------------
(***************************************************************************)
(* runPiAgentGroup: a pool of workers runs a list of isolated agents, each  *)
(* in a child session of its own.  An agent may be stopped at any moment by *)
(* its own timer, by the caller's signal or, with failFast, by the first    *)
(* failure of another agent; its session may arrive after it was given up.  *)
(* pi's sessions and the extensions they load are external.                 *)
(***************************************************************************)
EXTENDS Integers, Sequences, FiniteSets

CONSTANTS
    AgentCount,     \* requests.length; the requests are 1..AgentCount
    MaxConcurrency, \* the caller asks for 1..MaxConcurrency agents at a time
    WithProvider    \* requests whose model is served by a provider extension

ASSUME AgentAssumption ==
    /\ AgentCount \in Nat \ {0} /\ MaxConcurrency \in Nat \ {0}
    /\ WithProvider \subseteq 1..AgentCount

VARIABLES
    failFast,
    external,   \* the caller's signal is aborted
    internal,   \* internalAbort
    next,       \* nextIndex
    worker,     \* worker[k]: the request it runs, 0 at the head of its loop, Gone
    primary,    \* the request whose failure came first, 0 before
    group,      \* "loading" the model runtime, "running", "returned", "threw"
    agent,      \* agent[r]: runOneAgent
    factory,    \* factory[r]: how far the session factory is
    disposals,  \* disposals[r]: calls of dispose on the session made for r
    unruly,     \* unruly[r]: what the extensions loaded for r have done
    told        \* told[r]: the terminal lifecycle events of r

grpVars == <<failFast, external, internal, next, worker, primary, group, agent,
             factory, disposals, unruly, told>>
poolVars == <<failFast, external, internal, next, worker, primary, group>>

Requests == 1..AgentCount
Pool == 1..(IF MaxConcurrency < AgentCount THEN MaxConcurrency ELSE AgentCount)
Gone == AgentCount + 1

\* The session exists and has not been disposed of.
SessionOpen == {"binding", "authorizing", "handed", "late"}
FactoryStages == {"idle", "admitting", "making", "done"} \cup SessionOpen
\* Before the finally block: the timer and the abort listener are installed.
Guarded == {"creating", "created", "stopping", "prompting", "settling"}

\* Fresh: the variables runOneAgent starts with.
Fresh == [pc |-> "queued", abort |-> "none", owns |-> FALSE, asked |-> FALSE,
          failure |-> "none"]

\* Variant: the agent that waits for its session is not woken.
AbortUnheard(a, kind) ==
    LET why == IF a.abort = "none" THEN kind ELSE a.abort
    IN  [a EXCEPT !.abort = why, !.asked = @ \/ a.owns,
                  !.pc = IF @ = "prompting" THEN "settling" ELSE @]

(***************************************************************************)
(* AbortSession: the first reason sticks; a session that is there is asked  *)
(* to abort, once; whoever waits for the session or for the prompt is woken.*)
(***************************************************************************)
AbortSession(a, kind) ==
    LET why == IF a.abort = "none" THEN kind ELSE a.abort
    IN  [a EXCEPT !.abort = why, !.asked = @ \/ a.owns,
                  !.pc = CASE @ = "creating" -> "closing"
                           [] @ = "prompting" -> "settling"
                           [] OTHER -> @,
                  !.failure = IF a.pc = "creating"
                              THEN IF why = "timeout" THEN "failed" ELSE "cancelled"
                              ELSE @]

\* Every agent at work hears the group's signal.
AbortAll(agents) ==
    [r \in Requests |-> IF agents[r].pc \in Guarded
                        THEN AbortSession(agents[r], "cancelled") ELSE agents[r]]

\* Fails: the catch of runOneAgent; an abort explains the failure.
Fails(a) ==
    [a EXCEPT !.pc = "closing",
              !.failure = IF a.abort # "timeout" /\ (a.abort = "cancelled" \/ external \/ internal)
                          THEN "cancelled" ELSE "failed"]

----------------------------------------------------------------------------
(***************************************************************************)
(* The pool.                                                                *)
(***************************************************************************)

LoadRuntime ==
    /\ group = "loading"
    /\ group' = IF external THEN "threw" ELSE "running"
    /\ UNCHANGED <<failFast, external, internal, next, worker, primary, agent, factory,
                   disposals, unruly, told>>

\* Variant: the index is compared with the length before it is used.
OneMoreToTake == ~external /\ ~internal /\ next <= AgentCount + 1

\* MoreToTake: a worker goes on while requests are left and nothing aborts the group.
MoreToTake == ~external /\ ~internal /\ next <= AgentCount

TakeRequest(k) ==
    /\ group = "running" /\ worker[k] = 0
    /\ IF ~MoreToTake
       THEN worker' = [worker EXCEPT ![k] = Gone] /\ UNCHANGED <<next, agent, factory>>
       ELSE /\ worker' = [worker EXCEPT ![k] = next] /\ next' = next + 1
            /\ agent' = [agent EXCEPT ![next].pc = "creating"]
            /\ factory' = [factory EXCEPT ![next] = "admitting"]
    /\ UNCHANGED <<failFast, external, internal, primary, group, disposals, unruly, told>>

\* FirstFailure: a failure under the caller's abort is that abort's, not the group's.
FirstFailure(r) == IF primary = 0 /\ ~external THEN r ELSE primary

AgentReturns(k) ==
    /\ worker[k] \in Requests /\ agent[worker[k]].pc = "over"
    /\ LET r == worker[k]
           failed == agent[r].failure # "none"
       IN  /\ primary' = IF failed THEN FirstFailure(r) ELSE primary
           /\ internal' = (internal \/ (failFast /\ primary' # primary))
           /\ agent' = IF internal' # internal THEN AbortAll(agent) ELSE agent
           /\ worker' = [worker EXCEPT ![k] = IF failed /\ failFast THEN Gone ELSE 0]
    /\ UNCHANGED <<failFast, external, next, group, factory, disposals, unruly, told>>

\* EndGroup: after a failure of its own the group reports the requests nobody took.
EndGroup ==
    /\ group = "running" /\ \A k \in Pool : worker[k] = Gone
    /\ group' = IF external \/ primary # 0 THEN "threw" ELSE "returned"
    /\ told' = IF ~external /\ primary # 0
               THEN [r \in Requests |-> IF r >= next THEN Append(told[r], "cancelled") ELSE told[r]]
               ELSE told
    /\ UNCHANGED <<failFast, external, internal, next, worker, primary, agent, factory,
                   disposals, unruly>>

\* The caller may abort at any time; only the group's own code looks at it later.
CallerAborts ==
    /\ ~external /\ group \in {"loading", "running"}
    /\ external' = TRUE /\ agent' = AbortAll(agent)
    /\ UNCHANGED <<failFast, internal, next, worker, primary, group, factory, disposals,
                   unruly, told>>

----------------------------------------------------------------------------
(***************************************************************************)
(* The session factory.  It runs beside the agent that waits for it, which  *)
(* may have given up: Hand and Drop say what becomes of its answer.         *)
(***************************************************************************)

FactoryStep(r, from) ==
    /\ factory[r] = from
    /\ UNCHANGED <<poolVars, told>>

\* Drop: the factory throws; nobody hears it when the agent no longer waits.
Drop(r) ==
    /\ factory' = [factory EXCEPT ![r] = "done"]
    /\ agent' = IF agent[r].pc = "creating" THEN [agent EXCEPT ![r] = Fails(@)] ELSE agent

\* Variant: a session that comes too late is left alone.
HandToNobody(r) ==
    /\ factory' = [factory EXCEPT ![r] = "handed"]
    /\ agent' = IF agent[r].pc = "creating" THEN [agent EXCEPT ![r].pc = "created"] ELSE agent

Hand(r) ==
    IF agent[r].pc = "creating"
    THEN /\ factory' = [factory EXCEPT ![r] = "handed"]
         /\ agent' = [agent EXCEPT ![r].pc = "created"]
    ELSE factory' = [factory EXCEPT ![r] = "late"] /\ UNCHANGED agent

Disposed(r) == disposals' = [disposals EXCEPT ![r] = @ + 1]

SignalAborted(r) == external \/ internal \/ agent[r].abort # "none"

\* Admit: which extensions the child may load, if any; a throw before a session exists.
Admit(r) ==
    /\ FactoryStep(r, "admitting")
    /\ \/ Drop(r)
       \/ ~SignalAborted(r) /\ factory' = [factory EXCEPT ![r] = "making"] /\ UNCHANGED agent
    /\ UNCHANGED <<disposals, unruly>>

\* MakeSession: without a provider the session is also checked here (model, tools).
MakeSession(r) ==
    /\ FactoryStep(r, "making")
    /\ \/ Drop(r) /\ UNCHANGED disposals
       \/ r \notin WithProvider /\ Hand(r) /\ UNCHANGED disposals
       \/ Drop(r) /\ Disposed(r)
       \/ /\ r \in WithProvider /\ "registers" \notin unruly[r]
          /\ factory' = [factory EXCEPT ![r] = "binding"] /\ UNCHANGED <<agent, disposals>>
    /\ UNCHANGED unruly

BindExtensions(r) ==
    /\ FactoryStep(r, "binding")
    /\ \/ Drop(r) /\ Disposed(r)
       \/ /\ unruly[r] = {} /\ UNCHANGED <<agent, disposals>>
          /\ factory' = [factory EXCEPT ![r] = "authorizing"]
    /\ UNCHANGED unruly

\* Authorize: the sealed runtime has no credentials after a registration attempt.
Authorize(r) ==
    /\ FactoryStep(r, "authorizing")
    /\ \/ Drop(r) /\ Disposed(r)
       \/ "registers" \notin unruly[r] /\ Hand(r) /\ UNCHANGED disposals
    /\ UNCHANGED unruly

\* CleanUpLate: abort and dispose, each for a bounded time.
CleanUpLate(r) ==
    /\ FactoryStep(r, "late")
    /\ factory' = [factory EXCEPT ![r] = "done"] /\ Disposed(r)
    /\ UNCHANGED <<agent, unruly>>

\* An extension of a provider session tries to register a provider, or throws.
Misbehave(r, how) ==
    /\ r \in WithProvider /\ factory[r] \in SessionOpen \cup {"making"}
    /\ how \notin unruly[r]
    /\ unruly' = [unruly EXCEPT ![r] = @ \cup {how}]
    /\ UNCHANGED <<poolVars, agent, factory, disposals, told>>

----------------------------------------------------------------------------
(***************************************************************************)
(* runOneAgent, from the session to the terminal event.                     *)
(***************************************************************************)

AgentStep(r, from, to) ==
    /\ agent[r].pc = from /\ agent' = [agent EXCEPT ![r] = to]
    /\ UNCHANGED <<poolVars, factory, unruly>>

AgentTimesOut(r) ==
    /\ agent[r].pc \in Guarded /\ agent[r].abort = "none"
    /\ agent' = [agent EXCEPT ![r] = AbortSession(@, "timeout")]
    /\ UNCHANGED <<poolVars, factory, disposals, unruly, told>>

\* GotSession: no usable model, an abort in the meantime, or the prompt is sent.
GotSession(r) ==
    /\ LET a == [agent[r] EXCEPT !.owns = TRUE]
           stopped == a.abort # "none" \/ external \/ internal
       IN  \/ AgentStep(r, "created", Fails(a))
           \/ stopped /\ AgentStep(r, "created",
                                   [AbortSession(a, "cancelled") EXCEPT !.pc = "stopping"])
           \/ ~stopped /\ AgentStep(r, "created", [a EXCEPT !.pc = "prompting"])
    /\ UNCHANGED <<disposals, told>>

StoppedEarly(r) ==
    /\ AgentStep(r, "stopping", Fails(agent[r]))
    /\ UNCHANGED <<disposals, told>>

\* PromptEnds: a registration attempt during the prompt makes it throw.
PromptEnds(r) ==
    /\ \/ AgentStep(r, "prompting", Fails(agent[r]))
       \/ "registers" \notin unruly[r]
          /\ AgentStep(r, "prompting", [agent[r] EXCEPT !.pc = "settling"])
    /\ UNCHANGED <<disposals, told>>

\* Settle: an abort wins over an answer; a prompt refused or without text is a failure.
SettleAgent(r) ==
    /\ \/ AgentStep(r, "settling", Fails(agent[r]))
       \/ /\ agent[r].abort = "none" /\ ~external /\ ~internal
          /\ AgentStep(r, "settling", [agent[r] EXCEPT !.pc = "closing"])
    /\ UNCHANGED <<disposals, told>>

Verdict(a) == IF a.failure = "none" THEN "completed" ELSE a.failure

\* Close: the finally block.  A disposal that fails or hangs fails a completed agent.
Close(r) ==
    /\ agent[r].pc = "closing" /\ UNCHANGED <<poolVars, unruly>>
    /\ \E ok \in BOOLEAN :
         LET kept == ok /\ "throws" \notin unruly[r]
             a == [agent[r] EXCEPT !.pc = "over",
                       !.failure = IF @ = "none" /\ ~kept THEN "failed" ELSE @]
         IN  /\ agent' = [agent EXCEPT ![r] = a]
             /\ told' = [told EXCEPT ![r] = Append(@, Verdict(a))]
             /\ IF a.owns THEN Disposed(r) /\ factory' = [factory EXCEPT ![r] = "done"]
                          ELSE ok /\ UNCHANGED <<disposals, factory>>

----------------------------------------------------------------------------
GrpInit ==
    /\ failFast \in BOOLEAN /\ external = FALSE /\ internal = FALSE
    /\ next = 1
    /\ \E width \in 1..MaxConcurrency :
         worker = [k \in Pool |-> IF k <= width THEN 0 ELSE Gone]
    /\ primary = 0 /\ group = "loading"
    /\ agent = [r \in Requests |-> Fresh]
    /\ factory = [r \in Requests |-> "idle"]
    /\ disposals = [r \in Requests |-> 0]
    /\ unruly = [r \in Requests |-> {}]
    /\ told = [r \in Requests |-> <<>>]

FactoryNext(r) ==
    Admit(r) \/ MakeSession(r) \/ BindExtensions(r) \/ Authorize(r) \/ CleanUpLate(r)

AgentNext(r) ==
    \/ AgentTimesOut(r) \/ GotSession(r) \/ StoppedEarly(r) \/ SettleAgent(r) \/ Close(r)

PoolNext == LoadRuntime \/ EndGroup \/ \E k \in Pool : TakeRequest(k) \/ AgentReturns(k)

GrpNext ==
    \/ PoolNext \/ CallerAborts
    \/ \E r \in Requests : \/ FactoryNext(r) \/ AgentNext(r) \/ PromptEnds(r)
                           \/ \E how \in {"registers", "throws"} : Misbehave(r, how)

GrpSpec == GrpInit /\ [][GrpNext]_grpVars

----------------------------------------------------------------------------
GrpTypeOK ==
    /\ failFast \in BOOLEAN /\ external \in BOOLEAN /\ internal \in BOOLEAN
    /\ next \in 1..(AgentCount + 1) /\ worker \in [Pool -> 0..Gone]
    /\ primary \in 0..AgentCount
    /\ group \in {"loading", "running", "returned", "threw"}
    /\ agent \in [Requests -> [pc : Guarded \cup {"queued", "closing", "over"},
                               abort : {"none", "timeout", "cancelled"},
                               owns : BOOLEAN, asked : BOOLEAN,
                               failure : {"none", "failed", "cancelled"}]]
    /\ factory \in [Requests -> FactoryStages]
    /\ disposals \in [Requests -> 0..1]
    /\ unruly \in [Requests -> SUBSET {"registers", "throws"}]

\* GroupIsAccounted (runPiAgentGroup, runOneAgent, waitForSessionCreation): when the
\* group has ended, no session of it is open but one its factory still works on or that
\* is being cleaned up, and each has been disposed of at most once; an agent stopped
\* with its session in hand has asked it to abort; every agent that ran has told how it
\* ended exactly once, and none says completed whose extensions raised an error before
\* disposal; results are only returned when every agent completed; and a failure of the
\* group's own also reports each request nobody took.
GroupIsAccounted ==
    /\ \A r \in Requests :
         /\ disposals[r] <= 1 /\ Len(told[r]) <= 1
         /\ factory[r] = "handed" => agent[r].pc \in Guarded \cup {"closing"}
         /\ agent[r].pc \in {"stopping", "settling"} /\ agent[r].abort # "none" => agent[r].asked
         /\ told[r] = <<"completed">> => "throws" \notin unruly[r]
    /\ group \in {"returned", "threw"} =>
         \A r \in Requests : agent[r].pc \in {"queued", "over"}
    /\ group = "returned" => \A r \in Requests : told[r] = <<"completed">>
    /\ group = "threw" /\ ~external => \A r \in Requests : Len(told[r]) = 1

\* GroupFinishes (runPiAgentGroup): the group ends, whatever factories and prompts hang,
\* once the timers run.
GroupFinishes == []<>(group # "running")

=============================================================================
