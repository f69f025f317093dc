------------------------------ MODULE Rotation ------------------------------
(***************************************************************************)
(* One turn of the engine from inside: orchestrate runs a pipeline of      *)
(* agents, each one a loop that calls a model, runs the tools it asks for  *)
(* and calls it again.  When a call fails the loop rotates to another      *)
(* model, perhaps of another provider.                                     *)
(*                                                                         *)
(* An action is what happens between two awaits.  What the router learned  *)
(* (scores, latencies, context lengths) is any ranking of the candidates.  *)
(***************************************************************************)
EXTENDS Naturals

CONSTANTS
    Models,       \* the chat models of the catalog
    Providers,
    Pool,         \* providers with a client
    Default,      \* the client of whoever has none: openrouter or pool[0]
    Account,      \* the provider whose free models share a daily budget
    Budget,       \* that budget
    Serves,       \* providersById: who serves each model
    FreeAt,       \* freeByProvider: who serves it for free
    Policy,       \* buildRolePolicy: the candidates of each role
    Exhausted,    \* models whose own daily limit is reached
    Preferred,    \* the model set by hand, or None
    None,
    FreeOnly,
    Level,        \* offline, low, medium, high or max
    Parallel,     \* /parallel: the leaf checks run together
    MaxSwitches,  \* rotations of a loop (25 in the code)
    MaxSteps      \* bound: replies with tool calls in a loop

Roles == {"orchestrator", "research", "code", "security", "review"}

ASSUME RotationAssumption ==
    /\ Pool \subseteq Providers /\ Default \in Pool
    /\ Serves \in [Models -> SUBSET Providers]
    /\ FreeAt \in [Models -> SUBSET Providers]
    /\ Policy \in [Roles -> SUBSET Models]
    /\ None \notin Models /\ Preferred \in Models \cup {None}
    /\ FreeOnly \in BOOLEAN /\ Parallel \in BOOLEAN
    /\ Level \in {"offline", "low", "medium", "high", "max"}
    /\ Budget \in Nat /\ MaxSwitches \in Nat /\ MaxSteps \in Nat

VARIABLES
    cat,      \* what the turn knows of models and providers, see CatType
    spent,    \* what the shared budget has lost
    used,     \* usedCandidates of the router
    tried,    \* triedModels of the turn
    first,    \* orchDecision.model
    agent,    \* the loop of each role
    aborted,  \* the signal of the turn
    turn      \* running, done or failed

vars == <<cat, spent, used, tried, first, agent, aborted, turn>>

CatType ==
    [owner   : [Models -> Providers],  \* info.provider
     dead    : SUBSET Providers,       \* deadProviders
     aside   : SUBSET Providers,       \* those of them that three failures put there
     fails   : [Providers -> 0 .. 3],  \* netFails
     cooling : SUBSET Models,          \* on a cooldown of the ranker
     failed  : SUBSET Models]          \* reported to onModelError in this turn

Idle == [pc |-> "waiting", base |-> None, model |-> None, client |-> Default,
         switches |-> 0, steps |-> 0]

\* A loop that is over keeps nothing.
Ended(pc) == [Idle EXCEPT !.pc = pc]

Init ==
    /\ \E o \in [Models -> Providers], c \in SUBSET Models :
         /\ \A m \in Models : o[m] \in Serves[m]
         /\ cat = [owner |-> o, dead |-> {}, aside |-> {},
                   fails |-> [p \in Providers |-> 0], cooling |-> c,
                   failed |-> {}]
    /\ spent \in 0 .. Budget
    /\ used = {} /\ tried = {}
    /\ first = None
    /\ agent = [r \in Roles |-> Idle]
    /\ aborted = FALSE
    /\ turn = "running"

(***************************************************************************)
(* pipelineFor: which roles run, and which must be done before.  A turn of *)
(* level high is always sensitive, so the security check is in.            *)
(***************************************************************************)
Pipeline ==
    CASE Level \in {"low", "offline"} -> {"orchestrator"}
      [] Level = "medium"            -> {"orchestrator", "code"}
      [] OTHER                       -> Roles

Leaves == {"security", "review"}

Before(r) ==
    Pipeline \cap
    CASE r = "orchestrator" -> {}
      [] r = "research"     -> {"orchestrator"}
      [] r = "code"         -> {"orchestrator", "research"}
      [] r = "review" /\ ~Parallel -> Roles \ {"review"}
      [] OTHER              -> Roles \ Leaves

(***************************************************************************)
(* The router and the rotation.  "c" is the catalog they read.             *)
(***************************************************************************)
Free(c, m) == c.owner[m] \in FreeAt[m]

ClientFor(p) == IF p \in Pool THEN p ELSE Default

\* The free models of the account share its daily budget.
Shared(c, m) == c.owner[m] = Account /\ Free(c, m)

\* What pickModel lets through.
Eligible(c, m) ==
    /\ FreeOnly => Free(c, m)
    /\ Shared(c, m) => spent < Budget
    /\ m \notin Exhausted

Ranked(c, r) == Policy[r] \ c.cooling

\* decide, when the models in u were chosen before.  Once the best candidate
\* was chosen the next one is taken unchecked, and so is the best one when no
\* candidate is eligible.
Decisions(c, r, u) ==
    LET fresh == Ranked(c, r) \ u
    IN  IF fresh = {}
        THEN {None}
        ELSE {m \in fresh : \/ Eligible(c, m)
                            \/ Ranked(c, r) \cap u # {}
                            \/ \A n \in fresh : ~Eligible(c, n)}

\* The scan of the whole catalog, but for the models in t.
Scan(c, t) ==
    {m \in Models \ t : c.owner[m] \notin c.dead /\ (FreeOnly => Free(c, m))}

\* Faulty variants of NextAlive: only the policy of the role is consulted; what
\* the turn has tried is forgotten; dead providers are not skipped.
PolicyOnly(c, r, base, m) ==
    LET open == {n \in Policy[r] \ (tried \cup {base}) :
                   c.owner[n] \notin c.dead}
    IN  /\ m \in IF open = {} THEN {None} ELSE open
        /\ tried' = (tried \cup {base, m}) \ {None}
        /\ UNCHANGED used

Forgetful(c, r, base, m) ==
    /\ m \in {n \in Models : n # base /\ c.owner[n] \notin c.dead} \cup {None}
    /\ UNCHANGED <<used, tried>>

DeadToo(c, r, base, m) ==
    LET open == Models \ (tried \cup {base})
    IN  /\ m \in IF open = {} THEN {None} ELSE open
        /\ tried' = (tried \cup {base, m}) \ {None}
        /\ UNCHANGED used

\* nextAlive answers m: a decision, after those in "skipped", that was neither
\* tried nor belongs to a dead provider; or else a model of the scan.
NextAlive(c, r, base, m) ==
    LET t    == tried \cup {base}
        skip == {n \in Models : n \in t \/ c.owner[n] \in c.dead}
        left == Ranked(c, r) \ used
    IN  /\ tried' = (t \cup {m}) \ {None}
        /\ \/ \E skipped \in SUBSET (left \cap skip) :
                /\ m \in Decisions(c, r, used \cup skipped) \ skip
                /\ m # None
                /\ used' = used \cup skipped \cup {m}
           \/ /\ left \subseteq skip
              /\ m \in IF Scan(c, t) = {} THEN {None} ELSE Scan(c, t)
              /\ used' = used \cup left

\* Faulty variant of Flips: a dead provider is as good as another.
FlipsToDead(p) ==
    {o \in [Models -> Providers] :
       \A m \in Models :
         LET alts == (Serves[m] \cap Pool) \ {p}
         IN  IF cat.owner[m] = p /\ alts # {}
             THEN o[m] \in alts
             ELSE o[m] = cat.owner[m]}

\* markDead gives the models of p to a live provider that serves them.
Flips(p) ==
    {o \in [Models -> Providers] :
       \A m \in Models :
         LET alts == (Serves[m] \cap Pool) \ (cat.dead \cup {p})
         IN  IF cat.owner[m] = p /\ alts # {}
             THEN o[m] \in alts
             ELSE o[m] = cat.owner[m]}

\* onErr for a refused key: its provider is out, its models go to others unless
\* it was out before, and the failures of whoever serves the model now are
\* forgotten.
AuthError(m) ==
    LET p == cat.owner[m]
    IN  {[owner   |-> o,
          dead    |-> cat.dead \cup {p},
          aside   |-> cat.aside,
          fails   |-> [cat.fails EXCEPT ![o[m]] = 0],
          cooling |-> cat.cooling \cup {m},
          failed  |-> cat.failed \cup {m}] :
            o \in IF p \in cat.dead THEN {cat.owner} ELSE Flips(p)}

\* onErr for the rest: the third failure without a success puts the provider
\* aside, and its models stay with it.
OtherError(m) ==
    LET p == cat.owner[m]
        n == IF cat.fails[p] = 3 THEN 3 ELSE cat.fails[p] + 1
    IN  {[cat EXCEPT !.dead = IF n = 3 THEN @ \cup {p} ELSE @,
                     !.aside = IF n = 3 THEN @ \cup ({p} \ cat.dead) ELSE @,
                     !.fails = [@ EXCEPT ![p] = n],
                     !.cooling = @ \cup {m},
                     !.failed = @ \cup {m}]}

AfterError(m, kind) == IF kind = "auth" THEN AuthError(m) ELSE OtherError(m)

(***************************************************************************)
(* runAgentLoop.                                                           *)
(***************************************************************************)
\* The loop of r throws, and orchestrate with it.  A leaf that runs beside it
\* goes on.
Throw(r) ==
    /\ agent' = [agent EXCEPT ![r] = Ended("failed")]
    /\ turn' = IF turn = "running" THEN "failed" ELSE turn

\* The head of the loop: with model m and client p, unless the turn is aborted.
Call(r, a) ==
    IF aborted
    THEN Throw(r)
    ELSE agent' = [agent EXCEPT ![r] = a] /\ UNCHANGED turn

Calling(m, p) ==
    [Idle EXCEPT !.pc = "calling", !.base = m, !.model = m, !.client = p]

\* The orchestrator starts; without a decision it takes the next one alive,
\* and keeps the client of the decision.
StartOrchestrator ==
    LET r == "orchestrator"
    IN  /\ turn = "running" /\ agent[r].pc = "waiting"
        /\ \E d \in Decisions(cat, r, used) :
             /\ first' = d
             /\ CASE Preferred # None ->
                       /\ Call(r, Calling(Preferred,
                                          ClientFor(cat.owner[Preferred])))
                       /\ used' = used \cup ({d} \ {None})
                       /\ UNCHANGED tried
                  [] Preferred = None /\ d # None ->
                       /\ Call(r, Calling(d, ClientFor(cat.owner[d])))
                       /\ used' = used \cup {d}
                       /\ UNCHANGED tried
                  [] OTHER ->
                       \E m \in Models \cup {None} :
                         /\ NextAlive(cat, r, None, m)
                         /\ IF m = None
                            THEN Throw(r)
                            ELSE Call(r, Calling(m, Default))
        /\ UNCHANGED <<cat, spent, aborted>>

\* runOne: the model is Preferred, the decision or the first one; the client
\* is that of the decision.
StartAgent(r) ==
    /\ turn = "running" /\ agent[r].pc = "waiting"
    /\ r \in Pipeline \ {"orchestrator"}
    /\ \A b \in Before(r) : agent[b].pc = "done"
    /\ \E d \in Decisions(cat, r, used) :
         LET m == CASE Preferred # None -> Preferred
                    [] Preferred = None /\ d # None -> d
                    [] OTHER -> first
             p == IF d = None THEN Default ELSE ClientFor(cat.owner[d])
         IN  /\ used' = used \cup ({d} \ {None})
             /\ IF m = None THEN Throw(r) ELSE Call(r, Calling(m, p))
    /\ UNCHANGED <<cat, spent, tried, first, aborted>>

\* recordSuccess and noteSuccess: only a client that serves the model can give
\* a reply.
Succeeds(r) ==
    LET m == agent[r].model
    IN  /\ agent[r].pc = "calling"
        /\ agent[r].client \in Serves[m]
        /\ cat' = [cat EXCEPT !.fails[cat.owner[m]] = 0]
        /\ spent' = IF Shared(cat, m) /\ spent < Budget
                    THEN spent + 1 ELSE spent

\* A reply that asks for tools.
ToolReply(r) ==
    /\ Succeeds(r)
    /\ agent[r].steps < MaxSteps
    /\ agent' = [agent EXCEPT ![r].pc = "tools", ![r].steps = @ + 1]
    /\ UNCHANGED <<used, tried, first, aborted, turn>>

FinalReply(r) ==
    /\ Succeeds(r)
    /\ agent' = [agent EXCEPT ![r] = Ended("done")]
    /\ UNCHANGED <<used, tried, first, aborted, turn>>

\* Faulty variant of ToolsDone: the signal is not looked at.
ToolsDoneAnyway(r) ==
    /\ agent[r].pc = "tools"
    /\ agent' = [agent EXCEPT ![r].pc = "calling"]
    /\ UNCHANGED <<cat, spent, used, tried, first, aborted, turn>>

ToolsDone(r) ==
    /\ agent[r].pc = "tools"
    /\ Call(r, [agent[r] EXCEPT !.pc = "calling"])
    /\ UNCHANGED <<cat, spent, used, tried, first, aborted>>

\* An error that no other model can help with, or one switch too many.
GiveUp(r) ==
    /\ agent[r].pc = "calling"
    /\ Throw(r)
    /\ UNCHANGED <<cat, spent, used, tried, first, aborted>>

\* A call fails and another model may help: onModelError, then nextModel.
Rotate(r, kind) ==
    LET a == agent[r]
    IN  /\ a.pc = "calling" /\ a.switches < MaxSwitches
        /\ \E c \in AfterError(a.model, kind), m \in Models \cup {None} :
             /\ cat' = c
             /\ NextAlive(c, r, a.base, m)
             /\ IF m = None
                THEN Throw(r)
                ELSE Call(r, [a EXCEPT !.model = m,
                                       !.client = ClientFor(c.owner[m]),
                                       !.switches = @ + 1])
        /\ UNCHANGED <<spent, first, aborted>>

\* POST /v1/cancel, the watchdog, or the stream that closes.
Abort ==
    /\ turn = "running" /\ ~aborted
    /\ aborted' = TRUE
    /\ UNCHANGED <<cat, spent, used, tried, first, agent, turn>>

Finish ==
    /\ turn = "running"
    /\ \A r \in Pipeline : agent[r].pc = "done"
    /\ turn' = "done"
    /\ UNCHANGED <<cat, spent, used, tried, first, agent, aborted>>

\* auth: isAuthError; other: the quota, routing, retryable and network errors.
Kinds == {"auth", "other"}

Next ==
    \/ StartOrchestrator
    \/ \E r \in Roles :
         \/ StartAgent(r)
         \/ ToolReply(r) \/ FinalReply(r) \/ ToolsDone(r)
         \/ GiveUp(r)
         \/ \E kind \in Kinds : Rotate(r, kind)
    \/ Abort
    \/ Finish

Spec == Init /\ [][Next]_vars

(***************************************************************************)
(* Properties.                                                             *)
(***************************************************************************)
\* The type of every variable.
TypeOK ==
    /\ cat \in CatType
    /\ spent \in 0 .. Budget
    /\ used \subseteq Models /\ tried \subseteq Models
    /\ first \in Models \cup {None}
    /\ agent \in [Roles -> [pc : {"waiting", "calling", "tools", "done", "failed"},
                            base : Models \cup {None},
                            model : Models \cup {None},
                            client : Pool,
                            switches : 0 .. MaxSwitches,
                            steps : 0 .. MaxSteps]]
    /\ aborted \in BOOLEAN
    /\ turn \in {"running", "done", "failed"}

\* Loop r goes on with another model.
SwitchesIn(r) ==
    /\ agent[r].pc = "calling" /\ agent'[r].pc = "calling"
    /\ agent'[r].model # agent[r].model

\* A rotation never goes to a model that failed in this turn, in the loop of
\* whatever role, so that a turn cannot circle among broken models.
SwitchesToUntried ==
    [][\A r \in Roles :
         SwitchesIn(r) => agent'[r].model \notin cat'.failed]_vars

\* A rotation never goes to a provider that is out of the turn, even when it
\* was put aside by a loop that runs in parallel, or a moment before.
SwitchesToLiveProvider ==
    [][\A r \in Roles :
         SwitchesIn(r) => cat'.owner[agent'[r].model] \notin cat'.dead]_vars

\* A loop that runs out of models has tried, in this turn, every model it may
\* call that some live provider with a client serves, whoever owned it first
\* and in whatever order keys were refused.  Left out are the models of a
\* provider that three failures put aside: the code gives those to nobody,
\* even when its key is refused later (see TriesWhateverIsServed).
GivesUpOnlyWhenExhausted ==
    [][\A r \in Roles :
         /\ agent[r].pc = "calling" /\ agent'[r].pc = "failed"
         /\ ~aborted /\ cat'.failed # cat.failed
         => \A m \in Models : \/ m \in tried'
                              \/ FreeOnly /\ ~Free(cat', m)
                              \/ Serves[m] \cap Pool \subseteq cat'.dead
                              \/ cat'.owner[m] \in cat'.aside]_vars

\* Once the turn is aborted no loop calls a model again: neither after its
\* tools, nor after a failed call, nor in the next role of the pipeline.
AbortStopsCalls ==
    [][aborted => \A r \in Roles :
         agent'[r].pc = "calling" => agent'[r] = agent[r]]_vars

(***************************************************************************)
(* What the comments say and the code does not do.                         *)
(***************************************************************************)
\* providers/index.ts: when a provider dies its models can go over to another
\* live one that serves them.  The same without the exception for providers
\* put aside.
TriesWhateverIsServed ==
    [][\A r \in Roles :
         /\ agent[r].pc = "calling" /\ agent'[r].pc = "failed"
         /\ ~aborted /\ cat'.failed # cat.failed
         => \A m \in Models : \/ m \in tried'
                              \/ FreeOnly /\ ~Free(cat', m)
                              \/ Serves[m] \cap Pool \subseteq cat'.dead]_vars

\* orchestrator.ts: "chat MUST go through the owner of the model id".
ClientServesModel ==
    \A r \in Roles :
        agent[r].pc = "calling" => agent[r].client \in Serves[agent[r].model]

\* router.ts: freeOnly forces the router to only use free models.
FreeOnlyIsFree ==
    FreeOnly /\ Preferred = None =>
        \A r \in Roles : agent[r].pc = "calling" => Free(cat, agent[r].model)
=============================================================================
