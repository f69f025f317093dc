--------------------------- MODULE Rotation_proofs ---------------------------
(***************************************************************************)
(* The safety of the rotation for every catalog, pipeline and bound.       *)
(*                                                                         *)
(* First what one call of nextAlive and of onModelError do, then the       *)
(* inductive invariant, then the properties of Rotation.                   *)
(***************************************************************************)
EXTENDS Rotation, TLAPS

Loop == [pc : {"waiting", "calling", "tools", "done", "failed"},
         base : Models \cup {None},
         model : Models \cup {None},
         client : Pool,
         switches : 0 .. MaxSwitches,
         steps : 0 .. MaxSteps]

Busy == {"calling", "tools"}

\* A loop at work has a model, one that nextAlive gave it or the one it began
\* with.
LoopsHaveModels ==
    \A r \in Roles :
        agent[r].pc \in Busy =>
            /\ agent[r].model \in Models
            /\ agent[r].model \in tried \cup {agent[r].base}

FailedAreTried == cat.failed \subseteq tried

AsideAreDead == cat.aside \subseteq cat.dead

\* A provider that is out for a refused key has given away whatever another
\* live one serves.  One that three failures put aside has not, and never will.
RefusedGivesAway ==
    \A m \in Models :
        cat.owner[m] \in cat.dead \ cat.aside =>
            Serves[m] \cap Pool \subseteq cat.dead

RotationInv ==
    /\ TypeOK
    /\ LoopsHaveModels
    /\ FailedAreTried
    /\ AsideAreDead
    /\ RefusedGivesAway

(***************************************************************************)
(* nextAlive.                                                              *)
(***************************************************************************)
\* The router decides on a model of the policy, or on none.
LEMMA DecisionsType ==
    ASSUME NEW c, NEW r \in Roles, NEW u
    PROVE  Decisions(c, r, u) \subseteq Models \cup {None}
<1>1. Policy[r] \subseteq Models
  BY RotationAssumption
<1> QED BY <1>1 DEF Decisions, Ranked

\* A model that nextAlive answers was not tried before and its provider is
\* not out; when it answers none, nothing that may be called is left.
LEMMA NextAliveEffect ==
    ASSUME NEW c, NEW r \in Roles, NEW base \in Models \cup {None},
           NEW m \in Models \cup {None},
           tried \subseteq Models, used \subseteq Models,
           NextAlive(c, r, base, m)
    PROVE  /\ tried' \subseteq Models /\ used' \subseteq Models
           /\ tried \subseteq tried' /\ {base, m} \subseteq tried' \cup {None}
           /\ m # None => /\ m \notin tried \cup {base}
                          /\ c.owner[m] \notin c.dead
           /\ m = None => \A n \in Models : \/ n \in tried'
                                            \/ c.owner[n] \in c.dead
                                            \/ FreeOnly /\ ~Free(c, n)
<1> DEFINE t    == tried \cup {base}
           skip == {n \in Models : n \in t \/ c.owner[n] \in c.dead}
           left == Ranked(c, r) \ used
<1>1. None \notin Models /\ left \subseteq Models
  BY RotationAssumption DEF Ranked
<1>2. tried' = (t \cup {m}) \ {None}
  BY DEF NextAlive
<1>3. /\ tried' \subseteq Models /\ tried \subseteq tried'
      /\ {base, m} \subseteq tried' \cup {None}
  BY <1>1, <1>2
<1>4. CASE \E skipped \in SUBSET (left \cap skip) :
             /\ m \in Decisions(c, r, used \cup skipped) \ skip
             /\ m # None
             /\ used' = used \cup skipped \cup {m}
  <2>1. m \in Models \ skip /\ used' \subseteq Models
    BY <1>1, <1>4
  <2> QED BY <1>3, <1>4, <2>1
<1>5. CASE /\ left \subseteq skip
           /\ m \in IF Scan(c, t) = {} THEN {None} ELSE Scan(c, t)
           /\ used' = used \cup left
  <2>1. used' \subseteq Models
    BY <1>1, <1>5
  <2>2. CASE Scan(c, t) = {}
    <3>1. m = None
      BY <1>5, <2>2
    <3>2. \A n \in Models : \/ n \in t
                            \/ c.owner[n] \in c.dead
                            \/ FreeOnly /\ ~Free(c, n)
      BY <2>2 DEF Scan
    <3>3. \A n \in Models : n \in t => n \in tried'
      BY <1>1, <1>2
    <3> QED BY <1>3, <2>1, <3>1, <3>2, <3>3
  <2>3. CASE Scan(c, t) # {}
    <3>1. m \in Scan(c, t)
      BY <1>5, <2>3
    <3>2. m \in Models \ t /\ c.owner[m] \notin c.dead
      BY <3>1 DEF Scan
    <3> QED BY <1>1, <1>3, <2>1, <3>2
  <2> QED BY <2>2, <2>3
<1> QED BY <1>4, <1>5 DEF NextAlive

(***************************************************************************)
(* onModelError.                                                           *)
(***************************************************************************)
\* What a failed call of m leaves: m is reported, no provider comes back, and
\* a refused one has given its models away.
LEMMA AfterErrorEffect ==
    ASSUME cat \in CatType, AsideAreDead, RefusedGivesAway,
           NEW m \in Models, NEW kind \in Kinds, NEW c \in AfterError(m, kind)
    PROVE  /\ c \in CatType
           /\ c.failed = cat.failed \cup {m}
           /\ c.aside \subseteq c.dead
           /\ \A n \in Models :
                c.owner[n] \in c.dead \ c.aside =>
                    Serves[n] \cap Pool \subseteq c.dead
<1> DEFINE p == cat.owner[m]
<1>1. /\ cat.owner \in [Models -> Providers] /\ cat.dead \subseteq Providers
      /\ cat.aside \subseteq Providers
      /\ cat.fails \in [Providers -> 0 .. 3]
      /\ cat.cooling \subseteq Models /\ cat.failed \subseteq Models
      /\ p \in Providers
  BY DEF CatType
<1>2. CASE kind = "auth"
  <2>1. c \in AuthError(m)
    BY <1>2 DEF AfterError
  <2>2. CASE p \in cat.dead
    <3>1. c = [owner   |-> cat.owner,
               dead    |-> cat.dead \cup {p},
               aside   |-> cat.aside,
               fails   |-> [cat.fails EXCEPT ![p] = 0],
               cooling |-> cat.cooling \cup {m},
               failed  |-> cat.failed \cup {m}]
      BY <2>1, <2>2 DEF AuthError
    <3>2. c \in CatType
      BY <1>1, <3>1 DEF CatType
    <3>3. c.owner = cat.owner /\ c.aside = cat.aside
          /\ c.dead = cat.dead /\ c.failed = cat.failed \cup {m}
      BY <2>2, <3>1
    <3> QED BY <3>2, <3>3 DEF AsideAreDead, RefusedGivesAway
  <2>3. CASE p \notin cat.dead
    <3>1. PICK o \in Flips(p) :
            c = [owner   |-> o,
                 dead    |-> cat.dead \cup {p},
                 aside   |-> cat.aside,
                 fails   |-> [cat.fails EXCEPT ![o[m]] = 0],
                 cooling |-> cat.cooling \cup {m},
                 failed  |-> cat.failed \cup {m}]
      BY <2>1, <2>3 DEF AuthError
    <3>2. o \in [Models -> Providers]
      BY DEF Flips
    <3>3. c \in CatType
      BY <1>1, <3>1, <3>2 DEF CatType
    <3>4. /\ c.owner = o /\ c.aside = cat.aside
          /\ c.dead = cat.dead \cup {p} /\ c.failed = cat.failed \cup {m}
      BY <3>1
    <3>5. ASSUME NEW n \in Models, o[n] \in (cat.dead \cup {p}) \ cat.aside
          PROVE  Serves[n] \cap Pool \subseteq cat.dead \cup {p}
      <4> DEFINE alts == (Serves[n] \cap Pool) \ (cat.dead \cup {p})
      <4>1. IF cat.owner[n] = p /\ alts # {}
            THEN o[n] \in alts ELSE o[n] = cat.owner[n]
        BY DEF Flips
      <4>2. CASE alts = {}
        BY <4>2
      <4>3. CASE cat.owner[n] = p /\ alts # {}
        BY <3>5, <4>1, <4>3
      <4>4. CASE cat.owner[n] # p
        <5>1. cat.owner[n] \in cat.dead \ cat.aside
          BY <3>5, <4>1, <4>4
        <5> QED BY <5>1 DEF RefusedGivesAway
      <4> QED BY <4>2, <4>3, <4>4
    <3> QED BY <3>3, <3>4, <3>5 DEF AsideAreDead
  <2> QED BY <2>2, <2>3
<1>3. CASE kind = "other"
  <2> DEFINE n == IF cat.fails[p] = 3 THEN 3 ELSE cat.fails[p] + 1
  <2>1. c = [cat EXCEPT !.dead = IF n = 3 THEN @ \cup {p} ELSE @,
                        !.aside = IF n = 3 THEN @ \cup ({p} \ cat.dead) ELSE @,
                        !.fails = [@ EXCEPT ![p] = n],
                        !.cooling = @ \cup {m},
                        !.failed = @ \cup {m}]
    BY <1>3 DEF AfterError, OtherError
  <2>2. cat.fails[p] \in 0 .. 3 /\ n \in 0 .. 3
    BY <1>1
  <2> HIDE DEF n, p
  <2>3. /\ c.owner = cat.owner
        /\ c.aside = IF n = 3 THEN cat.aside \cup ({p} \ cat.dead) ELSE cat.aside
        /\ c.dead = IF n = 3 THEN cat.dead \cup {p} ELSE cat.dead
        /\ c.fails = [cat.fails EXCEPT ![p] = n]
        /\ c.cooling = cat.cooling \cup {m}
        /\ c.failed = cat.failed \cup {m}
    BY <2>1 DEF CatType
  <2>4. c = [owner |-> c.owner, dead |-> c.dead, aside |-> c.aside,
             fails |-> c.fails, cooling |-> c.cooling, failed |-> c.failed]
    BY <2>1 DEF CatType
  <2>5. c \in CatType
    BY <1>1, <2>2, <2>3, <2>4 DEF CatType
  <2>6. /\ cat.dead \subseteq c.dead /\ c.aside \subseteq c.dead
        /\ c.dead \ c.aside \subseteq cat.dead \ cat.aside
    BY <2>3 DEF AsideAreDead
  <2> QED BY <2>3, <2>5, <2>6 DEF RefusedGivesAway
<1> QED BY <1>2, <1>3 DEF Kinds

(***************************************************************************)
(* The loops.                                                              *)
(***************************************************************************)
\* A loop that waits or is over is a loop, and so is one that starts.
LEMMA LoopTypes ==
    /\ \A pc \in {"waiting", "done", "failed"} :
         Ended(pc) \in Loop /\ Ended(pc).pc = pc
    /\ \A m \in Models, p \in Pool :
         /\ Calling(m, p) \in Loop
         /\ Calling(m, p).base = m /\ Calling(m, p).model = m
<1>1. /\ Default \in Pool /\ 0 \in 0 .. MaxSwitches /\ 0 \in 0 .. MaxSteps
  BY RotationAssumption
<1> QED BY <1>1 DEF Ended, Calling, Idle, Loop

\* A call starts with the given state of the loop, or the loop fails.
LEMMA CallEffect ==
    ASSUME NEW r \in Roles, NEW a, Call(r, a),
           turn \in {"running", "done", "failed"}
    PROVE  /\ turn' \in {"running", "done", "failed"}
           /\ \/ aborted /\ agent' = [agent EXCEPT ![r] = Ended("failed")]
              \/ ~aborted /\ agent' = [agent EXCEPT ![r] = a]
BY DEF Call, Throw

LEMMA ThrowEffect ==
    ASSUME NEW r \in Roles, Throw(r), turn \in {"running", "done", "failed"}
    PROVE  /\ turn' \in {"running", "done", "failed"}
           /\ agent' = [agent EXCEPT ![r] = Ended("failed")]
BY DEF Throw

\* The client of a provider has a key.
LEMMA ClientForType == \A p : ClientFor(p) \in Pool
BY RotationAssumption DEF ClientFor

\* What a loop may become without harm to the others.
LEMMA LoopsKept ==
    ASSUME agent \in [Roles -> Loop], LoopsHaveModels, tried \subseteq tried',
           NEW r \in Roles, NEW a \in Loop, agent' = [agent EXCEPT ![r] = a],
           a.pc \in Busy => /\ a.model \in Models
                            /\ a.model \in tried' \cup {a.base}
    PROVE  agent' \in [Roles -> Loop] /\ LoopsHaveModels'
<1>1. agent' \in [Roles -> Loop]
  OBVIOUS
<1>2. ASSUME NEW q \in Roles, agent'[q].pc \in Busy
      PROVE  /\ agent'[q].model \in Models
             /\ agent'[q].model \in tried' \cup {agent'[q].base}
  <2>1. CASE q = r
    BY <1>2, <2>1
  <2>2. CASE q # r
    <3>1. agent'[q] = agent[q]
      BY <2>2
    <3> QED BY <1>2, <3>1 DEF LoopsHaveModels
  <2> QED BY <2>1, <2>2
<1> QED BY <1>1, <1>2 DEF LoopsHaveModels

LEMMA EndedKept ==
    ASSUME agent \in [Roles -> Loop], LoopsHaveModels, tried \subseteq tried',
           NEW r \in Roles, NEW pc \in {"done", "failed"},
           agent' = [agent EXCEPT ![r] = Ended(pc)]
    PROVE  agent' \in [Roles -> Loop] /\ LoopsHaveModels'
<1>1. Ended(pc) \in Loop /\ Ended(pc).pc = pc
  BY LoopTypes
<1>2. Ended(pc).pc \notin Busy
  BY <1>1 DEF Busy
<1> QED BY <1>1, <1>2, LoopsKept

\* The new state of the loop of a call, started or failed.
LEMMA CallKept ==
    ASSUME agent \in [Roles -> Loop], LoopsHaveModels, tried \subseteq tried',
           turn \in {"running", "done", "failed"},
           NEW r \in Roles, NEW a \in Loop, Call(r, a),
           /\ a.model \in Models /\ a.model \in tried' \cup {a.base}
    PROVE  /\ agent' \in [Roles -> Loop] /\ LoopsHaveModels'
           /\ turn' \in {"running", "done", "failed"}
<1>1. CASE aborted /\ agent' = [agent EXCEPT ![r] = Ended("failed")]
  BY <1>1, EndedKept, CallEffect
<1>2. CASE ~aborted /\ agent' = [agent EXCEPT ![r] = a]
  BY <1>2, LoopsKept, CallEffect
<1> QED BY <1>1, <1>2, CallEffect

(***************************************************************************)
(* The invariant.                                                          *)
(***************************************************************************)
LEMMA TypeParts ==
    TypeOK <=> /\ cat \in CatType
               /\ spent \in 0 .. Budget
               /\ used \subseteq Models /\ tried \subseteq Models
               /\ first \in Models \cup {None}
               /\ agent \in [Roles -> Loop]
               /\ aborted \in BOOLEAN
               /\ turn \in {"running", "done", "failed"}
BY DEF TypeOK, Loop

LEMMA InvInit == Init => RotationInv
<1> SUFFICES ASSUME Init PROVE RotationInv
  OBVIOUS
<1>1. PICK o \in [Models -> Providers], c \in SUBSET Models :
        cat = [owner |-> o, dead |-> {}, aside |-> {},
               fails |-> [p \in Providers |-> 0], cooling |-> c, failed |-> {}]
  BY DEF Init
<1>2. /\ cat \in CatType /\ cat.failed = {} /\ cat.aside = {}
      /\ cat.dead = {}
  BY <1>1 DEF CatType
<1>3. agent \in [Roles -> Loop] /\ \A r \in Roles : agent[r].pc = "waiting"
  <2>1. Idle \in Loop /\ Idle.pc = "waiting"
    BY RotationAssumption DEF Idle, Loop
  <2> QED BY <2>1 DEF Init
<1>4. TypeOK
  BY <1>2, <1>3, TypeParts DEF Init
<1> QED
  BY <1>2, <1>3, <1>4 DEF RotationInv, LoopsHaveModels, Busy, FailedAreTried,
                          AsideAreDead, RefusedGivesAway

\* A reply changes no owner and puts nobody out.
LEMMA SucceedsEffect ==
    ASSUME RotationInv, NEW r \in Roles, Succeeds(r)
    PROVE  /\ agent[r].pc = "calling" /\ spent' \in 0 .. Budget
           /\ cat' \in CatType
           /\ cat'.owner = cat.owner /\ cat'.dead = cat.dead
           /\ cat'.aside = cat.aside /\ cat'.failed = cat.failed
<1> DEFINE p == cat.owner[agent[r].model]
<1>1. /\ cat \in CatType /\ spent \in 0 .. Budget /\ Budget \in Nat
  BY RotationAssumption DEF RotationInv, TypeOK
<1>2. cat' = [cat EXCEPT !.fails[p] = 0] /\ agent[r].pc = "calling"
  BY DEF Succeeds
<1>3. spent' = spent \/ (spent < Budget /\ spent' = spent + 1)
  BY DEF Succeeds
<1> HIDE DEF p
<1>4. /\ cat'.owner = cat.owner /\ cat'.dead = cat.dead
      /\ cat'.aside = cat.aside /\ cat'.failed = cat.failed
      /\ cat'.cooling = cat.cooling
      /\ cat'.fails = [cat.fails EXCEPT ![p] = 0]
  BY <1>1, <1>2 DEF CatType
<1>5. cat' = [owner |-> cat'.owner, dead |-> cat'.dead,
              aside |-> cat'.aside, fails |-> cat'.fails,
              cooling |-> cat'.cooling, failed |-> cat'.failed]
  BY <1>1, <1>2 DEF CatType
<1>6. cat' \in CatType
  BY <1>1, <1>4, <1>5 DEF CatType
<1> QED BY <1>1, <1>2, <1>3, <1>4, <1>6

\* What is left to show when the catalog does not change.
LEMMA SameCatalog ==
    ASSUME RotationInv, cat'.owner = cat.owner, cat'.dead = cat.dead,
           cat'.aside = cat.aside, cat'.failed = cat.failed,
           tried \subseteq tried'
    PROVE  FailedAreTried' /\ AsideAreDead' /\ RefusedGivesAway'
BY DEF RotationInv, FailedAreTried, AsideAreDead, RefusedGivesAway

LEMMA StartOrchestratorKeeps ==
    ASSUME RotationInv, StartOrchestrator
    PROVE  RotationInv'
<1> DEFINE r == "orchestrator"
<1>0. r \in Roles
  BY DEF Roles
<1> HIDE DEF r
<1>1. /\ cat \in CatType /\ spent \in 0 .. Budget /\ used \subseteq Models
      /\ tried \subseteq Models /\ agent \in [Roles -> Loop]
      /\ aborted \in BOOLEAN /\ turn \in {"running", "done", "failed"}
      /\ LoopsHaveModels
  BY TypeParts DEF RotationInv
<1>2. cat' = cat /\ spent' = spent /\ aborted' = aborted
  BY DEF StartOrchestrator
<1>3. PICK d \in Decisions(cat, r, used) :
        /\ first' = d
        /\ CASE Preferred # None ->
                  /\ Call(r, Calling(Preferred,
                                     ClientFor(cat.owner[Preferred])))
                  /\ used' = used \cup ({d} \ {None})
                  /\ UNCHANGED tried
             [] Preferred = None /\ d # None ->
                  /\ Call(r, Calling(d, ClientFor(cat.owner[d])))
                  /\ used' = used \cup {d}
                  /\ UNCHANGED tried
             [] OTHER ->
                  \E m \in Models \cup {None} :
                    /\ NextAlive(cat, r, None, m)
                    /\ IF m = None
                       THEN Throw(r)
                       ELSE Call(r, Calling(m, Default))
  BY DEF StartOrchestrator, r
<1>4. d \in Models \cup {None} /\ None \notin Models
  BY <1>0, DecisionsType, RotationAssumption
<1>5. /\ used' \subseteq Models /\ tried' \subseteq Models
      /\ tried \subseteq tried' /\ agent' \in [Roles -> Loop]
      /\ LoopsHaveModels' /\ turn' \in {"running", "done", "failed"}
  <2>1. CASE Preferred # None
    <3>1. /\ Call(r, Calling(Preferred, ClientFor(cat.owner[Preferred])))
          /\ used' = used \cup ({d} \ {None}) /\ tried' = tried
      BY <1>3, <2>1
    <3>2. Preferred \in Models
      BY <2>1, RotationAssumption
    <3> QED BY <1>0, <1>1, <1>4, <3>1, <3>2, LoopTypes, ClientForType, CallKept
  <2>2. CASE Preferred = None /\ d # None
    <3>1. /\ Call(r, Calling(d, ClientFor(cat.owner[d])))
          /\ used' = used \cup {d} /\ tried' = tried
      BY <1>3, <2>2
    <3> QED BY <1>0, <1>1, <1>4, <2>2, <3>1, LoopTypes, ClientForType, CallKept
  <2>3. CASE Preferred = None /\ d = None
    <3>1. PICK m \in Models \cup {None} :
            /\ NextAlive(cat, r, None, m)
            /\ IF m = None THEN Throw(r) ELSE Call(r, Calling(m, Default))
      BY <1>3, <2>3
    <3>2. /\ used' \subseteq Models /\ tried' \subseteq Models
          /\ tried \subseteq tried'
      BY <1>0, <1>1, <3>1, NextAliveEffect
    <3>3. CASE m = None
      BY <1>0, <1>1, <3>1, <3>2, <3>3, ThrowEffect, EndedKept
    <3>4. CASE m # None
      <4>1. Default \in Pool
        BY RotationAssumption
      <4> QED BY <1>0, <1>1, <3>1, <3>2, <3>4, <4>1, LoopTypes, CallKept
    <3> QED BY <3>2, <3>3, <3>4
  <2> QED BY <2>1, <2>2, <2>3
<1>6. TypeOK'
  <2>1. first' \in Models \cup {None}
    BY <1>3, <1>4
  <2> QED BY <1>1, <1>2, <1>5, <2>1 DEF TypeOK, Loop
<1> QED BY <1>2, <1>5, <1>6, SameCatalog DEF RotationInv

LEMMA StartAgentKeeps ==
    ASSUME RotationInv, NEW r \in Roles, StartAgent(r)
    PROVE  RotationInv'
<1>1. /\ cat \in CatType /\ spent \in 0 .. Budget /\ used \subseteq Models
      /\ tried \subseteq Models /\ agent \in [Roles -> Loop]
      /\ first \in Models \cup {None}
      /\ aborted \in BOOLEAN /\ turn \in {"running", "done", "failed"}
      /\ LoopsHaveModels
  BY TypeParts DEF RotationInv
<1>2. /\ cat' = cat /\ spent' = spent /\ aborted' = aborted
      /\ tried' = tried /\ first' = first
  BY DEF StartAgent
<1>3. PICK d \in Decisions(cat, r, used) :
        LET m == CASE Preferred # None -> Preferred
                   [] Preferred = None /\ d # None -> d
                   [] OTHER -> first
            p == IF d = None THEN Default ELSE ClientFor(cat.owner[d])
        IN  /\ used' = used \cup ({d} \ {None})
            /\ IF m = None THEN Throw(r) ELSE Call(r, Calling(m, p))
  BY DEF StartAgent
<1> DEFINE m == CASE Preferred # None -> Preferred
                  [] Preferred = None /\ d # None -> d
                  [] OTHER -> first
           p == IF d = None THEN Default ELSE ClientFor(cat.owner[d])
<1>4. d \in Models \cup {None}
  BY DecisionsType
<1>5. m \in Models \cup {None} /\ p \in Pool
  BY <1>1, <1>4, ClientForType, RotationAssumption
<1>6. /\ used' = used \cup ({d} \ {None})
      /\ IF m = None THEN Throw(r) ELSE Call(r, Calling(m, p))
  BY <1>3
<1> HIDE DEF m, p
<1>7. /\ agent' \in [Roles -> Loop] /\ LoopsHaveModels'
      /\ turn' \in {"running", "done", "failed"}
  <2>1. CASE m = None
    BY <1>1, <1>2, <1>6, <2>1, ThrowEffect, EndedKept
  <2>2. CASE m # None
    BY <1>1, <1>2, <1>5, <1>6, <2>2, LoopTypes, CallKept
  <2> QED BY <2>1, <2>2
<1>8. used' \subseteq Models
  BY <1>1, <1>4, <1>6
<1>9. TypeOK'
  BY <1>1, <1>2, <1>7, <1>8 DEF TypeOK, Loop
<1> QED BY <1>2, <1>7, <1>9, SameCatalog DEF RotationInv

LEMMA ReplyKeeps ==
    ASSUME RotationInv, NEW r \in Roles, ToolReply(r) \/ FinalReply(r)
    PROVE  RotationInv'
<1>1. /\ agent \in [Roles -> Loop] /\ LoopsHaveModels
      /\ used \subseteq Models /\ tried \subseteq Models
      /\ first \in Models \cup {None} /\ aborted \in BOOLEAN
      /\ turn \in {"running", "done", "failed"}
  BY TypeParts DEF RotationInv
<1>2. /\ Succeeds(r)
      /\ UNCHANGED <<used, tried, first, aborted, turn>>
  BY DEF ToolReply, FinalReply
<1>3. /\ agent[r].pc = "calling" /\ spent' \in 0 .. Budget
      /\ cat' \in CatType
      /\ cat'.owner = cat.owner /\ cat'.dead = cat.dead
      /\ cat'.aside = cat.aside /\ cat'.failed = cat.failed
  BY <1>2, SucceedsEffect
<1>4. agent' \in [Roles -> Loop] /\ LoopsHaveModels'
  <2>1. CASE ToolReply(r)
    <3> DEFINE a == [agent[r] EXCEPT !.pc = "tools", !.steps = @ + 1]
    <3>1. agent' = [agent EXCEPT ![r] = a]
      BY <1>1, <2>1 DEF ToolReply
    <3>2. agent[r] \in Loop /\ agent[r].steps < MaxSteps /\ MaxSteps \in Nat
      BY <1>1, <2>1, RotationAssumption DEF ToolReply
    <3>3. /\ a \in Loop /\ a.pc = "tools"
          /\ a.model = agent[r].model /\ a.base = agent[r].base
      <4> DEFINE b == agent[r]
      <4>1. b \in Loop /\ b.steps + 1 \in 0 .. MaxSteps
        BY <3>2 DEF Loop
      <4> HIDE DEF b
      <4>2. /\ [b EXCEPT !.pc = "tools", !.steps = @ + 1] \in Loop
            /\ [b EXCEPT !.pc = "tools", !.steps = @ + 1].pc = "tools"
            /\ [b EXCEPT !.pc = "tools", !.steps = @ + 1].model = b.model
            /\ [b EXCEPT !.pc = "tools", !.steps = @ + 1].base = b.base
        BY <4>1 DEF Loop
      <4> QED BY <4>2 DEF b
    <3>4. agent[r].model \in Models /\ agent[r].model \in tried \cup {agent[r].base}
      BY <1>1, <1>3 DEF LoopsHaveModels, Busy
    <3> HIDE DEF a
    <3> QED BY <1>1, <1>2, <3>1, <3>3, <3>4, LoopsKept
  <2>2. CASE FinalReply(r)
    BY <1>1, <1>2, <2>2, EndedKept DEF FinalReply
  <2> QED BY <2>1, <2>2
<1>5. TypeOK'
  BY <1>1, <1>2, <1>3, <1>4 DEF TypeOK, Loop
<1> QED BY <1>2, <1>3, <1>4, <1>5, SameCatalog DEF RotationInv

LEMMA ToolsDoneKeeps ==
    ASSUME RotationInv, NEW r \in Roles, ToolsDone(r)
    PROVE  RotationInv'
<1>1. TypeOK /\ agent \in [Roles -> Loop] /\ LoopsHaveModels
      /\ turn \in {"running", "done", "failed"}
  BY TypeParts DEF RotationInv
<1> DEFINE a == [agent[r] EXCEPT !.pc = "calling"]
<1>2. /\ Call(r, a) /\ agent[r].pc = "tools"
      /\ UNCHANGED <<cat, spent, used, tried, first, aborted>>
  BY DEF ToolsDone
<1>3. /\ a \in Loop /\ a.model = agent[r].model /\ a.base = agent[r].base
  BY <1>1 DEF Loop
<1>4. agent[r].model \in Models /\ agent[r].model \in tried \cup {agent[r].base}
  BY <1>1, <1>2 DEF LoopsHaveModels, Busy
<1> HIDE DEF a
<1>5. /\ agent' \in [Roles -> Loop] /\ LoopsHaveModels'
      /\ turn' \in {"running", "done", "failed"}
  BY <1>1, <1>2, <1>3, <1>4, CallKept
<1>6. TypeOK'
  BY <1>1, <1>2, <1>5 DEF TypeOK, Loop
<1> QED BY <1>2, <1>5, <1>6, SameCatalog DEF RotationInv

LEMMA GiveUpKeeps ==
    ASSUME RotationInv, NEW r \in Roles, GiveUp(r)
    PROVE  RotationInv'
<1>1. TypeOK /\ agent \in [Roles -> Loop] /\ LoopsHaveModels
      /\ turn \in {"running", "done", "failed"}
  BY TypeParts DEF RotationInv
<1>2. Throw(r) /\ UNCHANGED <<cat, spent, used, tried, first, aborted>>
  BY DEF GiveUp
<1>3. /\ agent' \in [Roles -> Loop] /\ LoopsHaveModels'
      /\ turn' \in {"running", "done", "failed"}
  BY <1>1, <1>2, ThrowEffect, EndedKept
<1>4. TypeOK'
  BY <1>1, <1>2, <1>3 DEF TypeOK, Loop
<1> QED BY <1>2, <1>3, <1>4, SameCatalog DEF RotationInv

\* What a rotation does: the catalog learns of the failure, and the loop goes
\* on with the answer of nextAlive or fails.
LEMMA RotateEffect ==
    ASSUME RotationInv, NEW r \in Roles, NEW kind \in Kinds, Rotate(r, kind)
    PROVE  \E c \in CatType, m \in Models \cup {None} :
             /\ cat' = c
             /\ cat'.failed = cat.failed \cup {agent[r].model}
             /\ AsideAreDead' /\ RefusedGivesAway'
             /\ NextAlive(c, r, agent[r].base, m)
             /\ turn' \in {"running", "done", "failed"}
             /\ \/ m = None /\ agent' = [agent EXCEPT ![r] = Ended("failed")]
                \/ aborted /\ agent' = [agent EXCEPT ![r] = Ended("failed")]
                \/ \E a \in Loop :
                     /\ m # None /\ ~aborted
                     /\ agent' = [agent EXCEPT ![r] = a]
                     /\ a.pc = "calling" /\ a.model = m
                     /\ a.base = agent[r].base
<1> DEFINE b == agent[r]
<1>1. /\ agent \in [Roles -> Loop] /\ LoopsHaveModels /\ b \in Loop
      /\ cat \in CatType /\ turn \in {"running", "done", "failed"}
      /\ AsideAreDead /\ RefusedGivesAway
  BY TypeParts DEF RotationInv
<1>2. b.pc = "calling" /\ b.switches < MaxSwitches
  BY DEF Rotate
<1>3. PICK c \in AfterError(b.model, kind), m \in Models \cup {None} :
        /\ cat' = c
        /\ NextAlive(c, r, b.base, m)
        /\ IF m = None
           THEN Throw(r)
           ELSE Call(r, [b EXCEPT !.model = m,
                                  !.client = ClientFor(c.owner[m]),
                                  !.switches = @ + 1])
  BY DEF Rotate
<1>4. b.model \in Models
  BY <1>1, <1>2 DEF LoopsHaveModels, Busy
<1>5. /\ c \in CatType /\ c.failed = cat.failed \cup {b.model}
      /\ c.aside \subseteq c.dead
      /\ \A n \in Models :
           c.owner[n] \in c.dead \ c.aside =>
                        Serves[n] \cap Pool \subseteq c.dead
  BY <1>1, <1>4, AfterErrorEffect
<1>6. AsideAreDead' /\ RefusedGivesAway'
  BY <1>3, <1>5 DEF AsideAreDead, RefusedGivesAway
<1> DEFINE a == [b EXCEPT !.model = m, !.client = ClientFor(c.owner[m]),
                          !.switches = @ + 1]
<1>7. /\ turn' \in {"running", "done", "failed"}
      /\ \/ m = None /\ agent' = [agent EXCEPT ![r] = Ended("failed")]
         \/ aborted /\ agent' = [agent EXCEPT ![r] = Ended("failed")]
         \/ m # None /\ ~aborted /\ agent' = [agent EXCEPT ![r] = a]
  <2>1. CASE m = None
    BY <1>1, <1>3, <2>1, ThrowEffect
  <2>2. CASE m # None
    <3>1. Call(r, a)
      BY <1>3, <2>2
    <3> HIDE DEF a
    <3> QED BY <1>1, <2>2, <3>1, CallEffect
  <2> QED BY <2>1, <2>2
<1>8. a \in Loop /\ a.pc = "calling" /\ a.model = m /\ a.base = b.base
  <2>1. b.switches + 1 \in 0 .. MaxSwitches
    BY <1>1, <1>2, RotationAssumption DEF Loop
  <2>2. ClientFor(c.owner[m]) \in Pool
    BY ClientForType
  <2> QED BY <1>1, <1>2, <2>1, <2>2 DEF Loop
<1> HIDE DEF a, b
<1> QED BY <1>3, <1>5, <1>6, <1>7, <1>8 DEF b

LEMMA RotateKeeps ==
    ASSUME RotationInv, NEW r \in Roles, NEW kind \in Kinds, Rotate(r, kind)
    PROVE  RotationInv'
<1>1. /\ agent \in [Roles -> Loop] /\ LoopsHaveModels /\ FailedAreTried
      /\ used \subseteq Models /\ tried \subseteq Models
      /\ spent \in 0 .. Budget /\ first \in Models \cup {None}
      /\ aborted \in BOOLEAN
  BY TypeParts DEF RotationInv
<1>2. UNCHANGED <<spent, first, aborted>> /\ agent[r].pc = "calling"
  BY DEF Rotate
<1>3. PICK c \in CatType, m \in Models \cup {None} :
        /\ cat' = c
        /\ cat'.failed = cat.failed \cup {agent[r].model}
        /\ AsideAreDead' /\ RefusedGivesAway'
        /\ NextAlive(c, r, agent[r].base, m)
        /\ turn' \in {"running", "done", "failed"}
        /\ \/ m = None /\ agent' = [agent EXCEPT ![r] = Ended("failed")]
           \/ aborted /\ agent' = [agent EXCEPT ![r] = Ended("failed")]
           \/ \E a \in Loop :
                /\ m # None /\ ~aborted
                /\ agent' = [agent EXCEPT ![r] = a]
                /\ a.pc = "calling" /\ a.model = m
                /\ a.base = agent[r].base
  BY RotateEffect
<1>4. agent[r].model \in Models /\ agent[r].model \in tried \cup {agent[r].base}
  BY <1>1, <1>2 DEF LoopsHaveModels, Busy
<1>5. agent[r].base \in Models \cup {None}
  BY <1>1 DEF Loop
<1>6. /\ used' \subseteq Models /\ tried' \subseteq Models
      /\ tried \subseteq tried' /\ {agent[r].base, m} \subseteq tried' \cup {None}
  BY <1>1, <1>3, <1>5, NextAliveEffect DEF NextAlive
<1>7. FailedAreTried'
  <2>1. agent[r].model \in tried'
    BY <1>4, <1>6, RotationAssumption
  <2> QED BY <1>1, <1>3, <1>6, <2>1 DEF FailedAreTried
<1>8. agent' \in [Roles -> Loop] /\ LoopsHaveModels'
  <2>1. CASE agent' = [agent EXCEPT ![r] = Ended("failed")]
    BY <1>1, <1>6, <2>1, EndedKept
  <2>2. ASSUME NEW a \in Loop, m # None, agent' = [agent EXCEPT ![r] = a],
               a.model = m, a.base = agent[r].base
        PROVE  agent' \in [Roles -> Loop] /\ LoopsHaveModels'
    BY <1>1, <1>6, <2>2, LoopsKept
  <2> QED BY <1>3, <2>1, <2>2
<1>9. TypeOK'
  BY <1>1, <1>2, <1>3, <1>6, <1>8 DEF TypeOK, Loop
<1> QED BY <1>3, <1>7, <1>8, <1>9 DEF RotationInv

\* The steps of no loop.
LEMMA OutsideKeeps ==
    ASSUME RotationInv, Abort \/ Finish \/ UNCHANGED vars
    PROVE  RotationInv'
<1>1. /\ UNCHANGED <<cat, spent, used, tried, first, agent>>
      /\ aborted' \in {aborted, TRUE} /\ turn' \in {turn, "done"}
  BY DEF Abort, Finish, vars
<1>2. TypeOK'
  BY <1>1 DEF RotationInv, TypeOK
<1>3. LoopsHaveModels'
  BY <1>1 DEF RotationInv, LoopsHaveModels
<1> QED BY <1>1, <1>2, <1>3, SameCatalog DEF RotationInv

LEMMA InvStep == RotationInv /\ [Next]_vars => RotationInv'
<1> SUFFICES ASSUME RotationInv, [Next]_vars PROVE RotationInv'
  OBVIOUS
<1>1. CASE StartOrchestrator
  BY <1>1, StartOrchestratorKeeps
<1>2. ASSUME NEW r \in Roles,
             \/ StartAgent(r) \/ ToolReply(r) \/ FinalReply(r)
             \/ ToolsDone(r) \/ GiveUp(r)
             \/ \E kind \in Kinds : Rotate(r, kind)
      PROVE  RotationInv'
  BY <1>2, StartAgentKeeps, ReplyKeeps, ToolsDoneKeeps, GiveUpKeeps, RotateKeeps
<1>3. CASE Abort \/ Finish \/ UNCHANGED vars
  BY <1>3, OutsideKeeps
<1> QED BY <1>1, <1>2, <1>3 DEF Next

\* runAgentLoop, onModelError and markDead, in any order and however often:
\* every variable keeps its type, a loop at work has a model of its own or one
\* that the turn has tried, a failed model was tried, and a provider that is out
\* for a refused key has given its models away.
THEOREM RotationCorrect == Spec => []RotationInv
BY InvInit, InvStep, PTL DEF Spec

\* The type of every variable, whatever the catalog and the pipeline.
THEOREM RotationTypes == Spec => []TypeOK
<1>1. RotationInv => TypeOK
  BY DEF RotationInv
<1> QED BY <1>1, RotationCorrect, PTL

(***************************************************************************)
(* What a step may do to a loop.                                           *)
(***************************************************************************)
\* A loop starts to call, stops calling with nothing reported, or rotates.
LEMMA StepOfLoop ==
    ASSUME RotationInv, [Next]_vars, NEW q \in Roles, agent'[q] # agent[q]
    PROVE  \/ ~aborted /\ agent[q].pc # "calling"
           \/ /\ agent'[q].pc # "calling"
              /\ \/ agent[q].pc # "calling" \/ agent'[q].pc # "failed"
                 \/ cat' = cat
           \/ \E kind \in Kinds : Rotate(q, kind)
<1>1. /\ agent \in [Roles -> Loop] /\ turn \in {"running", "done", "failed"}
  BY TypeParts DEF RotationInv
<1>2. \A pc \in {"done", "failed"} : Ended(pc).pc = pc
  BY LoopTypes
<1>3. ASSUME NEW r \in Roles, NEW a, agent' = [agent EXCEPT ![r] = a]
      PROVE  r = q /\ agent'[q] = a
  BY <1>1, <1>3
<1>4. ASSUME NEW r \in Roles, NEW a, Call(r, a), agent[r].pc # "calling"
      PROVE  \/ ~aborted /\ agent[q].pc # "calling"
             \/ agent'[q].pc # "calling" /\ agent[q].pc # "calling"
  BY <1>1, <1>2, <1>3, <1>4, CallEffect
<1>5. ASSUME NEW r \in Roles, Throw(r)
      PROVE  r = q /\ agent'[q].pc # "calling"
  BY <1>1, <1>2, <1>3, <1>5, ThrowEffect
<1>6. CASE StartOrchestrator
  <2>1. "orchestrator" \in Roles
    BY DEF Roles
  <2>2. /\ agent["orchestrator"].pc = "waiting"
        /\ (\E a : Call("orchestrator", a)) \/ Throw("orchestrator")
    <3>1. PICK d \in Decisions(cat, "orchestrator", used) :
            CASE Preferred # None ->
                   /\ Call("orchestrator", Calling(Preferred,
                                         ClientFor(cat.owner[Preferred])))
                   /\ used' = used \cup ({d} \ {None})
                   /\ UNCHANGED tried
              [] Preferred = None /\ d # None ->
                   /\ Call("orchestrator", Calling(d, ClientFor(cat.owner[d])))
                   /\ used' = used \cup {d}
                   /\ UNCHANGED tried
              [] OTHER ->
                   \E m \in Models \cup {None} :
                     /\ NextAlive(cat, "orchestrator", None, m)
                     /\ IF m = None
                        THEN Throw("orchestrator")
                        ELSE Call("orchestrator", Calling(m, Default))
      BY <1>6 DEF StartOrchestrator
    <3> QED BY <1>6, <3>1 DEF StartOrchestrator
  <2> QED BY <1>4, <1>5, <2>1, <2>2
<1>7. ASSUME NEW r \in Roles, StartAgent(r)
      PROVE  \/ ~aborted /\ agent[q].pc # "calling"
             \/ agent'[q].pc # "calling" /\ agent[q].pc # "calling"
  <2>1. agent[r].pc = "waiting" /\ ((\E a : Call(r, a)) \/ Throw(r))
    BY <1>7 DEF StartAgent
  <2> QED BY <1>4, <1>5, <2>1
<1>8. ASSUME NEW r \in Roles, ToolsDone(r)
      PROVE  \/ ~aborted /\ agent[q].pc # "calling"
             \/ agent'[q].pc # "calling" /\ agent[q].pc # "calling"
  <2>1. agent[r].pc = "tools" /\ \E a : Call(r, a)
    BY <1>8 DEF ToolsDone
  <2> QED BY <1>4, <2>1
<1>9. ASSUME NEW r \in Roles, ToolReply(r)
      PROVE  agent'[q].pc = "tools"
  <2> DEFINE a == [agent[r] EXCEPT !.pc = "tools", !.steps = @ + 1]
  <2>1. agent' = [agent EXCEPT ![r] = a]
    BY <1>1, <1>9 DEF ToolReply
  <2>2. a.pc = "tools"
    BY <1>1 DEF Loop
  <2> HIDE DEF a
  <2> QED BY <1>3, <2>1, <2>2
<1>10. ASSUME NEW r \in Roles, FinalReply(r)
       PROVE  agent'[q].pc = "done"
  BY <1>2, <1>3, <1>10 DEF FinalReply
<1>11. ASSUME NEW r \in Roles, GiveUp(r)
       PROVE  agent'[q].pc # "calling" /\ cat' = cat
  BY <1>5, <1>11 DEF GiveUp
<1>12. ASSUME NEW r \in Roles, NEW kind \in Kinds, Rotate(r, kind)
       PROVE  \E k \in Kinds : Rotate(q, k)
  <2>1. \E a : agent' = [agent EXCEPT ![r] = a]
    BY <1>12, RotateEffect
  <2>2. r = q
    BY <1>3, <2>1
  <2> QED BY <1>12, <2>2
<1>13. ~(Abort \/ Finish \/ UNCHANGED vars)
  BY DEF Abort, Finish, vars
<1> QED
  BY <1>6, <1>7, <1>8, <1>9, <1>10, <1>11, <1>12, <1>13, <1>4, <1>5,
     SMTT(30) DEF Next

\* What a rotation leads to: a model that did not fail, of a provider that is
\* not out, or an end with nothing left to call.
LEMMA RotationOutcome ==
    ASSUME RotationInv, NEW q \in Roles, NEW kind \in Kinds, Rotate(q, kind)
    PROVE  \/ /\ agent'[q].pc = "calling" /\ ~aborted
              /\ agent'[q].model \notin cat'.failed
              /\ cat'.owner[agent'[q].model] \notin cat'.dead
           \/ /\ agent'[q].pc = "failed"
              /\ \/ aborted
                 \/ \A n \in Models : \/ n \in tried'
                                      \/ cat'.owner[n] \in cat'.dead
                                      \/ FreeOnly /\ ~Free(cat', n)
<1>1. /\ agent \in [Roles -> Loop] /\ LoopsHaveModels /\ FailedAreTried
      /\ used \subseteq Models /\ tried \subseteq Models
  BY TypeParts DEF RotationInv
<1>2. agent[q].pc = "calling" /\ agent[q].base \in Models \cup {None}
  BY <1>1 DEF Rotate, Loop
<1>3. /\ agent[q].model \in Models
      /\ agent[q].model \in tried \cup {agent[q].base}
  BY <1>1, <1>2 DEF LoopsHaveModels, Busy
<1>4. PICK c \in CatType, m \in Models \cup {None} :
        /\ cat' = c
        /\ cat'.failed = cat.failed \cup {agent[q].model}
        /\ NextAlive(c, q, agent[q].base, m)
        /\ \/ m = None /\ agent' = [agent EXCEPT ![q] = Ended("failed")]
           \/ aborted /\ agent' = [agent EXCEPT ![q] = Ended("failed")]
           \/ \E a \in Loop :
                /\ m # None /\ ~aborted
                /\ agent' = [agent EXCEPT ![q] = a]
                /\ a.pc = "calling" /\ a.model = m
                /\ a.base = agent[q].base
  BY RotateEffect
<1>5. /\ m # None => /\ m \notin tried \cup {agent[q].base}
                     /\ c.owner[m] \notin c.dead
      /\ m = None => \A n \in Models : \/ n \in tried'
                                       \/ c.owner[n] \in c.dead
                                       \/ FreeOnly /\ ~Free(c, n)
  <2>1. PICK base \in Models \cup {None} : base = agent[q].base
    BY <1>2
  <2>2. NextAlive(c, q, base, m)
    BY <1>4, <2>1
  <2>3. /\ m # None => /\ m \notin tried \cup {base}
                       /\ c.owner[m] \notin c.dead
        /\ m = None => \A n \in Models : \/ n \in tried'
                                         \/ c.owner[n] \in c.dead
                                         \/ FreeOnly /\ ~Free(c, n)
    BY <1>1, <2>2, NextAliveEffect
  <2> QED BY <2>1, <2>3
<1>6. Ended("failed").pc = "failed"
  BY LoopTypes
<1>7. CASE /\ m = None \/ aborted
           /\ agent' = [agent EXCEPT ![q] = Ended("failed")]
  <2>1. agent'[q].pc = "failed"
    BY <1>1, <1>6, <1>7
  <2> QED BY <1>4, <1>5, <1>7, <2>1
<1>8. ASSUME NEW a \in Loop, m # None, ~aborted,
             agent' = [agent EXCEPT ![q] = a], a.pc = "calling", a.model = m
      PROVE  /\ agent'[q].pc = "calling"
             /\ agent'[q].model \notin cat'.failed
             /\ cat'.owner[agent'[q].model] \notin cat'.dead
  <2>1. agent'[q] = a
    BY <1>1, <1>8
  <2>2. m \notin cat'.failed
    BY <1>1, <1>3, <1>4, <1>5, <1>8 DEF FailedAreTried
  <2> QED BY <1>4, <1>5, <1>8, <2>1, <2>2
<1> QED BY <1>4, <1>7, <1>8

\* A rotation never goes to a model that failed in this turn, in the loop of
\* whatever role: nextAlive leaves out what was tried, and what failed was.
THEOREM NeverBackToFailed == Spec => SwitchesToUntried
<1>1. ASSUME RotationInv, [Next]_vars
      PROVE  [\A r \in Roles :
                SwitchesIn(r) => agent'[r].model \notin cat'.failed]_vars
  BY <1>1, StepOfLoop, RotationOutcome DEF SwitchesIn
<1> QED BY <1>1, RotationCorrect, PTL DEF Spec, SwitchesToUntried

\* A rotation never goes to a provider that is out: neither the one whose
\* failure it handles nor one that another loop put aside.
THEOREM NeverToDeadProvider == Spec => SwitchesToLiveProvider
<1>1. ASSUME RotationInv, [Next]_vars
      PROVE  [\A r \in Roles :
                SwitchesIn(r) =>
                  cat'.owner[agent'[r].model] \notin cat'.dead]_vars
  BY <1>1, StepOfLoop, RotationOutcome DEF SwitchesIn
<1> QED BY <1>1, RotationCorrect, PTL DEF Spec, SwitchesToLiveProvider

\* A rotation that finds no model has tried whatever it may call and a live
\* provider with a client serves, but for the models of a provider that three
\* failures put aside: nextAlive passes over dead owners only, and a dead owner
\* that is not aside has given away what others serve (RefusedGivesAway).
THEOREM NothingLeftBehind == Spec => GivesUpOnlyWhenExhausted
<1>1. ASSUME RotationInv, [Next]_vars
      PROVE  [\A r \in Roles :
                /\ agent[r].pc = "calling" /\ agent'[r].pc = "failed"
                /\ ~aborted /\ cat'.failed # cat.failed
                => \A m \in Models : \/ m \in tried'
                                     \/ FreeOnly /\ ~Free(cat', m)
                                     \/ Serves[m] \cap Pool \subseteq cat'.dead
                                     \/ cat'.owner[m] \in cat'.aside]_vars
  <2>1. ASSUME NEW r \in Roles, agent[r].pc = "calling",
               agent'[r].pc = "failed", ~aborted, cat'.failed # cat.failed
        PROVE  \A m \in Models : \/ m \in tried'
                                 \/ FreeOnly /\ ~Free(cat', m)
                                 \/ Serves[m] \cap Pool \subseteq cat'.dead
                                 \/ cat'.owner[m] \in cat'.aside
    <3>1. agent'[r] # agent[r] /\ cat' # cat
      BY <2>1
    <3>2. \E kind \in Kinds : Rotate(r, kind)
      BY <1>1, <2>1, <3>1, StepOfLoop
    <3>3. \A m \in Models : \/ m \in tried'
                            \/ cat'.owner[m] \in cat'.dead
                            \/ FreeOnly /\ ~Free(cat', m)
      BY <1>1, <2>1, <3>2, RotationOutcome
    <3>4. RefusedGivesAway'
      BY <1>1, InvStep DEF RotationInv
    <3> QED BY <3>3, <3>4 DEF RefusedGivesAway
  <2> QED BY <2>1
<1> QED BY <1>1, RotationCorrect, PTL DEF Spec, GivesUpOnlyWhenExhausted

\* After an abort no loop calls a model again, whether it was at its tools, in
\* a rotation or not yet started.
THEOREM NoCallAfterAbort == Spec => AbortStopsCalls
<1>1. ASSUME RotationInv, [Next]_vars
      PROVE  [aborted => \A r \in Roles :
                agent'[r].pc = "calling" => agent'[r] = agent[r]]_vars
  BY <1>1, StepOfLoop, RotationOutcome
<1> QED BY <1>1, RotationCorrect, PTL DEF Spec, AbortStopsCalls
==============================================================================
