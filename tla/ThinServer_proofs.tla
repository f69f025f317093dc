------------------------- MODULE ThinServer_proofs -------------------------
(***************************************************************************)
(* The safety of the thin server for every value of the constants.         *)
(*                                                                         *)
(* Types first, then the invariant TurnInv of the turns and confirmations, *)
(* then QueueInv of the queue; each is kept by every action, and the       *)
(* properties of ThinServer follow.                                        *)
(***************************************************************************)
EXTENDS ThinServer, FiniteSetTheorems, SequenceTheorems, TLAPS

\* A nonempty set of indices has a least one.
LEMMA LeastIndex ==
    ASSUME NEW T \in SUBSET Nat, T # {}
    PROVE  \E i \in T : \A j \in T : i <= j
<1>1. PICK n \in T : TRUE
  OBVIOUS
<1> DEFINE S == 0 .. n
           F == {0 .. i : i \in T \cap S}
<1>2. IsWellFoundedOn(StrictSubsetOrdering(S), SUBSET S)
  <2>1. 0 \in Int /\ n \in Int
    OBVIOUS
  <2>2. IsFiniteSet(S)
    BY <2>1, FS_Interval
  <2> HIDE DEF S
  <2>3. FiniteSubsetsOf(S) = SUBSET S
    BY <2>2, FS_FiniteSubsetsOfFinite
  <2> QED BY <2>3, FS_StrictSubsetOrderingWellFounded
<1>3. F \subseteq SUBSET S /\ F # {}
  BY <1>1
<1>4. PICK x \in F : \A y \in F : <<y, x>> \notin StrictSubsetOrdering(S)
  <2> HIDE DEF F, S
  <2> QED BY <1>2, <1>3, WFMin
<1>5. PICK i \in T \cap S : x = 0 .. i
  OBVIOUS
<1>6. ASSUME NEW j \in T, j < i
      PROVE  FALSE
  <2>1. j \in T \cap S
    BY <1>6
  <2>2. 0 .. j \in F /\ 0 .. j \in SUBSET S /\ x \in SUBSET S
    BY <2>1, <1>3, <1>5
  <2>3. 0 .. j \subseteq x /\ 0 .. j # x
    BY <1>5, <1>6
  <2> QED BY <1>4, <2>2, <2>3 DEF StrictSubsetOrdering
<1> QED BY <1>5, <1>6

\* taskQueue.find returns the waiting task of least index.
LEMMA FirstWaitingIsLeast ==
    ASSUME NEW q \in Seq(Tasks), NEW e, Waiting(q, e) # {}
    PROVE  \E i \in Waiting(q, e) :
             /\ FirstWaiting(q, e) = q[i]
             /\ \A j \in Waiting(q, e) : i <= j
<1> DEFINE W == Waiting(q, e)
<1>1. W \in SUBSET Nat
  BY DEF Waiting
<1>2. \E i \in W : \A j \in W : i <= j
  BY <1>1, LeastIndex
<1>3. FirstWaiting(q, e) = q[CHOOSE i \in W : \A j \in W : i <= j]
  BY DEF FirstWaiting
<1> QED BY <1>2, <1>3

\* What pumpQueue does, without the CHOOSE: it stops, or it takes the first
\* waiting task of the queue.
LEMMA PumpFreeEffect ==
    ASSUME NEW q \in Seq(Tasks), NEW e \in [Tasks -> Estados], PumpFree(q, e)
    PROVE  \/ running' = None /\ estado' = e
           \/ \E i \in DOMAIN q :
                /\ e[q[i]] = "pendiente"
                /\ \A j \in DOMAIN q : e[q[j]] = "pendiente" => i <= j
                /\ running' = q[i]
                /\ estado' = [e EXCEPT ![q[i]] = "encurso"]
<1>1. CASE active = None /\ sse # None /\ Waiting(q, e) # {}
  <2>1. PICK i \in Waiting(q, e) :
          /\ FirstWaiting(q, e) = q[i]
          /\ \A j \in Waiting(q, e) : i <= j
    BY <1>1, FirstWaitingIsLeast
  <2>2. running' = q[i] /\ estado' = [e EXCEPT ![q[i]] = "encurso"]
    BY <1>1, <2>1 DEF PumpFree
  <2> QED BY <2>1, <2>2 DEF Waiting
<1>2. CASE ~(active = None /\ sse # None /\ Waiting(q, e) # {})
  BY <1>2 DEF PumpFree
<1> QED BY <1>1, <1>2

\* What a POST /v1/queue leaves in the queue: every task but perhaps the
\* oldest, then the new one.
LEMMA PushEffect ==
    ASSUME NEW q \in Seq(Tasks), Len(q) <= QueueCap, NEW k \in Tasks
    PROVE  /\ Push(q, k) \in Seq(Tasks)
           /\ Len(Push(q, k)) <= QueueCap
           /\ \E d \in {0, 1} :
                /\ Len(Push(q, k)) = Len(q) + 1 - d
                /\ \A i \in 1 .. Len(Push(q, k)) :
                     Push(q, k)[i] = IF i + d = Len(q) + 1
                                     THEN k ELSE q[i + d]
<1> DEFINE all == Append(q, k)
<1>1. /\ all \in Seq(Tasks)
      /\ Len(all) = Len(q) + 1
      /\ \A i \in 1 .. Len(q) : all[i] = q[i]
      /\ all[Len(q) + 1] = k
  BY AppendProperties
<1>2. QueueCap \in Nat \ {0}
  BY ServerAssumption
<1>3. CASE Len(all) <= QueueCap
  <2>1. Push(q, k) = all
    BY <1>1, <1>2, <1>3 DEF Push
  <2>2. \A i \in 1 .. Len(all) : all[i] = IF i + 0 = Len(q) + 1
                                         THEN k ELSE q[i + 0]
    BY <1>1
  <2> QED BY <1>1, <1>3, <2>1, <2>2
<1>4. CASE Len(all) > QueueCap
  <2>1. Len(q) = QueueCap
    BY <1>1, <1>2, <1>4
  <2>2. Push(q, k) = SubSeq(all, 2, Len(q) + 1)
    <3>1. Len(all) - QueueCap + 1 = 2
      BY <1>1, <1>2, <2>1
    <3>2. Push(q, k) = SubSeq(all, Len(all) - QueueCap + 1, Len(all))
      BY <1>4 DEF Push
    <3> QED BY <1>1, <3>1, <3>2
  <2> DEFINE rest == SubSeq(all, 2, Len(q) + 1)
  <2>3. /\ rest \in Seq(Tasks)
        /\ Len(rest) = Len(q)
        /\ \A i \in 1 .. Len(q) : rest[i] = all[i + 1]
    BY <1>1, <1>2, <2>1, SubSeqProperties
  <2>4. \A i \in 1 .. Len(q) : rest[i] = IF i + 1 = Len(q) + 1
                                        THEN k ELSE q[i + 1]
    BY <1>1, <2>3
  <2> HIDE DEF rest
  <2>5. Len(rest) <= QueueCap /\ Len(rest) = Len(q) + 1 - 1
    BY <2>1, <2>3
  <2> QED BY <2>2, <2>3, <2>4, <2>5 DEF rest
<1> QED BY <1>1, <1>2, <1>3, <1>4

\* pumpQueue keeps the types of what it changes.
LEMMA PumpType ==
    ASSUME NEW q \in Seq(Tasks), NEW e \in [Tasks -> Estados],
           running \in Tasks \cup {None}, PumpFree(q, e) \/ Pump(q, e)
    PROVE  running' \in Tasks \cup {None} /\ estado' \in [Tasks -> Estados]
<1>1. CASE PumpFree(q, e)
  <2>1. CASE running' = None /\ estado' = e
    BY <2>1
  <2>2. ASSUME NEW i \in DOMAIN q, running' = q[i],
               estado' = [e EXCEPT ![q[i]] = "encurso"]
        PROVE  running' \in Tasks /\ estado' \in [Tasks -> Estados]
    <3>1. q[i] \in Tasks /\ "encurso" \in Estados
      BY DEF Estados
    <3> QED BY <2>2, <3>1
  <2> QED BY <1>1, <2>1, <2>2, PumpFreeEffect
<1>2. CASE Pump(q, e)
  BY <1>1, <1>2 DEF Pump
<1> QED BY <1>1, <1>2

(***************************************************************************)
(* Types.                                                                  *)
(***************************************************************************)
\* Every action keeps the types.
LEMMA TypeStep ==
    ASSUME TypeOK, [Next]_vars
    PROVE  TypeOK'
<1> USE ServerAssumption DEF TypeOK, connVars, clockVars, askVars, queueVars,
        loopVars, ConnStates, ToolStates, LiveStates, TurnStates, Estados,
        Turns
<1>1. ASSUME NEW c \in Conns, Refuse(c)
      PROVE  TypeOK'
  BY <1>1 DEF Refuse
<1>2. ASSUME NEW c \in Conns, Attach(c)
      PROVE  TypeOK'
  BY <1>2 DEF Attach
<1>3. ASSUME NEW c \in Conns, LoseEarly(c)
      PROVE  TypeOK'
  BY <1>3 DEF LoseEarly
<1>4. ASSUME NEW c \in Conns, Hello(c)
      PROVE  TypeOK'
  BY <1>4 DEF Hello
<1>5. ASSUME NEW c \in Conns, StreamClosed(c)
      PROVE  TypeOK'
  BY <1>5 DEF StreamClosed, ClearActive
<1>6. ASSUME NEW t \in Turns, PostTurn(t)
      PROVE  TypeOK'
  BY <1>6 DEF PostTurn, Goto
<1>7. ASSUME NEW t \in Turns, RejectTurn(t)
      PROVE  TypeOK'
  BY <1>7 DEF RejectTurn, Goto
<1>8. ASSUME NEW t \in Turns, NEW m \in {"build", "plan"}, AcceptTurn(t, m)
      PROVE  TypeOK'
  BY <1>8 DEF AcceptTurn, Begin, Goto
<1>9. ASSUME NEW t \in Turns, SessionMissing(t)
      PROVE  TypeOK'
  BY SMTT(30), <1>9 DEF SessionMissing, Over, ClearActive, EmitEnd, Goto
<1>10. ASSUME NEW t \in Turns, SessionFound(t)
      PROVE  TypeOK'
  BY <1>10 DEF SessionFound, Goto
<1>11. ASSUME NEW t \in Turns, NEW n \in 0 .. MaxBatch, Reply(t, n)
      PROVE  TypeOK'
  BY SMTT(30), <1>11 DEF Reply, Goto, Touch
<1>12. ASSUME NEW t \in Turns, ToolStart(t)
      PROVE  TypeOK'
  BY SMTT(30), <1>12 DEF ToolStart, Goto, Touch
<1>13. ASSUME NEW t \in Turns, NEW kind \in {"reading", "writing"}, ToolRuns(t, kind)
      PROVE  TypeOK'
  BY <1>13 DEF ToolRuns, Goto
<1>14. ASSUME NEW t \in Turns, AskConfirm(t)
      PROVE  TypeOK'
  <2>1. pc' \in [Turns -> TurnStates] /\ pending' \in SUBSET Turns
    <3>1. CASE mode[t] = "plan" \/ sse = None
      BY <1>14, <3>1 DEF AskConfirm, Goto
    <3>2. CASE ~(mode[t] = "plan" \/ sse = None)
      <4>1. pending' = pending \cup {t} /\ pc' = [pc EXCEPT ![t] = "confirm"]
        BY <1>14, <3>2 DEF AskConfirm, Goto
      <4> QED BY <4>1
    <3> QED BY <3>1, <3>2
  <2>2. quiet' \in {"fresh", "quiet", "overdue"}
    BY <1>14 DEF AskConfirm, Touch
  <2> QED BY <1>14, <2>1, <2>2 DEF AskConfirm
<1>15. ASSUME NEW t \in Turns, NEW ok \in BOOLEAN, ConfirmAnswered(t, ok)
      PROVE  TypeOK'
  BY <1>15 DEF ConfirmAnswered, Settle, Goto, Touch
<1>16. ASSUME NEW t \in Turns, ConfirmTimeout(t)
      PROVE  TypeOK'
  BY <1>16 DEF ConfirmTimeout, Settle, Goto, Touch
<1>17. ASSUME NEW t \in Turns, AskOptions(t)
      PROVE  TypeOK'
  BY <1>17 DEF AskOptions, Goto
<1>18. ASSUME NEW t \in Turns, OptionsSettled(t)
      PROVE  TypeOK'
  BY <1>18 DEF OptionsSettled, Goto
<1>19. ASSUME NEW t \in Turns, ToolEnd(t)
      PROVE  TypeOK'
  BY <1>19 DEF ToolEnd, Goto, Touch
<1>20. ASSUME NEW t \in Turns, Saved(t)
      PROVE  TypeOK'
  BY SMTT(30), <1>20 DEF Saved, EmitEnd, Goto
<1>21. ASSUME NEW t \in Turns, Cancelled(t)
      PROVE  TypeOK'
  BY <1>21 DEF Cancelled, EmitEnd, Over, Release, ClearActive, Goto
<1>22. ASSUME NEW t \in Turns, Failed(t)
      PROVE  TypeOK'
  <2>1. owed' \subseteq Turns
    BY <1>22 DEF Failed, EmitEnd
  <2>2. CASE t \notin aborted /\ sse # None
    BY <1>22, <2>1, <2>2 DEF Failed, Goto
  <2>3. CASE ~(t \notin aborted /\ sse # None)
    <3>1. Over(t) /\ Release(t)
      BY <1>22, <2>3 DEF Failed
    <3>2. /\ pc' \in [Turns -> TurnStates] /\ aborted' \subseteq Turns
          /\ mode' \in [Turns -> {"build", "plan"}]
          /\ replies' \in [Turns -> 0 .. MaxReplies]
          /\ batch' \in [Turns -> 0 .. MaxBatch]
      BY SMTT(30), <3>1 DEF Over, Goto
    <3>3. /\ active' \in Turns \cup {None}
          /\ quiet' \in {"fresh", "quiet", "overdue"}
          /\ toolAge' \in {"never", "recent", "old"}
      BY <3>1 DEF Release, ClearActive
    <3> QED BY <1>22, <2>1, <3>2, <3>3 DEF Failed
  <2> QED BY <2>2, <2>3
<1>23. ASSUME NEW t \in Turns, Finish(t)
      PROVE  TypeOK'
  BY <1>23 DEF Finish, Over, Release, ClearActive, Goto
<1>24. ASSUME NEW k \in Tasks, Enqueue(k)
      PROVE  TypeOK'
  <2> DEFINE e == [estado EXCEPT ![k] = "pendiente"]
  <2>1. queue' \in Seq(Tasks) /\ Len(queue') <= QueueCap
    BY <1>24, PushEffect DEF Enqueue
  <2>2. e \in [Tasks -> Estados] /\ Pump(queue', e)
    BY <1>24 DEF Enqueue
  <2>3. running' \in Tasks \cup {None} /\ estado' \in [Tasks -> Estados]
    BY <2>1, <2>2, PumpType
  <2> QED BY <1>24, <2>1, <2>3 DEF Enqueue
<1>25. ASSUME NEW k \in Tasks, TaskBegins(k)
      PROVE  TypeOK'
  BY <1>25 DEF TaskBegins, Begin, Goto
<1>26. ASSUME NEW k \in Tasks, TaskFails(k)
      PROVE  TypeOK'
  <2> DEFINE e == [estado EXCEPT ![k] = "error"]
  <2>1. PumpFree(queue, e)
    BY <1>26 DEF TaskFails
  <2>2. e \in [Tasks -> Estados]
    OBVIOUS
  <2>3. running' \in Tasks \cup {None} /\ estado' \in [Tasks -> Estados]
    BY <2>1, <2>2, PumpType
  <2> QED BY <1>26, <2>3 DEF TaskFails, Goto
<1>27. ASSUME NEW k \in Tasks, TaskReturns(k)
      PROVE  TypeOK'
  <2> DEFINE e == [estado EXCEPT ![k] = "lista"]
  <2>1. PumpFree(queue, e)
    BY <1>27 DEF TaskReturns
  <2>2. e \in [Tasks -> Estados]
    OBVIOUS
  <2>3. running' \in Tasks \cup {None} /\ estado' \in [Tasks -> Estados]
    BY <2>1, <2>2, PumpType
  <2> QED BY <1>27, <2>3 DEF TaskReturns
<1>28. ASSUME CancelTurn
      PROVE  TypeOK'
  BY <1>28 DEF CancelTurn
<1>29. ASSUME GoQuiet
      PROVE  TypeOK'
  BY <1>29 DEF GoQuiet
<1>30. ASSUME ToolGrowsOld
      PROVE  TypeOK'
  BY <1>30 DEF ToolGrowsOld
<1>31. ASSUME Watchdog
      PROVE  TypeOK'
  BY SMTT(30), <1>31 DEF Watchdog, EmitEnd, ClearActive
<1>32. ASSUME Shutdown
      PROVE  TypeOK'
  BY <1>32 DEF Shutdown
<1>33. CASE UNCHANGED vars
  BY <1>33 DEF vars
<1> HIDE DEF TypeOK, connVars, clockVars, askVars, queueVars, loopVars,
         ConnStates, ToolStates, LiveStates, TurnStates, Estados, Turns
<1> QED BY <1>1, <1>2, <1>3, <1>4, <1>5, <1>6, <1>7, <1>8, <1>9, <1>10, <1>11,
           <1>12, <1>13, <1>14, <1>15, <1>16, <1>17, <1>18, <1>19, <1>20,
           <1>21, <1>22, <1>23, <1>24, <1>25, <1>26, <1>27, <1>28, <1>29,
           <1>30, <1>31, <1>32, <1>33
           DEF Next, TurnStep

\* Every variable keeps its type.
THEOREM TypeCorrect == Spec => []TypeOK
<1>1. Init => TypeOK
  BY ServerAssumption DEF Init, TypeOK, ConnStates, ToolStates, LiveStates,
     TurnStates, Estados, Turns
<1>2. TypeOK /\ [Next]_vars => TypeOK'
  BY TypeStep
<1> QED BY <1>1, <1>2, PTL DEF Spec

(***************************************************************************)
(* Turns and confirmations.                                                *)
(***************************************************************************)
\* remoteConfirm denies plan mode before it waits, so what waits is a build
\* turn: the yes that comes later need not look at the mode again.
ConfirmsInBuild ==
    \A t \in Turns : pc[t] = "confirm" => mode[t] = "build"

\* Without a stream nobody is owed a turn.end: the close of the stream settles
\* what was owed on it, so that an EmitEnd with no stream leaves nothing behind.
NoStreamNoDebt == sse = None => owed = {}

TurnInv ==
    /\ GuardedRunsApproved
    /\ ConfirmsInBuild
    /\ PendingIsWaiting
    /\ ActiveIsLive
    /\ EveryTurnEnds
    /\ NoStreamNoDebt

\* Every action keeps the invariant of turns and confirmations.
LEMMA TurnInvStep ==
    ASSUME TypeOK, TurnInv, [Next]_vars
    PROVE  TurnInv'
<1> USE ServerAssumption DEF TypeOK, connVars, clockVars, askVars, queueVars,
        loopVars, ConnStates, ToolStates, LiveStates, TurnStates, Estados,
        Turns, TurnInv, GuardedRunsApproved, ConfirmsInBuild,
        PendingIsWaiting, ActiveIsLive, EveryTurnEnds, NoStreamNoDebt
<1>1. ASSUME NEW c \in Conns, Refuse(c)
      PROVE  TurnInv'
  BY <1>1 DEF Refuse
<1>2. ASSUME NEW c \in Conns, Attach(c)
      PROVE  TurnInv'
  BY <1>2 DEF Attach
<1>3. ASSUME NEW c \in Conns, LoseEarly(c)
      PROVE  TurnInv'
  BY <1>3 DEF LoseEarly
<1>4. ASSUME NEW c \in Conns, Hello(c)
      PROVE  TurnInv'
  BY <1>4 DEF Hello
<1>5. ASSUME NEW c \in Conns, StreamClosed(c)
      PROVE  TurnInv'
  BY <1>5 DEF StreamClosed, ClearActive
<1>6. ASSUME NEW t \in Turns, PostTurn(t)
      PROVE  TurnInv'
  BY <1>6 DEF PostTurn, Goto
<1>7. ASSUME NEW t \in Turns, RejectTurn(t)
      PROVE  TurnInv'
  BY <1>7 DEF RejectTurn, Goto
<1>8. ASSUME NEW t \in Turns, NEW m \in {"build", "plan"}, AcceptTurn(t, m)
      PROVE  TurnInv'
  BY <1>8 DEF AcceptTurn, Begin, Goto
<1>9. ASSUME NEW t \in Turns, SessionMissing(t)
      PROVE  TurnInv'
  BY <1>9 DEF SessionMissing, Over, ClearActive, EmitEnd, Goto
<1>10. ASSUME NEW t \in Turns, SessionFound(t)
      PROVE  TurnInv'
  BY <1>10 DEF SessionFound, Goto
<1>11. ASSUME NEW t \in Turns, NEW n \in 0 .. MaxBatch, Reply(t, n)
      PROVE  TurnInv'
  BY <1>11 DEF Reply, Goto, Touch
<1>12. ASSUME NEW t \in Turns, ToolStart(t)
      PROVE  TurnInv'
  BY <1>12 DEF ToolStart, Goto, Touch
<1>13. ASSUME NEW t \in Turns, NEW kind \in {"reading", "writing"}, ToolRuns(t, kind)
      PROVE  TurnInv'
  BY <1>13 DEF ToolRuns, Goto
<1>14. ASSUME NEW t \in Turns, AskConfirm(t)
      PROVE  TurnInv'
  <2>1. CASE mode[t] = "plan" \/ sse = None
    <3>1. pc' = [pc EXCEPT ![t] = "working"] /\ pending' = pending
      BY <1>14, <2>1 DEF AskConfirm, Goto
    <3> QED BY <1>14, <3>1 DEF AskConfirm
  <2>2. CASE ~(mode[t] = "plan" \/ sse = None)
    <3>1. /\ pc' = [pc EXCEPT ![t] = "confirm"]
          /\ pending' = pending \cup {t}
          /\ mode[t] = "build"
      BY <1>14, <2>2 DEF AskConfirm, Goto
    <3> QED BY <1>14, <3>1 DEF AskConfirm
  <2> QED BY <2>1, <2>2
<1>15. ASSUME NEW t \in Turns, NEW ok \in BOOLEAN, ConfirmAnswered(t, ok)
      PROVE  TurnInv'
  BY SMTT(30), <1>15 DEF ConfirmAnswered, Settle, Goto, Touch
<1>16. ASSUME NEW t \in Turns, ConfirmTimeout(t)
      PROVE  TurnInv'
  BY SMTT(30), <1>16 DEF ConfirmTimeout, Settle, Goto, Touch
<1>17. ASSUME NEW t \in Turns, AskOptions(t)
      PROVE  TurnInv'
  BY <1>17 DEF AskOptions, Goto
<1>18. ASSUME NEW t \in Turns, OptionsSettled(t)
      PROVE  TurnInv'
  BY <1>18 DEF OptionsSettled, Goto
<1>19. ASSUME NEW t \in Turns, ToolEnd(t)
      PROVE  TurnInv'
  BY <1>19 DEF ToolEnd, Goto, Touch
<1>20. ASSUME NEW t \in Turns, Saved(t)
      PROVE  TurnInv'
  BY <1>20 DEF Saved, EmitEnd, Goto
<1>21. ASSUME NEW t \in Turns, Cancelled(t)
      PROVE  TurnInv'
  BY <1>21 DEF Cancelled, EmitEnd, Over, Release, ClearActive, Goto
<1>22. ASSUME NEW t \in Turns, Failed(t)
      PROVE  TurnInv'
  BY SMTT(30), <1>22 DEF Failed, EmitEnd, Over, Release, ClearActive, Goto
<1>23. ASSUME NEW t \in Turns, Finish(t)
      PROVE  TurnInv'
  BY <1>23 DEF Finish, Over, Release, ClearActive, Goto
<1>24. ASSUME NEW k \in Tasks, Enqueue(k)
      PROVE  TurnInv'
  BY <1>24 DEF Enqueue
<1>25. ASSUME NEW k \in Tasks, TaskBegins(k)
      PROVE  TurnInv'
  BY <1>25 DEF TaskBegins, Begin, Goto
<1>26. ASSUME NEW k \in Tasks, TaskFails(k)
      PROVE  TurnInv'
  BY <1>26 DEF TaskFails, Goto
<1>27. ASSUME NEW k \in Tasks, TaskReturns(k)
      PROVE  TurnInv'
  BY <1>27 DEF TaskReturns
<1>28. ASSUME CancelTurn
      PROVE  TurnInv'
  BY <1>28 DEF CancelTurn
<1>29. ASSUME GoQuiet
      PROVE  TurnInv'
  BY <1>29 DEF GoQuiet
<1>30. ASSUME ToolGrowsOld
      PROVE  TurnInv'
  BY <1>30 DEF ToolGrowsOld
<1>31. ASSUME Watchdog
      PROVE  TurnInv'
  <2>1. CASE toolAge = "recent"
    BY <1>31, <2>1 DEF Watchdog
  <2>2. CASE toolAge # "recent"
    <3>1. active \in Turns /\ active' = None
      BY <1>31, <2>2 DEF Watchdog, ClearActive
    <3>2. owed' \subseteq owed
      BY <1>31, <2>2 DEF Watchdog, EmitEnd
    <3> QED BY <1>31, <3>1, <3>2 DEF Watchdog
  <2> QED BY <2>1, <2>2
<1>32. ASSUME Shutdown
      PROVE  TurnInv'
  BY <1>32 DEF Shutdown
<1>33. CASE UNCHANGED vars
  BY <1>33 DEF vars
<1> HIDE DEF TypeOK, connVars, clockVars, askVars, queueVars, loopVars,
         ConnStates, ToolStates, LiveStates, TurnStates, Estados, Turns,
         TurnInv, GuardedRunsApproved, ConfirmsInBuild, PendingIsWaiting,
         ActiveIsLive, EveryTurnEnds, NoStreamNoDebt
<1> QED BY <1>1, <1>2, <1>3, <1>4, <1>5, <1>6, <1>7, <1>8, <1>9, <1>10, <1>11,
           <1>12, <1>13, <1>14, <1>15, <1>16, <1>17, <1>18, <1>19, <1>20,
           <1>21, <1>22, <1>23, <1>24, <1>25, <1>26, <1>27, <1>28, <1>29,
           <1>30, <1>31, <1>32, <1>33
           DEF Next, TurnStep

\* Confirmations, the active turn and turn.end agree with where each turn is.
THEOREM TurnsCorrect == Spec => []TurnInv
<1>1. Init => TurnInv
  BY ServerAssumption DEF Init, TurnInv, GuardedRunsApproved, ConfirmsInBuild,
     PendingIsWaiting, ActiveIsLive, EveryTurnEnds, NoStreamNoDebt
<1>2. TypeOK /\ TurnInv /\ [Next]_vars => TurnInv'
  BY TurnInvStep
<1> QED BY <1>1, <1>2, TypeCorrect, PTL DEF Spec

(***************************************************************************)
(* The queue.                                                              *)
(***************************************************************************)
Fifo(q, e) ==
    \A i, j \in DOMAIN q : i < j /\ e[q[i]] = "pendiente"
                             => e[q[j]] = "pendiente"

\* A task is queued once and has an estado from then on: no later POST finds
\* it again, so the indices of the queue and its tasks are the same thing.
QueuedOnce(q, e) ==
    /\ \A i, j \in DOMAIN q : q[i] = q[j] => i = j
    /\ \A i \in DOMAIN q : e[q[i]] # "none"

QueueInv ==
    /\ OneTaskAtATime
    /\ QueueIsFifo
    /\ QueuedOnce(queue, estado)

\* Taking the first waiting task keeps the others in order.
LEMMA PumpFreeKeepsOrder ==
    ASSUME NEW q \in Seq(Tasks), NEW e \in [Tasks -> Estados],
           Fifo(q, e), QueuedOnce(q, e),
           \A k \in Tasks : e[k] # "encurso",
           PumpFree(q, e)
    PROVE  /\ Fifo(q, estado') /\ QueuedOnce(q, estado')
           /\ \A k \in Tasks : estado'[k] = "encurso" <=> running' = k
<1>1. CASE running' = None /\ estado' = e
  BY <1>1, ServerAssumption
<1>2. ASSUME NEW i \in DOMAIN q, e[q[i]] = "pendiente",
             \A j \in DOMAIN q : e[q[j]] = "pendiente" => i <= j,
             running' = q[i],
             estado' = [e EXCEPT ![q[i]] = "encurso"]
      PROVE  /\ Fifo(q, estado') /\ QueuedOnce(q, estado')
             /\ \A k \in Tasks : estado'[k] = "encurso" <=> running' = k
  <2>1. DOMAIN q = 1 .. Len(q) /\ \A j \in DOMAIN q : q[j] \in Tasks
    OBVIOUS
  <2>2. \A j \in DOMAIN q :
          estado'[q[j]] = IF j = i THEN "encurso" ELSE e[q[j]]
    BY <1>2, <2>1 DEF QueuedOnce
  <2>3. Fifo(q, estado')
    BY <1>2, <2>1, <2>2 DEF Fifo
  <2>4. QueuedOnce(q, estado')
    BY <2>2 DEF QueuedOnce
  <2>5. \A k \in Tasks : estado'[k] = "encurso" <=> running' = k
    BY <1>2, <2>1
  <2> QED BY <2>3, <2>4, <2>5
<1> QED BY SMTT(30), <1>1, <1>2, PumpFreeEffect

\* A task that is queued waits behind every other one.
LEMMA PushKeepsOrder ==
    ASSUME NEW q \in Seq(Tasks), Len(q) <= QueueCap, NEW k \in Tasks,
           NEW e \in [Tasks -> Estados], Fifo(q, e), QueuedOnce(q, e),
           e[k] = "none"
    PROVE  /\ Fifo(Push(q, k), [e EXCEPT ![k] = "pendiente"])
           /\ QueuedOnce(Push(q, k), [e EXCEPT ![k] = "pendiente"])
<1> DEFINE p == Push(q, k)
           w == [e EXCEPT ![k] = "pendiente"]
<1>1. PICK d \in {0, 1} :
        /\ Len(p) = Len(q) + 1 - d
        /\ \A i \in 1 .. Len(p) :
             p[i] = IF i + d = Len(q) + 1 THEN k ELSE q[i + d]
  BY PushEffect
<1>2. p \in Seq(Tasks) /\ DOMAIN p = 1 .. Len(p) /\ DOMAIN q = 1 .. Len(q)
  BY PushEffect
<1>3. \A i \in DOMAIN q : q[i] \in Tasks /\ q[i] # k
  BY DEF QueuedOnce
<1>4. \A i \in 1 .. Len(p) :
        \/ i + d = Len(q) + 1 /\ p[i] = k /\ w[p[i]] = "pendiente"
        \/ /\ i + d \in 1 .. Len(q) /\ p[i] = q[i + d]
           /\ w[p[i]] = e[q[i + d]]
  <2> HIDE DEF p
  <2>1. TAKE i \in 1 .. Len(p)
  <2>2. CASE i + d = Len(q) + 1
    BY <1>1, <2>2
  <2>3. CASE i + d # Len(q) + 1
    <3>1. i + d \in 1 .. Len(q) /\ p[i] = q[i + d]
      BY <1>1, <2>3
    <3> QED BY <1>2, <1>3, <3>1
  <2> QED BY <2>2, <2>3
<1> HIDE DEF p, w
<1>5. Fifo(p, w)
  <2> SUFFICES ASSUME NEW i \in 1 .. Len(p), NEW j \in 1 .. Len(p), i < j,
                      w[p[i]] = "pendiente"
               PROVE  w[p[j]] = "pendiente"
    BY <1>2 DEF Fifo
  <2>1. CASE j + d = Len(q) + 1
    BY <1>4, <2>1
  <2>2. CASE j + d # Len(q) + 1
    <3>1. /\ i + d \in 1 .. Len(q) /\ j + d \in 1 .. Len(q)
          /\ w[p[i]] = e[q[i + d]] /\ w[p[j]] = e[q[j + d]]
      BY <1>1, <1>4, <2>2
    <3>2. i + d < j + d
      BY <1>1
    <3> QED BY <1>2, <3>1, <3>2 DEF Fifo
  <2> QED BY <2>1, <2>2
<1>6. QueuedOnce(p, w)
  <2>1. \A i, j \in DOMAIN p : p[i] = p[j] => i = j
    <3> SUFFICES ASSUME NEW i \in 1 .. Len(p), NEW j \in 1 .. Len(p),
                        p[i] = p[j]
                 PROVE  i = j
      BY <1>2
    <3>1. \A m \in 1 .. Len(p) :
            p[m] = k \/ (m + d \in DOMAIN q /\ p[m] = q[m + d])
      BY <1>2, <1>4
    <3>2. CASE p[i] = k
      <4>1. \A m \in 1 .. Len(p) : p[m] = k => m + d = Len(q) + 1
        BY <1>2, <1>3, <1>4
      <4>2. i + d = Len(q) + 1 /\ j + d = Len(q) + 1
        BY <3>2, <4>1
      <4> QED BY <1>1, <4>2
    <3>3. CASE p[i] # k
      <4>1. i + d \in DOMAIN q /\ j + d \in DOMAIN q /\ q[i + d] = q[j + d]
        BY <3>1, <3>3
      <4>2. i + d = j + d
        BY <4>1 DEF QueuedOnce
      <4> QED BY <1>1, <4>2
    <3> QED BY <3>2, <3>3
  <2>2. \A i \in DOMAIN p : w[p[i]] # "none"
    <3> SUFFICES ASSUME NEW i \in 1 .. Len(p)
                 PROVE  w[p[i]] # "none"
      BY <1>2
    <3>1. CASE w[p[i]] = "pendiente"
      BY <3>1
    <3>2. CASE i + d \in 1 .. Len(q) /\ w[p[i]] = e[q[i + d]]
      BY <1>2, <3>2 DEF QueuedOnce
    <3> QED BY <1>4, <3>1, <3>2
  <2> QED BY <2>1, <2>2 DEF QueuedOnce
<1> QED BY <1>5, <1>6 DEF p, w

\* Only POST /v1/queue and the end of a task touch the queue, and both keep
\* its invariant.
LEMMA QueueInvStep ==
    ASSUME TypeOK, QueueInv, [Next]_vars
    PROVE  QueueInv'
<1> DEFINE Good(q, e, r) == /\ Fifo(q, e) /\ QueuedOnce(q, e)
                            /\ \A j \in Tasks : e[j] = "encurso" <=> r = j
<1>a. Good(queue, estado, running)
  BY DEF QueueInv, OneTaskAtATime, QueueIsFifo, Fifo
<1>b. Good(queue', estado', running') => QueueInv'
  BY DEF QueueInv, OneTaskAtATime, QueueIsFifo, Fifo, QueuedOnce
<1>1. CASE UNCHANGED queueVars
  BY <1>1, <1>a, <1>b DEF queueVars
<1>2. ASSUME NEW k \in Tasks, Enqueue(k)
      PROVE  QueueInv'
  <2> DEFINE w == [estado EXCEPT ![k] = "pendiente"]
  <2>1. queue \in Seq(Tasks) /\ Len(queue) <= QueueCap /\ estado[k] = "none"
         /\ estado \in [Tasks -> Estados]
    BY <1>2 DEF Enqueue, TypeOK
  <2>2. queue' = Push(queue, k) /\ Pump(queue', w)
    BY <1>2 DEF Enqueue
  <2>3. queue' \in Seq(Tasks) /\ w \in [Tasks -> Estados]
    BY <2>1, <2>2, PushEffect DEF Estados
  <2>4. Fifo(queue', w) /\ QueuedOnce(queue', w)
    BY <1>a, <2>1, <2>2, PushKeepsOrder
  <2>5. \A j \in Tasks : w[j] = "encurso" <=> running = j
    BY <1>a, <2>1
  <2> HIDE DEF w
  <2>6. CASE running # None
    BY <1>b, <2>2, <2>4, <2>5, <2>6 DEF Pump
  <2>7. CASE running = None
    <3>1. PumpFree(queue', w) /\ \A j \in Tasks : w[j] # "encurso"
      BY <2>2, <2>5, <2>7, ServerAssumption DEF Pump
    <3> QED BY <1>b, <2>3, <2>4, <3>1, PumpFreeKeepsOrder
  <2> QED BY <2>6, <2>7
<1>3. ASSUME NEW k \in Tasks, TaskFails(k) \/ TaskReturns(k)
      PROVE  QueueInv'
  <2>1. PICK s \in {"error", "lista"} :
          PumpFree(queue, [estado EXCEPT ![k] = s])
    BY <1>3 DEF TaskFails, TaskReturns
  <2> DEFINE w == [estado EXCEPT ![k] = s]
  <2>2. queue \in Seq(Tasks) /\ estado \in [Tasks -> Estados]
         /\ running = k /\ queue' = queue /\ estado[k] = "encurso"
    BY <1>3, <1>a DEF TaskFails, TaskReturns, TypeOK
  <2>3. w \in [Tasks -> Estados]
    BY <2>2 DEF Estados
  <2>4. \A j \in Tasks : /\ w[j] # "encurso"
                         /\ w[j] = "pendiente" <=> estado[j] = "pendiente"
                         /\ w[j] = "none" <=> estado[j] = "none"
    BY <1>a, <2>2, ServerAssumption
  <2>5. \A i \in DOMAIN queue : queue[i] \in Tasks
    BY <2>2
  <2> HIDE DEF w
  <2>6. Fifo(queue, w) /\ QueuedOnce(queue, w)
    BY <1>a, <2>4, <2>5 DEF QueuedOnce, Fifo
  <2>7. PumpFree(queue, w)
    BY <2>1 DEF w
  <2> QED BY <1>b, <2>2, <2>3, <2>4, <2>6, <2>7, PumpFreeKeepsOrder
<1>4. ASSUME NEW c \in Conns,
             \/ Refuse(c) \/ Attach(c) \/ LoseEarly(c) \/ Hello(c)
             \/ StreamClosed(c)
      PROVE  UNCHANGED queueVars
  BY <1>4 DEF Refuse, Attach, LoseEarly, Hello, StreamClosed
<1>5. ASSUME NEW t \in Turns, TurnStep(t)
      PROVE  UNCHANGED queueVars
  BY <1>5 DEF TurnStep, PostTurn, RejectTurn, AcceptTurn, SessionMissing,
         SessionFound, Reply, ToolStart, ToolRuns, AskConfirm,
         ConfirmAnswered, ConfirmTimeout, AskOptions, OptionsSettled, ToolEnd,
         Saved, Cancelled, Failed, Finish, Settle
<1>6. ASSUME NEW k \in Tasks, TaskBegins(k)
      PROVE  UNCHANGED queueVars
  BY <1>6 DEF TaskBegins, queueVars
<1>7. ASSUME CancelTurn \/ GoQuiet \/ ToolGrowsOld \/ Watchdog \/ Shutdown
      PROVE  UNCHANGED queueVars
  BY <1>7 DEF CancelTurn, GoQuiet, ToolGrowsOld, Watchdog, Shutdown
<1> QED BY <1>1, <1>2, <1>3, <1>4, <1>5, <1>6, <1>7 DEF Next, vars, queueVars

\* The queue runs one task at a time and in order.
THEOREM QueueCorrect == Spec => []QueueInv
<1>1. Init => QueueInv
  BY ServerAssumption DEF Init, QueueInv, OneTaskAtATime, QueueIsFifo,
     QueuedOnce
<1>2. TypeOK /\ QueueInv /\ [Next]_vars => QueueInv'
  BY QueueInvStep
<1> QED BY <1>1, <1>2, TypeCorrect, PTL DEF Spec

(***************************************************************************)
(* What a step may never do.                                               *)
(***************************************************************************)
\* The event stream passes on only through the close that cancels the turn.
THEOREM StreamPassesByClose == Spec => StreamHandover
<1> DEFINE Handover == sse # None /\ sse' # sse
                         => /\ sse' = None /\ active' = None
                            /\ active \in aborted' \cup {None}
<1>1. ASSUME NEW c \in Conns,
             \/ Refuse(c) \/ Attach(c) \/ LoseEarly(c) \/ Hello(c)
      PROVE  Handover
  BY <1>1 DEF Refuse, Attach, LoseEarly, Hello
<1>2. ASSUME NEW c \in Conns, StreamClosed(c)
      PROVE  Handover
  BY <1>2 DEF StreamClosed, ClearActive
<1>3. ASSUME NEW t \in Turns, TurnStep(t)
      PROVE  UNCHANGED connVars
  BY <1>3 DEF TurnStep, PostTurn, RejectTurn, AcceptTurn, SessionMissing,
         SessionFound, Reply, ToolStart, ToolRuns, AskConfirm,
         ConfirmAnswered, ConfirmTimeout, AskOptions, OptionsSettled, ToolEnd,
         Saved, Cancelled, Failed, Finish, Settle
<1>4. ASSUME NEW k \in Tasks, \/ Enqueue(k) \/ TaskBegins(k) \/ TaskFails(k)
                              \/ TaskReturns(k)
      PROVE  UNCHANGED connVars
  BY <1>4 DEF Enqueue, TaskBegins, TaskFails, TaskReturns
<1>5. ASSUME CancelTurn \/ GoQuiet \/ ToolGrowsOld \/ Watchdog \/ Shutdown
      PROVE  UNCHANGED connVars
  BY <1>5 DEF CancelTurn, GoQuiet, ToolGrowsOld, Watchdog, Shutdown
<1>6. Next => Handover
  BY <1>1, <1>2, <1>3, <1>4, <1>5 DEF Next, connVars
<1> QED BY <1>6, PTL DEF Spec, StreamHandover

\* An aborted turn receives no reply.
NoNewReply ==
    \A t \in aborted : /\ batch'[t] <= batch[t]
                       /\ pc'[t] = "saving" => pc[t] = "saving"

\* No action gives an aborted turn a reply.
LEMMA NoNewReplyStep ==
    ASSUME TypeOK, [Next]_vars
    PROVE  NoNewReply
<1> USE ServerAssumption DEF TypeOK, NoNewReply, connVars, clockVars, askVars,
        queueVars, loopVars, Turns
<1>1. ASSUME NEW c \in Conns, Refuse(c)
      PROVE  NoNewReply
  BY <1>1 DEF Refuse
<1>2. ASSUME NEW c \in Conns, Attach(c)
      PROVE  NoNewReply
  BY <1>2 DEF Attach
<1>3. ASSUME NEW c \in Conns, LoseEarly(c)
      PROVE  NoNewReply
  BY <1>3 DEF LoseEarly
<1>4. ASSUME NEW c \in Conns, Hello(c)
      PROVE  NoNewReply
  BY <1>4 DEF Hello
<1>5. ASSUME NEW c \in Conns, StreamClosed(c)
      PROVE  NoNewReply
  BY <1>5 DEF StreamClosed, ClearActive
<1>6. ASSUME NEW t \in Turns, PostTurn(t)
      PROVE  NoNewReply
  BY <1>6 DEF PostTurn, Goto
<1>7. ASSUME NEW t \in Turns, RejectTurn(t)
      PROVE  NoNewReply
  BY <1>7 DEF RejectTurn, Goto
<1>8. ASSUME NEW t \in Turns, NEW m \in {"build", "plan"}, AcceptTurn(t, m)
      PROVE  NoNewReply
  BY <1>8 DEF AcceptTurn, Begin, Goto
<1>9. ASSUME NEW t \in Turns, SessionMissing(t)
      PROVE  NoNewReply
  BY <1>9 DEF SessionMissing, Over, ClearActive, EmitEnd, Goto
<1>10. ASSUME NEW t \in Turns, SessionFound(t)
      PROVE  NoNewReply
  BY <1>10 DEF SessionFound, Goto
<1>11. ASSUME NEW t \in Turns, NEW n \in 0 .. MaxBatch, Reply(t, n)
      PROVE  NoNewReply
  BY <1>11 DEF Reply, Goto, Touch
<1>12. ASSUME NEW t \in Turns, ToolStart(t)
      PROVE  NoNewReply
  BY SMTT(30), <1>12 DEF ToolStart, Goto, Touch
<1>13. ASSUME NEW t \in Turns, NEW kind \in {"reading", "writing"}, ToolRuns(t, kind)
      PROVE  NoNewReply
  BY SMTT(30), <1>13 DEF ToolRuns, Goto
<1>14. ASSUME NEW t \in Turns, AskConfirm(t)
      PROVE  NoNewReply
  BY <1>14 DEF AskConfirm, Goto, Touch
<1>15. ASSUME NEW t \in Turns, NEW ok \in BOOLEAN, ConfirmAnswered(t, ok)
      PROVE  NoNewReply
  BY <1>15 DEF ConfirmAnswered, Settle, Goto, Touch
<1>16. ASSUME NEW t \in Turns, ConfirmTimeout(t)
      PROVE  NoNewReply
  BY <1>16 DEF ConfirmTimeout, Settle, Goto, Touch
<1>17. ASSUME NEW t \in Turns, AskOptions(t)
      PROVE  NoNewReply
  BY <1>17 DEF AskOptions, Goto
<1>18. ASSUME NEW t \in Turns, OptionsSettled(t)
      PROVE  NoNewReply
  BY <1>18 DEF OptionsSettled, Goto
<1>19. ASSUME NEW t \in Turns, ToolEnd(t)
      PROVE  NoNewReply
  BY <1>19 DEF ToolEnd, Goto, Touch
<1>20. ASSUME NEW t \in Turns, Saved(t)
      PROVE  NoNewReply
  BY <1>20 DEF Saved, EmitEnd, Goto
<1>21. ASSUME NEW t \in Turns, Cancelled(t)
      PROVE  NoNewReply
  BY <1>21 DEF Cancelled, EmitEnd, Over, Release, ClearActive, Goto
<1>22. ASSUME NEW t \in Turns, Failed(t)
      PROVE  NoNewReply
  BY <1>22 DEF Failed, EmitEnd, Over, Release, ClearActive, Goto
<1>23. ASSUME NEW t \in Turns, Finish(t)
      PROVE  NoNewReply
  BY <1>23 DEF Finish, Over, Release, ClearActive, Goto
<1>24. ASSUME NEW k \in Tasks, Enqueue(k)
      PROVE  NoNewReply
  BY <1>24 DEF Enqueue
<1>25. ASSUME NEW k \in Tasks, TaskBegins(k)
      PROVE  NoNewReply
  BY <1>25 DEF TaskBegins, Begin, Goto
<1>26. ASSUME NEW k \in Tasks, TaskFails(k)
      PROVE  NoNewReply
  BY <1>26 DEF TaskFails, Goto
<1>27. ASSUME NEW k \in Tasks, TaskReturns(k)
      PROVE  NoNewReply
  BY <1>27 DEF TaskReturns
<1>28. ASSUME CancelTurn
      PROVE  NoNewReply
  BY <1>28 DEF CancelTurn
<1>29. ASSUME GoQuiet
      PROVE  NoNewReply
  BY <1>29 DEF GoQuiet
<1>30. ASSUME ToolGrowsOld
      PROVE  NoNewReply
  BY <1>30 DEF ToolGrowsOld
<1>31. ASSUME Watchdog
      PROVE  NoNewReply
  BY <1>31 DEF Watchdog, EmitEnd, ClearActive
<1>32. ASSUME Shutdown
      PROVE  NoNewReply
  BY <1>32 DEF Shutdown
<1>33. CASE UNCHANGED vars
  BY <1>33 DEF vars
<1> HIDE DEF TypeOK, NoNewReply, connVars, clockVars, askVars, queueVars,
         loopVars, Turns
<1> QED BY <1>1, <1>2, <1>3, <1>4, <1>5, <1>6, <1>7, <1>8, <1>9, <1>10, <1>11,
           <1>12, <1>13, <1>14, <1>15, <1>16, <1>17, <1>18, <1>19, <1>20,
           <1>21, <1>22, <1>23, <1>24, <1>25, <1>26, <1>27, <1>28, <1>29,
           <1>30, <1>31, <1>32, <1>33
           DEF Next, TurnStep

\* After a cancel, a lost client, the watchdog or close(), no reply is taken.
THEOREM AbortedTurnsEnd == Spec => NoReplyAfterAbort
<1>1. TypeOK /\ [Next]_vars => [NoNewReply]_vars
  BY NoNewReplyStep
<1> QED BY <1>1, TypeCorrect, PTL DEF Spec, NoReplyAfterAbort, NoNewReply

(***************************************************************************)
(* The invariants of the runs, for every number of turns, tasks, streams,  *)
(* replies and tool calls.                                                 *)
(***************************************************************************)
\* No tool that asks runs without the yes of the user, in build mode.
THEOREM OnlyApprovedRuns == Spec => []GuardedRunsApproved
  BY TurnsCorrect, PTL DEF TurnInv

\* The map of pending confirmations is exactly the set of turns that wait.
THEOREM EveryWaitHasItsEntry == Spec => []PendingIsWaiting
  BY TurnsCorrect, PTL DEF TurnInv

\* A turn that is over is never the active one.
THEOREM NoDeadTurnHoldsServer == Spec => []ActiveIsLive
  BY TurnsCorrect, PTL DEF TurnInv

\* A turn that is over has sent its turn.end to the stream it began on, if that
\* stream is open still: no way out of runTurn forgets it.
THEOREM EndIsAnnounced == Spec => []EveryTurnEnds
  BY TurnsCorrect, PTL DEF TurnInv

\* One task is "encurso", the one pumpQueue waits for.
THEOREM QueueRunsOneTask == Spec => []OneTaskAtATime
  BY QueueCorrect, PTL DEF QueueInv

\* Tasks start in the order they came in.
THEOREM QueueKeepsOrder == Spec => []QueueIsFifo
  BY QueueCorrect, PTL DEF QueueInv
============================================================================
