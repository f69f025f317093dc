---------------------------- MODULE ThinServer ----------------------------
(***************************************************************************)
(* The engine's thin server (startThinServer): one event stream, one       *)
(* active turn, remote confirmations and options, the watchdog and the     *)
(* task queue.                                                             *)
(*                                                                         *)
(* The server runs on one event loop: an action is the code between two    *)
(* awaits, and two turns interleave only at the awaits.  Payloads,         *)
(* wording and the session files are abstracted; MaxReplies and MaxBatch   *)
(* bound what the model may ask for in one turn, nothing else.             *)
(***************************************************************************)
EXTENDS Naturals, Sequences, FiniteSets

CONSTANTS
    UserTurns,   \* turns the user may post
    Tasks,       \* texts the user may queue; each is run as one turn
    Conns,       \* GET /v1/events requests
    None,        \* no stream, no turn, no task
    QueueCap,    \* the queue keeps its last QueueCap tasks (20 in the code)
    MaxReplies,  \* bound: replies of the model in one turn
    MaxBatch     \* bound: tool calls in one reply

ASSUME ServerAssumption ==
    /\ None \notin UserTurns \cup Tasks \cup Conns
    /\ UserTurns \cap Tasks = {}
    /\ QueueCap \in Nat \ {0}
    /\ MaxReplies \in Nat
    /\ MaxBatch \in Nat

Turns == UserTurns \cup Tasks

VARIABLES
    up,        \* FALSE once close() was called
    sse,       \* the response that receives events, or None
    conn,      \* where each GET /v1/events stands
    active,    \* activeTurn.id, or None
    quiet,     \* activeTurn.lastEventAt: how long ago
    toolAge,   \* activeTurn.lastToolStartAt: never, within 600 s, before
    aborted,   \* turns whose AbortController was aborted
    pc,        \* where each turn stands
    mode,      \* build or plan
    replies,   \* replies the model may still give to a turn
    batch,     \* tool calls of the current reply still to run
    pending,   \* keys of pendingConfirms, by the turn that waits
    approved,  \* turns running a tool that the user said yes to
    owed,      \* history: the turns that began on the stream that is open now
               \* and whose turn.end has not been written to it
    queue,     \* taskQueue
    estado,    \* estado of each task
    running    \* task of the running pumpQueue: queueBusy is running # None

connVars  == <<sse, conn>>
clockVars == <<active, quiet, toolAge>>
askVars   == <<pending, approved>>
queueVars == <<queue, estado, running>>
loopVars  == <<replies, batch>>
vars == <<up, connVars, clockVars, aborted, pc, mode, loopVars, askVars,
          owed, queueVars>>

ConnStates == {"idle", "refused", "hello", "lost", "open", "closed"}
\* "reading", "writing": a tool that never asks; "granted": one that did.
ToolStates == {"tool", "confirm", "choice", "reading", "writing", "granted"}
LiveStates == {"starting", "working", "saving", "hooks", "failing"}
                \cup ToolStates
TurnStates == LiveStates \cup {"idle", "posting", "refused", "finished"}
Estados == {"none", "pendiente", "encurso", "lista", "error"}

Init ==
    /\ up = TRUE
    /\ sse = None
    /\ conn = [c \in Conns |-> "idle"]
    /\ active = None
    /\ quiet = "fresh"
    /\ toolAge = "never"
    /\ aborted = {}
    /\ pc = [t \in Turns |-> "idle"]
    /\ mode = [t \in Turns |-> "build"]
    /\ replies = [t \in Turns |-> MaxReplies]
    /\ batch = [t \in Turns |-> 0]
    /\ pending = {}
    /\ approved = {}
    /\ owed = {}
    /\ queue = <<>>
    /\ estado = [k \in Tasks |-> "none"]
    /\ running = None

(***************************************************************************)
(* Pieces shared by the handlers.                                          *)
(***************************************************************************)
Goto(t, s) == pc' = [pc EXCEPT ![t] = s]

\* touch(): only the active turn refreshes lastEventAt.
Touch(t) == quiet' = IF active = t THEN "fresh" ELSE quiet

\* activeTurn = null: its times go with it.
ClearActive == active' = None /\ quiet' = "fresh" /\ toolAge' = "never"

\* Faulty variant of Release: the finally is forgotten.
ReleaseForgotten(t) == UNCHANGED clockVars

\* The finally of runTurn: activeTurn is cleared only by the turn it names.
Release(t) == IF active = t THEN ClearActive ELSE UNCHANGED clockVars

\* runTurn is over: its locals go with it.
Over(t) ==
    /\ Goto(t, "finished")
    /\ aborted' = aborted \ {t}
    /\ replies' = [replies EXCEPT ![t] = 0]
    /\ batch' = [batch EXCEPT ![t] = 0]
    /\ mode' = [mode EXCEPT ![t] = "build"]

\* send("turn.end"): written to the open stream; with none, send does nothing
\* (writableEnded is never true of sse: the close of a stream clears sse first).
EmitEnd(t) == owed' = IF sse = None THEN owed ELSE owed \ {t}

\* taskQueue.find(estado === "pendiente")
Waiting(q, e) == {i \in DOMAIN q : e[q[i]] = "pendiente"}
\* Faulty variant of FirstWaiting: the newest task is taken.
NewestWaiting(q, e) ==
    q[CHOOSE i \in Waiting(q, e) : \A j \in Waiting(q, e) : i >= j]

FirstWaiting(q, e) ==
    q[CHOOSE i \in Waiting(q, e) : \A j \in Waiting(q, e) : i <= j]

\* pumpQueue up to its first await, with queueBusy false: e is estado after
\* what the caller changed.
PumpFree(q, e) ==
    IF active = None /\ sse # None /\ Waiting(q, e) # {}
    THEN /\ running' = FirstWaiting(q, e)
         /\ estado' = [e EXCEPT ![FirstWaiting(q, e)] = "encurso"]
    ELSE /\ running' = None
         /\ estado' = e

Pump(q, e) ==
    IF running # None THEN UNCHANGED running /\ estado' = e
                      ELSE PumpFree(q, e)

(***************************************************************************)
(* GET /v1/events.                                                         *)
(***************************************************************************)
Refuse(c) ==
    /\ up /\ conn[c] = "idle" /\ sse # None
    /\ conn' = [conn EXCEPT ![c] = "refused"]
    /\ UNCHANGED <<up, sse, clockVars, aborted, pc, mode, loopVars, askVars,
                   owed, queueVars>>

Attach(c) ==
    /\ up /\ conn[c] = "idle" /\ sse = None
    /\ sse' = c
    /\ conn' = [conn EXCEPT ![c] = "hello"]
    /\ UNCHANGED <<up, clockVars, aborted, pc, mode, loopVars, askVars,
                   owed, queueVars>>

\* The socket closes while loadAllKeys is awaited: nobody listens for "close"
\* yet, and writableEnded stays false.
LoseEarly(c) ==
    /\ conn[c] = "hello"
    /\ conn' = [conn EXCEPT ![c] = "lost"]
    /\ UNCHANGED <<up, sse, clockVars, aborted, pc, mode, loopVars, askVars,
                   owed, queueVars>>

Hello(c) ==
    /\ conn[c] = "hello"
    /\ conn' = [conn EXCEPT ![c] = "open"]
    /\ UNCHANGED <<up, sse, clockVars, aborted, pc, mode, loopVars, askVars,
                   owed, queueVars>>

StreamClosed(c) ==
    /\ conn[c] = "open"
    /\ conn' = [conn EXCEPT ![c] = "closed"]
    /\ sse' = IF sse = c THEN None ELSE sse
    /\ aborted' = aborted \cup ({active} \ {None})
    /\ ClearActive
    /\ owed' = IF sse = c THEN {} ELSE owed
    /\ UNCHANGED <<up, pc, mode, loopVars, askVars, queueVars>>

(***************************************************************************)
(* POST /v1/turn and runTurn.                                              *)
(***************************************************************************)
\* runTurn up to its first await: activeTurn is overwritten.
Begin(t) ==
    /\ Goto(t, "starting")
    /\ active' = t
    /\ quiet' = "fresh"
    /\ toolAge' = "never"
    /\ owed' = IF sse = None THEN owed ELSE owed \cup {t}

PostTurn(t) ==
    /\ up /\ t \in UserTurns /\ pc[t] = "idle"
    /\ Goto(t, IF active # None THEN "refused" ELSE "posting")
    /\ UNCHANGED <<up, connVars, clockVars, aborted, mode, loopVars, askVars,
                   owed, queueVars>>

\* An empty message (400) or an unknown session (404).
RejectTurn(t) ==
    /\ pc[t] = "posting"
    /\ Goto(t, "refused")
    /\ UNCHANGED <<up, connVars, clockVars, aborted, mode, loopVars, askVars,
                   owed, queueVars>>

\* The body was read and the session found or created, both awaited.
AcceptTurn(t, m) ==
    /\ pc[t] = "posting"
    /\ Begin(t)
    /\ mode' = [mode EXCEPT ![t] = m]
    /\ UNCHANGED <<up, connVars, aborted, loopVars, askVars, queueVars>>

\* The session is gone: activeTurn is cleared whatever turn it names.
SessionMissing(t) ==
    /\ pc[t] = "starting"
    /\ Over(t)
    /\ ClearActive
    /\ EmitEnd(t)
    /\ UNCHANGED <<up, connVars, askVars, queueVars>>

SessionFound(t) ==
    /\ pc[t] = "starting"
    /\ Goto(t, "working")
    /\ UNCHANGED <<up, connVars, clockVars, aborted, mode, loopVars, askVars,
                   owed, queueVars>>

\* A reply of the model: n tool calls, or the final answer when n = 0.
Reply(t, n) ==
    /\ pc[t] = "working" /\ batch[t] = 0 /\ t \notin aborted
    /\ replies[t] > 0
    /\ replies' = [replies EXCEPT ![t] = @ - 1]
    /\ batch' = [batch EXCEPT ![t] = n]
    /\ Goto(t, IF n = 0 THEN "saving" ELSE "working")
    /\ Touch(t)
    /\ UNCHANGED <<up, connVars, active, toolAge, aborted, mode, askVars,
                   owed, queueVars>>

\* registry.execute: the tools of one reply run one after the other and the
\* signal is not looked at between them.
ToolStart(t) ==
    /\ pc[t] = "working" /\ batch[t] > 0
    /\ batch' = [batch EXCEPT ![t] = @ - 1]
    /\ Goto(t, "tool")
    /\ Touch(t)
    /\ toolAge' = IF active = t THEN "recent" ELSE toolAge
    /\ UNCHANGED <<up, connVars, active, aborted, mode, replies, askVars,
                   owed, queueVars>>

\* write, edit and the commands of the allow-list do not ask; neither do read,
\* list and the like.
ToolRuns(t, kind) ==
    /\ pc[t] = "tool"
    /\ kind \in {"reading", "writing"}
    /\ Goto(t, kind)
    /\ UNCHANGED <<up, connVars, clockVars, aborted, mode, loopVars, askVars,
                   owed, queueVars>>

\* remoteConfirm: plan mode and no client deny at once, else the turn waits.
AskConfirm(t) ==
    /\ pc[t] = "tool"
    /\ IF mode[t] = "plan" \/ sse = None
       THEN /\ Goto(t, "working")
            /\ Touch(t)
            /\ UNCHANGED pending
       ELSE /\ pending' = pending \cup {t}
            /\ Goto(t, "confirm")
            /\ UNCHANGED quiet
    /\ UNCHANGED <<up, connVars, active, toolAge, aborted, mode, loopVars,
                   approved, owed, queueVars>>

\* Faulty variant of Settle: the entry stays in the map.
SettleKeepsEntry(t, yes) ==
    /\ t \in pending
    /\ IF yes THEN Goto(t, "granted") /\ UNCHANGED quiet
              ELSE Goto(t, "working") /\ Touch(t)
    /\ UNCHANGED <<up, connVars, active, toolAge, aborted, mode, loopVars,
                   pending, owed, queueVars>>

\* resolveConfirm: the entry goes, and the tool runs only when approved.
Settle(t, yes) ==
    /\ t \in pending
    /\ pending' = pending \ {t}
    /\ IF yes THEN Goto(t, "granted") /\ UNCHANGED quiet
              ELSE Goto(t, "working") /\ Touch(t)
    /\ UNCHANGED <<up, connVars, active, toolAge, aborted, mode, loopVars,
                   owed, queueVars>>

\* POST /v1/confirm; a late or repeated answer finds no entry and is ignored.
ConfirmAnswered(t, yes) ==
    /\ up
    /\ Settle(t, yes)
    /\ approved' = IF yes THEN approved \cup {t} ELSE approved

\* Faulty variants of ConfirmTimeout: silence is consent; the timer needs a
\* client.
TimeoutApproves(t) ==
    /\ Settle(t, TRUE)
    /\ UNCHANGED approved

TimeoutNeedsClient(t) ==
    /\ sse # None
    /\ Settle(t, FALSE)
    /\ UNCHANGED approved

ConfirmTimeout(t) ==
    /\ Settle(t, FALSE)
    /\ UNCHANGED approved

\* remoteOptions: plan mode and no client take the first option at once, else
\* an answer or the 120 s timer ends the wait; the tool goes on either way.
AskOptions(t) ==
    /\ pc[t] \in {"tool", "granted"}
    /\ mode[t] # "plan" /\ sse # None
    /\ Goto(t, "choice")
    /\ approved' = approved \ {t}
    /\ UNCHANGED <<up, connVars, clockVars, aborted, mode, loopVars, pending,
                   owed, queueVars>>

OptionsSettled(t) ==
    /\ pc[t] = "choice"
    /\ Goto(t, "writing")
    /\ UNCHANGED <<up, connVars, clockVars, aborted, mode, loopVars, askVars,
                   owed, queueVars>>

ToolEnd(t) ==
    /\ pc[t] \in {"reading", "writing", "granted"}
    /\ Goto(t, "working")
    /\ Touch(t)
    /\ approved' = approved \ {t}
    /\ UNCHANGED <<up, connVars, active, toolAge, aborted, mode, loopVars,
                   pending, owed, queueVars>>

\* orchestrate returned: the answer is stored, turn.end "done" goes out, and
\* the suggestions and the afterEdit hook are awaited with the turn active.
Saved(t) ==
    /\ pc[t] = "saving"
    /\ EmitEnd(t)
    /\ Goto(t, "hooks")
    /\ UNCHANGED <<up, connVars, clockVars, aborted, mode, loopVars, askVars,
                   queueVars>>

\* Faulty variant of Cancelled: no turn.end is sent.
CancelledSilently(t) ==
    /\ pc[t] = "working" /\ batch[t] = 0 /\ t \in aborted
    /\ Over(t)
    /\ Release(t)
    /\ UNCHANGED <<up, connVars, askVars, owed, queueVars>>

\* The catch of runTurn for a cancelled turn.
Cancelled(t) ==
    /\ pc[t] = "working" /\ batch[t] = 0 /\ t \in aborted
    /\ EmitEnd(t)
    /\ Over(t)
    /\ Release(t)
    /\ UNCHANGED <<up, connVars, askVars, queueVars>>

\* The catch of runTurn for an error: of the session store, or of the model
\* when every candidate failed.  With a client, the suggestions are awaited.
Failed(t) ==
    /\ \/ pc[t] \in {"starting", "saving"}
       \/ pc[t] = "working" /\ batch[t] = 0
    /\ EmitEnd(t)
    /\ IF t \notin aborted /\ sse # None
       THEN /\ Goto(t, "failing")
            /\ UNCHANGED <<clockVars, aborted, mode, loopVars>>
       ELSE Over(t) /\ Release(t)
    /\ UNCHANGED <<up, connVars, askVars, queueVars>>

Finish(t) ==
    /\ pc[t] \in {"hooks", "failing"}
    /\ Over(t)
    /\ Release(t)
    /\ UNCHANGED <<up, connVars, askVars, owed, queueVars>>

\* POST /v1/cancel: the turn stays active until it notices.
CancelTurn ==
    /\ up /\ active # None
    /\ aborted' = aborted \cup {active}
    /\ UNCHANGED <<up, connVars, clockVars, pc, mode, loopVars, askVars,
                   owed, queueVars>>

(***************************************************************************)
(* The clock and the watchdog: "quiet" is more than 60 s without an event, *)
(* "overdue" a quiet turn that a tick of the watchdog has passed over.     *)
(***************************************************************************)
GoQuiet ==
    /\ active # None /\ quiet = "fresh"
    /\ quiet' = "quiet"
    /\ UNCHANGED <<up, connVars, active, toolAge, aborted, pc, mode, loopVars,
                   askVars, owed, queueVars>>

\* 600 s since the last tool started: no confirmation (120 s) lasts so long.
ToolGrowsOld ==
    /\ active # None /\ toolAge = "recent" /\ quiet # "fresh"
    /\ active \notin pending
    /\ toolAge' = "old"
    /\ UNCHANGED <<up, connVars, active, quiet, aborted, pc, mode, loopVars,
                   askVars, owed, queueVars>>

\* Faulty variant of Watchdog: a turn that once ran a tool is let be.
WatchdogSparesTools ==
    /\ up /\ active # None /\ quiet # "fresh"
    /\ IF toolAge # "never"
       THEN /\ quiet' = "overdue"
            /\ UNCHANGED <<active, toolAge, aborted, owed>>
       ELSE /\ aborted' = aborted \cup {active}
            /\ EmitEnd(active)
            /\ ClearActive
    /\ UNCHANGED <<up, connVars, pc, mode, loopVars, askVars, queueVars>>

Watchdog ==
    /\ up /\ active # None /\ quiet # "fresh"
    /\ IF toolAge = "recent"
       THEN /\ quiet' = "overdue"
            /\ UNCHANGED <<active, toolAge, aborted, owed>>
       ELSE /\ aborted' = aborted \cup {active}
            /\ EmitEnd(active)
            /\ ClearActive
    /\ UNCHANGED <<up, connVars, pc, mode, loopVars, askVars, queueVars>>

(***************************************************************************)
(* The task queue.                                                         *)
(***************************************************************************)
\* push, keep the last QueueCap, pumpQueue.
Push(q, k) ==
    LET all == Append(q, k)
    IN IF Len(all) > QueueCap
       THEN SubSeq(all, Len(all) - QueueCap + 1, Len(all))
       ELSE all

Enqueue(k) ==
    /\ up /\ estado[k] = "none"
    /\ queue' = Push(queue, k)
    /\ Pump(queue', [estado EXCEPT ![k] = "pendiente"])
    /\ UNCHANGED <<up, connVars, clockVars, aborted, pc, mode, loopVars,
                   askVars, owed>>

\* The session of the task was listed or created, both awaited; activeTurn is
\* not looked at again.
TaskBegins(k) ==
    /\ running = k /\ pc[k] = "idle"
    /\ Begin(k)
    /\ UNCHANGED <<up, connVars, aborted, mode, loopVars, askVars, queueVars>>

\* The session could not be listed or created.
TaskFails(k) ==
    /\ running = k /\ pc[k] = "idle"
    /\ Goto(k, "refused")
    /\ PumpFree(queue, [estado EXCEPT ![k] = "error"])
    /\ UNCHANGED <<up, connVars, clockVars, aborted, mode, loopVars, askVars,
                   owed, queue>>

\* runTurn returned, whatever the turn came to.
TaskReturns(k) ==
    /\ running = k /\ pc[k] = "finished"
    /\ PumpFree(queue, [estado EXCEPT ![k] = "lista"])
    /\ UNCHANGED <<up, connVars, clockVars, aborted, pc, mode, loopVars,
                   askVars, owed, queue>>

\* close(): the watchdog stops, the turn is aborted, every confirmation is
\* denied; the options are left to their timers.
Shutdown ==
    /\ up
    /\ up' = FALSE
    /\ aborted' = aborted \cup ({active} \ {None})
    /\ pending' = {}
    /\ pc' = [t \in Turns |-> IF t \in pending THEN "working" ELSE pc[t]]
    /\ quiet' = IF active \in pending THEN "fresh" ELSE quiet
    /\ UNCHANGED <<connVars, active, toolAge, mode, loopVars, approved, owed,
                   queueVars>>

TurnStep(t) ==
    \/ PostTurn(t) \/ RejectTurn(t)
    \/ \E m \in {"build", "plan"} : AcceptTurn(t, m)
    \/ SessionMissing(t) \/ SessionFound(t)
    \/ \E n \in 0 .. MaxBatch : Reply(t, n)
    \/ ToolStart(t)
    \/ \E kind \in {"reading", "writing"} : ToolRuns(t, kind)
    \/ AskConfirm(t)
    \/ \E ok \in BOOLEAN : ConfirmAnswered(t, ok)
    \/ ConfirmTimeout(t)
    \/ AskOptions(t) \/ OptionsSettled(t)
    \/ ToolEnd(t) \/ Saved(t) \/ Cancelled(t) \/ Failed(t) \/ Finish(t)

Next ==
    \/ \E c \in Conns : \/ Refuse(c) \/ Attach(c) \/ LoseEarly(c)
                        \/ Hello(c) \/ StreamClosed(c)
    \/ \E t \in Turns : TurnStep(t)
    \/ \E k \in Tasks : Enqueue(k) \/ TaskBegins(k) \/ TaskFails(k)
                          \/ TaskReturns(k)
    \/ CancelTurn \/ GoQuiet \/ ToolGrowsOld \/ Watchdog \/ Shutdown

(***************************************************************************)
(* Fairness: timers fire, time passes, and awaits on the local disk come   *)
(* back.  Nothing is assumed of the user, the client, the model or a tool. *)
(***************************************************************************)
Fairness ==
    /\ \A t \in Turns :
         /\ WF_vars(SessionFound(t) \/ SessionMissing(t))
         /\ WF_vars(Saved(t)) /\ WF_vars(Finish(t)) /\ WF_vars(Cancelled(t))
         /\ WF_vars(ConfirmTimeout(t)) /\ WF_vars(OptionsSettled(t))
    /\ \A k \in Tasks : WF_vars(TaskBegins(k)) /\ WF_vars(TaskReturns(k))
    /\ WF_vars(GoQuiet) /\ WF_vars(ToolGrowsOld) /\ WF_vars(Watchdog)

Spec == Init /\ [][Next]_vars /\ Fairness

(***************************************************************************)
(* Properties.                                                             *)
(***************************************************************************)
\* The type of every variable.
TypeOK ==
    /\ up \in BOOLEAN
    /\ sse \in Conns \cup {None}
    /\ conn \in [Conns -> ConnStates]
    /\ active \in Turns \cup {None}
    /\ quiet \in {"fresh", "quiet", "overdue"}
    /\ toolAge \in {"never", "recent", "old"}
    /\ aborted \subseteq Turns
    /\ pc \in [Turns -> TurnStates]
    /\ mode \in [Turns -> {"build", "plan"}]
    /\ replies \in [Turns -> 0 .. MaxReplies]
    /\ batch \in [Turns -> 0 .. MaxBatch]
    /\ pending \subseteq Turns
    /\ approved \subseteq Turns
    /\ owed \subseteq Turns
    /\ queue \in Seq(Tasks)
    /\ Len(queue) <= QueueCap
    /\ estado \in [Tasks -> Estados]
    /\ running \in Tasks \cup {None}

\* A tool that asks runs only after the user said yes to this very request, in
\* build mode: never after the 120 s timer, a lost client, close() or plan
\* mode, whatever other turns and other answers do meanwhile.
GuardedRunsApproved ==
    \A t \in Turns :
        pc[t] = "granted" => t \in approved /\ mode[t] = "build"

\* pendingConfirms holds exactly the turns that wait for an answer: no waiting
\* turn whose entry (and timer) is gone, no entry left behind by a turn.
PendingIsWaiting ==
    pending = {t \in Turns : pc[t] = "confirm"}

\* activeTurn never names a turn that is over: it would refuse every later
\* POST /v1/turn with 409 and hold the queue for ever.
ActiveIsLive ==
    active # None => pc[active] \in LiveStates

\* A turn that is over, or only cleaning up, owes its client nothing: the
\* turn.end was written to the stream on which the turn began, whichever way
\* out it took, unless that stream closed first.  With no stream a turn ends
\* in silence.
EveryTurnEnds ==
    \A t \in owed : pc[t] \notin {"hooks", "failing", "finished"}

\* One queued task at a time is "encurso", and it is the one pumpQueue is
\* waiting for; a task leaves that state only by its own pumpQueue.
OneTaskAtATime ==
    \A k \in Tasks : estado[k] = "encurso" <=> running = k

\* The order of the queue: a task does not start while an older one that is
\* still in the queue waits.
QueueIsFifo ==
    \A i, j \in DOMAIN queue :
        i < j /\ estado[queue[i]] = "pendiente"
          => estado[queue[j]] = "pendiente"

\* The event stream passes from one request to the next only through the close
\* of the first, which cancels the turn that was active.
StreamHandover ==
    [][sse # None /\ sse' # sse
         => sse' = None /\ active' = None /\ active \in aborted' \cup {None}]_vars

\* Once aborted, a turn gets no further reply of the model: neither new tool
\* calls nor a final answer.  It only goes through the calls it already had.
NoReplyAfterAbort ==
    [][\A t \in aborted :
         /\ batch'[t] <= batch[t]
         /\ pc'[t] = "saving" => pc[t] = "saving"]_vars

\* A turn does not hold the server for ever, even when the model or a tool
\* hangs: the watchdog releases it unless the engine closes first.
ServerIsReleased == (active # None) ~> (active = None \/ ~up)

\* No confirmation or options dialog waits for ever.
AskingEnds ==
    \A t \in Turns : (pc[t] \in {"confirm", "choice"})
                         ~> (pc[t] \notin {"confirm", "choice"})

(***************************************************************************)
(* What the comments and the protocol document say, and the code does not. *)
(***************************************************************************)
\* thin.ts: a queued task "nunca pisa un turno activo": it never starts a turn
\* while the turn of the user is active.
QueueNeverOverruns ==
    [][\A k \in Tasks :
         active \in UserTurns /\ pc[k] = "idle" => pc'[k] # "starting"]_vars

\* docs/PROTOCOL.md: in plan mode the engine rejects any tool that writes
\* before it runs.
PlanIsReadOnly ==
    \A t \in Turns : mode[t] = "plan" => pc[t] # "writing"
===========================================================================
