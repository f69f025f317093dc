------------------------------ MODULE GoAgent ------------------------------
(***************************************************************************)
(* The agent service of the program in Go (internal/llm/agent/agent.go):   *)
(* requests that run at once in several sessions, the map of those that    *)
(* are active, cancellation, the loop of answers and tools, and the        *)
(* permission a tool asks for (internal/permission), which travels by the  *)
(* event broker (internal/pubsub, cmd/root.go) to the dialog of the screen *)
(* (internal/tui) and comes back as an answer of the user.                 *)
(*                                                                         *)
(* Every request, asynchronous, is a run; its answers are streamed by      *)
(* GoProvider. Database calls succeed unless their context is cancelled.   *)
(***************************************************************************)
EXTENDS GoProvider, FiniteSets

CONSTANTS
    Sessions,
    Runs,          \* bound: the requests that are followed
    NoRun,         \* no request
    Asking,        \* tools that ask for permission
    Foreign,       \* those of them that are tools of MCP servers
    AutoApproved,  \* sessions of RunNonInteractive
    Summarized,    \* bound: the sessions that are summarized
    ServedBy,      \* the providers that the models are from
    Crowd,         \* bound: kinds of client with which several requests run at once
    Placements,    \* bound: the sessions that the runs may be of
    MaxRounds,     \* bound: answers in a request
    MaxReplies     \* bound: decisions on their way to the permission service

ASSUME AgentAssumption ==
    /\ NoRun \notin Runs
    /\ Asking \subseteq Tools /\ Foreign \subseteq Asking
    /\ AutoApproved \subseteq Sessions /\ Summarized \subseteq Sessions
    /\ ServedBy \subseteq DOMAIN NewProvider /\ ServedBy # {}
    /\ Crowd \subseteq Kinds
    /\ Placements \subseteq [Runs -> Sessions]
    /\ MaxRounds \in Nat /\ MaxReplies \in Nat

VARIABLES
    up,        \* no goroutine without a recover has panicked
    kind,      \* a.provider: the kind of its client
    active,    \* activeRequests: the run whose cancel function is stored
    summing,   \* activeRequests, keys with "-summarize"
    pc,        \* of each run
    sess,      \* the session of a run
    ctx,       \* the context of a run is cancelled
    round,     \* answers asked for
    stream,    \* the goroutine of the provider
    msg,       \* assistantMsg: its tool calls and its Finish
    next,      \* i of the loop over the tool calls
    results,   \* toolResults
    asks,      \* requests for permission that a run has made
    inbox,     \* respCh of the pending request of a run
    saved,     \* sessionPermissions
    toScreen,  \* requests on their way to the screen
    shown,     \* the request in the dialog, while showPermissions
    replies,   \* answers on their way from the dialog
    said,      \* the request of each run that the user said yes to
    forGood,   \* what the user allowed for a session
    stopped    \* runs whose entry Cancel found, and that have not ended

runVars == <<pc, sess, ctx, round, stream, msg, next, results>>
askVars == <<asks, inbox, saved, toScreen, shown, replies, said, forGood>>
vars == <<up, kind, active, summing, runVars, askVars, stopped>>

Actions == {"allow", "session", "deny"}
Finishes == Reasons \cup {"none", "canceled", "permission_denied"}
Results == {"none", "ok", "error", "denied", "refused", "canceled"}
NoRequest == [run |-> NoRun, no |-> 0, tool |-> CHOOSE t \in Tools : TRUE]
Requests == [run : Runs, no : Nat, tool : Asking]

Blank == [calls |-> <<>>, finish |-> "none"]

Init ==
    /\ up = TRUE
    /\ kind \in {NewProvider[p] : p \in ServedBy}
    /\ active = [s \in Sessions |-> NoRun]
    /\ summing = {}
    /\ pc = [r \in Runs |-> "idle"]
    /\ sess \in Placements
    /\ ctx = [r \in Runs |-> FALSE]
    /\ round = [r \in Runs |-> 0]
    /\ stream = [r \in Runs |-> NewStream(kind)]
    /\ msg = [r \in Runs |-> Blank]
    /\ next = [r \in Runs |-> 1]
    /\ results = [r \in Runs |-> <<>>]
    /\ asks = [r \in Runs |-> 0]
    /\ inbox = [r \in Runs |-> "empty"]
    /\ saved = {}
    /\ toScreen = <<>>
    /\ shown = NoRequest
    /\ replies = <<>>
    /\ said = [r \in Runs |-> 0]
    /\ forGood = {}
    /\ stopped = {}

Busy(s) == active[s] # NoRun
AnyBusy == summing # {} \/ \E s \in Sessions : Busy(s)
Goes(r, to) == pc' = [pc EXCEPT ![r] = to]

-----------------------------------------------------------------------------
(* A request. *)

\* Run: IsSessionBusy, then Store; both on the loop of the screen, or before
\* anybody else knows the session. The rest is the goroutine's.
Run(r) ==
    /\ pc[r] = "idle" /\ ~Busy(sess[r])
    /\ \A q \in Runs : pc[q] # "idle" => {kind, stream[q].kind} \subseteq Crowd
    /\ active' = [active EXCEPT ![sess[r]] = r]
    /\ Goes(r, "load")
    /\ UNCHANGED <<up, kind, summing, sess, ctx, round, stream, msg, next, results,
                   askVars, stopped>>

\* processGeneration up to its loop: the history is listed and the message of
\* the user stored, unless the context is cancelled already.
Loads(r) ==
    /\ pc[r] = "load"
    /\ Goes(r, IF ctx[r] THEN "over" ELSE "loop")
    /\ UNCHANGED <<up, kind, active, summing, sess, ctx, round, stream, msg, next, results,
                   askVars, stopped>>

\* The head of the loop, StreamResponse and the assistant's message.
Asks(r) ==
    /\ pc[r] = "loop"
    /\ IF ctx[r]
       THEN Goes(r, "over") /\ UNCHANGED <<round, stream, msg, next, results>>
       ELSE /\ round[r] < MaxRounds
            /\ Goes(r, "stream")
            /\ round' = [round EXCEPT ![r] = @ + 1]
            /\ stream' = [stream EXCEPT ![r] = NewStream(kind)]
            /\ msg' = [msg EXCEPT ![r] = Blank]
            /\ next' = [next EXCEPT ![r] = 1]
            /\ results' = [results EXCEPT ![r] = <<>>]
    /\ UNCHANGED <<up, kind, active, summing, sess, ctx, askVars, stopped>>

Finish(m, reason) == [m EXCEPT !.finish = reason]

\* processEvent: a call that begins is remembered, a Complete brings them all.
Processed(m, ev) ==
    CASE ev.type = "start"    -> [m EXCEPT !.calls = ev.calls]
      [] ev.type = "complete" -> [calls |-> ev.calls, finish |-> ev.why]
      [] OTHER                -> m

\* Where an event leads. An EventError whose error is nil is dereferenced:
\* RecoverPanic then waits for a reader of the run's channel, who does not
\* come, and the entry of the run stays in the map.
Outcome(ev, cancelled) ==
    CASE ev.type = "none"  -> "stream"
      [] ev.type = "close" -> "tools"
      [] ev.type = "error" -> IF ev.why = "nil" /\ ~cancelled THEN "panicked" ELSE "over"
      [] ev.type \in {"delta", "start", "complete"} -> IF cancelled THEN "over" ELSE "stream"

\* One event. The context is looked at before it is processed and after, so
\* that a cancelled run ends with or without it.
Streams(r) ==
    /\ pc[r] = "stream"
    /\ \E step \in StreamSteps(stream[r], ctx[r]) :
        LET to == Outcome(step.ev, ctx[r])
        IN  /\ stream' = [stream EXCEPT ![r] = IF to = "stream" THEN step.st ELSE NewStream(stream[r].kind)]
            /\ up' = (step.st.at # "panic")
            /\ Goes(r, to)
            /\ \E m \in {msg[r], Processed(msg[r], step.ev)} :
                /\ to # "over" => m = Processed(msg[r], step.ev)
                /\ msg' = [msg EXCEPT ![r] = IF to = "over" THEN Finish(m, "canceled") ELSE m]
            /\ results' = IF to # "tools" THEN results
                          ELSE [results EXCEPT ![r] = [k \in DOMAIN msg[r].calls |-> "none"]]
    /\ UNCHANGED <<kind, active, summing, sess, ctx, round, next, askVars, stopped>>

-----------------------------------------------------------------------------
(* The tools of an answer, one after the other. *)

Left(r) == next[r] .. Len(msg[r].calls)
Tool(r) == msg[r].calls[next[r]]
AtTool(r) == pc[r] = "tools" /\ Left(r) # {}

\* The loop finds the context cancelled: this call and all that follow.
ToolsCancelled(r) ==
    /\ AtTool(r) /\ ctx[r]
    /\ msg' = [msg EXCEPT ![r] = Finish(@, "canceled")]
    /\ results' = [results EXCEPT ![r] = [k \in DOMAIN @ |-> IF k \in Left(r) THEN "canceled" ELSE @[k]]]
    /\ next' = [next EXCEPT ![r] = Len(msg[r].calls) + 1]
    /\ UNCHANGED <<up, kind, active, summing, pc, sess, ctx, round, stream, askVars,
                   stopped>>

Gets(r, result) ==
    /\ results' = [results EXCEPT ![r][next[r]] = result]
    /\ next' = [next EXCEPT ![r] = @ + 1]

\* permissionService.Request, as far as it does not wait.
Approved(r) ==
    \/ Tool(r) \notin Asking
    \/ sess[r] \in AutoApproved
    \/ <<sess[r], Tool(r)>> \in saved

\* tool.Run begins. There may be no tool of that name, or it may refuse its
\* arguments before anything is asked.
ToolBegins(r) ==
    /\ AtTool(r) /\ ~ctx[r]
    /\ \/ Gets(r, "error") /\ UNCHANGED <<pc, asks, inbox, toScreen>>
       \/ /\ Approved(r)
          /\ Goes(r, "run")
          /\ UNCHANGED <<next, results, asks, inbox, toScreen>>
       \/ /\ ~Approved(r)
          /\ Goes(r, "ask")
          /\ asks' = [asks EXCEPT ![r] = @ + 1]
          /\ inbox' = [inbox EXCEPT ![r] = "empty"]
          /\ toScreen' = Append(toScreen, [run |-> r, no |-> asks[r] + 1, tool |-> Tool(r)])
          /\ UNCHANGED <<next, results>>
    /\ UNCHANGED <<up, kind, active, summing, sess, ctx, round, stream, msg, saved, shown,
                   replies, said, forGood, stopped>>

\* Faulty variant of Answered: the message keeps the finish of the model.
AnsweredKeepsFinish(r) ==
    /\ pc[r] = "ask" /\ inbox[r] # "empty"
    /\ Goes(r, IF inbox[r] = "yes" THEN "run" ELSE "tools")
    /\ IF inbox[r] = "yes"
       THEN UNCHANGED <<next, results>>
       ELSE Gets(r, IF Tool(r) \in Foreign THEN "refused" ELSE "denied")
    /\ inbox' = [inbox EXCEPT ![r] = "empty"]
    /\ UNCHANGED <<up, kind, active, summing, sess, ctx, round, stream, msg, asks, saved,
                   toScreen, shown, replies, said, forGood, stopped>>

\* ErrorPermissionDenied marks this call denied, all that follow canceled, and
\* the message; its break leaves the select only, and the loop goes on to the
\* next call.
Denied(r) ==
    /\ results' = [results EXCEPT ![r] = [k \in DOMAIN @ |->
                       CASE k < next[r] -> @[k]
                         [] k = next[r] -> "denied"
                         [] k > next[r] -> "canceled"]]
    /\ next' = [next EXCEPT ![r] = @ + 1]
    /\ msg' = [msg EXCEPT ![r] = Finish(@, "permission_denied")]

\* <-respCh. The tool of an MCP server turns a denial into an ordinary result,
\* a text that says so, and the model reads it with the others.
Answered(r) ==
    /\ pc[r] = "ask" /\ inbox[r] # "empty"
    /\ Goes(r, IF inbox[r] = "yes" THEN "run" ELSE "tools")
    /\ \/ inbox[r] = "yes" /\ UNCHANGED <<next, results, msg>>
       \/ inbox[r] = "no" /\ Tool(r) \in Foreign /\ Gets(r, "refused") /\ UNCHANGED msg
       \/ inbox[r] = "no" /\ Tool(r) \notin Foreign /\ Denied(r)
    /\ inbox' = [inbox EXCEPT ![r] = "empty"]
    /\ UNCHANGED <<up, kind, active, summing, sess, ctx, round, stream, asks, saved,
                   toScreen, shown, replies, said, forGood, stopped>>

\* Faulty variant of ToolEnds: an error goes on to the next call at once.
ToolEndsSilently(r) ==
    /\ pc[r] = "run"
    /\ \/ Gets(r, "ok")
       \/ next' = [next EXCEPT ![r] = @ + 1] /\ UNCHANGED results
    /\ Goes(r, "tools")
    /\ UNCHANGED <<up, kind, active, summing, sess, ctx, round, stream, msg, askVars,
                   stopped>>

\* tool.Run returns; an error other than a denial leaves an empty result. Or it
\* panics (a command sent to a shell whose queue is closed does), and ends as
\* in Outcome.
ToolEnds(r) ==
    /\ pc[r] = "run"
    /\ \/ \E result \in {"ok", "error"} : Gets(r, result) /\ Goes(r, "tools")
       \/ Goes(r, "panicked") /\ UNCHANGED <<next, results>>
    /\ UNCHANGED <<up, kind, active, summing, sess, ctx, round, stream, msg, askVars,
                   stopped>>

\* The results are stored as a message, and the loop goes on or ends.
ToolsDone(r) ==
    /\ pc[r] = "tools" /\ Left(r) = {}
    /\ Goes(r, IF msg[r].finish = "tool_use" /\ msg[r].calls # <<>> THEN "loop" ELSE "over")
    /\ UNCHANGED <<up, kind, active, summing, sess, ctx, round, stream, msg, next, results,
                   askVars, stopped>>

\* Faulty variant of Ends: the entry is deleted when the answer is complete.
EndsFinished(r) ==
    /\ pc[r] = "over"
    /\ active' = IF msg[r].finish \in Reasons THEN [active EXCEPT ![sess[r]] = NoRun] ELSE active
    /\ Goes(r, "ended")
    /\ ctx' = [ctx EXCEPT ![r] = TRUE]
    /\ msg' = [msg EXCEPT ![r] = Blank]
    /\ next' = [next EXCEPT ![r] = 1]
    /\ results' = [results EXCEPT ![r] = <<>>]
    /\ stopped' = stopped \ {r}
    /\ UNCHANGED <<up, kind, summing, sess, round, stream, askVars>>

\* The end of the goroutine: the entry of the session is deleted, whosever it
\* is by now, the context cancelled and the result published.
Ends(r) ==
    /\ pc[r] = "over"
    /\ active' = [active EXCEPT ![sess[r]] = NoRun]
    /\ Goes(r, "ended")
    /\ ctx' = [ctx EXCEPT ![r] = TRUE]
    /\ msg' = [msg EXCEPT ![r] = Blank]
    /\ next' = [next EXCEPT ![r] = 1]
    /\ results' = [results EXCEPT ![r] = <<>>]
    /\ stopped' = stopped \ {r}
    /\ UNCHANGED <<up, kind, summing, sess, round, stream, askVars>>

RunStep(r) ==
    \/ Loads(r) \/ Asks(r) \/ Streams(r)
    \/ ToolsCancelled(r) \/ ToolBegins(r) \/ Answered(r)
    \/ ToolEnds(r) \/ ToolsDone(r) \/ Ends(r)

-----------------------------------------------------------------------------
(* Cancel, Update and Summarize. *)

\* Faulty variant of Cancel: the entry is taken out, its function not called.
CancelForgets(s) ==
    /\ Busy(s)
    /\ active' = [active EXCEPT ![s] = NoRun]
    /\ stopped' = stopped \cup {active[s]}
    /\ summing' = summing \ {s}
    /\ UNCHANGED <<up, kind, runVars, askVars>>

\* Escape, on the page of the chat. The run goes on until it looks at its
\* context, and its session is free from now on.
Cancel(s) ==
    /\ Busy(s) \/ s \in summing
    /\ active' = [active EXCEPT ![s] = NoRun]
    /\ ctx' = [r \in Runs |-> ctx[r] \/ active[s] = r]
    /\ stopped' = stopped \cup ({active[s]} \ {NoRun})
    /\ summing' = summing \ {s}
    /\ UNCHANGED <<up, kind, pc, sess, round, stream, msg, next, results, askVars>>

\* ModelSelectedMsg: refused while any request is in the map.
Update ==
    /\ ~AnyBusy
    /\ \E p \in ServedBy : kind' = NewProvider[p]
    /\ kind' \in Crowd \/ Cardinality({r \in Runs : pc[r] # "idle"}) <= 1
    /\ UNCHANGED <<up, active, summing, runVars, askVars, stopped>>

\* Summarize looks for a run of the session, not for another summary.
Summarizes(s) ==
    /\ s \in Summarized /\ ~Busy(s)
    /\ summing' = summing \cup {s}
    /\ UNCHANGED <<up, kind, active, runVars, askVars, stopped>>

\* A summary ends, saved, failed or cancelled, and deletes its entry.
SummaryEnds(s) ==
    /\ s \in summing
    /\ summing' = summing \ {s}
    /\ UNCHANGED <<up, kind, active, runVars, askVars, stopped>>

-----------------------------------------------------------------------------
(* The way of a request for permission to the user, and back. *)

\* pubsub.Event[PermissionRequest] reaches the screen: the dialog is shown,
\* over the request that it may be showing.
Shows ==
    /\ toScreen # <<>>
    /\ shown' = Head(toScreen)
    /\ toScreen' = Tail(toScreen)
    /\ UNCHANGED <<up, kind, active, summing, runVars, asks, inbox, saved, replies, said,
                   forGood, stopped>>

\* Publish finds the buffer of the subscriber full, or the subscriber gives up
\* after two seconds: the event is lost.
Loses ==
    /\ toScreen # <<>>
    /\ toScreen' = Tail(toScreen)
    /\ UNCHANGED <<up, kind, active, summing, runVars, asks, inbox, saved, shown, replies,
                   said, forGood, stopped>>

\* A key of the dialog: a command that sends PermissionResponseMsg, with the
\* request of the dialog at this moment.
Decides ==
    /\ shown # NoRequest /\ Len(replies) < MaxReplies
    /\ \E a \in Actions :
        /\ replies' = Append(replies, [to |-> shown, action |-> a])
        /\ said' = IF a # "deny" THEN [said EXCEPT ![shown.run] = shown.no] ELSE said
        /\ forGood' = IF a # "session" THEN forGood
                      ELSE forGood \cup {<<sess[shown.run], shown.tool>>}
    /\ UNCHANGED <<up, kind, active, summing, runVars, asks, inbox, saved, toScreen, shown,
                   stopped>>

\* pendingRequests has the channel of this request.
Pending(q) == pc[q.run] = "ask" /\ asks[q.run] = q.no

\* Faulty variant of Responds: the answer goes to the request in the dialog now.
RespondsToShown ==
    /\ replies # <<>>
    /\ LET q == shown
           a == Head(replies).action
       IN  /\ Pending(q) => inbox[q.run] = "empty"
           /\ inbox' = IF Pending(q)
                       THEN [inbox EXCEPT ![q.run] = IF a = "deny" THEN "no" ELSE "yes"]
                       ELSE inbox
           /\ saved' = IF a = "session" THEN saved \cup {<<sess[q.run], q.tool>>} ELSE saved
    /\ shown' = NoRequest /\ replies' = Tail(replies)
    /\ UNCHANGED <<up, kind, active, summing, runVars, asks, toScreen, said, forGood,
                   stopped>>

\* PermissionResponseMsg: Grant, GrantPersistant or Deny, then the dialog is
\* hidden, whichever request it shows by now. A second answer to a request
\* waits until the first was taken.
Responds ==
    /\ replies # <<>>
    /\ LET q == Head(replies).to
           a == Head(replies).action
       IN  /\ Pending(q) => inbox[q.run] = "empty"
           /\ inbox' = IF Pending(q)
                       THEN [inbox EXCEPT ![q.run] = IF a = "deny" THEN "no" ELSE "yes"]
                       ELSE inbox
           /\ saved' = IF a = "session" THEN saved \cup {<<sess[q.run], q.tool>>} ELSE saved
    /\ shown' = NoRequest /\ replies' = Tail(replies)
    /\ UNCHANGED <<up, kind, active, summing, runVars, asks, toScreen, said, forGood,
                   stopped>>

Next ==
    /\ up
    /\ \/ \E r \in Runs : Run(r) \/ RunStep(r)
       \/ \E s \in Sessions : Cancel(s) \/ Summarizes(s) \/ SummaryEnds(s)
       \/ Update
       \/ Shows \/ Loses \/ Decides \/ Responds

(***************************************************************************)
(* Fairness: the goroutines of the runs are scheduled, the services answer *)
(* or break off, tools return. Nothing is asked of the user nor of the     *)
(* way to the screen.                                                      *)
(***************************************************************************)
Spec == Init /\ [][Next]_vars /\ \A r \in Runs : WF_vars(up /\ RunStep(r))

-----------------------------------------------------------------------------
(* Properties. *)

Places == {"idle", "load", "loop", "stream", "check", "tools", "ask", "run", "over",
           "ended", "panicked"}
Live(r) == pc[r] \notin {"idle", "ended", "panicked"}

\* The variables keep their types (agent.go, permission.go).
TypeOK ==
    /\ up \in BOOLEAN /\ kind \in Kinds
    /\ active \in [Sessions -> Runs \cup {NoRun}]
    /\ summing \subseteq Sessions
    /\ pc \in [Runs -> Places]
    /\ sess \in [Runs -> Sessions]
    /\ ctx \in [Runs -> BOOLEAN]
    /\ round \in [Runs -> Nat]
    /\ stream \in [Runs -> Stream]
    /\ msg \in [Runs -> [calls : Answers, finish : Finishes]]
    /\ next \in [Runs -> Nat \ {0}]
    /\ results \in [Runs -> Seq(Results)]
    /\ asks \in [Runs -> Nat]
    /\ inbox \in [Runs -> {"empty", "yes", "no"}]
    /\ saved \subseteq Sessions \X Asking
    /\ toScreen \in Seq(Requests)
    /\ shown \in Requests \cup {NoRequest}
    /\ replies \in Seq([to : Requests, action : Actions])
    /\ said \in [Runs -> Nat]
    /\ forGood \subseteq Sessions \X Asking
    /\ stopped \subseteq Runs

\* A tool that asks runs only if the user said yes to this very request, or
\* to the same tool in the same session for good, however the requests of
\* several sessions overtake each other in the one dialog
\* (permission.go:52-108, dialog/permission.go:99-150, tui.go:275-289).
GrantedByUser ==
    \A r \in Runs : pc[r] = "run" /\ Tool(r) \in Asking =>
        \/ sess[r] \in AutoApproved
        \/ said[r] = asks[r]
        \/ <<sess[r], Tool(r)>> \in forGood

\* A session is refused with ErrSessionBusy only for the sake of a run of its
\* own that has not ended, whatever entry a run deletes at its end, or of one
\* that panicked: RecoverPanic of that one waits for a reader who does not come,
\* and only Cancel takes its entry away (agent.go:117-133, 203-228; see
\* SessionsAreFreed).
BusyIsLive ==
    \A s \in Sessions : Busy(s) =>
        /\ sess[active[s]] = s
        /\ Live(active[s]) \/ pc[active[s]] = "panicked"

\* After a denied permission the model is not asked again in this request,
\* though the loop over the tools goes on, whichever of the calls it was and
\* whatever the others come to (agent.go:264-301, 392-411). A tool of an MCP
\* server hides its denial, so nothing of the kind holds for it
\* (mcp-tools.go:102-104).
DenialEndsRequest ==
    [][\A r \in Runs : "denied" \in {results[r][k] : k \in DOMAIN results[r]} =>
           pc'[r] \notin {"loop", "stream"}]_vars

\* When the results go back to the model each call has exactly one, also
\* after a cancellation or a denial in their middle (agent.go:352-432).
EveryCallAnswered ==
    \A r \in Runs : pc[r] = "loop" /\ round[r] > 0 =>
        /\ DOMAIN results[r] = DOMAIN msg[r].calls
        /\ \A k \in DOMAIN results[r] : results[r][k] # "none"

\* A run that the user cancelled ends, unless it waits for a permission, which
\* does not look at the context, or the program has panicked
\* (agent.go:117-133, 265-279, 340-375).
CancelledRunEnds ==
    \A r \in Runs : r \in stopped ~> (pc[r] \in {"ended", "ask", "panicked"} \/ ~up)

-----------------------------------------------------------------------------
(* What the comments say and the code does not do. *)

\* logger.go:64-66: RecoverPanic handles panics gracefully, with a cleanup. The
\* cleanup of a run sends to a channel that nobody reads, and does not touch
\* the map: the entry of a run that panicked keeps its session busy.
SessionsAreFreed == \A s \in Sessions : Busy(s) => Live(active[s])

=============================================================================
