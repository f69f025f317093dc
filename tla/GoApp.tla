-------------------------------- MODULE GoApp --------------------------------
(***************************************************************************)
(* The life of the Go program: the goroutines that start a language server *)
(* each, watch the workspace for it and start it again after a panic, the  *)
(* subscriptions that carry the events of the services to the screen, and  *)
(* the end of the program, which waits for them (cmd/root.go,              *)
(* internal/app, the requests of internal/lsp).                            *)
(*                                                                         *)
(* A request to a server is over when it is answered, or cannot be         *)
(* written; it looks at no context, so that a server that is killed or     *)
(* hangs while it is asked is waited for without end.                      *)
(***************************************************************************)
EXTENDS Naturals, FiniteSets

CONSTANTS
    Servers,      \* the language servers of the settings
    TypeScript,   \* those that are asked in another way whether they are ready
    Services,     \* the services whose events go to the screen
    NoServer,
    MaxPanics     \* bound: the panics of a watcher

ASSUME AppAssumption ==
    TypeScript \subseteq Servers /\ NoServer \notin Servers /\ MaxPanics \in Nat

VARIABLES
    main,       \* where the main goroutine is
    ending,     \* which call of Shutdown this is: 1 by cleanup, 2 by defer
    clients,    \* LSPClients
    toAsk,      \* the copy of it that Shutdown goes through
    asking,     \* the server that Shutdown asks
    job,        \* where the goroutine of each server is
    proc,       \* its process
    bound,      \* the processes started under the context of a watcher
    asked,      \* the servers that are asked something by their goroutine
    counted,    \* watcherWG
    cancels,    \* watcherCancelFuncs
    cancelled,  \* the contexts of watchers that are cancelled
    early,      \* history: those that could be when Shutdown was last called
    panics,
    writer,     \* the goroutines of the subscriptions
    feed,       \* the channel they write to, and the goroutine that reads it
    reading     \* a tool goes through LSPClients

appVars == <<main, ending, clients, toAsk, asking, job, proc, bound, asked, counted, cancels,
             cancelled, early, panics, writer, feed, reading>>

\* Shutdown runs a second time when RunE returns; without a screen only then.
AppInit ==
    /\ main = "runs" /\ ending \in {1, 2}
    /\ clients = {} /\ toAsk = {} /\ asking = NoServer
    /\ job = [n \in Servers |-> "new"]
    /\ proc = [n \in Servers |-> "none"] /\ bound = {} /\ asked = {}
    /\ counted = {} /\ cancels = {} /\ cancelled = {} /\ early = {}
    /\ panics = 0
    /\ writer = [v \in Services |-> IF ending = 1 THEN "waits" ELSE "off"]
    /\ feed = IF ending = 1 THEN "open" ELSE "off"
    /\ reading = FALSE

Moves(n, where) == job' = [job EXCEPT ![n] = where]
Told(n) == asked' = asked \ {n}

\* The program is there, and its goroutines with it.
Alive == main \notin {"ended", "crashed"}

StartVars == <<bound, counted, cancels, cancelled, clients, main, panics>>
EndVars == <<ending, toAsk, asking, early, writer, feed, reading>>

\* LSPClients is written with its lock, which a tool that goes through it does
\* not take: the program may end with a concurrent map iteration and write.
MapWritten(new) ==
    /\ clients' = new
    /\ (main' = main) \/ (reading /\ main' = "crashed")

-----------------------------------------------------------------------------
(* The goroutine of a server. *)

\* The process of a server that is started again ends with the context of its
\* watcher.
Restarted(n) == n \in counted

\* NewClient: with a context that is over, or a command that is not there,
\* nothing is started.
NewClient(n) ==
    /\ job[n] = "new"
    /\ \/ /\ n \notin cancelled
          /\ proc' = [proc EXCEPT ![n] = "up"] /\ Moves(n, "initializing")
          /\ bound' = IF Restarted(n) THEN bound \cup {n} ELSE bound
          /\ UNCHANGED counted
       \/ Moves(n, "off") /\ counted' = counted \ {n} /\ UNCHANGED <<proc, bound>>
    /\ UNCHANGED <<asked, cancels, cancelled, clients, main, panics, EndVars>>

\* Call: the request is written, or cannot be. A ping that cannot is followed
\* by the next one.
Call(n) ==
    /\ job[n] \in {"initializing", "pinging", "shutting"} /\ n \notin asked
    /\ \/ proc[n] # "dead" /\ asked' = asked \cup {n} /\ UNCHANGED <<job, counted>>
       \/ /\ proc[n] = "dead" /\ UNCHANGED asked
          /\ \/ job[n] = "initializing" /\ Moves(n, "off") /\ counted' = counted \ {n}
             \/ job[n] = "shutting" /\ Moves(n, "new") /\ UNCHANGED counted
    /\ UNCHANGED <<bound, cancels, cancelled, clients, main, panics, proc, EndVars>>

Answered(n) == n \in asked /\ proc[n] = "up" /\ Told(n)

\* InitializeLSPClient: after an error the process is ended.
Initialized(n) ==
    /\ job[n] = "initializing" /\ Answered(n)
    /\ \/ Moves(n, "pinging") /\ UNCHANGED <<proc, counted>>
       \/ Moves(n, "off") /\ counted' = counted \ {n} /\ proc' = [proc EXCEPT ![n] = "dead"]
    /\ UNCHANGED <<bound, cancels, cancelled, clients, main, panics, EndVars>>

\* WaitForServerReady: an answer, or an error and the next tick.
\* pingTypeScriptServer holds openFilesMu after an error while it opens a
\* file, which takes the same lock, unless a file that is open is answered
\* for, or there is no file to open.
Pinged(n) ==
    /\ job[n] = "pinging" /\ Answered(n)
    /\ \/ Moves(n, "adding")
       \/ n \notin TypeScript /\ UNCHANGED job
       \/ n \in TypeScript /\ Moves(n, "locked")
    /\ UNCHANGED <<StartVars, proc, EndVars>>

\* The 30 s are over, or the context is: the client is used all the same.
GivesUp(n) ==
    /\ job[n] = "pinging" /\ n \notin asked /\ Moves(n, "adding")
    /\ UNCHANGED <<StartVars, proc, asked, EndVars>>

\* The context of the watcher can be cancelled from here on ...
AddsCancel(n) ==
    /\ job[n] = "adding"
    /\ cancels' = cancels \cup {n} /\ Moves(n, "joining")
    /\ UNCHANGED <<bound, counted, cancelled, clients, main, panics, proc, asked, EndVars>>

\* ... and from here on it is waited for. Who is started again is waited for
\* since it was first started.
Joins(n) ==
    /\ job[n] = "joining"
    /\ counted' = counted \cup {n} /\ Moves(n, "watching")
    /\ MapWritten(clients \cup {n})
    /\ UNCHANGED <<bound, cancels, cancelled, panics, proc, asked, EndVars>>

\* WatchWorkspace ends with its context.
WatcherStops(n) ==
    /\ job[n] = "watching" /\ n \in cancelled
    /\ Moves(n, "off") /\ counted' = counted \ {n}
    /\ UNCHANGED <<bound, cancels, cancelled, clients, main, panics, proc, asked, EndVars>>

\* restartLSPClient, after a panic: the old client is asked to shut down, and
\* another one is made.
WatcherPanics(n) ==
    /\ job[n] = "watching" /\ panics < MaxPanics /\ panics' = panics + 1
    /\ MapWritten(clients \ {n}) /\ Moves(n, "shutting")
    /\ UNCHANGED <<bound, counted, cancels, cancelled, proc, asked, EndVars>>

OldClientShut(n) ==
    /\ job[n] = "shutting" /\ Answered(n) /\ Moves(n, "new")
    /\ UNCHANGED <<StartVars, proc, EndVars>>

-----------------------------------------------------------------------------
(* What the code has no part in. *)

ProcessFails(n) ==
    /\ proc[n] = "up" /\ \E how \in {"dead", "hung"} : proc' = [proc EXCEPT ![n] = how]
    /\ UNCHANGED <<StartVars, job, asked, EndVars>>

\* A tool of the agent: for every client, without the lock.
ToolReads ==
    /\ main = "runs" /\ reading' = ~reading
    /\ UNCHANGED <<StartVars, job, proc, asked, ending, toAsk, asking, early, writer, feed>>

-----------------------------------------------------------------------------
(* The events on their way to the screen. *)

JobVars == <<clients, job, proc, bound, asked, counted, cancels, cancelled, early, panics, reading>>

\* setupSubscriber: an event is taken, and passed on or dropped after 2 s.
Takes(v) ==
    /\ writer[v] = "waits" /\ main \in {"runs", "waits", "asks"}
    /\ writer' = [writer EXCEPT ![v] = "holds"]
    /\ UNCHANGED <<JobVars, main, ending, toAsk, asking, feed>>

PassesOn(v) ==
    /\ writer[v] = "holds" /\ feed # "closed"
    /\ writer' = [writer EXCEPT ![v] = "waits"]
    /\ UNCHANGED <<JobVars, main, ending, toAsk, asking, feed>>

\* Its context is over, or the channel is closed: a panic, that is recovered.
WriterEnds(v) ==
    /\ writer[v] \in {"waits", "holds"} /\ main \in {"closing", "leaving"}
    /\ writer' = [writer EXCEPT ![v] = "off"]
    /\ UNCHANGED <<JobVars, main, ending, toAsk, asking, feed>>

\* The message handler ends with its context, or with the channel.
FeedEnds ==
    /\ feed = "closed" /\ feed' = "off"
    /\ UNCHANGED <<JobVars, main, ending, toAsk, asking, writer>>

-----------------------------------------------------------------------------
(* The end. *)

\* Faulty variant of Cancelled: the watchers are not told.
CancelledNone(watchers) == UNCHANGED <<cancelled, proc>>

\* Every context that can be cancelled is. With the context of its watcher
\* the process of a server that was started again is killed.
Cancelled(watchers) ==
    /\ cancelled' = watchers
    /\ proc' = [n \in Servers |-> IF n \in watchers \cap bound /\ proc[n] # "none" THEN "dead" ELSE proc[n]]

Shutdown ==
    /\ main = "runs" \/ (main = "leaving" /\ feed = "off")
    /\ main' = "waits" /\ ending' = IF main = "leaving" THEN 2 ELSE ending
    /\ Cancelled(cancels) /\ early' = cancels
    /\ UNCHANGED <<clients, toAsk, asking, job, bound, asked, counted, cancels, panics, writer, feed, reading>>

\* The watchers are waited for, and the map is copied.
Waited ==
    /\ main = "waits" /\ counted = {}
    /\ main' = "asks" /\ toAsk' = clients
    /\ UNCHANGED <<JobVars, ending, asking, writer, feed>>

\* One client after the other is asked to shut down; one that cannot be
\* written to is not waited for.
AsksClient ==
    /\ main = "asks" /\ asking = NoServer
    /\ \E n \in toAsk :
           toAsk' = toAsk \ {n} /\ asking' = IF proc[n] = "dead" THEN NoServer ELSE n
    /\ UNCHANGED <<JobVars, main, ending, writer, feed>>

ClientShut ==
    /\ asking # NoServer /\ proc[asking] = "up" /\ asking' = NoServer
    /\ UNCHANGED <<JobVars, main, ending, toAsk, writer, feed>>

\* cleanup: cancelSubs, tuiCancel and the wait for the message handler.
AllAsked ==
    /\ main = "asks" /\ toAsk = {} /\ asking = NoServer
    /\ main' = IF ending = 1 THEN "closing" ELSE "ended"
    /\ UNCHANGED <<JobVars, ending, toAsk, asking, writer, feed>>

\* All subscriptions have ended, or 5 s have passed.
SubscriptionsClosed ==
    /\ main = "closing" /\ main' = "leaving" /\ feed' = "closed"
    /\ UNCHANGED <<JobVars, ending, toAsk, asking, writer>>

JobStep(n) ==
    \/ NewClient(n) \/ Call(n) \/ Initialized(n) \/ Pinged(n) \/ AddsCancel(n)
    \/ Joins(n) \/ WatcherStops(n) \/ OldClientShut(n)

MainStep == Waited \/ AsksClient \/ ClientShut \/ AllAsked \/ SubscriptionsClosed
LeaveStep == main = "leaving" /\ Shutdown

AppNext ==
    /\ Alive
    /\ \/ \E n \in Servers : JobStep(n) \/ GivesUp(n) \/ WatcherPanics(n) \/ ProcessFails(n)
       \/ \E v \in Services : Takes(v) \/ PassesOn(v) \/ WriterEnds(v)
       \/ ToolReads \/ FeedEnds \/ Shutdown \/ MainStep

\* The goroutines run, the 30 s pass, and servers that are up answer. Nothing
\* is assumed of the user, or of servers that hang.
AppFairness ==
    /\ WF_appVars(Alive /\ (MainStep \/ LeaveStep)) /\ WF_appVars(Alive /\ FeedEnds)
    /\ \A n \in Servers : /\ WF_appVars(Alive /\ JobStep(n))
                          /\ SF_appVars(Alive /\ GivesUp(n))

-----------------------------------------------------------------------------
(* Properties. *)

Unanswered(n) == n \in asked /\ proc[n] # "up"

\* What the end of the program may wait for without end.
NeverEnds ==
    \/ main = "waits" /\ \E n \in counted :
           \/ job[n] = "watching" /\ n \notin early   \* it joined after Shutdown had cancelled
           \/ Unanswered(n)                          \* it is started again, or was to shut down
           \/ job[n] = "locked"
    \/ asking # NoServer /\ proc[asking] # "up"

\* Whoever quits gets out: the watchers, their restarts, the shutdown of the
\* servers and the subscriptions are waited for one after the other, by two
\* calls of Shutdown, and none of them holds the program up but a watcher that
\* begins between the cancellation and the wait, a server that does not answer
\* (the 5 s of its context are not looked at), and the lock that
\* pingTypeScriptServer takes twice (root.go:126-147, app.go:162-186,
\* lsp.go:30-126, transport.go:186-240, client.go:413-460).
ProgramEnds == main = "waits" ~> (~Alive \/ NeverEnds)

=============================================================================
