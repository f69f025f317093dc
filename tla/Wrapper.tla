------------------------------ MODULE Wrapper ------------------------------
(***************************************************************************)
(* The life of the three processes: the wrapper (bin/noiracoder.mjs)       *)
(* starts the engine ("motor"), waits until it answers, starts the screen  *)
(* in Go, and falls back to the screen in Node (Ink) when either fails.    *)
(* Each process may die at any moment, and the wrapper may be killed       *)
(* without a chance to clean up; the other two then notice by themselves.  *)
(*                                                                         *)
(* Unix, without privileges: a process whose parent dies is adopted by     *)
(* init, which the engine may not signal (EPERM), and takes for alive.     *)
(***************************************************************************)

CONSTANT NoParentWatch   \* NOIRA_NO_PARENT_WATCH, set by tests only

ASSUME WrapperAssumption == NoParentWatch \in BOOLEAN

VARIABLES
    wrapper,  \* waiting, running, fallback, exited, or killed
    motor,    \* booting, serving, closing or dead
    parent,   \* whom the engine watches: ppid, read once it serves
    screen,   \* none, starting, hung, connected or dead
    exit,     \* how the screen ended
    term,     \* who was sent SIGTERM
    young,    \* Date.now() - t0 < 3000
    watch     \* noClientWatch: off, armed, or kill (no client connected)

vars == <<wrapper, motor, parent, screen, exit, term, young, watch>>

Init ==
    /\ wrapper = "waiting"
    /\ motor = "booting" /\ parent = "unread"
    /\ screen = "none" /\ exit = "none"
    /\ term = {}
    /\ young = TRUE
    /\ watch = "off"

Gone == wrapper \in {"exited", "killed"}

\* Nothing is left of the processes that were started.
AllDead == motor = "dead" /\ screen \in {"none", "dead"}

-----------------------------------------------------------------------------
(* The wrapper. *)

\* /health answers: the screen is spawned, the watch over it armed.
Healthy ==
    /\ wrapper = "waiting" /\ motor = "serving"
    /\ wrapper' = "running" /\ screen' = "starting" /\ watch' = "armed"
    /\ UNCHANGED <<motor, parent, exit, term, young>>

\* The engine ended, or 100 polls went by (it may begin to serve right after
\* the last one).
StartupFails ==
    /\ wrapper = "waiting"
    /\ wrapper' = "fallback" /\ term' = term \cup {"motor"}
    /\ UNCHANGED <<motor, parent, screen, exit, young, watch>>

FallsBack ==
    \/ exit \in {"spawn error", "three"}
    \/ exit = "other" /\ young

\* await goGone, and what follows it.
ScreenGone ==
    /\ wrapper = "running" /\ screen = "dead"
    /\ wrapper' = IF FallsBack THEN "fallback" ELSE "exited"
    /\ term' = term \cup {"motor"}
    /\ watch' = "off"
    /\ UNCHANGED <<motor, parent, screen, exit, young>>

\* Faulty variant of MotorGone: Only a screen that is connected is ended with the engine.
MotorGoneConnected ==
    /\ wrapper = "running" /\ motor = "dead" /\ screen = "connected"
    /\ "screen" \notin term
    /\ term' = term \cup {"screen"}
    /\ UNCHANGED <<wrapper, motor, parent, screen, exit, young, watch>>

\* motorGone.then
MotorGone ==
    /\ wrapper = "running" /\ motor = "dead" /\ screen # "dead"
    /\ "screen" \notin term
    /\ term' = term \cup {"screen"}
    /\ UNCHANGED <<wrapper, motor, parent, screen, exit, young, watch>>

ThreeSeconds ==
    /\ wrapper = "running" /\ young
    /\ young' = FALSE
    /\ UNCHANGED <<wrapper, motor, parent, screen, exit, term, watch>>

\* Faulty variant of WatchAsks: The watch gives up when the engine says that nobody is connected.
WatchAsksOnly ==
    /\ wrapper = "running" /\ watch = "armed" /\ ~young /\ screen # "dead"
    /\ watch' = "off"
    /\ UNCHANGED <<wrapper, motor, parent, screen, exit, term, young>>

\* noClientWatch asks the engine who is connected.  A dead engine refuses,
\* and the watch leaves it at that.
WatchAsks ==
    /\ wrapper = "running" /\ watch = "armed" /\ ~young /\ screen # "dead"
    /\ watch' = IF motor = "serving" /\ screen # "connected" THEN "kill" ELSE "off"
    /\ UNCHANGED <<wrapper, motor, parent, screen, exit, term, young>>

\* Faulty variant of WatchKills: The watch starts Ink itself, without waiting for the screen to end.
WatchFallsBack ==
    /\ wrapper = "running" /\ watch = "kill"
    /\ watch' = "off" /\ term' = {"screen", "motor"}
    /\ wrapper' = "fallback"
    /\ UNCHANGED <<motor, parent, screen, exit, young>>

\* The answer was clientes = 0.
WatchKills ==
    /\ wrapper = "running" /\ watch = "kill"
    /\ watch' = "off" /\ term' = term \cup {"screen"}
    /\ UNCHANGED <<wrapper, motor, parent, screen, exit, young>>

\* Faulty variant of Signalled: The handler trusts the screen to end with the engine.
SignalledEngineOnly ==
    /\ wrapper = "running"
    /\ wrapper' = "exited"
    /\ term' = term \cup {"motor"}
    /\ watch' = "off"
    /\ UNCHANGED <<motor, parent, screen, exit, young>>

\* cleanBoth: SIGINT, SIGTERM and SIGHUP once the handlers are installed.
Signalled ==
    /\ wrapper = "running"
    /\ wrapper' = "exited"
    /\ term' = {"motor", "screen"}
    /\ watch' = "off"
    /\ UNCHANGED <<motor, parent, screen, exit, young>>

\* The user leaves Ink.
InkEnds ==
    /\ wrapper = "fallback" /\ wrapper' = "exited"
    /\ UNCHANGED <<motor, parent, screen, exit, term, young, watch>>

\* SIGKILL, or any signal before the handlers are installed.
Killed ==
    /\ wrapper \in {"waiting", "running", "fallback"}
    /\ wrapper' = "killed" /\ watch' = "off"
    /\ UNCHANGED <<motor, parent, screen, exit, term, young>>

-----------------------------------------------------------------------------
(* The engine: cli serve --thin. *)

\* startThinServer listens, and only then process.ppid is read.
Listens ==
    /\ motor = "booting"
    /\ motor' = "serving" /\ parent' = IF Gone THEN "init" ELSE "wrapper"
    /\ UNCHANGED <<wrapper, screen, exit, term, young, watch>>

\* The check of every 15 s.
ParentWatch ==
    /\ motor = "serving" /\ ~NoParentWatch
    /\ parent = "wrapper" /\ Gone
    /\ motor' = "closing"
    /\ UNCHANGED <<wrapper, parent, screen, exit, term, young, watch>>

\* server.close() waits for the event stream, then process.exit(0).
Closed ==
    /\ motor = "closing" /\ screen # "connected"
    /\ motor' = "dead"
    /\ UNCHANGED <<wrapper, parent, screen, exit, term, young, watch>>

\* The engine takes no signal: SIGTERM ends it.
MotorTerminated ==
    /\ motor # "dead" /\ "motor" \in term
    /\ motor' = "dead"
    /\ UNCHANGED <<wrapper, parent, screen, exit, term, young, watch>>

MotorDies ==
    /\ motor # "dead"
    /\ motor' = "dead"
    /\ UNCHANGED <<wrapper, parent, screen, exit, term, young, watch>>

-----------------------------------------------------------------------------
(* The screen: cmd/noira-thin. *)

Ends(code) ==
    /\ screen' = "dead" /\ exit' = code
    /\ UNCHANGED <<wrapper, motor, parent, term, young, watch>>

Connects ==
    /\ screen = "starting" /\ motor = "serving"
    /\ screen' = "connected"
    /\ UNCHANGED <<wrapper, motor, parent, exit, term, young, watch>>

\* It hangs before tea takes over.
Hangs ==
    /\ screen = "starting"
    /\ screen' = "hung"
    /\ UNCHANGED <<wrapper, motor, parent, exit, term, young, watch>>

\* It never started; 3, the engine does not answer or speaks another
\* protocol; another code; or a signal.
ScreenFails ==
    /\ screen \in {"starting", "hung", "connected"}
    /\ \E code \in {"spawn error", "three", "other", "signal"} :
         /\ code = "spawn error" => screen = "starting"
         /\ code = "three" => screen # "connected"
         /\ Ends(code)

\* The user, a fatal error of the engine, or WatchParent every 5 s.
Quits == screen = "connected" /\ Ends("zero")

\* Faulty variant of WatchParent: The screen does not watch its parent, and the engine waits for it.
WatchParentOff == screen = "connected" /\ wrapper = "exited" /\ Ends("zero")

WatchParent == screen = "connected" /\ Gone /\ Ends("zero")

\* tea turns SIGTERM into a quit; before that, the signal kills.
ScreenTerminated ==
    /\ screen \in {"starting", "hung", "connected"} /\ "screen" \in term
    /\ Ends(IF screen = "connected" THEN "zero" ELSE "signal")

-----------------------------------------------------------------------------
Next ==
    \/ Healthy \/ StartupFails \/ ScreenGone \/ MotorGone
    \/ ThreeSeconds \/ WatchAsks \/ WatchKills
    \/ Signalled \/ InkEnds \/ Killed
    \/ Listens \/ ParentWatch \/ Closed \/ MotorTerminated \/ MotorDies
    \/ Connects \/ Hangs \/ ScreenFails \/ Quits \/ WatchParent \/ ScreenTerminated

(***************************************************************************)
(* Timers run, signals arrive and node reports exits.  Nothing is assumed  *)
(* of the user, nor that the engine ever boots or the screen ever connects.*)
(***************************************************************************)
Fairness ==
    /\ WF_vars(Healthy \/ StartupFails)
    /\ WF_vars(ScreenGone) /\ WF_vars(MotorGone)
    /\ WF_vars(ThreeSeconds) /\ WF_vars(WatchAsks) /\ WF_vars(WatchKills)
    /\ WF_vars(ParentWatch) /\ WF_vars(Closed) /\ WF_vars(MotorTerminated)
    /\ WF_vars(WatchParent) /\ WF_vars(ScreenTerminated)

Spec == Init /\ [][Next]_vars /\ Fairness

-----------------------------------------------------------------------------
(* Properties *)

\* The variables keep their types; the wrapper waits only before it has
\* spawned a screen (188-190, 216), and a screen has a code when it ended.
TypeOK ==
    /\ wrapper \in {"waiting", "running", "fallback", "exited", "killed"}
    /\ motor \in {"booting", "serving", "closing", "dead"}
    /\ parent \in {"unread", "wrapper", "init"}
    /\ screen \in {"none", "starting", "hung", "connected", "dead"}
    /\ exit \in {"none", "zero", "three", "other", "signal", "spawn error"}
    /\ term \subseteq {"motor", "screen"}
    /\ young \in BOOLEAN
    /\ watch \in {"off", "armed", "kill"}
    /\ wrapper = "waiting" => screen = "none"
    /\ exit # "none" <=> screen = "dead"

\* Two screens never paint on one terminal: Ink starts only when the screen
\* in Go is gone, with its watch cleared and the engine told to end (195-213,
\* 261-285), whatever killed it.
InkAlone ==
    wrapper = "fallback" =>
        /\ screen \in {"none", "dead"} /\ watch = "off"
        /\ "motor" \in term

\* A wrapper that leaves by itself, or by a signal it handles, takes engine
\* and screen with it (227-237, 263; "Sin huérfanos", docs/PROTOCOL.md:30).
ExitLeavesNothing == wrapper = "exited" ~> AllDead

\* A wrapper that is killed leaves no engine behind that had read its pid:
\* engine and screen notice, the engine after the screen let go of the
\* stream (cli.ts:274-316, parentwatch_unix.go).
NoOrphanEngine ==
    wrapper = "killed" /\ motor = "serving" /\ parent = "wrapper" ~> motor = "dead"

\* The user gets a screen, or is back at the prompt: an engine that does not
\* boot and a screen that hangs end in the fallback or in an exit (183-213,
\* 245-258).
OneScreenComesUp ==
    wrapper = "waiting" ~> screen = "connected" \/ wrapper \in {"fallback", "exited", "killed"}

\* A screen whose engine died does not stay on the terminal (260).
EngineDeathEndsAll ==
    wrapper = "running" /\ motor = "dead" ~> wrapper # "running"
=============================================================================
