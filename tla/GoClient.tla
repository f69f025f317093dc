------------------------------ MODULE GoClient ------------------------------
(***************************************************************************)
(* The thin screen in Go (internal/thinclient): its Model, that keys, the  *)
(* events of the engine and timers update one after the other, and its     *)
(* goroutines, that send the POSTs and write into the same Model when the  *)
(* answer comes. The engine is what ThinServer describes, cut down to what *)
(* the screen sees of it.                                                  *)
(*                                                                         *)
(* Text is told apart by what becomes of it. Painting, but for the dialog  *)
(* that is painted, scrolling, history, language, level and mode are left  *)
(* out. The index of the panel counts    *)
(* from 1, and is 0 where there is nothing. Which session is shown is left *)
(* out as well.                                                            *)
(***************************************************************************)
EXTENDS Naturals, FiniteSets, Sequences, SequencesExt, FiniteSetsExt

CONSTANTS
    Sessions,   \* bound: the sessions of the engine
    None,       \* no turn, no session, no dialog
    MaxTurns,   \* bound: the turns of the engine
    MaxAsks,    \* bound: the dialogs that it asks for
    MaxEvents,  \* bound: the events on their way when the engine asks or titles
    MaxKeys,    \* bound: the keys and clicks, before the user wants to leave
    MaxPosts    \* bound: the goroutines at a time

ASSUME ClientAssumption == None \notin Sessions

VARIABLES
    m,         \* the Model of the screen
    posts,     \* the goroutines that have sent a request
    keys,      \* the keys that the user presses before he wants to leave
    engine,    \* the engine: its turn, what it asks, its sessions
    events,    \* the stream of events on its way to the screen
    said,      \* history: what the user has answered, and whether he saw it
    obeyed,    \* history: what the engine did because of it
    missed     \* history: the turns whose end came when the screen did not wait for it

clientVars == <<m, posts, keys, engine, events, said, obeyed, missed>>

Tool(c) == [kind |-> "tool", of |-> c]
Delsess(s) == [kind |-> "delsess", of |-> s]
Logout == [kind |-> "logout", of |-> 0]
Ask(c) == [kind |-> "ask", of |-> c]
Local(k) == [kind |-> k, of |-> 0]
Event(n, a) == [name |-> n, arg |-> a]

\* Before the first event comes the user has queued a task. Bound: either there
\* are sessions, or he has gone to connect the services one after the other.
ClientInit ==
    /\ \E start \in {[list |-> SetToSeq(Sessions), wizard |-> None], [list |-> <<>>, wizard |-> 1]} :
           /\ m = [turn |-> None, thinking |-> FALSE, confirm |-> None, options |-> None,
                   form |-> start.wizard # None, wizard |-> start.wizard, deploy |-> FALSE, input |-> "empty",
                   open |-> TRUE, focus |-> FALSE, renaming |-> FALSE, items |-> <<>>, idx |-> 0,
                   filter |-> "", pending |-> None, quit |-> FALSE]
           /\ engine = [turn |-> None, cancelled |-> FALSE, asks |-> {}, turns |-> 0, asked |-> 0,
                        queued |-> 1, sessions |-> start.list, stream |-> "open"]
    /\ posts = {} /\ keys = MaxKeys
    /\ events = <<Event("hello", None)>>
    /\ said = {} /\ obeyed = {} /\ missed = {}

Up == engine.stream = "open"
Becomes(mm) == m' = mm
Sends(p) == posts' = posts \cup {p}
Post(kind, of) == [kind |-> kind, of |-> of, step |-> "sent"]
Quiet == UNCHANGED <<posts, said, obeyed, engine, events>>

\* What View may paint as the dialog: the menu of commands, where one matches,
\* over the options, and these over the confirmation; or none, in a window too
\* narrow for more than the panel. The user may resize it at any time.
Painted(mm) ==
    (IF mm.open THEN {None} ELSE {}) \cup
    (IF mm.input = "slash" THEN {Local("slash")} ELSE {}) \cup
    {IF mm.options # None THEN mm.options ELSE mm.confirm}

\* The user answers the dialog d of the Model while View paints this.
Answered(d, painted) == [dialog |-> d, seen |-> painted = d]
Says(d, painted) == said' = said \cup {Answered(d, painted)}

-----------------------------------------------------------------------------
(* Parts of Update. *)

\* refreshPanel: the sessions of the engine; the index stays where it is.
Refreshed(mm, list) ==
    LET items == IF Up THEN list ELSE mm.items
    IN  [mm EXCEPT !.items = items,
                   !.idx = CASE @ > Len(items) -> Len(items)
                             [] @ = 0 /\ items # <<>> -> 1
                             [] OTHER -> @]

\* panelFiltered: a filter matches the session of its name.
PanelFiltered(mm) ==
    IF mm.filter = "" THEN mm.items ELSE SelectSeq(mm.items, LAMBDA s : s = mm.filter)

\* openSession; the engine may refuse.
OpenSession(mm) ==
    \/ Up /\ Becomes(Refreshed(mm, engine.sessions))
    \/ Becomes(mm)

NewSession(mm) == Refreshed(mm, engine.sessions)

\* PatchSession: the sessions are listed in another order.
Reorders == engine' = [engine EXCEPT !.sessions = Reverse(@)]

\* panelEnter: what is selected is opened. A rename goes to whatever is
\* selected when it is confirmed.
PanelEnter(mm) ==
    LET items == PanelFiltered(mm)
        done  == [mm EXCEPT !.renaming = FALSE, !.input = "empty"]
    IN  \/ /\ mm.renaming /\ mm.input # "empty" /\ mm.idx \in DOMAIN items /\ Up
           /\ Reorders /\ Becomes(Refreshed(done, Reverse(engine.sessions)))
           /\ UNCHANGED <<posts, said, obeyed, events>>
        \/ /\ mm.renaming
           /\ mm.input = "empty" \/ mm.idx \notin DOMAIN items \/ ~Up
           /\ Becomes(done) /\ Quiet
        \/ /\ ~mm.renaming /\ mm.idx \notin DOMAIN items
           /\ Becomes(NewSession(mm)) /\ Quiet
        \/ /\ ~mm.renaming /\ mm.idx \in DOMAIN items
           /\ OpenSession(mm) /\ Quiet

\* A goroutine starts, and the screen thinks.
Starts(mm, p) == Becomes([mm EXCEPT !.thinking = TRUE]) /\ Sends(p)
                 /\ UNCHANGED <<said, obeyed, engine, events>>

\* A goroutine of a kind that may run more than once.
Job(kind) == Post(kind, Cardinality({p \in posts : p.kind = kind}))

\* The connections to choose from, if the engine has any to list.
ShowConnections(mm) == (Becomes([mm EXCEPT !.options = Local("connect")]) \/ Becomes(mm)) /\ Quiet

\* /help, /sessions, /resume, /new, /plan, /build, /connections: the session
\* that is shown, the mode and what is painted are left out.
Shows(mm) == Becomes(mm) /\ Quiet

\* /undo, /redo
Undoes(mm) == (Becomes(Refreshed(mm, engine.sessions)) \/ Becomes(mm)) /\ Quiet

\* /later
QueueAdd(mm) ==
    /\ Up /\ engine.queued = 0 /\ engine' = [engine EXCEPT !.queued = 1]
    /\ Becomes(mm) /\ UNCHANGED <<posts, said, obeyed, events>>

ShowLevels(mm) == Becomes([mm EXCEPT !.options = Local("level")]) /\ Quiet
AsksLogout(mm) == Becomes([mm EXCEPT !.confirm = Logout]) /\ Quiet
DoLogin(mm) == Starts(mm, Job("login"))
Deploy(mm) == Starts([mm EXCEPT !.deploy = TRUE], Job("deploy"))
CustomCommand(mm) == Up /\ Starts(mm, Job("turn"))

\* handleCommand
Command(mm) ==
    \/ Becomes([mm EXCEPT !.quit = TRUE]) /\ Quiet      \* /quit
    \/ Shows(mm)
    \/ Undoes(mm)
    \/ ShowConnections(mm)
    \/ ShowLevels(mm)
    \/ AsksLogout(mm)
    \/ DoLogin(mm)
    \/ Deploy(mm)
    \/ CustomCommand(mm)
    \/ QueueAdd(mm)

\* doEnter. A prompt for a key takes the text before a command does.
DoEnter(mm) ==
    LET read == [mm EXCEPT !.input = "empty"]
        panel == mm.focus /\ mm.turn = None
    IN  \/ panel /\ PanelEnter(mm)
        \/ ~panel /\ (mm.input = "empty" \/ mm.turn # None) /\ Becomes(mm) /\ Quiet
        \/ /\ ~panel /\ mm.input # "empty" /\ mm.turn = None
           /\ \/ mm.form /\ Starts([read EXCEPT !.form = FALSE],
                                   [Job("connect") EXCEPT !.step = IF mm.wizard = None THEN "sent" ELSE "wizard"])
              \/ ~mm.form /\ mm.input \in {"slash", "command"} /\ Command(read)
              \/ ~mm.form /\ mm.input = "connect" /\ ShowConnections(read)
              \/ ~mm.form /\ mm.input = "text" /\ Starts(read, Job("turn"))

\* resolveOptionsLocal. startWizard asks for the key of the first provider.
ResolveOptions(mm, cancel, painted) ==
    LET o == mm.options
        closed == [mm EXCEPT !.options = None]
    IN  \/ /\ o.kind = "ask"
           /\ Becomes(closed) /\ Sends(Post("options", o.of))
           /\ Says(o, painted)
           /\ UNCHANGED <<obeyed, engine, events>>
        \/ /\ (o.kind # "ask" /\ cancel) \/ (o.kind = "level" /\ ~cancel)
           /\ Becomes(closed) /\ Quiet
        \/ /\ ~cancel /\ o.kind = "followup"
           /\ Becomes([closed EXCEPT !.input = "text"]) /\ Quiet
        \/ /\ ~cancel /\ o.kind = "connect"
           /\ \E wizard \in {mm.wizard, 1} : Becomes([closed EXCEPT !.form = TRUE, !.wizard = wizard])
           /\ Quiet
        \/ /\ ~cancel /\ o.kind = "welcome"
           /\ \/ Becomes(closed) /\ Quiet
              \/ DoEnter([closed EXCEPT !.input = "connect"])

-----------------------------------------------------------------------------
(* Keys. Which part of the screen takes a key is asked in the order of     *)
(* Update: the panel, the menu of commands, the dialogs, the rest.         *)

Letters == {"n", "a", "f", "d", "r", "y", "x", "/"}   \* x: any other
Digits == {"1"}
Arrows == {"up", "down"}
Keys == Letters \cup Digits \cup Arrows \cup {"enter", "return", "esc", "back", "tab", "ctrl+c", "ctrl+b", "ctrl+k"}

Runes(k) == k \in Letters \cup Digits
Dialog(mm) == mm.confirm # None \/ mm.options # None
ForDialogs == {"y", "n", "esc", "enter"} \cup Arrows \cup Digits

\* A key that answers a dialog takes the focus from the panel.
Unfocused(mm, k) ==
    IF Dialog(mm) /\ mm.focus /\ k \in ForDialogs THEN [mm EXCEPT !.focus = FALSE] ELSE mm

\* The generation of the code grows whenever a letter stops waiting, so that
\* a timer acts only on the letter that set it: the letter is the timer.
Unpended(mm) == [mm EXCEPT !.pending = None]

\* appendFilter: it matches one session, or none.
AppendFilter(mm) ==
    {[mm EXCEPT !.filter = f, !.idx = 1] : f \in IF mm.filter = "" THEN Sessions \cup {"none"} ELSE {"none"}}

InPanel(mm) == mm.focus /\ mm.confirm = None

\* A letter that waits belongs to the filter if another key comes, and is
\* dropped with Esc.
Flushed(mm, k) ==
    IF InPanel(mm) /\ ~mm.renaming /\ mm.pending # None /\ ~Runes(k)
    THEN IF k = "esc" THEN {Unpended(mm)} ELSE AppendFilter(Unpended(mm))
    ELSE {mm}

PanelTakes(mm, k) ==
    /\ InPanel(mm)
    /\ IF mm.renaming THEN k = "esc" ELSE Runes(k) \/ k \in Arrows \cup {"back"}

\* handlePanelKey. A letter of a command waits for 500 ms.
PanelKey(mm, k) ==
    LET n == Len(PanelFiltered(mm))
    IN  \/ /\ mm.renaming
           /\ Becomes([mm EXCEPT !.renaming = FALSE, !.input = "empty"])
        \/ /\ ~mm.renaming /\ k = "up"
           /\ Becomes([mm EXCEPT !.idx = IF @ > 1 THEN @ - 1 ELSE @])
        \/ /\ ~mm.renaming /\ k = "down"
           /\ Becomes([mm EXCEPT !.idx = IF @ < n THEN @ + 1 ELSE @])
        \/ /\ ~mm.renaming /\ k = "back"
           /\ Becomes(IF mm.filter = "" THEN mm ELSE [mm EXCEPT !.filter = "", !.idx = 1])
        \/ /\ ~mm.renaming /\ Runes(k) /\ mm.pending # None
           /\ m' \in AppendFilter(Unpended(mm))
        \/ /\ ~mm.renaming /\ Runes(k) /\ mm.pending = None
           /\ IF k \in {"n", "a", "f", "d", "r"} /\ mm.filter = ""
              THEN Becomes([mm EXCEPT !.pending = k])
              ELSE m' \in AppendFilter(mm)

\* slashKey, slashPick: what is no command yet is completed, a command runs.
SlashTakes(mm, k) == mm.input = "slash" /\ k \in Arrows \cup Digits \cup {"enter", "esc"}
SlashKey(mm, k) ==
    \/ k \in {"enter"} \cup Digits /\ Becomes([mm EXCEPT !.input = "command"]) /\ Quiet
    \/ k = "enter" /\ DoEnter([mm EXCEPT !.input = "command"])
    \/ k = "esc" /\ Becomes([mm EXCEPT !.input = "command"]) /\ Quiet
    \/ k \in Arrows /\ Becomes(mm) /\ Quiet

\* Faulty variant of Deletes: the session that is selected when y is pressed.
DeletesSelected(mm) == IF mm.idx \in DOMAIN mm.items THEN mm.items[mm.idx] ELSE None

\* The session that DeleteSession names: that of the dialog.
Deletes(mm) == mm.confirm.of

\* The answer to the dialog of a confirmation, painted or not; other keys are
\* lost.
ConfirmKey(mm, k) ==
    LET c == mm.confirm
        closed == [mm EXCEPT !.confirm = None]
    IN  \/ /\ k \in {"y", "enter"} /\ c.kind = "tool"
           /\ Becomes(closed) /\ Sends(Post("yes", c.of))
           /\ \E painted \in Painted(mm) : Says(c, painted)
           /\ UNCHANGED <<obeyed, engine, events>>
        \/ /\ k \in {"y", "enter"} /\ c.kind = "logout"
           /\ Starts(closed, Job("logout"))
        \/ /\ k \in {"y", "enter"} /\ c.kind = "delsess"
           /\ \E painted \in Painted(mm) : Says(c, painted)
           /\ \/ /\ Up
                 /\ LET s    == Deletes(mm)
                        left == SelectSeq(engine.sessions, LAMBDA x : x # s)
                    IN  /\ engine' = [engine EXCEPT !.sessions = left]
                        /\ obeyed' = obeyed \cup {Delsess(s)}
                        /\ Becomes(Refreshed(closed, left))
              \/ Becomes(closed) /\ UNCHANGED <<engine, obeyed>>
           /\ UNCHANGED <<posts, events>>
        \/ /\ k \in {"n", "esc"}
           /\ Becomes(closed) /\ Sends(Post("no", c.of))
           /\ UNCHANGED <<said, obeyed, engine, events>>
        \/ /\ k \notin {"y", "enter", "n", "esc"}
           /\ Becomes(mm) /\ Quiet

\* Suggestions give way to what is typed.
GivesWay(mm, k) == mm.options.kind = "followup" /\ k \in Letters

OptionsKey(mm, k) ==
    \/ /\ k = "enter" /\ mm.options.kind = "followup" /\ mm.input # "empty"
       /\ DoEnter([mm EXCEPT !.options = None])
    \/ /\ k \in {"enter"} \cup Digits
       /\ ~(k = "enter" /\ mm.options.kind = "followup" /\ mm.input # "empty")
       /\ \E painted \in Painted(mm) : ResolveOptions(mm, FALSE, painted)
    \/ k = "esc" /\ \E painted \in Painted(mm) : ResolveOptions(mm, TRUE, painted)
    \/ k \notin {"enter", "esc"} \cup Digits /\ Becomes(mm) /\ Quiet

\* What is typed into the input.
Typed(mm, k) ==
    CASE k = "back" -> {"empty", mm.input}
      [] k = "/" /\ mm.input = "empty" -> {"slash"}
      [] Runes(k) /\ mm.input = "empty" -> {"text"}
      [] Runes(k) /\ mm.input = "slash" -> {"slash", "command"}
      [] OTHER -> {mm.input}

CtrlC(mm) ==
    \/ /\ mm.turn # None
       /\ Becomes(mm) /\ Sends(Post("cancel", mm.turn))
       /\ UNCHANGED <<said, obeyed, engine, events>>
    \/ /\ mm.turn = None /\ mm.deploy
       /\ Becomes([mm EXCEPT !.deploy = FALSE, !.thinking = FALSE]) /\ Sends(Post("deployCancel", 0))
       /\ UNCHANGED <<said, obeyed, engine, events>>
    \/ /\ mm.turn = None /\ ~mm.deploy
       /\ Becomes([mm EXCEPT !.quit = TRUE]) /\ Quiet

Tab(mm) ==
    LET free == mm.turn = None
        focus == free /\ mm.input # "slash" /\ mm.open
    IN  CASE free /\ mm.input = "slash" -> [Unpended(mm) EXCEPT !.input = "command"]
          [] focus -> [Unpended(mm) EXCEPT !.focus = ~@, !.filter = IF mm.focus THEN "" ELSE @]
          [] OTHER -> Unpended(mm)

CtrlB(mm) ==
    IF mm.open THEN [Unpended(mm) EXCEPT !.open = FALSE, !.focus = FALSE]
    ELSE Refreshed([Unpended(mm) EXCEPT !.open = TRUE], engine.sessions)

Esc(mm) ==
    CASE mm.focus -> [Unpended(mm) EXCEPT !.focus = FALSE, !.filter = ""]
      [] ~mm.focus /\ mm.form -> [mm EXCEPT !.form = FALSE, !.wizard = None]
      [] OTHER -> mm

MainKey(mm, k) ==
    \/ k = "enter" /\ DoEnter(mm)
    \/ k = "ctrl+c" /\ CtrlC(mm)
    \/ /\ Quiet
       /\ \/ k = "tab" /\ Becomes(Tab(mm))
          \/ k = "ctrl+b" /\ Becomes(CtrlB(mm))
          \/ k = "ctrl+k" /\ Becomes(IF mm.turn = None THEN [mm EXCEPT !.focus = FALSE, !.input = "slash"] ELSE mm)
          \/ k = "esc" /\ Becomes(Esc(mm))
          \/ \E t \in Typed(mm, k) :
                (Runes(k) \/ k \in Arrows \cup {"back"}) /\ Becomes([mm EXCEPT !.input = t])

\* Update of a key. "return" is a carriage return that the terminal sends as
\* a character: it passes by the dialogs.
KeyIn(mm, k) ==
    LET panel == PanelTakes(mm, k)
        slash == ~panel /\ SlashTakes(mm, k)
        confirm == ~panel /\ ~slash /\ mm.confirm # None
        options == ~panel /\ ~slash /\ ~confirm /\ mm.options # None /\ ~GivesWay(mm, k)
        given == IF mm.options # None /\ GivesWay(mm, k) THEN [mm EXCEPT !.options = None] ELSE mm
    IN  \/ panel /\ PanelKey(mm, k) /\ UNCHANGED <<posts, said, obeyed, engine, events>>
        \/ slash /\ SlashKey(mm, k)
        \/ confirm /\ ConfirmKey(mm, k)
        \/ options /\ OptionsKey(mm, k)
        \/ ~panel /\ ~slash /\ ~confirm /\ ~options /\ MainKey(given, k)

Key(k) ==
    /\ ~m.quit
    /\ \/ k = "return" /\ DoEnter(m)
       \/ k # "return" /\ \E mm \in Flushed(Unfocused(m, k), k) : KeyIn(mm, k)

\* handleMouse: a click passes by the dialogs.
Click ==
    /\ ~m.quit
    /\ \/ m.input = "slash" /\ Becomes([m EXCEPT !.input = "command"]) /\ Quiet
       \/ m.options # None /\ ResolveOptions(m, FALSE, m.options)
       \/ Becomes(NewSession(m)) /\ Quiet
       \/ Becomes(Refreshed([m EXCEPT !.idx = 1, !.focus = TRUE], engine.sessions)) /\ Quiet
       \/ m.items # <<>> /\ OpenSession([m EXCEPT !.focus = TRUE]) /\ Quiet
       \/ m.open /\ Becomes([m EXCEPT !.focus = TRUE]) /\ Quiet

\* panelTimeout: the letter was alone.
PanelTimeout ==
    /\ ~m.quit /\ m.pending # None
    /\ LET items == PanelFiltered(m)
           here  == m.idx \in DOMAIN items
           mm    == Unpended(m)
       IN  /\ Becomes(CASE m.pending = "n" -> NewSession(mm)
                        [] m.pending = "a" -> Refreshed([mm EXCEPT !.idx = 1], engine.sessions)
                        [] m.pending = "f" /\ here /\ Up -> Refreshed(mm, Reverse(engine.sessions))
                        [] m.pending = "d" /\ here -> [mm EXCEPT !.confirm = Delsess(items[m.idx])]
                        [] m.pending = "r" /\ here -> [mm EXCEPT !.renaming = TRUE, !.input = "text"]
                        [] OTHER -> mm)
           /\ IF m.pending = "f" /\ here /\ Up THEN Reorders ELSE UNCHANGED engine
    /\ UNCHANGED <<posts, said, obeyed, events>>

-----------------------------------------------------------------------------
(* Events, and the answers of the POSTs. *)

\* evErr: without a turn the screen ends.
Failed(mm) ==
    IF mm.turn = None /\ ~mm.thinking THEN [mm EXCEPT !.quit = TRUE]
    ELSE [mm EXCEPT !.thinking = FALSE, !.turn = None]

\* Faulty variant of Ended: the turn is kept.
EndedKept(mm) == [mm EXCEPT !.thinking = FALSE]

\* turn.end, turn.error: whichever turn it was.
Ended(mm) == [mm EXCEPT !.thinking = FALSE, !.turn = None]

\* onEvent. The names that are only painted are left out. The panel was left
\* open the last time; maybeWelcome asks where there is no session yet.
OnEvent ==
    /\ ~m.quit /\ events # <<>>
    /\ events' = Tail(events)
    /\ LET ev == Head(events)
       IN  \/ /\ ev.name = "hello"
              /\ \E o \in {None} \cup (IF engine.sessions = <<>> THEN {Local("welcome")} ELSE {}) :
                    Becomes(Refreshed([m EXCEPT !.options = IF o = None THEN @ ELSE o],
                                      engine.sessions))
           \/ ev.name = "turn.error" /\ Becomes(Ended(m))
           \/ ev.name = "turn.end" /\ Becomes(Refreshed(Ended(m), engine.sessions))
           \/ ev.name = "confirm.request" /\ Becomes([m EXCEPT !.confirm = Tool(ev.arg)])
           \/ ev.name = "options.request" /\ \E o \in {Ask(ev.arg), Local("followup")} :
                                                Becomes([m EXCEPT !.options = o])
           \/ ev.name = "session.updated" /\ Becomes(Refreshed(m, engine.sessions))
           \/ ev.name = "error" /\ Becomes(Failed(m))
    /\ missed' = LET ev == Head(events)
                 IN  IF ev.name \in {"turn.end", "error"} /\ ev.arg # m.turn THEN missed \cup {ev.arg} ELSE missed
    /\ UNCHANGED <<posts, said, obeyed, engine>>

\* sendTurn: the answer comes, perhaps after events of the turn.
TurnAnswered(p) ==
    /\ ~m.quit /\ p \in posts /\ p.kind = "turn" /\ p.step # "sent"
    /\ posts' = posts \ {p}
    /\ \/ p.step = "refused" /\ Becomes(Failed(m))
       \/ /\ p.step = "accepted"
          /\ Becomes([m EXCEPT !.turn = p.of])
    /\ UNCHANGED <<said, obeyed, engine, events>>

\* The goroutines of /connect, /login, /logout and /deploy end, the wizard
\* goes on or asks again.
JobEnds(p) ==
    /\ ~m.quit /\ p \in posts /\ p.kind \in {"connect", "login", "logout", "deploy"}
    /\ posts' = posts \ {p}
    /\ LET mm == [m EXCEPT !.thinking = FALSE]
           goes == p.step = "wizard" /\ m.wizard # None
       IN  \/ p.kind \in {"login", "logout"} /\ Becomes(mm)
           \/ p.kind = "deploy" /\ Becomes([mm EXCEPT !.deploy = FALSE])
           \/ p.kind = "connect" /\ ~goes /\ Becomes(mm)
           \/ p.kind = "connect" /\ goes /\ m.wizard = 0 /\ Becomes([mm EXCEPT !.wizard = None])
           \/ p.kind = "connect" /\ goes /\ m.wizard > 0 /\ Becomes([mm EXCEPT !.wizard = @ - 1, !.form = TRUE])
           \/ p.kind = "connect" /\ goes /\ Becomes([mm EXCEPT !.form = TRUE])
    /\ UNCHANGED <<said, obeyed, engine, events>>

-----------------------------------------------------------------------------
(* The engine. *)

Tells(evs) == Len(events) < MaxEvents /\ events' = events \o evs
Starting == [engine EXCEPT !.turn = engine.turns + 1, !.turns = @ + 1, !.cancelled = FALSE]

\* POST /v1/turn
EngineTurn(p) ==
    /\ p \in posts /\ p.kind = "turn" /\ p.step = "sent"
    /\ \/ /\ Up /\ engine.turn = None /\ engine.turns < MaxTurns
          /\ engine' = Starting
          /\ posts' = (posts \ {p}) \cup {[p EXCEPT !.step = "accepted", !.of = engine.turns + 1]}
       \/ posts' = (posts \ {p}) \cup {[p EXCEPT !.step = "refused"]} /\ UNCHANGED engine
    /\ UNCHANGED <<m, said, obeyed, events>>

EngineQueue ==
    /\ Up /\ engine.queued > 0 /\ engine.turn = None /\ engine.turns < MaxTurns
    /\ engine' = [Starting EXCEPT !.queued = 0]
    /\ UNCHANGED <<m, posts, said, obeyed, events>>

EngineAsks ==
    /\ Up /\ engine.asked < MaxAsks /\ (engine.turn # None \/ \E p \in posts : p.kind = "deploy")
    /\ engine' = [engine EXCEPT !.asked = @ + 1, !.asks = @ \cup {engine.asked + 1}]
    /\ \E n \in {"confirm.request", "options.request"} : Tells(<<Event(n, engine.asked + 1)>>)
    /\ UNCHANGED <<m, posts, said, obeyed>>

EngineTimesOut ==
    /\ \E c \in engine.asks : engine' = [engine EXCEPT !.asks = @ \ {c}]
    /\ UNCHANGED <<m, posts, said, obeyed, events>>

\* POST /v1/confirm, /v1/options: nothing waits for it any more, or it goes on.
EngineAnswer(p) ==
    /\ p \in posts /\ p.kind \in {"yes", "no", "options"}
    /\ posts' = posts \ {p}
    /\ IF Up /\ p.of \in engine.asks
       THEN /\ engine' = [engine EXCEPT !.asks = @ \ {p.of}]
            /\ obeyed' = CASE p.kind = "yes" -> obeyed \cup {Tool(p.of)}
                           [] p.kind = "options" -> obeyed \cup {Ask(p.of)}
                           [] p.kind = "no" -> obeyed
       ELSE UNCHANGED <<engine, obeyed>>
    /\ UNCHANGED <<m, said, events>>

\* POST /v1/cancel
EngineCancel(p) ==
    /\ p \in posts /\ p.kind \in {"cancel", "deployCancel"}
    /\ posts' = posts \ {p}
    /\ engine' = IF p.kind = "cancel" /\ p.of = engine.turn THEN [engine EXCEPT !.cancelled = TRUE] ELSE engine
    /\ UNCHANGED <<m, said, obeyed, events>>

EngineEnds ==
    /\ Up /\ engine.turn # None
    /\ engine' = [engine EXCEPT !.turn = None, !.asks = {}]
    /\ \E evs \in {<<Event("turn.end", engine.turn)>>,
                 <<Event("turn.error", engine.turn), Event("turn.end", engine.turn)>>} :
           events' = events \o evs
    /\ UNCHANGED <<m, posts, said, obeyed>>

\* A title, or an edit elsewhere, changes the order of the sessions.
EngineTitles ==
    /\ Up /\ Len(engine.sessions) > 1 /\ engine.turns > 0
    /\ ~\E i \in DOMAIN events : events[i].name = "session.updated"
    /\ Reorders /\ Tells(<<Event("session.updated", None)>>)
    /\ UNCHANGED <<m, posts, said, obeyed>>

\* The stream breaks: the engine is gone, or gives up what it did for it.
EngineGone ==
    /\ Up
    /\ engine' = [engine EXCEPT !.stream = "cut", !.turn = None, !.asks = {}]
    /\ events' = Append(events, Event("error", engine.turn))
    /\ UNCHANGED <<m, posts, said, obeyed>>

-----------------------------------------------------------------------------

\* When the user wants to leave, he answers no to every dialog.
LeavingKey ==
    IF m.confirm # None THEN "n" ELSE IF m.options # None THEN "esc" ELSE "ctrl+c"

Elsewhere == UNCHANGED <<keys, missed>>
UserLeaves == keys = 0 /\ Key(LeavingKey) /\ Elsewhere
UserWorks ==
    /\ keys > 0 /\ Cardinality(posts) < MaxPosts
    /\ (\E k \in Keys : Key(k)) \/ Click
    /\ keys' = keys - 1 /\ UNCHANGED missed
Timeout == PanelTimeout /\ Elsewhere
ScreenStep == OnEvent /\ UNCHANGED keys
PostStep ==
    /\ \E p \in posts : EngineTurn(p) \/ TurnAnswered(p) \/ JobEnds(p) \/ EngineAnswer(p) \/ EngineCancel(p)
    /\ Elsewhere
CancelledEnds == ~m.quit /\ engine.cancelled /\ EngineEnds /\ Elsewhere
EngineStep ==
    /\ ~m.quit
    /\ EngineQueue \/ EngineAsks \/ EngineTimesOut \/ EngineEnds \/ EngineTitles \/ EngineGone
    /\ Elsewhere

ClientNext == UserLeaves \/ UserWorks \/ Timeout \/ ScreenStep \/ PostStep \/ CancelledEnds \/ EngineStep

\* The program reads its messages, the requests are answered, the engine ends
\* a turn that was cancelled, and who wants to leave presses on.
ClientFairness ==
    /\ WF_clientVars(UserLeaves) /\ WF_clientVars(ScreenStep)
    /\ WF_clientVars(PostStep) /\ WF_clientVars(CancelledEnds)

ClientSpec == ClientInit /\ [][ClientNext]_clientVars /\ ClientFairness

-----------------------------------------------------------------------------
(* Properties. *)

\* The user answered the dialog d and saw another one, or none: Update looks
\* at the confirmation before the options, and View paints the options and the
\* menu of commands over it, or the panel alone (model.go:522-581, 2257-2286).
Unseen(d) == [dialog |-> d, seen |-> FALSE] \in said

\* What the engine does in the user's name, it does because he answered the
\* dialog for just this, a request for a permission, a choice, or the name of a
\* session to delete, while it was painted; or while it was hidden, which
\* Unseen names. Dialogs replace each other, the list of sessions changes its
\* order, requests end and answers come late (model.go:522-601, 842-888,
\* panel.go:426-466).
AnswersAsShown == \A d \in obeyed : Answered(d, d) \in said \/ Unseen(d)

\* The screen waits for the end of a turn that came before it knew the turn,
\* or that the broken stream will never tell.
WaitsInVain == m.turn # None /\ m.turn \in missed

\* Who answers no to the dialogs and presses Ctrl+C leaves the screen, whatever
\* the engine does, be it that a turn, a deploy or a dialog of the engine is in
\* the way; unless the screen waits for the end of a turn in vain
\* (model.go:427-434, 533-601, 638-656, 1789-1799, 2002-2017).
UserCanLeave == keys = 0 ~> (m.quit \/ WaitsInVain)

-----------------------------------------------------------------------------
(* What comments say and the code does not do. *)

\* model.go:451-452: a modal dialog takes its keys; 2220-2221: header, dialog
\* and input always fit. With a confirmation below, Enter on the options that
\* are painted approves that; in a narrow window no dialog is painted.
SeesWhatHeAnswers == \A d \in obeyed : Answered(d, d) \in said

=============================================================================
