------------------------------- MODULE GoScreen -------------------------------
(***************************************************************************)
(* The screen of the Go program: its two pages, the dialogs above them,    *)
(* which of them gets a key, and the session that the chat page, the list  *)
(* of messages, the editor and the sidebar each keep for themselves        *)
(* (internal/tui). They tell each other by commands, which run beside each *)
(* other, so that what they return arrives in any order; the events of the *)
(* messages come by a channel of their own, in order, and may be dropped.  *)
(*                                                                         *)
(* A message of a session is its place in the session and the number of    *)
(* its changes. Scrolling, attachments and what dialogs choose from are    *)
(* left out, and keys that change nothing.                                 *)
(***************************************************************************)
EXTENDS Naturals, Sequences, FiniteSets, Bags

CONSTANTS
    Sessions,
    None,
    MaxKeys,      \* bound: the keys that are typed
    MaxShown,     \* bound: the dialogs that are shown at a time
    MaxWaiting,   \* bound: the commands on their way when a key is typed
    MaxRequests,  \* bound: the requests to the agent
    MaxMessages,  \* bound: the messages of a session
    MaxUpdates    \* bound: the changes of a message

ASSUME ScreenAssumption ==
    None \notin Sessions /\ {MaxKeys, MaxShown, MaxWaiting, MaxRequests, MaxMessages, MaxUpdates} \subseteq Nat

VARIABLES
    page,          \* currentPage
    shown,         \* the dialogs that are shown
    typing,        \* the path of the file picker has the focus
    choices,       \* the sessions of the session dialog
    selected,      \* selectedSession of appModel
    session,       \* the session of the chat page
    rows,          \* the sessions of its sidebar
    listed,        \* the session of the list of messages
    messages,      \* what the list shows
    editorSession, \* the session of the editor
    draft,         \* a text is typed
    inbox,         \* the commands that have not returned their message yet
    events,        \* the events of messages on their way
    created,       \* the sessions of the database
    store,         \* their messages
    work,          \* activeRequests of the agent
    asked,         \* the sessions it was asked to work for, as often as it was
    keys,          \* the keys typed so far
    missed         \* history: what the screen shows may be of the past

chatVars == <<session, rows, listed, messages, editorSession, draft>>
agentVars == <<created, store, work, asked>>
screenVars == <<page, shown, typing, choices, selected, chatVars, inbox, events, agentVars,
                keys, missed>>

Commands == {"init", "compact", "custom", "customWithArguments"}

M(kind, about) == [kind |-> kind, about |-> about]
Waits(kind) == \E m \in BagToSet(inbox) : m.kind = kind

Busy == work # {}
SessionBusy(s) == <<s, "run">> \in work

Loaded(s) == [i \in DOMAIN store[s] |-> [id |-> i, version |-> store[s][i]]]

\* A selection and a clearing on their way at once end in either order.
Crossed == Waits("Cleared") /\ Waits("Selected")

\* The commands of done have returned, those of out are started.
Commanded(done, out) ==
    /\ inbox' = (inbox (-) SetToBag(done)) (+) SetToBag(out)
    /\ missed' = (missed \/ Crossed')

ScreenInit ==
    /\ page = "chat" /\ shown = {} /\ typing = FALSE /\ choices = {} /\ selected = None
    /\ created \in SUBSET Sessions /\ rows = created
    /\ session = None /\ listed = None /\ editorSession = None
    /\ messages = <<>> /\ draft = FALSE
    /\ \E S \in SUBSET {M("ShowInit", None)} : inbox = SetToBag(S)
    /\ events = <<>> /\ work = {} /\ asked = EmptyBag
    /\ store = [s \in Sessions |-> IF s \in created THEN <<0>> ELSE <<>>]
    /\ keys = 0 /\ missed = FALSE

\* The agent starts to work on a request.
Requested(s, kind) ==
    /\ BagCardinality(asked) < MaxRequests /\ asked' = asked (+) SetToBag({s})
    /\ work' = work \cup {<<s, kind>>}

-----------------------------------------------------------------------------
(* Keys that Update takes itself, whatever dialog but that of the arguments *)
(* is shown.                                                               *)

Typed ==
    /\ page # "gone" /\ BagCardinality(inbox) < MaxWaiting
    /\ keys < MaxKeys /\ keys' = keys + 1

Toggled(d) == IF d \in shown THEN shown \ {d} ELSE shown \cup {d}

QuitKey ==
    /\ shown' = Toggled("quit") \ {"help", "session", "command", "filepicker", "model"}
    /\ UNCHANGED <<page, choices>>

\* List may also fail, and the dialog stay away.
SessionsKey ==
    /\ page = "chat" /\ shown \cap {"quit", "permissions", "command"} = {} /\ created # {}
    /\ choices' = created /\ shown' = shown \cup {"session"}
    /\ UNCHANGED page

CommandsKey ==
    /\ page = "chat"
    /\ shown \cap {"quit", "permissions", "session", "theme", "filepicker"} = {}
    /\ shown' = shown \cup {"command"} /\ UNCHANGED <<page, choices>>

ModelsKey ==
    /\ \/ "model" \in shown
       \/ page = "chat" /\ shown \cap {"quit", "permissions", "session", "command"} = {}
    /\ shown' = Toggled("model") /\ UNCHANGED <<page, choices>>

ThemesKey ==
    /\ shown \cap {"quit", "permissions", "session", "command"} = {}
    /\ shown' = shown \cup {"theme"} /\ UNCHANGED <<page, choices>>

MoveToPage(p) == ~Busy /\ page' = p

LogsKey == MoveToPage("logs") /\ UNCHANGED <<shown, choices>>

\* ctrl+h, and "?" while the agent works.
HelpKey == "quit" \notin shown /\ shown' = Toggled("help") /\ UNCHANGED <<page, choices>>

FilesKey == shown' = Toggled("filepicker") /\ UNCHANGED <<page, choices>>

\* What esc closes, the first that is shown; all other keys go on.
Closable == <<"quit", "help", "init", "filepicker">>

EscapeTaken == ~typing /\ (page = "logs" \/ \E i \in DOMAIN Closable : Closable[i] \in shown)

EscapeKey ==
    /\ ~typing
    /\ \/ \E i \in DOMAIN Closable :
              /\ Closable[i] \in shown /\ \A j \in 1 .. (i - 1) : Closable[j] \notin shown
              /\ shown' = shown \ {Closable[i]} /\ UNCHANGED <<page, choices>>
       \/ /\ \A i \in DOMAIN Closable : Closable[i] \notin shown
          /\ page = "logs" /\ MoveToPage("chat") /\ UNCHANGED <<shown, choices>>

GlobalKey ==
    /\ Typed /\ "arguments" \notin shown
    /\ \/ QuitKey \/ SessionsKey \/ CommandsKey \/ ModelsKey \/ ThemesKey
       \/ EscapeKey \/ LogsKey \/ HelpKey \/ FilesKey
    /\ Cardinality(shown') <= MaxShown
    /\ UNCHANGED <<typing, selected, chatVars, inbox, events, agentVars, missed>>

-----------------------------------------------------------------------------
(* Keys of the dialogs: the first that is shown gets them.                 *)

FocusOrder == <<"arguments", "filepicker", "quit", "permissions", "session", "command",
                "model", "init", "theme">>

Focused(d) ==
    \E i \in DOMAIN FocusOrder :
        FocusOrder[i] = d /\ d \in shown /\ \A j \in 1 .. (i - 1) : FocusOrder[j] \notin shown

\* What the dialogs may return when a key is typed. Whatever is answered to a
\* permission, chosen of the models or of the themes, the dialog is closed.
ArgumentsReturn == {M("Close", "arguments"), M("Arguments", None)}
SessionReturns == {M("Close", "session")} \cup {M("Picked", s) : s \in choices}
CommandReturns == {M("Close", "command")} \cup {M("Command", c) : c \in Commands}
InitReturns == {M("Close", "init"), M("Initialize", None)}
QuitReturns == {M("Close", "quit")}
PermissionReturns == {M("Close", "permissions")}
ModelReturns == {M("Close", "model")}
ThemeReturns == {M("Close", "theme")}

Chosen(d, answers) == Focused(d) /\ \E m \in answers : Commanded({}, {m})

DialogKey ==
    /\ Typed
    /\ \/ Chosen("arguments", ArgumentsReturn) \/ Chosen("session", SessionReturns)
       \/ Chosen("command", CommandReturns) \/ Chosen("init", InitReturns)
       \/ Chosen("quit", QuitReturns) \/ Chosen("permissions", PermissionReturns)
       \/ Chosen("model", ModelReturns) \/ Chosen("theme", ThemeReturns)
    /\ UNCHANGED <<page, shown, typing, choices, selected, chatVars, events, agentVars>>

QuitConfirmed ==
    /\ Typed /\ Focused("quit") /\ page' = "gone"
    /\ UNCHANGED <<shown, typing, choices, selected, chatVars, inbox, events, agentVars, missed>>

\* "i" puts the focus on the path, esc takes it away.
FilepickerKey ==
    /\ Typed /\ Focused("filepicker") /\ typing' = ~typing
    /\ UNCHANGED <<page, shown, choices, selected, chatVars, inbox, events, agentVars, missed>>

-----------------------------------------------------------------------------
(* Keys of the chat page. All but those it takes itself go to the sidebar, *)
(* to the completion and to the editor.                                    *)

PageKey == Typed /\ page = "chat" /\ \A d \in shown : d \in {"help", "completion"}

NewSessionKey ==
    /\ PageKey
    /\ session' = None /\ Commanded({}, {M("Cleared", None)})
    /\ UNCHANGED <<page, shown, typing, choices, selected, rows, listed, messages, editorSession,
                   draft, events, agentVars>>

\* Cancel frees the session at once; its goroutine may write on.
CancelKey ==
    /\ PageKey /\ ~EscapeTaken /\ session # None
    /\ work' = work \ {<<session, "run">>, <<session, "summary">>}
    /\ UNCHANGED <<page, shown, typing, choices, selected, chatVars, inbox, events, created, store,
                   asked, missed>>

\* The sidebar selects the row it is at, and the editor sends the draft,
\* unless the completion, which may close, keeps the key to itself.
EnterKey ==
    /\ PageKey
    /\ LET picks == {M("SidebarSelected", s) : s \in rows}
           sends == "completion" \notin shown /\ draft /\ ~SessionBusy(editorSession)
           ends == IF "completion" \in shown THEN {{}, {M("Close", "completion")}}
                   ELSE IF sends THEN {{M("Send", None)}} ELSE {{}}
       IN  /\ \E end \in ends :
                  IF rows = {} THEN Commanded({}, end)
                  ELSE \E m \in picks : Commanded({}, end \cup {m})
           /\ draft' = (draft /\ ~sends)
    /\ UNCHANGED <<page, shown, typing, choices, selected, session, rows, listed, messages,
                   editorSession, events, agentVars>>

\* Any text: "n" is also the key of the sidebar for a new session, "@" opens
\* the completion, which a space or tab closes.
TextKey ==
    /\ PageKey /\ draft' = TRUE
    /\ \/ Commanded({}, {}) /\ shown' \in {shown, shown \cup {"completion"}}
       \/ Commanded({}, {M("SidebarNew", None)}) /\ UNCHANGED shown
       \/ /\ "completion" \in shown /\ UNCHANGED shown
          /\ Commanded({}, {M("Close", "completion")})
    /\ UNCHANGED <<page, typing, choices, selected, session, rows, listed, messages,
                   editorSession, events, agentVars>>

\* ctrl+e: what the external editor saves is sent, the draft stays.
ExternalEditorKey ==
    /\ PageKey /\ ~SessionBusy(editorSession)
    /\ Commanded({}, {M("Send", None)})
    /\ UNCHANGED <<page, shown, typing, choices, selected, chatVars, events, agentVars>>

-----------------------------------------------------------------------------
(* What the commands return.                                               *)

Arrives(m) == page # "gone" /\ m \in BagToSet(inbox)

Closes(m) ==
    /\ Arrives(m) /\ m.kind = "Close" /\ (m.about = "completion" => page = "chat")
    /\ shown' = shown \ {m.about} /\ Commanded({m}, {})
    /\ UNCHANGED <<page, typing, choices, selected, chatVars, events, agentVars, keys>>

InitDialog(m) ==
    /\ Arrives(m) /\ m.kind \in {"ShowInit", "Initialize"}
    /\ \/ m.kind = "ShowInit" /\ shown' = shown \cup {"init"} /\ Commanded({m}, {})
       \/ /\ m.kind = "Initialize" /\ shown' = shown \ {"init"}
          /\ \/ Commanded({m}, {M("Send", None)})
             \/ Commanded({m}, {})   \* MarkProjectInitialized failed
    /\ UNCHANGED <<page, typing, choices, selected, chatVars, events, agentVars, keys>>

SessionPicked(m) ==
    /\ Arrives(m) /\ m.kind = "Picked"
    /\ shown' = shown \ {"session"}
    /\ Commanded({m}, IF page = "chat" THEN {M("Selected", m.about)} ELSE {})
    /\ UNCHANGED <<page, typing, choices, selected, chatVars, events, agentVars, keys>>

Handlers == [init |-> "Send", compact |-> "Compact", custom |-> "RunCustom",
             customWithArguments |-> "AskArguments"]

Started(c) == M(Handlers[c], None)

CommandPicked(m) ==
    /\ Arrives(m) /\ m.kind = "Command"
    /\ shown' = shown \ {"command"} /\ Commanded({m}, {Started(m.about)})
    /\ UNCHANGED <<page, typing, choices, selected, chatVars, events, agentVars, keys>>

ArgumentsDialog(m) ==
    /\ Arrives(m) /\ m.kind \in {"AskArguments", "Arguments"}
    /\ \/ m.kind = "AskArguments" /\ shown' = shown \cup {"arguments"} /\ Commanded({m}, {})
       \/ /\ m.kind = "Arguments" /\ shown' = shown \ {"arguments"}
          /\ Commanded({m}, {M("RunCustom", None)})
    /\ UNCHANGED <<page, typing, choices, selected, chatVars, events, agentVars, keys>>

\* The command of a compaction keeps the session it was started with.
Compacts(m) ==
    /\ Arrives(m) /\ m.kind = "Compact"
    /\ Commanded({m}, IF selected = None THEN {} ELSE {M("Summarize", selected)})
    /\ UNCHANGED <<page, shown, typing, choices, selected, chatVars, events, agentVars, keys>>

\* Summarize refuses a session at work, and nobody looks at the error.
Summarizes(m) ==
    /\ Arrives(m) /\ m.kind = "Summarize"
    /\ \/ SessionBusy(m.about) /\ UNCHANGED <<work, asked>>
       \/ ~SessionBusy(m.about) /\ Requested(m.about, "summary")
    /\ Commanded({m}, {})
    /\ UNCHANGED <<page, shown, typing, choices, selected, chatVars, events, created, store, keys>>

\* A response has ended: the selected session may be full.
AgentResponded(m) ==
    /\ Arrives(m) /\ m.kind = "Responded"
    /\ \/ Commanded({m}, {})
       \/ selected # None /\ Commanded({m}, {M("Compact", None)})
    /\ UNCHANGED <<page, shown, typing, choices, selected, chatVars, events, agentVars, keys>>

-----------------------------------------------------------------------------
(* What the chat page is told; on the page of the logs it is not.          *)

ToList == {"Selected", "Cleared"}
ToPage == {"Send", "RunCustom", "SidebarSelected", "SidebarNew"}

NotTold(m) ==
    /\ Arrives(m) /\ page = "logs"
    /\ selected' = IF m.kind = "Selected" THEN m.about ELSE selected
    /\ \/ m.kind \in ToList /\ inbox' = inbox (-) SetToBag({m}) /\ missed' = TRUE
       \/ (m.kind \in ToPage \/ m = M("Close", "completion")) /\ Commanded({m}, {})
    /\ UNCHANGED <<page, shown, typing, choices, chatVars, events, agentVars, keys>>

\* sendMessage: without a session one is created; a session at work refuses
\* the text, which is lost.
SendMessage(m) ==
    /\ Arrives(m) /\ page = "chat"
    /\ m.kind \in {"Send", "RunCustom"} /\ (m.kind = "RunCustom" => ~Busy)
    /\ \/ /\ session = None
          /\ \E new \in Sessions \ created :
                 /\ session' = new /\ created' = created \cup {new}
                 /\ rows' \in {created', {}}       \* List may fail
                 /\ Requested(new, "run")
                 /\ Commanded({m}, {M("Selected", new)})
       \/ /\ session # None /\ ~SessionBusy(session)
          /\ Requested(session, "run")
          /\ Commanded({m}, {}) /\ UNCHANGED <<session, created, rows>>
    /\ UNCHANGED <<page, shown, typing, choices, selected, listed, messages, editorSession, draft,
                   events, store, keys>>

\* The agent is busy, or the session cannot be created.
SendRefused(m) ==
    /\ Arrives(m) /\ page = "chat"
    /\ \/ m.kind = "RunCustom" /\ Busy
       \/ m.kind \in {"Send", "RunCustom"} /\ (session = None \/ SessionBusy(session))
    /\ Commanded({m}, {})
    /\ UNCHANGED <<page, shown, typing, choices, selected, chatVars, events, agentVars, keys>>

\* The last event on its way of a change of the session's message.
LastUpdate(s, i) ==
    /\ i \in DOMAIN events /\ events[i].session = s /\ ~events[i].new
    /\ \A j \in (i + 1) .. Len(events) :
           events[j].session = s /\ events[j].id = events[i].id => events[j].new

\* A later change was dropped: what is read will be overwritten by an older one.
Overtaken(s) ==
    \E i \in DOMAIN events :
        LastUpdate(s, i) /\ events[i].version # store[s][events[i].id]

\* SetSession reads the messages of another session; when that fails the
\* list keeps those it had, under the new name.
SetSession(s) ==
    /\ listed' = s
    /\ \/ messages' = Loaded(s) /\ missed' = (Waits("Cleared")' \/ Overtaken(s))
       \/ missed' = TRUE /\ UNCHANGED messages

SessionSelected(m) ==
    /\ Arrives(m) /\ page = "chat" /\ m.kind = "Selected"
    /\ selected' = m.about /\ session' = m.about /\ editorSession' = m.about
    /\ inbox' = inbox (-) SetToBag({m})
    /\ IF m.about = listed THEN missed' = (missed \/ Crossed') /\ UNCHANGED <<listed, messages>>
                           ELSE SetSession(m.about)
    /\ UNCHANGED <<page, shown, typing, choices, rows, draft, events, agentVars, keys>>

SidebarMessage(m) ==
    /\ Arrives(m) /\ page = "chat"
    /\ \/ /\ m.kind = "SidebarSelected" /\ session' = m.about
          /\ Commanded({m}, {M("Selected", m.about)})
       \/ /\ m.kind = "SidebarNew" /\ session' = None
          /\ Commanded({m}, {M("Cleared", None)})
    /\ UNCHANGED <<page, shown, typing, choices, selected, rows, listed, messages, editorSession,
                   draft, events, agentVars, keys>>

\* Only the list looks at it.
SessionCleared(m) ==
    /\ Arrives(m) /\ page = "chat" /\ m.kind = "Cleared"
    /\ listed' = None /\ messages' = <<>>
    /\ inbox' = inbox (-) SetToBag({m})
    /\ missed' = (session # None /\ (missed \/ Crossed'))
    /\ UNCHANGED <<page, shown, typing, choices, selected, session, rows, editorSession, draft,
                   events, agentVars, keys>>

-----------------------------------------------------------------------------
(* The agent, and the events of messages.                                  *)

\* A message is written; its event is dropped where a channel is full.
Written(s, id, v, new) ==
    /\ store' = [store EXCEPT ![s] = IF new THEN Append(@, v) ELSE [@ EXCEPT ![id] = v]]
    /\ \/ /\ events' = Append(events, [session |-> s, id |-> id, version |-> v, new |-> new])
          /\ UNCHANGED missed
       \/ missed' = (missed \/ listed = s) /\ UNCHANGED events
    /\ UNCHANGED <<page, shown, typing, choices, selected, chatVars, inbox, created, work, asked,
                   keys>>

MessageCreated(s) ==
    /\ BagIn(s, asked) /\ Len(store[s]) < MaxMessages
    /\ Written(s, Len(store[s]) + 1, 0, TRUE)

MessageUpdated(s) ==
    LET id == Len(store[s])
    IN  BagIn(s, asked) /\ id > 0 /\ store[s][id] < MaxUpdates
        /\ Written(s, id, store[s][id] + 1, FALSE)

RequestEnds(entry) ==
    /\ entry \in work /\ work' = work \ {entry}
    /\ \/ entry[2] = "run" /\ Commanded({}, {M("Responded", None)})
       \/ UNCHANGED <<inbox, missed>>      \* it failed, or the event was dropped
    /\ UNCHANGED <<page, shown, typing, choices, selected, chatVars, events, created, store, asked,
                   keys>>

PermissionAsked ==
    /\ page # "gone" /\ asked # EmptyBag /\ shown' = shown \cup {"permissions"}
    /\ Cardinality(shown') <= MaxShown
    /\ UNCHANGED <<page, typing, choices, selected, chatVars, inbox, events, agentVars, keys,
                   missed>>

\* A variant that appends what it is told was created.
WithEveryEvent(e) ==
    IF e.new
    THEN Append(messages, [id |-> e.id, version |-> e.version])
    ELSE [i \in DOMAIN messages |->
             IF messages[i].id = e.id THEN [messages[i] EXCEPT !.version = e.version]
                                      ELSE messages[i]]

\* The list with an event of its session: a message it has already is not
\* appended, one it does not have is not changed.
WithEvent(e) ==
    IF e.new
    THEN IF \E i \in DOMAIN messages : messages[i].id = e.id THEN messages
         ELSE Append(messages, [id |-> e.id, version |-> e.version])
    ELSE [i \in DOMAIN messages |->
             IF messages[i].id = e.id THEN [messages[i] EXCEPT !.version = e.version]
                                      ELSE messages[i]]

EventArrives ==
    /\ page # "gone" /\ events # <<>> /\ events' = Tail(events)
    /\ LET e == Head(events)
       IN  \/ /\ e.session = listed /\ page = "chat"
              /\ messages' = WithEvent(e) /\ UNCHANGED missed
           \/ e.session = listed /\ page = "logs" /\ missed' = TRUE /\ UNCHANGED messages
           \/ e.session # listed /\ UNCHANGED <<messages, missed>>
    /\ UNCHANGED <<page, shown, typing, choices, selected, session, rows, listed, editorSession,
                   draft, inbox, agentVars, keys>>

-----------------------------------------------------------------------------
MessageArrives(m) ==
    \/ Closes(m) \/ InitDialog(m) \/ SessionPicked(m) \/ CommandPicked(m) \/ ArgumentsDialog(m)
    \/ Compacts(m) \/ Summarizes(m) \/ AgentResponded(m) \/ NotTold(m) \/ SendMessage(m)
    \/ SendRefused(m) \/ SessionSelected(m) \/ SidebarMessage(m) \/ SessionCleared(m)

ScreenNext ==
    \/ GlobalKey
    \/ DialogKey \/ QuitConfirmed \/ FilepickerKey
    \/ NewSessionKey \/ CancelKey \/ EnterKey \/ TextKey \/ ExternalEditorKey
    \/ \E m \in BagToSet(inbox) : MessageArrives(m)
    \/ \E s \in Sessions : MessageCreated(s) \/ MessageUpdated(s)
    \/ \E entry \in work : RequestEnds(entry)
    \/ PermissionAsked
    \/ EventArrives

ScreenSpec == ScreenInit /\ [][ScreenNext]_screenVars

-----------------------------------------------------------------------------
(* Correctness.                                                            *)

\* Once all messages and events have arrived, the chat page, the list and the
\* editor have the same session, and the list shows its messages as they are
\* stored, each once and in order (tui.go 390-410, page/chat.go 80-115,
\* chat/list.go 71-155, 415-435); unless an event or a message to the page was
\* lost, or was older than what was read and the later one lost, reading
\* failed, or a clearing crossed a selection, and no other session was selected
\* since.
ShownIsCurrent ==
    inbox = EmptyBag /\ events = <<>> /\ ~missed =>
        /\ listed = session
        /\ messages = IF session = None THEN <<>> ELSE Loaded(session)
        /\ session # None => selected = session /\ editorSession = session

=============================================================================
