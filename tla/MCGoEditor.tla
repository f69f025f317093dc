------------------------------ MODULE MCGoEditor ------------------------------
(***************************************************************************)
(* The screen of the Go program and what a language server is told, which  *)
(* do not touch each other: while the one is at work, the other rests.     *)
(***************************************************************************)
EXTENDS GoWatcher, GoScreen, TLC

editorVars == <<watcherVars, screenVars>>

\* A session was opened, and what it says was read.
SessionOpened ==
    /\ page = "chat" /\ shown \in {{}, {"command"}} /\ typing = FALSE
    /\ created = Sessions /\ rows = Sessions /\ choices = Sessions
    /\ session \in Sessions /\ selected = session /\ listed = session
    /\ editorSession = session /\ draft \in BOOLEAN
    /\ store \in [Sessions -> {<<>>, <<0>>}] /\ messages = Loaded(session)
    /\ inbox = EmptyBag /\ events = <<>> /\ work = {}
    /\ asked = EmptyBag /\ keys = 0 /\ missed = FALSE

ScreenRests ==
    /\ page = "gone" /\ shown = {} /\ typing = FALSE /\ choices = {} /\ selected = None
    /\ created = {} /\ rows = {} /\ session = None /\ listed = None /\ editorSession = None
    /\ messages = <<>> /\ draft = FALSE /\ inbox = EmptyBag /\ events = <<>> /\ work = {}
    /\ asked = EmptyBag /\ store = [s \in Sessions |-> <<>>]
    /\ keys = 0 /\ missed = FALSE

WatcherRests ==
    /\ content = [f \in Files |-> 0] /\ changes = MaxChanges
    /\ fsEvents = <<>> /\ watching = FALSE /\ registered = FALSE /\ openFiles = {}
    /\ debounceMap = [k \in Keys |-> Nobody] /\ job = [a \in Actors |-> Rest]
    /\ frame = Nobody /\ garbled = FALSE
    /\ reported = [f \in Files |-> TRUE] /\ last = [f \in Files |-> ""]

EditorInit ==
    \/ WatcherInit /\ ScreenRests
    \/ WatcherRests /\ (ScreenInit \/ SessionOpened)

EditorNext ==
    \/ WatcherNext /\ UNCHANGED screenVars
    \/ ScreenNext /\ UNCHANGED watcherVars

EditorSpec == EditorInit /\ [][EditorNext]_editorVars

EditorSymmetry == Permutations(Sessions)

=============================================================================
