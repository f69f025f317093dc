------------------------------ MODULE GoWatcher ------------------------------
(***************************************************************************)
(* What a language server is told of the files of the workspace: the loop  *)
(* of WorkspaceWatcher over the events of the disk, its timers, that hold  *)
(* events back for 300 ms, the goroutine that opens files when the server  *)
(* registers what it wants to watch, and the tools that open a file or     *)
(* report its change (internal/lsp, internal/llm/tools/diagnostics.go).    *)
(* All of them write to the input of the server without a lock.            *)
(*                                                                         *)
(* A content is the number of the change that made it, 0 where there is no *)
(* file. Paths that are excluded, new directories and the version of an    *)
(* open document are left out.                                             *)
(***************************************************************************)
EXTENDS Naturals, Sequences, FiniteSets

CONSTANTS
    Files,       \* the files of the workspace
    Preloaded,   \* those of them that the watcher opens by itself
    Tools,       \* the calls of the tools
    Kinds,       \* the kinds of change that the server registers for
    Timers,      \* the timers that run at a time: a bound
    Loop,        \* the loop of WatchWorkspace
    Preload,     \* the goroutine of AddRegistrations
    Nobody,
    MaxChanges   \* bound: the changes of the disk

AllKinds == {"create", "change", "delete"}

ASSUME WatcherAssumption ==
    /\ Preloaded \subseteq Files /\ Kinds \subseteq AllKinds
    /\ MaxChanges \in Nat
    /\ Nobody \notin Files \cup Tools \cup Timers \cup {Loop, Preload}
    /\ Loop # Preload /\ {Loop, Preload} \cap (Tools \cup Timers) = {} /\ Tools \cap Timers = {}

VARIABLES
    content,     \* the disk
    changes,     \* the changes of it so far
    fsEvents,    \* Events of fsnotify
    watching,    \* WatchWorkspace is in its loop
    registered,  \* the server has registered Kinds
    openFiles,   \* openFiles of the client
    debounceMap, \* the timer of a file and a kind
    job,         \* what the loop, the timers, the preloading and the tools are at
    frame,       \* who has written the header of a message, but not its body
    garbled,     \* a message was written into another one
    reported,    \* history: the server heard of the last change of a file
    last         \* history: the kind of the last change

watcherVars == <<content, changes, fsEvents, watching, registered, openFiles, debounceMap,
                 job, frame, garbled, reported, last>>

Keys == Files \X {"change", "create"}
Actors == {Loop, Preload} \cup Tools \cup Timers

Rest == [do |-> "rest", at |-> "", file |-> Nobody, read |-> 0, kind |-> ""]
Does(what, at, f, kind) == [do |-> what, at |-> at, file |-> f, read |-> 0, kind |-> kind]

WatcherInit ==
    /\ \E there \in SUBSET Files :
           /\ content = [f \in Files |-> IF f \in there THEN 1 ELSE 0]
           /\ openFiles \in SUBSET (there \cap Preloaded)   \* openKeyConfigFiles
    /\ changes = 1
    /\ fsEvents = <<>> /\ watching = TRUE /\ registered = FALSE
    /\ debounceMap = [k \in Keys |-> Nobody]
    /\ job = [a \in Actors |-> IF a \in Tools THEN Does("tool", "start", Nobody, "") ELSE Rest]
    /\ frame = Nobody /\ garbled = FALSE
    /\ reported = [f \in Files |-> TRUE] /\ last = [f \in Files |-> ""]

-----------------------------------------------------------------------------
(* The disk. *)

Changed(f, c, kind, events) ==
    /\ changes < MaxChanges /\ changes' = changes + 1
    /\ content' = [content EXCEPT ![f] = c]
    /\ fsEvents' = fsEvents \o [i \in DOMAIN events |-> [op |-> events[i], file |-> f]]
    /\ reported' = [reported EXCEPT ![f] = FALSE]
    /\ last' = [last EXCEPT ![f] = kind]
    /\ UNCHANGED <<watching, registered, openFiles, debounceMap, job, frame, garbled>>

FileCreated(f) == content[f] = 0 /\ Changed(f, changes + 1, "create", <<"create", "write">>)
FileWritten(f) == content[f] # 0 /\ Changed(f, changes + 1, "change", <<"write">>)
FileRemoved(f) == content[f] # 0 /\ \E op \in {"remove", "rename"} : Changed(f, 0, "delete", <<op>>)

-----------------------------------------------------------------------------
(* The steps of whoever tells the server something: read the file, write a *)
(* header, write a body.                                                   *)

Quiet == UNCHANGED <<content, changes, last>>
Goes(a, j) == job' = [job EXCEPT ![a] = j]

\* OpenFile: what is open is not opened again.
OpenChecks(a) ==
    /\ job[a].do = "open" /\ job[a].at = "check"
    /\ IF job[a].file \in openFiles THEN Goes(a, [job[a] EXCEPT !.at = "end"])
       ELSE IF content[job[a].file] = 0 THEN Goes(a, [job[a] EXCEPT !.at = "end"])
       ELSE Goes(a, [job[a] EXCEPT !.at = "header", !.read = content[job[a].file]])
    /\ UNCHANGED <<fsEvents, watching, registered, openFiles, debounceMap, frame, garbled, reported>>

\* NotifyChange reads the file before it looks whether it is open.
ChangeReads(a) ==
    /\ job[a].do = "change" /\ job[a].at = "check"
    /\ IF content[job[a].file] # 0 /\ job[a].file \in openFiles
       THEN Goes(a, [job[a] EXCEPT !.at = "header", !.read = content[job[a].file]])
       ELSE Goes(a, [job[a] EXCEPT !.at = "end"])
    /\ UNCHANGED <<fsEvents, watching, registered, openFiles, debounceMap, frame, garbled, reported>>

\* WriteMessage: the header ...
WritesHeader(a) ==
    /\ job[a].at = "header"
    /\ frame' = a /\ garbled' = (frame # Nobody)
    /\ Goes(a, [job[a] EXCEPT !.at = "body"])
    /\ UNCHANGED <<fsEvents, watching, registered, openFiles, debounceMap, reported>>

\* ... and the body. The server hears of the last change if the text that it
\* gets is the present one, or if it is told to look for itself.
WritesBody(a) ==
    /\ job[a].at = "body" /\ frame = a
    /\ frame' = Nobody
    /\ reported' = [reported EXCEPT ![job[a].file] =
                       @ \/ job[a].do = "watch" \/ job[a].read = content[job[a].file]]
    /\ Goes(a, [job[a] EXCEPT !.at = IF @ = "body" /\ job[a].do = "open" THEN "mark" ELSE "end"])
    /\ UNCHANGED <<fsEvents, watching, registered, openFiles, debounceMap, garbled>>

\* OpenFile: it is open only now.
OpenMarks(a) ==
    /\ job[a].do = "open" /\ job[a].at = "mark"
    /\ openFiles' = openFiles \cup {job[a].file}
    /\ Goes(a, [job[a] EXCEPT !.at = "end"])
    /\ UNCHANGED <<fsEvents, watching, registered, debounceMap, frame, garbled, reported>>

\* handleFileEvent: the change of an open file is told with its text.
HandleFileEvent(f, kind) ==
    IF kind = "change" /\ f \in openFiles THEN Does("change", "check", f, kind)
    ELSE Does("watch", "header", f, kind)

-----------------------------------------------------------------------------
(* The loop of WatchWorkspace. *)

Watched(kind) == IF registered THEN kind \in Kinds ELSE TRUE

FreeTimers == {t \in Timers : job[t] = Rest}

\* Faulty variant of Debounced: an event that finds a timer leaves it at that.
DebouncedOnce(f, kind, jobs) ==
    IF debounceMap[<<f, kind>>] # Nobody
    THEN job' = jobs /\ UNCHANGED debounceMap
    ELSE \E t \in FreeTimers :
             /\ job' = [jobs EXCEPT ![t] = Does("armed", "", f, kind)]
             /\ debounceMap' = [debounceMap EXCEPT ![<<f, kind>>] = t]

\* debounceHandleFileEvent: a timer that has not fired is stopped, and a new
\* one is started.
Debounced(f, kind, jobs) ==
    LET old     == debounceMap[<<f, kind>>]
        stopped == IF old # Nobody /\ jobs[old].do = "armed" THEN [jobs EXCEPT ![old] = Rest] ELSE jobs
    IN  \E t \in FreeTimers \cup ({old} \cap {i \in Timers : stopped[i] = Rest}) :
            /\ job' = [stopped EXCEPT ![t] = Does("armed", "", f, kind)]
            /\ debounceMap' = [debounceMap EXCEPT ![<<f, kind>>] = t]

LoopRests == [job EXCEPT ![Loop] = Rest]

\* An event, and openMatchingFile for a file that is new.
LoopTakes ==
    /\ watching /\ job[Loop] = Rest /\ fsEvents # <<>>
    /\ fsEvents' = Tail(fsEvents)
    /\ LET f == Head(fsEvents).file
           op == Head(fsEvents).op
       IN  \/ /\ op = "create" /\ content[f] # 0 /\ f \in Preloaded
              /\ Goes(Loop, Does("open", "check", f, "create"))
              /\ UNCHANGED debounceMap
           \/ /\ op = "create" /\ (content[f] = 0 \/ f \notin Preloaded)
              /\ Goes(Loop, Does("open", "end", f, "create"))
              /\ UNCHANGED debounceMap
           \/ /\ op = "write"
              /\ IF Watched("change") THEN Debounced(f, "change", job)
                 ELSE UNCHANGED <<job, debounceMap>>
           \/ /\ op \in {"remove", "rename"}
              /\ Goes(Loop, Does("watch", IF Watched("delete") THEN "header" ELSE "end", f, op))
              /\ UNCHANGED debounceMap
    /\ UNCHANGED <<watching, registered, openFiles, frame, garbled, reported>>

\* The end of an event. A created file that is gone again ends the loop; a
\* renamed one that is there again was created.
LoopEndsEvent ==
    /\ job[Loop].at = "end"
    /\ LET f == job[Loop].file
           kind == job[Loop].kind
           gone == content[f] = 0
       IN  \/ /\ kind = "create" /\ gone
              /\ watching' = FALSE /\ Goes(Loop, Rest) /\ UNCHANGED debounceMap
           \/ /\ kind \in {"create", "rename"} /\ ~gone /\ Watched("create")
              /\ Debounced(f, "create", LoopRests) /\ UNCHANGED watching
           \/ /\ (kind = "create" /\ ~gone /\ ~Watched("create")) \/ kind = "remove"
                 \/ (kind = "rename" /\ (gone \/ ~Watched("create")))
              /\ Goes(Loop, Rest) /\ UNCHANGED <<debounceMap, watching>>
    /\ UNCHANGED <<fsEvents, registered, openFiles, frame, garbled, reported>>

\* A timer fires, and forgets at its end whatever timer its key has then.
TimerFires(t) ==
    /\ job[t].do = "armed"
    /\ Goes(t, HandleFileEvent(job[t].file, job[t].kind))
    /\ UNCHANGED <<fsEvents, watching, registered, openFiles, debounceMap, frame, garbled, reported>>

TimerEnds(t) ==
    /\ job[t].at = "end"
    /\ debounceMap' = [debounceMap EXCEPT ![<<job[t].file, job[t].kind>>] = Nobody]
    /\ Goes(t, Rest)
    /\ UNCHANGED <<fsEvents, watching, registered, openFiles, frame, garbled, reported>>

-----------------------------------------------------------------------------

\* client/registerCapability: the watchers are added, and a goroutine opens
\* files, one after the other.
AddRegistrations ==
    /\ ~registered /\ watching /\ registered' = TRUE
    /\ Goes(Preload, Does("open", "end", Nobody, ""))
    /\ UNCHANGED <<fsEvents, watching, openFiles, debounceMap, frame, garbled, reported>>

PreloadNext ==
    /\ job[Preload].at = "end"
    /\ \/ \E f \in Preloaded : Goes(Preload, Does("open", "check", f, ""))
       \/ Goes(Preload, Rest)
    /\ UNCHANGED <<fsEvents, watching, registered, openFiles, debounceMap, frame, garbled, reported>>

\* notifyLspOpenFile, waitForLspDiagnostics
ToolStarts(t) ==
    /\ job[t].do = "tool"
    /\ \E f \in Files : Goes(t, Does("open", "check", f, "tool"))
    /\ UNCHANGED <<fsEvents, watching, registered, openFiles, debounceMap, frame, garbled, reported>>

ToolEnds(t) ==
    /\ t \in Tools /\ job[t].at = "end"
    /\ LET f == job[t].file
       IN  Goes(t, IF job[t].kind # "tool" THEN Rest
                   ELSE Does(IF f \in openFiles THEN "change" ELSE "open", "check", f, ""))
    /\ UNCHANGED <<fsEvents, watching, registered, openFiles, debounceMap, frame, garbled, reported>>

TellStep(a) ==
    OpenChecks(a) \/ ChangeReads(a) \/ WritesHeader(a) \/ WritesBody(a) \/ OpenMarks(a)

\* Once a message is written into another one the server reads anything.
WatcherNext ==
    /\ ~garbled
    /\ \/ \E f \in Files : FileCreated(f) \/ FileWritten(f) \/ FileRemoved(f)
       \/ /\ Quiet
          /\ \/ LoopTakes \/ LoopEndsEvent \/ AddRegistrations \/ PreloadNext
             \/ \E t \in Timers : TimerFires(t) \/ TimerEnds(t)
             \/ \E t \in Tools : ToolStarts(t) \/ ToolEnds(t)
             \/ \E a \in Actors : TellStep(a)

WatcherSpec == WatcherInit /\ [][WatcherNext]_watcherVars

-----------------------------------------------------------------------------
(* Properties. *)

\* Everybody who has something to tell has told it.
Settled ==
    /\ fsEvents = <<>>
    /\ \A a \in Actors : job[a] = Rest \/ job[a].do = "tool"

\* The server hears of the last change of every file, of a kind that it wants
\* to be told: events are held back, timers are stopped, replaced and
\* forgotten by others while they read the file, and a file may be opened in
\* the middle of it. Not so when the loop has ended because a created file was
\* gone, or a message was written into another one; and a server that heard of
\* the change may be told an older text afterwards, by whoever read it before
\* (watcher.go:371-449, 619-682, client.go:588-664, diagnostics.go:90-145).
NoChangeUnreported ==
    Settled /\ watching /\ ~garbled =>
        \A f \in Files : last[f] \in Kinds \cup {""} => reported[f]

=============================================================================
