------------------------------ MODULE GoFiles ------------------------------
(***************************************************************************)
(* The tools of the agent in Go that read and change files (view, edit,    *)
(* write, patch in internal/llm/tools), the record of what was read        *)
(* (file.go) and the history of versions in the database                   *)
(* (internal/history, table files of internal/db).                         *)
(*                                                                         *)
(* Each session runs one tool at a time. Between the look at a file and    *)
(* its change lies the question to the user, so that sessions, the user's  *)
(* editor and a crash of the program come in between. The database takes    *)
(* every call, unless the request that it serves was cancelled.            *)
(***************************************************************************)
EXTENDS Naturals, FiniteSets, FiniteSetsExt

CONSTANTS
    Editors,      \* the sessions whose tools are followed
    Paths,
    Empty,        \* the content ""
    Texts,        \* bound: contents other than the empty one
    Absent,       \* no file at a path
    MaxTools,     \* bound: tool calls that begin
    MaxChanges,   \* bound: changes from outside
    MaxSeconds    \* bound: seconds that pass

ASSUME FilesAssumption ==
    /\ Empty \notin Texts /\ Absent \notin Texts \cup {Empty, "patched"}
    /\ MaxTools \in Nat /\ MaxChanges \in Nat /\ MaxSeconds \in Nat

VARIABLES
    disk,      \* the content of each file
    record,    \* fileRecords: never read, read since the last change, or not
    rows,      \* the table files
    second,    \* strftime('%s', 'now'), the created_at of a row
    tool,      \* the tool that a session runs
    begun,     \* tool calls begun
    changes,   \* changes from outside
    seen,      \* history: the content that was read last, with fileRecords
    hit,       \* history: files changed under a tool that had looked at them
    missed,    \* history: files whose record does not mean they were seen as they are
    before,    \* history: what was there when a session first changed a file
    lost       \* history: files whose first change left no way back to that

filesVars == <<disk, record, rows, second, tool, begun, changes, seen, hit, missed, before, lost>>

Contents == Texts \cup {Empty}
Patched == "patched"   \* the first change of a session was a patch that adds the file

\* A change of a file: what was there, what is to be, and at which path.
Change == [type : {"add", "update", "delete"}, old : Contents, new : Contents, to : Paths]

\* A tool at rest, or its name, what it waits for, its changes, and those of
\* them that the current stage has still to go through.
Idle == [name |-> "none", at |-> "idle", plan |-> [p \in {} |-> 0], left |-> {}]
Begin(name, at, plan) == [name |-> name, at |-> at, plan |-> plan, left |-> DOMAIN plan]

FilesInit ==
    /\ disk \in [Paths -> {Absent} \cup Contents]
    /\ record = [p \in Paths |-> "never"]
    /\ rows = {} /\ second = 0
    /\ tool = [s \in Editors |-> Idle]
    /\ begun = 0 /\ changes = 0
    /\ seen = [p \in Paths |-> Absent]
    /\ hit = {} /\ missed = {}
    /\ before = [x \in Editors \X Paths |-> Absent] /\ lost = {}

-----------------------------------------------------------------------------
(* The history. A row is a version of a file in a session; "initial" is 0, *)
(* vN is N, and a version made of the clock lies past all the others.      *)

Row(s, p, c, v) == [sess |-> s, path |-> p, content |-> c, version |-> v, at |-> second]
Of(rs, p) == {r \in rs : r.path = p}
Mine(rs, s, p) == {r \in Of(rs, p) : r.sess = s}

\* ORDER BY created_at DESC: the rows of one second come in any order.
Latest(rs) == {r \in rs : \A q \in rs : q.at <= r.at}

Stamp == 100 + second

\* createWithVersion: three attempts, each past a version that is taken in
\* this session (UNIQUE(path, session_id, version)).
Insert(rs, s, p, c, v) ==
    LET tries == IF v = 0 THEN <<0, Stamp, Stamp + 1>> ELSE <<v, v + 1, v + 2>>
        free  == {i \in 1 .. 3 : \A r \in Mine(rs, s, p) : r.version # tries[i]}
    IN  IF free = {} THEN rs ELSE rs \cup {Row(s, p, c, tries[Min(free)])}

\* CreateVersion: one more than the latest version of the path, of whatever
\* session, and any of the latest if several are of one second.
CreateVersion(rs, s, p, c) ==
    IF Of(rs, p) = {} THEN {Insert(rs, s, p, c, 0)}
    ELSE {Insert(rs, s, p, c, r.version + 1) : r \in Latest(Of(rs, p))}

\* Faulty variant of Versions: the history of the path is looked up in all
\* sessions.
VersionsOfPath(rs, s, p, old, new) ==
    LET stored == IF Of(rs, p) = {} THEN {Insert(rs, s, p, old, 0)} ELSE {rs}
    IN  UNION {CreateVersion(r, s, p, new) : r \in stored}

\* The content that a tool planned a change from: stored as the first version
\* of the session, if there is none.
First(rs, s, p, old) == IF Mine(rs, s, p) = {} THEN Insert(rs, s, p, old, 0) ELSE rs

\* Then once more, if it is not the one that the tools left. After the first
\* Create, file is the zero File.
Between(rs, s, p, old) ==
    LET found == IF Mine(rs, s, p) = {} THEN {Empty}
                 ELSE {r.content : r \in Latest(Mine(rs, s, p))}
    IN  UNION {IF c # old THEN CreateVersion(First(rs, s, p, old), s, p, old)
               ELSE {First(rs, s, p, old)} : c \in found}

\* The history of a change of a file: these two, and the new content.
Versions(rs, s, p, old, new) == UNION {CreateVersion(r, s, p, new) : r \in Between(rs, s, p, old)}

\* createNewFile does not look whether the session knows the path.
NewVersions(rs, s, p, new) == CreateVersion(Insert(rs, s, p, Empty, 0), s, p, new)

-----------------------------------------------------------------------------
(* The tools up to the question. One that finds a file missing, a          *)
(* directory, not read or changed since, answers with an error and leaves  *)
(* everything as it is.                                                    *)

Starts(s, name, at, plan) ==
    /\ tool[s] = Idle /\ begun < MaxTools
    /\ begun' = begun + 1
    /\ tool' = [tool EXCEPT ![s] = Begin(name, at, plan)]
    /\ UNCHANGED <<disk, record, rows, second, changes, seen, hit, missed, before, lost>>

Present(p) == disk[p] # Absent

\* Faulty variant of Fresh: the time of the change is not compared.
FreshOnce(p) == Present(p) /\ record[p] # "never"

\* getLastReadTime is not before the time of the file's change.
Fresh(p) == Present(p) /\ record[p] = "fresh"

Single(p, type, old, new) == [q \in {p} |-> [type |-> type, old |-> old, new |-> new, to |-> p]]

\* view reads the file, and records that it did after the language servers
\* were told. With an offset or a limit, and of a file of too many or too long
\* lines, the model is shown a part; the record is the same.
View(s, p) ==
    /\ Present(p)
    /\ \E name \in {"view", "part"} :
           Starts(s, name, "record", Single(p, "update", disk[p], disk[p]))

Views == {"view", "part"}

\* edit, replaceContent: another text instead of the old_string. An empty
\* old_string is found in an empty file only.
Edit(s, p, new) ==
    /\ Fresh(p) /\ new # disk[p]
    /\ Starts(s, "replace", "ask", Single(p, "update", disk[p], new))

\* edit with an empty new_string: deleteContent.
EditDelete(s, p, new) ==
    /\ Fresh(p) /\ new # disk[p] /\ disk[p] # Empty
    /\ Starts(s, "delete", "ask", Single(p, "update", disk[p], new))

\* edit with an empty old_string and no file: createNewFile.
EditNew(s, p, new) ==
    /\ ~Present(p)
    /\ Starts(s, "create", "ask", Single(p, "add", Empty, new))

Write(s, p, new) ==
    /\ new # Empty /\ new # disk[p]
    /\ Present(p) => Fresh(p)
    /\ Starts(s, "write", "ask",
              Single(p, IF Present(p) THEN "update" ELSE "add",
                     IF Present(p) THEN disk[p] ELSE Empty, new))

\* patch: every file that it changes or deletes was read, every file that it
\* adds is missing. TextToPatch and PatchToCommit make the changes. The path
\* that an updated file is moved to is not looked at, whatever is there.
Patch(s) ==
    \E ps \in (SUBSET Paths) \ {{}}, to \in [Paths -> Paths] :
        \E new \in [ps -> Contents \cup {Absent}] :
            /\ \A p \in ps : IF Present(p) THEN Fresh(p) ELSE new[p] # Absent
            /\ \A p \in Paths : to[p] # p => p \in ps /\ Present(p) /\ new[p] # Absent
            /\ Starts(s, "patch", "ask",
                   [p \in ps |-> [type |-> IF ~Present(p) THEN "add"
                                           ELSE IF new[p] = Absent THEN "delete" ELSE "update",
                                  old  |-> IF Present(p) THEN disk[p] ELSE Empty,
                                  new  |-> IF new[p] = Absent THEN Empty ELSE new[p],
                                  to   |-> to[p]]])

-----------------------------------------------------------------------------
(* The question, the change and its record, file after file. The files of  *)
(* a patch are those of a map: they come in any order.                     *)

At(s, stage) == tool[s].at = stage
Plan(s, p) == tool[s].plan[p]
Others == UNCHANGED <<second, begun, changes>>

\* The file p is done in this stage; after the last one comes the next stage.
Passes(s, p, next) ==
    LET t == tool[s]
        after == IF t.left # {p} THEN [t EXCEPT !.left = t.left \ {p}]
                 ELSE IF next = "idle" THEN Idle
                 ELSE [t EXCEPT !.at = next, !.left = DOMAIN t.plan]
    IN  tool' = [tool EXCEPT ![s] = after]

Grants(s, p) ==
    /\ At(s, "ask") /\ p \in tool[s].left
    /\ Passes(s, p, "change")
    /\ Others /\ UNCHANGED <<disk, record, rows, seen, hit, missed, before, lost>>

ForgetsHits(s) == hit' = {h \in hit : h[1] # s}

Denies(s) ==
    /\ At(s, "ask")
    /\ tool' = [tool EXCEPT ![s] = Idle]
    /\ ForgetsHits(s)
    /\ Others /\ UNCHANGED <<disk, record, rows, seen, missed, before, lost>>

\* The tools that have looked at p, or changed it, and are not done with it.
Watching(p) ==
    {s \in Editors : /\ p \in DOMAIN tool[s].plan
                     /\ \/ At(s, "ask") \/ At(s, "change")
                        \/ At(s, "record") /\ p \in tool[s].left
                        \/ At(s, "cut") /\ p \in tool[s].left}

\* The files that a tool has changed and not recorded.
Unrecorded(s) ==
    IF tool[s].name \in Views THEN {}
    ELSE CASE At(s, "change") -> DOMAIN tool[s].plan \ tool[s].left
           [] At(s, "record") \/ At(s, "cut") -> tool[s].left
           [] OTHER -> {}

\* A tool ends without recording them: for the first change of the session
\* nothing leads back.
Loses(s) == {<<s, p>> : p \in {q \in Unrecorded(s) : Mine(rows, s, q) = {}}}

Stale(ps) == [p \in Paths |-> IF p \in ps /\ record[p] = "fresh" THEN "stale" ELSE record[p]]
Hits(ps) == UNION {Watching(p) \X {p} : p \in ps}

Was(p) == IF Present(p) THEN disk[p] ELSE Empty

\* The file is what the tool planned its change from.
AsPlanned(s, p) == Was(p) = Plan(s, p).old /\ (Present(p) <=> Plan(s, p).type # "add")

\* ApplyCommit, os.WriteFile, os.Remove. The file may have changed since it
\* was looked at: what is written over then is in no version.
Changes(s, p) ==
    /\ At(s, "change") /\ p \in tool[s].left
    /\ LET ch == Plan(s, p)
       IN  /\ disk' = [q \in Paths |-> CASE ch.type # "delete" /\ q = ch.to -> ch.new
                                         [] ch.type = "delete" /\ q = p    -> Absent
                                         [] ch.to # p /\ q = p             -> Absent
                                         [] OTHER                          -> disk[q]]
           /\ record' = Stale({p, ch.to})
           /\ hit' = (hit \cup Hits({p, ch.to})) \ {<<s, p>>}
           /\ before' = IF before[<<s, p>>] # Absent THEN before
                        ELSE [before EXCEPT ![<<s, p>>] =
                                  IF tool[s].name = "patch" /\ ch.type = "add"
                                  THEN Patched ELSE Was(p)]
           /\ lost' = IF before[<<s, p>>] = Absent /\ <<s, p>> \in hit
                      THEN lost \cup {<<s, p>>} ELSE lost
    /\ Passes(s, p, "record")
    /\ Others /\ UNCHANGED <<rows, seen, missed>>

\* It fails. The files that a patch has changed before stay changed, without
\* a version or a record, and so does the path that a file was to move to if
\* only os.Remove fails.
ChangeFails(s, p) ==
    /\ At(s, "change") /\ p \in tool[s].left
    /\ LET to == Plan(s, p).to
       IN  \/ UNCHANGED <<disk, record>> /\ ForgetsHits(s)
           \/ /\ to # p
              /\ disk' = [disk EXCEPT ![to] = Plan(s, p).new]
              /\ record' = Stale({to})
              /\ hit' = {h \in hit \cup Hits({to}) : h[1] # s}
    /\ tool' = [tool EXCEPT ![s] = Idle]
    /\ lost' = lost \cup Loses(s)
    /\ Others /\ UNCHANGED <<rows, seen, missed, before>>

\* The versions of a change. A deletion of text stores "" as the new content;
\* a file that a patch adds has no version before its first.
History(s, p) ==
    LET ch == Plan(s, p)
    IN  CASE tool[s].name \in Views  -> {rows}
          [] tool[s].name = "create" -> NewVersions(rows, s, p, ch.new)
          [] tool[s].name = "delete" -> Versions(rows, s, p, ch.old, Empty)
          [] tool[s].name = "patch" /\ ch.type = "add" -> CreateVersion(rows, s, p, ch.new)
          [] OTHER                   -> Versions(rows, s, p, ch.old, ch.new)

\* recordFileWrite and recordFileRead. A part shows the model nothing new of a
\* file that it has seen as it is.
Marks(s, p) ==
    LET after == IF Plan(s, p).type = "delete" \/ Plan(s, p).to # p THEN Absent ELSE Plan(s, p).new
        new   == tool[s].name # "part" \/ (seen[p] = after /\ p \notin missed)
    IN  /\ record' = [record EXCEPT ![p] = "fresh"]
        /\ seen' = [seen EXCEPT ![p] = after]
        /\ missed' = IF <<s, p>> \in hit \/ ~new THEN missed \cup {p} ELSE missed \ {p}
        /\ hit' = hit \ {<<s, p>>}

Recorded(s) == IF tool[s].name \in {"create", "delete"} THEN "again" ELSE "idle"

\* The history and the record. After the creation of a file, or a deletion of
\* text, edit goes on to replaceContent.
Records(s, p) ==
    /\ At(s, "record") /\ p \in tool[s].left
    /\ rows' \in History(s, p)
    /\ Marks(s, p)
    /\ Passes(s, p, Recorded(s))
    /\ Others /\ UNCHANGED <<disk, before, lost>>

\* What is stored when the request is cancelled on the way. A patch goes on
\* even if nothing was; the other tools answer with an error when the first
\* version cannot be stored.
Kept(s, p) ==
    LET old == Plan(s, p).old
    IN  CASE tool[s].name = "patch" /\ Plan(s, p).type = "add" -> {rows}
          [] tool[s].name = "patch"  -> {rows, First(rows, s, p, old)} \cup Between(rows, s, p, old)
          [] tool[s].name = "create" -> {Insert(rows, s, p, Empty, 0)}
          [] OTHER -> {First(rows, s, p, old)} \cup Between(rows, s, p, old)

\* The request is cancelled while versions are stored: those that are missing
\* are logged, and the rest of a patch is recorded without any.
RecordsCut(s, p) ==
    /\ p \in tool[s].left /\ tool[s].name \notin Views
    /\ \/ At(s, "record") /\ rows' \in Kept(s, p)
       \/ At(s, "cut") /\ UNCHANGED rows
    /\ lost' = IF Mine(rows', s, p) = {} THEN lost \cup {<<s, p>>} ELSE lost
    /\ Marks(s, p)
    /\ IF tool[s].left = {p} THEN Passes(s, p, Recorded(s))
       ELSE tool' = [tool EXCEPT ![s].at = "cut", ![s].left = @ \ {p}]
    /\ Others /\ UNCHANGED <<disk, before>>

\* edit and write find the request cancelled when they look for the versions:
\* they answer with an error, and the change is neither stored nor recorded.
RecordFails(s) ==
    /\ At(s, "record") /\ tool[s].name \notin Views \cup {"patch"}
    /\ tool' = [tool EXCEPT ![s] = Idle]
    /\ ForgetsHits(s)
    /\ lost' = lost \cup Loses(s)
    /\ Others /\ UNCHANGED <<disk, record, rows, seen, missed, before>>

\* replaceContent with an empty old_string finds it once in an empty file
\* only; with an empty new_string it may find the old one again. Mostly it
\* answers with an error, though the file was changed.
EditAgain(s, p) ==
    /\ At(s, "again") /\ p \in tool[s].left
    /\ \/ tool' = [tool EXCEPT ![s] = Idle]
       \/ /\ Fresh(p)
          /\ tool[s].name = "create" => disk[p] = Empty
          /\ \E new \in Contents \ {disk[p]} :
                tool' = [tool EXCEPT ![s] = Begin("replace", "ask", Single(p, "update", disk[p], new))]
    /\ Others /\ UNCHANGED <<disk, record, rows, seen, hit, missed, before, lost>>

-----------------------------------------------------------------------------

\* A file is changed from outside: an editor, or a command of the shell.
Outside(p) ==
    /\ changes < MaxChanges /\ changes' = changes + 1
    /\ \E c \in (Contents \cup {Absent}) \ {disk[p]} : disk' = [disk EXCEPT ![p] = c]
    /\ record' = Stale({p})
    /\ hit' = hit \cup Hits({p})
    /\ UNCHANGED <<rows, second, tool, begun, seen, missed, before, lost>>

Second ==
    /\ second < MaxSeconds /\ second' = second + 1
    /\ UNCHANGED <<disk, record, rows, tool, begun, changes, seen, hit, missed, before, lost>>

\* The program ends in the middle and is started again.
FilesCrash ==
    /\ \E s \in Editors : tool[s] # Idle
    /\ tool' = [s \in Editors |-> Idle]
    /\ record' = [p \in Paths |-> "never"]
    /\ seen' = [p \in Paths |-> Absent]
    /\ hit' = {} /\ missed' = {}
    /\ lost' = lost \cup UNION {Loses(s) : s \in Editors}
    /\ Others /\ UNCHANGED <<disk, rows, before>>

FilesNext ==
    \/ \E s \in Editors :
        \/ Patch(s) \/ Denies(s) \/ RecordFails(s)
        \/ \E p \in Paths :
            \/ View(s, p)
            \/ \E new \in Contents : Edit(s, p, new) \/ EditDelete(s, p, new)
                                       \/ EditNew(s, p, new) \/ Write(s, p, new)
            \/ Grants(s, p) \/ Changes(s, p) \/ ChangeFails(s, p)
            \/ Records(s, p) \/ RecordsCut(s, p) \/ EditAgain(s, p)
    \/ \E p \in Paths : Outside(p)
    \/ Second \/ FilesCrash

FilesSpec == FilesInit /\ [][FilesNext]_filesVars

-----------------------------------------------------------------------------
(* Properties. *)

\* The windows through which a tool changes a file that no model has seen as
\* it is are these three, whoever else changes files: a change that falls
\* between the reading or writing of the file and its record, a view that
\* showed a part of it, and a change that falls between the look of the tool
\* and its write, while the user is asked. In all other cases what is planned
\* over is what a model was shown last, or wrote itself, and what is written
\* over is what was planned from. The path that a patch moves a file to is not
\* covered: nothing looks at it (file.go, view.go:171-190, edit.go:260-285,
\* 389-452, write.go:116-133, 176, patch.go:88-144, 249-277; see
\* WritesWhatItRead).
NoBlindEdit ==
    [][\A s \in Editors :
        /\ tool[s].at # "ask" /\ tool'[s].at = "ask" =>
               \A p \in DOMAIN tool'[s].plan :
                   Present(p) => disk[p] = seen[p] \/ p \in missed
        /\ \A p \in Paths : Changes(s, p) => AsPlanned(s, p) \/ <<s, p>> \in hit]_filesVars

\* The initial version of a file in a session, against which the sidebar
\* shows what the session changed, is the content that its first change found
\* there, whatever other sessions stored of that path, as soon as that change
\* is recorded. Lost is a first change that wrote over something else than the
\* tool had read, or whose versions were never stored: the program crashed, a
\* patch failed at a later file, the request was cancelled. A file that a patch
\* adds has no such version (history/file.go:57-156, edit.go:452-480,
\* write.go:176-203, patch.go:308-333; see ChangesAreRecorded).
BaselineKept ==
    \A s \in Editors, p \in Paths :
        before[<<s, p>>] \notin {Absent, Patched} /\ <<s, p>> \notin lost =>
            \/ p \in Unrecorded(s)
            \/ \E r \in Mine(rows, s, p) : r.version = 0 /\ r.content = before[<<s, p>>]

-----------------------------------------------------------------------------
(* What comments and descriptions say and the code does not do. *)

\* write.go:59: the tool checks whether the file was modified since it was last
\* read, for safety. It does so before the user is asked, and not again.
WritesWhatItRead ==
    [][\A s \in Editors, p \in Paths :
           Changes(s, p) /\ tool[s].name = "write" => Was(p) = Plan(s, p).old]_filesVars

\* edit.go:462 and write.go:196: an error of the history is logged and does not
\* fail the operation. It does, after the file was written.
ChangesAreRecorded ==
    [][\A s \in Editors : \A p \in Unrecorded(s) :
           tool[s].name # "patch" /\ tool'[s] = Idle => record'[p] = "fresh" \/ FilesCrash]_filesVars

=============================================================================
