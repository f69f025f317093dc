----------------------------- MODULE UndoStack -----------------------------
(***************************************************************************)
(* Snapshots, undo and redo of the tools that change files: write, edit,   *)
(* delete_file and undo.  Both stacks live in one file, stacks.json, that  *)
(* every step reads whole and writes whole.                                *)
(*                                                                         *)
(* Each actor is an agent that runs one tool at a time; an action is what  *)
(* happens between two awaits.  Paths are files: a directory is outside    *)
(* this model.                                                             *)
(***************************************************************************)
EXTENDS Naturals, Sequences

CONSTANTS
    Actors,      \* agents that share the working directory
    Paths,
    Contents,
    Absent,      \* null: the file does not exist
    Cap,         \* entries kept of a stack (50 in the code)
    MaxChanges,  \* bound: snapshots taken in a behaviour
    MaxCrashes   \* bound: crashes of the engine

ASSUME UndoAssumption ==
    /\ Absent \notin Contents
    /\ Cap \in Nat \ {0}
    /\ MaxChanges \in Nat
    /\ MaxCrashes \in Nat

VARIABLES
    file,     \* the files of the user
    stacks,   \* stacks.json
    op,       \* the tool each actor runs
    made,     \* snapshots taken so far; their ids
    crashes

vars == <<file, stacks, op, made, crashes>>

State  == Contents \cup {Absent}
Entry  == [id : 0 .. MaxChanges, path : Paths, content : State, after : State]
Stacks == [undo : Seq(Entry), redo : Seq(Entry)]
Empty  == [undo |-> <<>>, redo |-> <<>>]

Steps == {"idle", "snap", "push", "mutate", "record", "amend",
          "restore", "settle"}
Kinds == {"none", "write", "snapshot", "undo", "redo", "failed"}

Resting == [pc |-> "idle", kind |-> "none"]

Init ==
    /\ file \in [Paths -> State]
    /\ stacks = Empty
    /\ op = [a \in Actors |-> Resting]
    /\ made = 0
    /\ crashes = 0

Last(s) == s[Len(s)]
ButLast(s) == SubSeq(s, 1, Len(s) - 1)

\* Faulty variant of Latest: the newest entries are cut off.
Oldest(s) == SubSeq(s, 1, IF Len(s) > Cap THEN Cap ELSE Len(s))

\* slice(-Cap)
Latest(s) ==
    IF Len(s) > Cap THEN SubSeq(s, Len(s) - Cap + 1, Len(s)) ELSE s

Rest(a) == op' = [op EXCEPT ![a] = Resting]
Step(a, o) == op' = [op EXCEPT ![a] = o]

(***************************************************************************)
(* write, edit, delete_file, and the manual snapshot.                      *)
(***************************************************************************)
\* takeSnapshot reads the file; the entry has no "after" yet, which
\* pushStack stores as null.
TakeSnapshot(a, kind, p, v) ==
    /\ op[a].pc = "idle" /\ made < MaxChanges
    /\ made' = made + 1
    /\ Step(a, [pc |-> "snap", kind |-> kind, new |-> v,
                entry |-> [id |-> made + 1, path |-> p, content |-> file[p],
                           after |-> Absent]])
    /\ UNCHANGED <<file, stacks, crashes>>

Write(a, p, v) == TakeSnapshot(a, "write", p, v)

\* oldString must be found, so the file exists.
Edit(a, p, v) == file[p] \in Contents \ {v} /\ TakeSnapshot(a, "write", p, v)

\* The user said yes to the confirmation and the file exists.
Delete(a, p) == file[p] # Absent /\ TakeSnapshot(a, "write", p, Absent)

ManualSnapshot(a, p) == TakeSnapshot(a, "snapshot", p, file[p])

\* readMeta of pushStack and of recordAfterContent.
ReadStacks(a) ==
    /\ op[a].pc \in {"snap", "record"}
    /\ Step(a, [pc |-> IF op[a].pc = "snap" THEN "push" ELSE "amend",
                kind |-> op[a].kind, new |-> op[a].new,
                entry |-> op[a].entry, meta |-> stacks])
    /\ UNCHANGED <<file, stacks, made, crashes>>

\* pushStack: a new change invalidates the redo history.
PushSnapshot(a) ==
    /\ op[a].pc = "push"
    /\ stacks' = [undo |-> Latest(Append(op[a].meta.undo, op[a].entry)),
                  redo |-> <<>>]
    /\ IF op[a].kind = "snapshot"
       THEN Rest(a)
       ELSE Step(a, [op[a] EXCEPT !.pc = "mutate"])
    /\ UNCHANGED <<file, made, crashes>>

Mutate(a) ==
    /\ op[a].pc = "mutate"
    /\ file' = [file EXCEPT ![op[a].entry.path] = op[a].new]
    /\ Step(a, [op[a] EXCEPT !.pc = "record"])
    /\ UNCHANGED <<stacks, made, crashes>>

\* mkdir, writeFile or rm throws: the tool fails, its snapshot stays.
MutateFails(a) ==
    /\ op[a].pc = "mutate"
    /\ Rest(a)
    /\ UNCHANGED <<file, stacks, made, crashes>>

\* recordAfterContent: the entry with this id, if it is still there.
RecordAfter(a) ==
    LET Amended(e) == IF e.id = op[a].entry.id
                      THEN [e EXCEPT !.after = op[a].new] ELSE e
        u == op[a].meta.undo
    IN  /\ op[a].pc = "amend"
        /\ stacks' = [undo |-> Latest([i \in DOMAIN u |-> Amended(u[i])]),
                      redo |-> op[a].meta.redo]
        /\ Rest(a)
        /\ UNCHANGED <<file, made, crashes>>

(***************************************************************************)
(* undo and redo.                                                          *)
(***************************************************************************)
\* readMeta and pop; an empty stack is answered at once.
Pop(a, kind, s) ==
    /\ op[a].pc = "idle" /\ s # <<>>
    /\ Step(a, [pc |-> "restore", kind |-> kind, entry |-> Last(s),
                meta |-> stacks])
    /\ UNCHANGED <<file, stacks, made, crashes>>

StartUndo(a) == Pop(a, "undo", stacks.undo)
StartRedo(a) == Pop(a, "redo", stacks.redo)

Restore(a) ==
    LET e == op[a].entry
    IN  /\ op[a].pc = "restore"
        /\ file' = [file EXCEPT ![e.path] =
                      IF op[a].kind = "undo" THEN e.content ELSE e.after]
        /\ Step(a, [op[a] EXCEPT !.pc = "settle"])
        /\ UNCHANGED <<stacks, made, crashes>>

\* The file could not be written: the popped entry goes back.
RestoreFails(a) ==
    /\ op[a].pc = "restore"
    /\ Step(a, [op[a] EXCEPT !.pc = "settle", !.kind = "failed"])
    /\ UNCHANGED <<file, stacks, made, crashes>>

\* Faulty variant of Settle: the entry is not taken off the stack it came from.
SettleKeepsPopped(a) ==
    LET m == op[a].meta
        e == op[a].entry
    IN  /\ op[a].pc = "settle"
        /\ stacks' = CASE op[a].kind = "undo" ->
                            [m EXCEPT !.redo = Latest(Append(@, e))]
                       [] op[a].kind = "redo" ->
                            [m EXCEPT !.undo = Latest(Append(@, e))]
                       [] OTHER -> m
        /\ Rest(a)
        /\ UNCHANGED <<file, made, crashes>>

Settle(a) ==
    LET m == op[a].meta
        e == op[a].entry
    IN  /\ op[a].pc = "settle"
        /\ stacks' = CASE op[a].kind = "undo" ->
                            [undo |-> ButLast(m.undo),
                             redo |-> Latest(Append(m.redo, e))]
                       [] op[a].kind = "redo" ->
                            [undo |-> Latest(Append(m.undo, e)),
                             redo |-> ButLast(m.redo)]
                       [] OTHER -> m
        /\ Rest(a)
        /\ UNCHANGED <<file, made, crashes>>

(***************************************************************************)
(* The engine dies.  A stacks.json that was being written may be torn, and *)
(* readMeta takes a torn one for two empty stacks.                         *)
(***************************************************************************)
Crash ==
    /\ crashes < MaxCrashes
    /\ crashes' = crashes + 1
    /\ op' = [a \in Actors |-> Resting]
    /\ \/ stacks' = stacks
       \/ /\ \E a \in Actors : op[a].pc \in {"push", "amend", "settle"}
          /\ stacks' = Empty
    /\ UNCHANGED <<file, made>>

Next ==
    \/ \E a \in Actors :
         \/ \E p \in Paths :
              \/ \E v \in Contents : Write(a, p, v) \/ Edit(a, p, v)
              \/ Delete(a, p) \/ ManualSnapshot(a, p)
         \/ ReadStacks(a) \/ PushSnapshot(a)
         \/ Mutate(a) \/ MutateFails(a) \/ RecordAfter(a)
         \/ StartUndo(a) \/ StartRedo(a)
         \/ Restore(a) \/ RestoreFails(a) \/ Settle(a)
    \/ Crash

Spec == Init /\ [][Next]_vars

(***************************************************************************)
(* Properties.                                                             *)
(***************************************************************************)
\* The type of every variable; no stack outgrows its cap.
TypeOK ==
    /\ file \in [Paths -> State]
    /\ stacks \in Stacks
    /\ Len(stacks.undo) <= Cap /\ Len(stacks.redo) <= Cap
    /\ \A a \in Actors : op[a].pc \in Steps /\ op[a].kind \in Kinds
    /\ made \in 0 .. MaxChanges
    /\ crashes \in 0 .. MaxCrashes

\* A change is in one place of the history only: undone or not, never both,
\* and never twice, or an undo would bring back a state out of its turn.
EachChangeOnce ==
    LET all == stacks.undo \o stacks.redo
    IN  \A i, j \in DOMAIN all : all[i].id = all[j].id => i = j

\* What UndoHistory sees while one agent works: the stacks, with an undo or a
\* redo counted from the moment its file has changed.
Solo == CHOOSE a \in Actors : TRUE

Undone == op[Solo].pc = "settle" /\ op[Solo].kind = "undo"
Redone == op[Solo].pc = "settle" /\ op[Solo].kind = "redo"

Known(s) ==
    [i \in DOMAIN s |-> [path |-> s[i].path, content |-> s[i].content]]

Past == Known(CASE Undone -> ButLast(stacks.undo)
                [] Redone -> Append(stacks.undo, op[Solo].entry)
                [] OTHER  -> stacks.undo)

Future == Known(CASE Undone -> Append(stacks.redo, op[Solo].entry)
                  [] Redone -> ButLast(stacks.redo)
                  [] OTHER  -> stacks.redo)

History == INSTANCE UndoHistory WITH past <- Past, future <- Future

\* The tools of one agent implement UndoHistory: write, edit, delete_file,
\* undo and redo keep one line of changes, through failed writes, failed
\* restores, manual snapshots, full stacks and crashes between the steps.
GoesBack == History!Spec

(***************************************************************************)
(* What the comments say and the code does not do.                         *)
(***************************************************************************)
\* undoSnapshot.ts: the content after the change is recorded so that redo can
\* replay it exactly: what an undo would undo now, a redo would bring back.
RedoReplaysExactly ==
    (\A a \in Actors : op[a].pc = "idle") /\ stacks.undo # <<>>
      => Last(stacks.undo).after = file[Last(stacks.undo).path]
============================================================================
