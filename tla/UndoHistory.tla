---------------------------- MODULE UndoHistory ----------------------------
(* What the undo tool promises: one line of changes with a cursor in it.   *)
(* A file changes only after its content was saved; undo goes back to what *)
(* was saved, redo goes forward again, and a new change ends the way       *)
(* forward.  What a redo writes is left open.  A crash may take back the   *)
(* last move of the cursor, or lose the history, but never touches a file. *)
EXTENDS Naturals, Sequences

CONSTANTS Paths, Contents, Absent, Cap

VARIABLES file, past, future, crashes

Last(s) == s[Len(s)]
ButLast(s) == SubSeq(s, 1, Len(s) - 1)
Latest(s) == IF Len(s) > Cap THEN Tail(s) ELSE s

Init ==
    /\ file \in [Paths -> Contents \cup {Absent}]
    /\ past = <<>>
    /\ future = <<>>
    /\ crashes = 0

Save(p) ==
    /\ past' = Latest(Append(past, [path |-> p, content |-> file[p]]))
    /\ future' = <<>>
    /\ UNCHANGED file

Rewrite(p) ==
    \E v \in Contents \cup {Absent} : file' = [file EXCEPT ![p] = v]

Change ==
    /\ past # <<>> /\ future = <<>>
    /\ Rewrite(Last(past).path)
    /\ UNCHANGED <<past, future>>

Back ==
    /\ past # <<>>
    /\ past' = ButLast(past)
    /\ future' = Append(future, Last(past))

Forward ==
    /\ future # <<>>
    /\ past' = Append(past, Last(future))
    /\ future' = ButLast(future)

Undo ==
    /\ Back
    /\ file' = [file EXCEPT ![Last(past).path] = Last(past).content]

Redo == Forward /\ Rewrite(Last(future).path)

Crash ==
    /\ crashes' = crashes + 1
    /\ UNCHANGED file
    /\ \/ Back
       \/ Forward
       \/ past' = <<>> /\ future' = <<>>
       \/ UNCHANGED <<past, future>>

Next ==
    \/ /\ (\E p \in Paths : Save(p)) \/ Change \/ Undo \/ Redo
       /\ UNCHANGED crashes
    \/ Crash

Spec == Init /\ [][Next]_<<file, past, future, crashes>>
============================================================================
