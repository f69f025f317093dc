----------------------------- MODULE MCGoTools -----------------------------
(***************************************************************************)
(* Small instances of GoPatch, the patches that the patch tool is given,   *)
(* and GoShell, the calls of the bash tool. The two tools share nothing,   *)
(* so that each is checked while the other one rests.                      *)
(***************************************************************************)
EXTENDS GoPatch, GoShell, TLC

Text(c) == [core |-> c, before |-> FALSE, after |-> FALSE]
TextAndBlank(c) == [core |-> c, before |-> FALSE, after |-> TRUE]
OfFile(k, p) == [kind |-> k, path |-> p]
WithText(k, t) == [kind |-> k, text |-> t]
Mark(k) == [kind |-> k]

SmallTexts == {Text(c) : c \in {"a", "b", "x"}} \cup {TextAndBlank("a")}

Plain ==
    {WithText(k, Text("a")) : k \in {"-", " ", "at"}} \cup
    {WithText("+", Text("x")), Mark("@@")}

Letters == Plain \cup {WithText("-", Text("b")), WithText(" ", TextAndBlank("a")), Mark("eof"), Mark("foreign")}

EmptyPatch == <<Mark("end")>>

\* Bound: the patches of one file with a body of at most three lines, or four
\* that are plain, and some that update, add, delete and move two files.
SmallPatches ==
    {EmptyPatch} \cup
    {<<OfFile("update", "f")>> \o body \o <<Mark("end")>> :
        body \in UNION {[1 .. n -> Letters] : n \in 0 .. 3} \cup [1 .. 4 -> Plain]}
    \cup {first \o second \o <<Mark("end")>> :
             first  \in {<<OfFile("update", "f"), OfFile("move", "g"), WithText("-", Text("a")), WithText("+", Text("x"))>>,
                         <<OfFile("delete", "f")>>, <<Mark("foreign")>>,
                         <<OfFile("add", "h"), WithText("+", Text("x"))>>},
             second \in {<<OfFile("delete", p)>> : p \in {"f", "g"}}
                        \cup {<<OfFile("add", p), l>> : p \in {"g", "h"}, l \in Letters}
                        \cup {<<OfFile("update", p), WithText("-", Text("a"))>> : p \in {"f", "g"}}}

SmallTrees ==
    {[p \in {"f", "g"} |-> IF p = "f" THEN t ELSE <<Text("a")>>] :
        t \in {<<Text("a"), Text("b"), Text("a")>>, <<Text("b"), TextAndBlank("a")>>}}

Init == PatchInit /\ ShellInit

\* The bash tool is called after one of the patches, that is empty.
AfterPatch == lines = EmptyPatch /\ mode = "done" /\ Len(orig["f"]) = 3

Next ==
    \/ PatchStep /\ UNCHANGED shellVars
    \/ AfterPatch /\ ShellNext /\ UNCHANGED patchVars

Spec ==
    /\ Init /\ [][Next]_<<patchVars, shellVars>>
    /\ WF_patchVars(PatchStep)
    /\ ShellFairness

=============================================================================
