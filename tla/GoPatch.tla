------------------------------ MODULE GoPatch ------------------------------
(***************************************************************************)
(* The patch of the patch tool (internal/diff/patch.go): the parser that   *)
(* finds the place of every hunk in the file, and the new content that it  *)
(* makes of the chunks. A patch is a sequence of lines of a kind. The loop *)
(* of parseUpdateFile, the one of peekNextSection in it and those of       *)
(* PatchToCommit and getUpdatedFile take one round a step.                 *)
(*                                                                         *)
(* A text of a file has a core, and may have blanks before and after it.   *)
(* Places in a file count from 0, as in the source.                        *)
(***************************************************************************)
EXTENDS Integers, Sequences, FiniteSetsExt

CONSTANTS
    Texts,    \* bound: what a line of a file may say
    Paths,    \* bound: the paths that a patch names
    Patches,  \* bound: the patches that are applied, without the first line
    Trees     \* bound: the files that there are, each a sequence of texts

\* The kinds of the lines of a hunk, and of those that have no text.
InHunk == {"+", "-", " "}
Marks == {"@@", "eof", "end", "foreign"}

PatchLines ==
    [kind : InHunk \cup {"at"}, text : Texts]
    \cup [kind : {"update", "delete", "add", "move"}, path : Paths]
    \cup [kind : Marks]

ASSUME PatchAssumption ==
    /\ \A patch \in Patches : patch \in Seq(PatchLines) /\ patch # <<>> /\ patch[Len(patch)].kind = "end"
    /\ \A tree \in Trees : DOMAIN tree \subseteq Paths /\ \A p \in DOMAIN tree : tree[p] \in Seq(Texts)

VARIABLES
    mode,    \* what is done next, or how it ended
    lines,   \* Parser.lines
    orig,    \* the files on disk; currentFiles are those that are needed
    at,      \* Parser.index
    index,   \* parseUpdateFile: the line of the file up to which it is done
    path,    \* the file of parseUpdateFile and of getUpdatedFile
    moveTo,  \* where parseUpdateFile moves it
    section, \* the locals of peekNextSection
    chunks,  \* PatchAction.Chunks of this file
    hunks,   \* history: the hunks of this file, with the place of each
    fuzz,    \* Parser.fuzz
    actions, \* Patch.Actions, with the hunks
    output,  \* the locals of getUpdatedFile
    commit   \* Commit.Changes

patchVars == <<mode, lines, orig, at, index, path, moveTo, section, chunks, hunks, fuzz, actions,
               output, commit>>

Nowhere == "nowhere"
Ended == {"failed", "panicked", "done"}

\* The locals of peekNextSection. "new" is history: the lines that are kept or
\* added.
Section(old, new, del, ins, cs) == [old |-> old, new |-> new, del |-> del, ins |-> ins, chunks |-> cs]
NoSection == Section(<<>>, <<>>, <<>>, <<>>, <<>>)

\* No chunk of a file is applied: the next one, origIndex and destLines.
NoOutput == [next |-> 1, index |-> 0, dest |-> <<>>]

PatchInit ==
    /\ mode = "check"
    /\ lines \in Patches /\ orig \in Trees
    /\ at = 1 /\ index = 0
    /\ path = Nowhere /\ moveTo = Nowhere
    /\ section = NoSection /\ chunks = <<>> /\ hunks = <<>> /\ fuzz = 0
    /\ actions = [p \in {} |-> 0]
    /\ output = NoOutput
    /\ commit = [p \in {} |-> 0]

Line == lines[at]
Stops(how) ==
    /\ mode' = how
    /\ UNCHANGED <<lines, orig, at, index, path, moveTo, section, chunks, hunks, fuzz, actions, output,
                   commit>>
Fails == Stops("failed")

-----------------------------------------------------------------------------
(* Where a context is in a file, and how well it fits.                     *)

NoBlankAfter(text) == [text EXCEPT !.after = FALSE]
NoBlank(text) == [text EXCEPT !.before = FALSE, !.after = FALSE]

TrimRight(s) == [i \in DOMAIN s |-> NoBlankAfter(s[i])]
TrimSpace(s) == [i \in DOMAIN s |-> NoBlank(s[i])]

\* tryFindMatch: the first place from start on.
TryFindMatch(file, context, start) ==
    LET fits == {i \in start .. Len(file) - Len(context) :
                     \A j \in DOMAIN context : file[i + j] = context[j]}
    IN  IF fits = {} THEN -1 ELSE Min(fits)

\* findContextCore. The fuzz is asked of the comparison with "a " and "a",
\* which is no different for blanks on the right and on both sides.
FindContextCore(file, context, start) ==
    LET exact == TryFindMatch(file, context, start)
        right == TryFindMatch(TrimRight(file), TrimRight(context), start)
        both  == TryFindMatch(TrimSpace(file), TrimSpace(context), start)
    IN  CASE context = <<>> -> [i |-> start, fuzz |-> 0]
          [] context # <<>> /\ exact >= 0 -> [i |-> exact, fuzz |-> 0]
          [] context # <<>> /\ exact < 0 /\ right >= 0 -> [i |-> right, fuzz |-> 1]
          [] OTHER -> [i |-> both, fuzz |-> IF both >= 0 THEN 1 ELSE 0]

\* findContext: at the end of the file first, if the hunk is marked so.
FindContext(file, context, start, eof) ==
    LET end == FindContextCore(file, context, Len(file) - Len(context))
        any == FindContextCore(file, context, start)
    IN  IF ~eof THEN any
        ELSE IF end.i # -1 THEN end
        ELSE [any EXCEPT !.fuzz = @ + 10000]

\* The line at which "@@ text" goes on: nothing if the text was passed, or is
\* not there.
AfterHeading(file, from, text) ==
    LET loose  == TrimSpace(file)
        bare   == TrimSpace(<<text>>)
        next   == TryFindMatch(file, <<text>>, from)
        near   == TryFindMatch(loose, bare, from)
        passed == text \in {file[i] : i \in 1 .. from}
        nearly == bare[1] \in {loose[i] : i \in 1 .. from}
    IN  CASE ~passed /\ next >= 0                         -> [i |-> next + 1, fuzz |-> 0]
          [] ~passed /\ next < 0 /\ ~nearly /\ near >= 0 -> [i |-> near + 1, fuzz |-> 1]
          [] OTHER                                        -> [i |-> from, fuzz |-> 0]

-----------------------------------------------------------------------------
(* The sections of a patch. *)

EndsFile == {"end", "update", "delete", "add"}

\* A run of added and deleted lines becomes a chunk: where it begins in the
\* section, what it deletes, and what it puts there, whatever the order of the
\* lines was. "to" is history: where its lines land.
EndRun(s) ==
    IF s.del = <<>> /\ s.ins = <<>> THEN s
    ELSE LET chunk == [orig |-> Len(s.old) - Len(s.del), del |-> s.del, ins |-> s.ins,
                       to   |-> Len(s.new) - Len(s.ins)]
         IN  Section(s.old, s.new, <<>>, <<>>, Append(s.chunks, chunk))

Delete(s, text) == Section(Append(s.old, text), s.new, Append(s.del, text), s.ins, s.chunks)
Add(s, text) == Section(s.old, Append(s.new, text), s.del, Append(s.ins, text), s.chunks)
Keep(s, text) ==
    LET r == EndRun(s)
    IN  Section(Append(r.old, text), Append(r.new, text), r.del, r.ins, r.chunks)

\* Faulty variant of AfterHead: the line of a bare "@@" is not counted.
HeadKept(i) == IF lines[i].kind = "at" THEN i + 1 ELSE i

\* The line after "@@ text" or a bare "@@", if one of them is at i.
AfterHead(i) == IF lines[i].kind \in {"at", "@@"} THEN i + 1 ELSE i

-----------------------------------------------------------------------------
(* The parser. *)

NeededFiles == {lines[i].path : i \in {j \in DOMAIN lines : lines[j].kind \in {"update", "delete"}}}
AddedFiles == {lines[i].path : i \in {j \in DOMAIN lines : lines[j].kind = "add"}}

\* The tool, before: IdentifyFilesNeeded, IdentifyFilesAdded.
Check ==
    /\ mode = "check"
    /\ mode' = IF NeededFiles \subseteq DOMAIN orig /\ AddedFiles \cap DOMAIN orig = {}
               THEN "parse" ELSE "failed"
    /\ UNCHANGED <<lines, orig, at, index, path, moveTo, section, chunks, hunks, fuzz, actions, output,
                   commit>>

Act(p, action) == actions' = [q \in DOMAIN actions \cup {p} |->
                                  IF q = p THEN action ELSE actions[q]]

\* Parse: the head of a file that is updated.
ParseUpdate ==
    /\ mode = "parse" /\ Line.kind = "update"
    /\ IF Line.path \in DOMAIN actions THEN Fails
       ELSE LET moves == lines[at + 1].kind = "move"
            IN  /\ mode' = "update"
                /\ path' = Line.path
                /\ moveTo' = IF moves THEN lines[at + 1].path ELSE Nowhere
                /\ at' = IF moves THEN at + 2 ELSE at + 1
                /\ index' = 0 /\ chunks' = <<>> /\ hunks' = <<>>
                /\ UNCHANGED <<lines, orig, section, fuzz, actions, output, commit>>

ParseDelete ==
    /\ mode = "parse" /\ Line.kind = "delete"
    /\ IF Line.path \in DOMAIN actions THEN Fails
       ELSE /\ Act(Line.path, [type |-> "delete"])
            /\ at' = at + 1
            /\ UNCHANGED <<mode, lines, orig, index, path, moveTo, section, chunks, hunks, fuzz, output,
                           commit>>

\* Parse and parseAddFile: the lines up to the next file, all of them added.
ParseAdd ==
    /\ mode = "parse" /\ Line.kind = "add"
    /\ LET end  == Min({j \in at + 1 .. Len(lines) : lines[j].kind \in EndsFile})
           body == SubSeq(lines, at + 1, end - 1)
       IN  IF \/ Line.path \in DOMAIN actions \cup NeededFiles
              \/ \E i \in DOMAIN body : body[i].kind # "+"
           THEN Fails
           ELSE /\ Act(Line.path, [type |-> "add", new |-> [i \in DOMAIN body |-> body[i].text]])
                /\ at' = end
                /\ UNCHANGED <<mode, lines, orig, index, path, moveTo, section, chunks, hunks, fuzz,
                               output, commit>>

ParseEnd ==
    /\ mode = "parse" /\ Line.kind = "end"
    /\ mode' = "parsed"
    /\ UNCHANGED <<lines, orig, at, index, path, moveTo, section, chunks, hunks, fuzz, actions, output,
                   commit>>

ParseUnknown ==
    /\ mode = "parse" /\ Line.kind \notin EndsFile
    /\ Fails

\* parseUpdateFile: the hunks of the file are done.
UpdateEnds ==
    /\ mode = "update" /\ Line.kind \in EndsFile \cup {"eof"}
    /\ mode' = "parse"
    /\ Act(path, [type |-> "update", chunks |-> chunks, hunks |-> hunks, to |-> moveTo])
    /\ UNCHANGED <<lines, orig, at, index, path, moveTo, section, chunks, hunks, fuzz, output, commit>>

\* A round of parseUpdateFile begins: the heading. After the first hunk, the
\* next one needs one. A line that neither belongs to a hunk nor ends it
\* ("*** other", "@@text") is passed by an empty section that stays where it
\* is: from the first line of the file the loop does not end.
SectionBegins ==
    /\ mode = "update" /\ Line.kind \notin EndsFile \cup {"eof"}
    /\ IF Line.kind \notin {"at", "@@"} /\ index # 0 THEN Fails
       ELSE \E head \in {IF Line.kind = "at" THEN AfterHeading(orig[path], index, Line.text)
                         ELSE [i |-> index, fuzz |-> 0]} :
            /\ mode' = "section" /\ section' = NoSection
            /\ index' = head.i /\ fuzz' = fuzz + head.fuzz
            /\ at' = AfterHead(at)
            /\ UNCHANGED <<lines, orig, path, moveTo, chunks, hunks, actions, output, commit>>

\* A round of peekNextSection.
PeekLine ==
    /\ mode = "section" /\ Line.kind \in InHunk
    /\ section' = CASE Line.kind = "-" -> Delete(section, Line.text)
                    [] Line.kind = "+" -> Add(section, Line.text)
                    [] Line.kind = " " -> Keep(section, Line.text)
    /\ at' = at + 1
    /\ UNCHANGED <<mode, lines, orig, index, path, moveTo, chunks, hunks, fuzz, actions, output, commit>>

\* By how many lines the hunks make a file longer.
GrownBy(hs, k) == IF k = 0 THEN 0 ELSE hs[k].shift + Len(hs[k].new) - Len(hs[k].old)
Grown(hs) == GrownBy(hs, Len(hs))

\* A chunk of a section that is at line i of a file, and at i + n of the new one.
ChunkAt(chunk, i, n) == [orig |-> chunk.orig + i, del |-> chunk.del, ins |-> chunk.ins,
                         to   |-> chunk.to + i + n]
ChunksAt(cs, i, n) == [k \in DOMAIN cs |-> ChunkAt(cs[k], i, n)]

\* A hunk, for the history: where its old side is, both sides, by how much its
\* new side is shifted, and its chunks, from first to last.
Hunk(i, old, new, n, first, last) ==
    [at |-> i, old |-> old, new |-> new, shift |-> n, first |-> first, last |-> last]

\* The section s is in the file at here, and is a hunk if it is not empty. What
\* it puts into the file is shifted by what the hunks before it made longer.
Placed(s, here) ==
    /\ chunks' = chunks \o ChunksAt(s.chunks, here.i, Grown(hunks))
    /\ hunks' = IF s.old = <<>> /\ s.new = <<>> THEN hunks
                ELSE Append(hunks, Hunk(here.i, s.old, s.new, Grown(hunks),
                                        Len(chunks) + 1, Len(chunks) + Len(s.chunks)))
    /\ index' = here.i + Len(s.old)
    /\ fuzz' = fuzz + here.fuzz

\* The round of parseUpdateFile ends; the mark of the end of the file is read
\* over. A section at the end of the file that is longer than the file looks
\* at a line before the first.
SectionEnds ==
    /\ mode = "section" /\ Line.kind \notin InHunk
    /\ LET eof == Line.kind = "eof"
           s   == EndRun(section)
       IN  IF eof /\ Len(s.old) > Len(orig[path]) THEN Stops("panicked")
           ELSE \E here \in {FindContext(orig[path], s.old, index, eof)} :
                IF here.i = -1 THEN Fails
                ELSE /\ mode' = "update"
                     /\ Placed(s, here)
                     /\ at' = IF eof THEN at + 1 ELSE at
                     /\ UNCHANGED <<lines, orig, path, moveTo, section, actions, output, commit>>

-----------------------------------------------------------------------------
(* The new contents. *)

\* The tool refuses a patch that fits badly.
CommitBegins ==
    /\ mode = "parsed"
    /\ IF fuzz > 3 THEN Fails
       ELSE /\ mode' = "commit"
            /\ UNCHANGED <<lines, orig, at, index, path, moveTo, section, chunks, hunks, fuzz, actions,
                           output, commit>>

Change(p, change) == commit' = [q \in DOMAIN commit \cup {p} |->
                                    IF q = p THEN change ELSE commit[q]]

\* PatchToCommit: a file that is deleted or added.
CommitWhole(p) ==
    /\ mode = "commit" /\ p \notin DOMAIN commit /\ actions[p].type # "update"
    /\ Change(p, actions[p])
    /\ UNCHANGED <<mode, lines, orig, at, index, path, moveTo, section, chunks, hunks, fuzz, actions,
                   output>>

\* PatchToCommit: getUpdatedFile is called for a file that is updated.
CommitUpdate(p) ==
    /\ mode = "commit" /\ p \notin DOMAIN commit /\ actions[p].type = "update"
    /\ mode' = "apply" /\ path' = p /\ output' = NoOutput
    /\ UNCHANGED <<lines, orig, at, index, moveTo, section, chunks, hunks, fuzz, actions, commit>>

\* Faulty variant of EndOf: where lines are inserted none is skipped.
EndWhereInserted(c) == c.orig + (IF c.ins = <<>> THEN Len(c.del) ELSE 0)

\* origIndex after the chunk c: the lines that it deletes are skipped.
EndOf(c) == c.orig + Len(c.del)

\* A round of getUpdatedFile: the lines up to the chunk, and its own. A chunk
\* may not begin before the end of the last one.
ApplyChunk ==
    /\ mode = "apply" /\ output.next \in DOMAIN actions[path].chunks
    /\ \E c \in {actions[path].chunks[output.next]} :
       IF c.orig > Len(orig[path]) \/ output.index > c.orig THEN Fails
       ELSE /\ output' = [next  |-> output.next + 1,
                          index |-> EndOf(c),
                          dest  |-> output.dest \o SubSeq(orig[path], output.index + 1, c.orig) \o c.ins]
            /\ UNCHANGED <<mode, lines, orig, at, index, path, moveTo, section, chunks, hunks, fuzz,
                           actions, commit>>

\* The rest of the file follows.
ApplyEnds ==
    /\ mode = "apply" /\ output.next \notin DOMAIN actions[path].chunks
    /\ IF output.index > Len(orig[path]) THEN Stops("panicked")
       ELSE /\ mode' = "commit"
            /\ Change(path, [type |-> "update", to |-> actions[path].to,
                            new |-> output.dest \o SubSeq(orig[path], output.index + 1, Len(orig[path]))])
            /\ UNCHANGED <<lines, orig, at, index, path, moveTo, section, chunks, hunks, fuzz, actions,
                           output>>

CommitEnds ==
    /\ mode = "commit" /\ DOMAIN actions = DOMAIN commit
    /\ mode' = "done"
    /\ UNCHANGED <<lines, orig, at, index, path, moveTo, section, chunks, hunks, fuzz, actions, output,
                   commit>>

PatchStep ==
    \/ Check \/ ParseUpdate \/ ParseDelete \/ ParseAdd \/ ParseEnd \/ ParseUnknown
    \/ UpdateEnds \/ SectionBegins \/ PeekLine \/ SectionEnds
    \/ CommitBegins \/ CommitEnds
    \/ \E p \in DOMAIN actions : CommitWhole(p) \/ CommitUpdate(p)
    \/ ApplyChunk \/ ApplyEnds

PatchSpec == PatchInit /\ [][PatchStep]_patchVars

-----------------------------------------------------------------------------
(* Properties. *)

HunkEnd(h) == h.at + Len(h.old)
Stands(text, file, i) == \A n \in DOMAIN text : i + n \in DOMAIN file /\ file[i + n] = text[n]
InOrder(hs) == \A k \in DOMAIN hs : \A j \in 1 .. k - 1 : HunkEnd(hs[j]) <= hs[k].at

\* Line i of a file lies after the hunk k and before the next one.
Between(hs, k, i) ==
    /\ k > 0 => HunkEnd(hs[k]) < i
    /\ \A j \in k + 1 .. Len(hs) : i <= hs[j].at

\* A patch that fits without fuzz changes what it says and nothing else: what
\* stands in the file where a hunk was found is its old side, and the file
\* grows by what the hunks add and take away. What stands there afterwards,
\* moved by what the hunks before it added or took away, is its new side, and
\* all lines between the hunks are there, moved in the same way; unless the
\* mark of the end of the file has sent a hunk back over an earlier one
\* (patch.go:200-279, 307-374, 376-458, 513-540).
AppliedAsWritten ==
    mode = "done" /\ fuzz = 0 =>
        \A p \in {q \in DOMAIN commit : commit[q].type = "update"} :
            LET hs   == actions[p].hunks
                file == orig[p]
                new  == commit[p].new
            IN  /\ \A k \in DOMAIN hs : Stands(hs[k].old, file, hs[k].at)
                /\ Len(new) = Len(file) + Grown(hs)
                /\ InOrder(hs) =>
                     /\ \A k \in DOMAIN hs : Stands(hs[k].new, new, hs[k].at + hs[k].shift)
                     /\ \A k \in 0 .. Len(hs) : \A i \in DOMAIN file :
                            Between(hs, k, i) => new[i + GrownBy(hs, k)] = file[i]

\* The line that the parser never gets over.
Stuck == mode = "update" /\ index = 0 /\ Line.kind = "foreign"

\* Every patch is applied or refused, whatever its lines are, unless the
\* parser comes to a foreign line before it has passed a line of the file
\* (patch.go:136-198, 200-279).
ParseTerminates == <>(mode \in Ended \/ Stuck)

=============================================================================
