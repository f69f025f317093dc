-------------------------- MODULE UndoStack_proofs --------------------------
(***************************************************************************)
(* One agent's tools implement UndoHistory, for any files, contents, cap,  *)
(* number of changes and crashes.                                          *)
(*                                                                         *)
(* First what the operators on the stacks do, then the inductive           *)
(* invariant, then the steps: each is a step of UndoHistory or a stutter.  *)
(***************************************************************************)
EXTENDS UndoStack, SequenceTheorems, TLAPS

\* One agent is at work: two of them write stacks.json over each other.
OneAgent == \E a : Actors = {a}

\* What UndoHistory keeps of an entry.
Saved(e) == [path |-> e.path, content |-> e.content]

SavedEntry == [path : Paths, content : State]

-----------------------------------------------------------------------------
(* The stacks as sequences.                                                *)

\* What UndoHistory sees of a stack is as long as the stack.
LEMMA KnownEffect ==
    ASSUME NEW s \in Seq(Entry)
    PROVE  /\ Known(s) \in Seq(SavedEntry)
           /\ Len(Known(s)) = Len(s)
           /\ \A i \in 1 .. Len(s) : Known(s)[i] = Saved(s[i])
<1>1. Len(s) \in Nat /\ DOMAIN s = 1 .. Len(s) /\ \A i \in 1 .. Len(s) : s[i] \in Entry
  OBVIOUS
<1>2. Known(s) = [i \in 1 .. Len(s) |-> Saved(s[i])]
  BY <1>1 DEF Known, Saved
<1>3. \A i \in 1 .. Len(s) : Saved(s[i]) \in SavedEntry
  BY <1>1 DEF Saved, SavedEntry, Entry
<1> QED
  BY <1>1, <1>2, <1>3

\* Push and pop.
LEMMA PushPop ==
    ASSUME NEW S, NEW s \in Seq(S), NEW e \in S
    PROVE  /\ Append(s, e) \in Seq(S)
           /\ Append(s, e) # <<>>
           /\ Len(Append(s, e)) = Len(s) + 1
           /\ \A i \in 1 .. Len(s) : Append(s, e)[i] = s[i]
           /\ Last(Append(s, e)) = e
           /\ ButLast(Append(s, e)) = s
<1>1. /\ Append(s, e) \in Seq(S) /\ Append(s, e) # <<>>
      /\ Len(Append(s, e)) = Len(s) + 1 /\ Len(s) \in Nat
      /\ \A i \in 1 .. Len(s) : Append(s, e)[i] = s[i]
      /\ Append(s, e)[Len(s) + 1] = e
  OBVIOUS
<1>2. \A i \in 1 .. Len(s) : Append(s, e)[i] \in S
  BY <1>1
<1>3. /\ SubSeq(Append(s, e), 1, Len(s)) \in Seq(S)
      /\ Len(SubSeq(Append(s, e), 1, Len(s))) = Len(s)
      /\ \A i \in 1 .. Len(s) : SubSeq(Append(s, e), 1, Len(s))[i] = Append(s, e)[i]
  BY <1>1, <1>2, SubSeqProperties
<1>4. SubSeq(Append(s, e), 1, Len(s)) = s
  BY <1>1, <1>3, SeqEqual
<1> QED
  BY <1>1, <1>4 DEF Last, ButLast

LEMMA PopPush ==
    ASSUME NEW S, NEW s \in Seq(S), s # <<>>
    PROVE  /\ Len(s) \in Nat \ {0}
           /\ Last(s) \in S /\ Last(s) = s[Len(s)]
           /\ ButLast(s) \in Seq(S)
           /\ Len(ButLast(s)) = Len(s) - 1
           /\ \A i \in 1 .. Len(s) - 1 : ButLast(s)[i] = s[i]
           /\ Append(ButLast(s), Last(s)) = s
<1>1. Len(s) \in Nat \ {0} /\ \A i \in 1 .. Len(s) : s[i] \in S
  BY EmptySeq
<1>2. /\ ButLast(s) \in Seq(S)
      /\ Len(ButLast(s)) = Len(s) - 1
      /\ \A i \in 1 .. Len(s) - 1 : ButLast(s)[i] = s[i]
  <2> DEFINE n == Len(s) - 1
  <2>1. n \in Nat /\ \A i \in 1 .. n : s[i] \in S
    BY <1>1
  <2> HIDE DEF n
  <2>2. /\ SubSeq(s, 1, n) \in Seq(S)
        /\ Len(SubSeq(s, 1, n)) = n
        /\ \A i \in 1 .. n : SubSeq(s, 1, n)[i] = s[i]
    BY <2>1, SubSeqProperties
  <2> QED
    BY <2>2 DEF ButLast, n
<1>3. Last(s) \in S
  BY <1>1 DEF Last
<1>4. /\ Append(ButLast(s), Last(s)) \in Seq(S)
      /\ Len(Append(ButLast(s), Last(s))) = Len(s)
      /\ \A i \in 1 .. Len(s) - 1 : Append(ButLast(s), Last(s))[i] = s[i]
      /\ Append(ButLast(s), Last(s))[Len(s)] = Last(s)
  BY <1>1, <1>2, <1>3
<1>5. \A i \in 1 .. Len(s) : Append(ButLast(s), Last(s))[i] = s[i]
  BY <1>1, <1>4 DEF Last
<1>6. Append(ButLast(s), Last(s)) = s
  BY <1>1, <1>4, <1>5, SeqEqual
<1>7. Last(s) = s[Len(s)]
  BY DEF Last
<1> QED
  BY <1>1, <1>2, <1>3, <1>6, <1>7

\* slice(-Cap) of a stack that is at most one entry too long.
LEMMA LatestEffect ==
    ASSUME NEW S, NEW s \in Seq(S), Len(s) <= Cap + 1
    PROVE  /\ Latest(s) = IF Len(s) > Cap THEN Tail(s) ELSE s
           /\ Latest(s) \in Seq(S)
           /\ Len(Latest(s)) <= Cap
           /\ Len(Latest(s)) = IF Len(s) > Cap THEN Len(s) - 1 ELSE Len(s)
           /\ \A i \in 1 .. Len(Latest(s)) :
                  Latest(s)[i] = s[IF Len(s) > Cap THEN i + 1 ELSE i]
<1>1. Cap \in Nat \ {0} /\ Len(s) \in Nat
  BY UndoAssumption
<1>2. CASE Len(s) <= Cap
  BY <1>1, <1>2 DEF Latest
<1>3. CASE Len(s) = Cap + 1
  <2>1. s # <<>>
    BY <1>1, <1>3, EmptySeq
  <2>2. Latest(s) = SubSeq(s, 2, Len(s))
    BY <1>1, <1>3 DEF Latest
  <2>3. Latest(s) = Tail(s)
    BY <2>1, <2>2, TailIsSubSeq
  <2> QED
    BY <1>1, <1>3, <2>1, <2>3, HeadTailProperties
<1> QED
  BY <1>1, <1>2, <1>3

\* UndoHistory sees a push, a pop and a cut of a stack as its own.
LEMMA KnownPush ==
    ASSUME NEW s \in Seq(Entry), NEW e \in Entry
    PROVE  /\ Known(Append(s, e)) = Append(Known(s), Saved(e))
           /\ Saved(e) \in SavedEntry
<1>1. Saved(e) \in SavedEntry
  BY DEF Saved, SavedEntry, Entry
<1>2. /\ Append(s, e) \in Seq(Entry) /\ Len(Append(s, e)) = Len(s) + 1 /\ Len(s) \in Nat
      /\ \A i \in 1 .. Len(s) : Append(s, e)[i] = s[i]
      /\ Append(s, e)[Len(s) + 1] = e
  OBVIOUS
<1>3. /\ Known(Append(s, e)) \in Seq(SavedEntry)
      /\ Len(Known(Append(s, e))) = Len(s) + 1
      /\ \A i \in 1 .. Len(s) + 1 : Known(Append(s, e))[i] = Saved(Append(s, e)[i])
  BY <1>2, KnownEffect
<1>4. /\ Known(s) \in Seq(SavedEntry) /\ Len(Known(s)) = Len(s)
      /\ \A i \in 1 .. Len(s) : Known(s)[i] = Saved(s[i])
  BY KnownEffect
<1>5. /\ Append(Known(s), Saved(e)) \in Seq(SavedEntry)
      /\ Len(Append(Known(s), Saved(e))) = Len(s) + 1
      /\ \A i \in 1 .. Len(s) : Append(Known(s), Saved(e))[i] = Known(s)[i]
      /\ Append(Known(s), Saved(e))[Len(s) + 1] = Saved(e)
  BY <1>1, <1>2, <1>4
<1>6. \A i \in 1 .. Len(s) + 1 : Known(Append(s, e))[i] = Append(Known(s), Saved(e))[i]
  <2> TAKE i \in 1 .. Len(s) + 1
  <2>1. CASE i \in 1 .. Len(s)
    BY <1>2, <1>3, <1>4, <1>5, <2>1
  <2>2. CASE i = Len(s) + 1
    BY <1>2, <1>3, <1>5, <2>2
  <2>3. Len(s) \in Nat
    OBVIOUS
  <2>4. i \in 1 .. Len(s) \/ i = Len(s) + 1
    BY <2>3
  <2> QED
    BY <2>1, <2>2, <2>4
<1> QED
  BY <1>1, <1>3, <1>5, <1>6, SeqEqual

LEMMA KnownPop ==
    ASSUME NEW s \in Seq(Entry), s # <<>>
    PROVE  /\ Known(s) \in Seq(SavedEntry)
           /\ Known(s) # <<>>
           /\ Known(ButLast(s)) = ButLast(Known(s))
           /\ Saved(Last(s)) = Last(Known(s))
           /\ Known(s) = Append(Known(ButLast(s)), Saved(Last(s)))
<1>1. /\ ButLast(s) \in Seq(Entry) /\ Last(s) \in Entry
      /\ Append(ButLast(s), Last(s)) = s
  BY PopPush
<1>2. /\ Known(s) = Append(Known(ButLast(s)), Saved(Last(s)))
      /\ Saved(Last(s)) \in SavedEntry
  BY <1>1, KnownPush
<1>3. Known(ButLast(s)) \in Seq(SavedEntry) /\ Known(s) \in Seq(SavedEntry)
  BY <1>1, KnownEffect
<1> QED
  BY <1>2, <1>3, PushPop

LEMMA KnownLatest ==
    ASSUME NEW s \in Seq(Entry), Len(s) <= Cap + 1
    PROVE  Known(Latest(s)) = IF Len(Known(s)) > Cap THEN Tail(Known(s)) ELSE Known(s)
<1>1. Cap \in Nat \ {0} /\ Len(s) \in Nat /\ Len(Known(s)) = Len(s)
  BY UndoAssumption, KnownEffect
<1>2. CASE Len(s) <= Cap
  BY <1>1, <1>2, LatestEffect
<1>3. CASE Len(s) = Cap + 1
  <2>1. Latest(s) = Tail(s) /\ s # <<>> /\ Known(s) # <<>>
    BY <1>1, <1>3, LatestEffect, EmptySeq, KnownEffect
  <2>2. /\ Tail(s) \in Seq(Entry) /\ Len(Tail(s)) = Len(s) - 1
        /\ \A i \in 1 .. Len(Tail(s)) : Tail(s)[i] = s[i + 1]
    BY <2>1, HeadTailProperties
  <2>3. /\ Known(s) \in Seq(SavedEntry)
        /\ \A i \in 1 .. Len(s) : Known(s)[i] = Saved(s[i])
    BY KnownEffect
  <2>4. /\ Tail(Known(s)) \in Seq(SavedEntry) /\ Len(Tail(Known(s))) = Len(s) - 1
        /\ \A i \in 1 .. Len(s) - 1 : Tail(Known(s))[i] = Known(s)[i + 1]
    BY <1>1, <2>1, <2>3, HeadTailProperties
  <2>5. /\ Known(Tail(s)) \in Seq(SavedEntry) /\ Len(Known(Tail(s))) = Len(s) - 1
        /\ \A i \in 1 .. Len(s) - 1 : Known(Tail(s))[i] = Saved(Tail(s)[i])
    BY <2>2, KnownEffect
  <2>6. \A i \in 1 .. Len(s) - 1 : Known(Tail(s))[i] = Tail(Known(s))[i]
    BY <1>1, <2>2, <2>3, <2>4, <2>5
  <2>7. Known(Tail(s)) = Tail(Known(s))
    BY <2>4, <2>5, <2>6, SeqEqual
  <2> QED
    BY <1>1, <1>3, <2>1, <2>7
<1> QED
  BY <1>1, <1>2, <1>3

-----------------------------------------------------------------------------
(* The invariant.                                                          *)

\* What a tool keeps between its steps.
SnapOps == [pc : {"snap"}, kind : {"write", "snapshot"}, new : State, entry : Entry]
HeldOps == [pc : {"push", "mutate", "record", "amend"}, kind : {"write", "snapshot"},
            new : State, entry : Entry, meta : Stacks]
BackOps == [pc : {"restore", "settle"}, kind : {"undo", "redo", "failed"},
            entry : Entry, meta : Stacks]
Ops == {Resting} \cup SnapOps \cup HeldOps \cup BackOps

Types ==
    /\ file \in [Paths -> State]
    /\ stacks \in Stacks
    /\ op \in [Actors -> Ops]
    /\ made \in 0 .. MaxChanges
    /\ crashes \in 0 .. MaxCrashes

\* An undo or a redo moves an entry from one stack to the other, so that
\* neither is cut.
Room == Len(stacks.undo) + Len(stacks.redo) <= Cap

\* Each id is in one place; none is newer than n.
Distinct(undo, redo, n) ==
    /\ \A i, j \in 1 .. Len(undo) : undo[i].id = undo[j].id => i = j
    /\ \A i, j \in 1 .. Len(redo) : redo[i].id = redo[j].id => i = j
    /\ \A i \in 1 .. Len(undo), j \in 1 .. Len(redo) : undo[i].id # redo[j].id
    /\ \A i \in 1 .. Len(undo) : undo[i].id <= n
    /\ \A j \in 1 .. Len(redo) : redo[j].id <= n

\* What a tool has read is still so, since no other one is at work: the file
\* before its change, the stacks before it writes them, and the entry that it
\* pushed, or is to move, on top.
Current(o) ==
    /\ o.pc \in {"snap", "push"} =>
           o.entry.content = file[o.entry.path] /\ o.entry.id = made
    /\ o.pc \in {"push", "amend", "restore", "settle"} => o.meta = stacks
    /\ o.pc \in {"mutate", "record", "amend"} =>
           /\ stacks.undo # <<>> /\ stacks.redo = <<>>
           /\ Last(stacks.undo).path = o.entry.path
    /\ o.pc = "restore" => o.kind # "failed"
    /\ o.pc \in {"restore", "settle"} /\ o.kind = "undo" =>
           stacks.undo # <<>> /\ o.entry = Last(stacks.undo)
    /\ o.pc \in {"restore", "settle"} /\ o.kind = "redo" =>
           stacks.redo # <<>> /\ o.entry = Last(stacks.redo)

\* The ids that are taken, but for that of a snapshot that is not pushed.
Pushed(o) == IF o.pc \in {"snap", "push"} THEN made - 1 ELSE made

\* The inductive invariant.
UndoInv ==
    /\ Types
    /\ Room
    /\ Current(op[Solo])
    /\ Distinct(stacks.undo, stacks.redo, Pushed(op[Solo]))

-----------------------------------------------------------------------------
(* The only agent.                                                         *)

LEMMA OnlySolo == ASSUME OneAgent PROVE Actors = {Solo}
<1>1. PICK a : Actors = {a}
  BY DEF OneAgent
<1>2. Solo \in Actors
  BY <1>1 DEF Solo
<1> QED
  BY <1>1, <1>2

\* The stage of a tool tells what it keeps.
LEMMA StageTells ==
    ASSUME NEW o \in Ops
    PROVE  /\ o.pc = "idle" => o = Resting
           /\ o.pc = "snap" => o \in SnapOps
           /\ o.pc \in {"push", "mutate", "record", "amend"} => o \in HeldOps
           /\ o.pc \in {"restore", "settle"} => o \in BackOps
           /\ o.pc \in Steps
BY DEF Ops, Resting, SnapOps, HeldOps, BackOps, Steps

\* A step of the only tool.
LEMMA SoloSteps ==
    ASSUME OneAgent, Types, NEW o \in Ops, Step(Solo, o)
    PROVE  op' \in [Actors -> Ops] /\ op'[Solo] = o
BY OnlySolo DEF Types, Step

LEMMA SoloRests ==
    ASSUME OneAgent, Types, NEW a \in Actors, Rest(a)
    PROVE  op' \in [Actors -> Ops] /\ op'[Solo] = Resting
BY OnlySolo DEF Types, Rest, Ops

\* The types of the stacks and of the ids.
LEMMA EntriesOfStacks ==
    ASSUME Types
    PROVE  /\ stacks = [undo |-> stacks.undo, redo |-> stacks.redo]
           /\ stacks.undo \in Seq(Entry) /\ stacks.redo \in Seq(Entry)
           /\ Len(stacks.undo) \in Nat /\ Len(stacks.redo) \in Nat
           /\ made \in Nat /\ MaxChanges \in Nat
BY UndoAssumption DEF Types, Stacks

-----------------------------------------------------------------------------
(* The steps that leave files and stacks as they are.                      *)

LEMMA InitKeeps == ASSUME OneAgent, Init PROVE UndoInv
<1>1. op[Solo] = Resting /\ op \in [Actors -> Ops]
  BY OnlySolo DEF Init, Ops
<1>2. stacks.undo = <<>> /\ stacks.redo = <<>> /\ made = 0 /\ crashes = 0
  BY DEF Init, Empty
<1>3. stacks \in Stacks
  BY DEF Init, Empty, Stacks
<1>4. Types
  BY <1>1, <1>2, <1>3, UndoAssumption DEF Init, Types
<1>5. Room
  BY <1>2, UndoAssumption, EmptySeq DEF Room
<1>6. Current(op[Solo])
  BY <1>1 DEF Current, Resting
<1>7. Distinct(stacks.undo, stacks.redo, Pushed(op[Solo]))
  BY <1>2, EmptySeq DEF Distinct
<1> QED
  BY <1>4, <1>5, <1>6, <1>7 DEF UndoInv

LEMMA TakeKeeps ==
    ASSUME OneAgent, UndoInv, NEW kind \in {"write", "snapshot"}, NEW p \in Paths,
           NEW v \in State, TakeSnapshot(Solo, kind, p, v)
    PROVE  UndoInv' /\ op[Solo].pc = "idle" /\ op'[Solo].pc = "snap"
<1> DEFINE e == [id |-> made + 1, path |-> p, content |-> file[p], after |-> Absent]
           o == [pc |-> "snap", kind |-> kind, new |-> v, entry |-> e]
<1>1. /\ op[Solo].pc = "idle" /\ made < MaxChanges /\ made' = made + 1
      /\ Step(Solo, o) /\ UNCHANGED <<file, stacks, crashes>>
  BY DEF TakeSnapshot
<1>2. Types /\ made \in Nat /\ MaxChanges \in Nat /\ file[p] \in State
  BY EntriesOfStacks DEF UndoInv, Types
<1>3. e \in Entry
  BY <1>1, <1>2 DEF Entry, State
<1>4. o \in Ops
  BY <1>3 DEF Ops, SnapOps
<1>5. op' \in [Actors -> Ops] /\ op'[Solo] = o
  BY <1>1, <1>2, <1>4, SoloSteps
<1>6. Types'
  BY <1>1, <1>2, <1>5 DEF Types
<1>7. Room'
  BY <1>1 DEF UndoInv, Room
<1>8. Current(op[Solo])'
  BY <1>1, <1>5 DEF Current
<1>9. Pushed(op[Solo])' = made /\ Pushed(op[Solo]) = made
  BY <1>1, <1>2, <1>5 DEF Pushed
<1>10. Distinct(stacks.undo, stacks.redo, Pushed(op[Solo]))'
  BY <1>1, <1>9 DEF UndoInv, Distinct
<1> QED
  BY <1>1, <1>5, <1>6, <1>7, <1>8, <1>10 DEF UndoInv

LEMMA PartOfSum ==
    ASSUME NEW m \in Nat, NEW n \in Nat, NEW k \in Nat, m + n <= k
    PROVE  m <= k /\ n <= k
OBVIOUS

LEMMA IdsAreNumbers ==
    ASSUME NEW s \in Seq(Entry)
    PROVE  \A i \in 1 .. Len(s) : s[i].id \in Nat
<1>1. \A i \in 1 .. Len(s) : s[i] \in Entry
  OBVIOUS
<1> QED
  BY <1>1, UndoAssumption DEF Entry

-----------------------------------------------------------------------------
(* Ids stay where they are, or move.                                       *)

\* A new entry is on top of what is left of the stack, and has a new id.
LEMMA PushDistinct ==
    ASSUME NEW undo \in Seq(Entry), NEW redo \in Seq(Entry), NEW e \in Entry, NEW n \in Nat,
           Len(undo) <= Cap, e.id = n, Distinct(undo, redo, n - 1)
    PROVE  LET new == Latest(Append(undo, e))
           IN  /\ new \in Seq(Entry) /\ new # <<>> /\ Len(new) <= Cap
               /\ Last(new) = e
               /\ Distinct(new, <<>>, n)
<1> DEFINE u == Append(undo, e)
           new == Latest(u)
           At(i) == IF Len(u) > Cap THEN i + 1 ELSE i
<1>1. /\ Cap \in Nat \ {0} /\ Len(undo) \in Nat
      /\ u \in Seq(Entry) /\ Len(u) = Len(undo) + 1
      /\ \A i \in 1 .. Len(undo) : u[i] = undo[i] /\ undo[i] \in Entry
      /\ u[Len(u)] = e
  BY UndoAssumption
<1> HIDE DEF u, new
<1>2. /\ \A i \in 1 .. Len(undo) : u[i].id \in Nat /\ u[i].id <= n - 1
      /\ u[Len(u)].id = n
  <2>1. \A i \in 1 .. Len(undo) : undo[i].id \in Nat /\ undo[i].id <= n - 1
    BY <1>1, UndoAssumption DEF Distinct, Entry
  <2> QED
    BY <1>1, <2>1
<1>3. /\ \A i, j \in 1 .. Len(u) : u[i].id = u[j].id => i = j
      /\ \A i \in 1 .. Len(u) : u[i].id <= n
  <2> SUFFICES ASSUME NEW i \in 1 .. Len(u), NEW j \in 1 .. Len(u)
               PROVE  (u[i].id = u[j].id => i = j) /\ u[i].id <= n
    OBVIOUS
  <2>1. CASE i \in 1 .. Len(undo) /\ j \in 1 .. Len(undo)
    <3>1. u[i] = undo[i] /\ u[j] = undo[j]
      BY <1>1, <2>1
    <3>2. undo[i].id = undo[j].id => i = j
      BY <2>1 DEF Distinct
    <3>3. u[i].id <= n
      BY <1>2, <2>1
    <3> QED
      BY <3>1, <3>2, <3>3
  <2>2. CASE i = Len(u) \/ j = Len(u)
    BY <1>1, <1>2, <2>2
  <2> QED
    BY <1>1, <2>1, <2>2
<1>4. /\ new \in Seq(Entry) /\ Len(new) <= Cap
      /\ Len(new) = IF Len(u) > Cap THEN Len(u) - 1 ELSE Len(u)
      /\ \A i \in 1 .. Len(new) : new[i] = u[At(i)]
  BY <1>1, LatestEffect DEF new
<1>5. \A i \in 1 .. Len(new) : At(i) \in 1 .. Len(u)
  BY <1>1, <1>4
<1>6. \A i, j \in 1 .. Len(new) : At(i) = At(j) => i = j
  BY <1>4
<1>7. /\ \A i, j \in 1 .. Len(new) : new[i].id = new[j].id => i = j
      /\ \A i \in 1 .. Len(new) : new[i].id <= n
  <2> HIDE DEF At
  <2> SUFFICES ASSUME NEW i \in 1 .. Len(new), NEW j \in 1 .. Len(new)
               PROVE  (new[i].id = new[j].id => i = j) /\ new[i].id <= n
    OBVIOUS
  <2>1. new[i] = u[At(i)] /\ new[j] = u[At(j)] /\ At(i) \in 1 .. Len(u) /\ At(j) \in 1 .. Len(u)
    BY <1>4, <1>5
  <2> QED
    BY <1>3, <1>6, <2>1
<1>8. Len(new) \in 1 .. Cap /\ At(Len(new)) = Len(u)
  BY <1>1, <1>4
<1>9. new # <<>> /\ Last(new) = e
  BY <1>1, <1>4, <1>8, EmptySeq DEF Last
<1>10. Distinct(new, <<>>, n)
  BY <1>7, EmptySeq DEF Distinct
<1> QED
  BY <1>4, <1>9, <1>10 DEF new, u

\* An entry that moves to the other stack keeps the ids distinct.
LEMMA MoveDistinct ==
    ASSUME NEW from \in Seq(Entry), NEW to \in Seq(Entry), NEW n \in Nat, from # <<>>,
           Len(from) + Len(to) <= Cap, Distinct(from, to, n)
    PROVE  LET new == Latest(Append(to, Last(from)))
           IN  /\ new = Append(to, Last(from)) /\ new \in Seq(Entry)
               /\ Len(ButLast(from)) + Len(new) = Len(from) + Len(to)
               /\ Distinct(ButLast(from), new, n)
<1> DEFINE e == Last(from)
           less == ButLast(from)
           more == Append(to, e)
<1>1. /\ Len(from) \in Nat \ {0} /\ Len(to) \in Nat
      /\ e \in Entry /\ e = from[Len(from)] /\ less \in Seq(Entry)
      /\ Len(less) = Len(from) - 1
      /\ \A i \in 1 .. Len(from) - 1 : less[i] = from[i]
  BY PopPush
<1> HIDE DEF less, e
<1>2. /\ more \in Seq(Entry) /\ Len(more) = Len(to) + 1
      /\ \A i \in 1 .. Len(to) : more[i] = to[i]
      /\ more[Len(to) + 1] = e
  BY <1>1
<1>3. Latest(more) = more
  <2>1. Cap \in Nat /\ Len(more) <= Cap
    BY <1>1, <1>2, UndoAssumption
  <2> QED
    BY <1>2, <2>1 DEF Latest
<1> HIDE DEF more
<1>4. \A i \in 1 .. Len(less) : i \in 1 .. Len(from) /\ i # Len(from) /\ less[i] = from[i]
  BY <1>1
<1>5. \A j \in 1 .. Len(more) : \/ j \in 1 .. Len(to) /\ more[j] = to[j]
                                \/ j = Len(to) + 1 /\ more[j] = from[Len(from)]
  BY <1>1, <1>2
<1>6. Len(from) \in 1 .. Len(from)
  BY <1>1
<1>7. /\ \A i, j \in 1 .. Len(less) : less[i].id = less[j].id => i = j
      /\ \A i \in 1 .. Len(less) : less[i].id <= n
  BY <1>4 DEF Distinct
<1>8. /\ \A i, j \in 1 .. Len(more) : more[i].id = more[j].id => i = j
      /\ \A i \in 1 .. Len(more) : more[i].id <= n
  BY <1>5, <1>6 DEF Distinct
<1>9. \A i \in 1 .. Len(less), j \in 1 .. Len(more) : less[i].id # more[j].id
  BY <1>4, <1>5, <1>6 DEF Distinct
<1>10. Distinct(less, more, n)
  BY <1>7, <1>8, <1>9 DEF Distinct
<1>11. Len(less) + Len(more) = Len(from) + Len(to)
  BY <1>1, <1>2
<1> QED
  BY <1>2, <1>3, <1>10, <1>11 DEF less, more, e

LEMMA DistinctSwaps ==
    ASSUME NEW s, NEW t, NEW n, Distinct(s, t, n)
    PROVE  Distinct(t, s, n)
BY DEF Distinct

-----------------------------------------------------------------------------
(* The steps of a tool: each keeps the invariant, and is a step of         *)
(* UndoHistory or none.                                                    *)

\* A step as UndoHistory sees it.
Seen == <<file, Past, Future, crashes>>
Implements == [History!Next]_Seen

\* Before its file has changed, and after it is done, a tool hides nothing.
LEMMA StacksAreSeen ==
    ASSUME op[Solo].pc # "settle" \/ op[Solo].kind \notin {"undo", "redo"}
    PROVE  Past = Known(stacks.undo) /\ Future = Known(stacks.redo)
BY DEF Past, Future, Undone, Redone

\* A tool that looks, or gives up, changes nothing that is seen.
LEMMA LookingIsUnseen ==
    ASSUME op[Solo].pc # "settle",
           op'[Solo].pc # "settle" \/ op'[Solo].kind \notin {"undo", "redo"},
           UNCHANGED <<file, stacks, crashes>>
    PROVE  Implements
<1>1. Past = Known(stacks.undo) /\ Future = Known(stacks.redo)
  BY StacksAreSeen
<1>2. Past' = Known(stacks.undo) /\ Future' = Known(stacks.redo)
  BY DEF Past, Future, Undone, Redone
<1> QED
  BY <1>1, <1>2 DEF Implements, Seen

LEMMA ReadStep ==
    ASSUME OneAgent, UndoInv, ReadStacks(Solo)
    PROVE  UndoInv' /\ Implements
<1> DEFINE was == op[Solo]
           o == [pc |-> IF was.pc = "snap" THEN "push" ELSE "amend", kind |-> was.kind,
                 new |-> was.new, entry |-> was.entry, meta |-> stacks]
<1>1. /\ was.pc \in {"snap", "record"} /\ Step(Solo, o)
      /\ UNCHANGED <<file, stacks, made, crashes>>
  BY DEF ReadStacks
<1>2. /\ Types /\ Current(was) /\ Room /\ Distinct(stacks.undo, stacks.redo, Pushed(was))
      /\ was \in Ops
  BY OnlySolo DEF UndoInv, Types
<1>3. was \in SnapOps \/ was \in HeldOps
  BY <1>1, <1>2, StageTells
<1>4. o \in HeldOps /\ o \in Ops
  BY <1>1, <1>2, <1>3 DEF SnapOps, HeldOps, Ops, Types
<1>5. op' \in [Actors -> Ops] /\ op'[Solo] = o
  BY <1>1, <1>2, <1>4, SoloSteps
<1>6. Types' /\ Room'
  BY <1>1, <1>2, <1>5 DEF Types, Room
<1>7. Current(op[Solo])'
  BY <1>1, <1>2, <1>5 DEF Current
<1>8. Pushed(op[Solo])' = Pushed(op[Solo])
  BY <1>1, <1>5 DEF Pushed
<1>9. Distinct(stacks.undo, stacks.redo, Pushed(op[Solo]))'
  BY <1>1, <1>2, <1>8 DEF Distinct
<1>10. Implements
  BY <1>1, <1>5, LookingIsUnseen
<1> QED
  BY <1>6, <1>7, <1>9, <1>10 DEF UndoInv

\* The snapshot is saved; there is no way forward any more. A manual one is
\* all of its tool.
LEMMA PushStep ==
    ASSUME OneAgent, UndoInv, PushSnapshot(Solo)
    PROVE  UndoInv' /\ Implements
<1> DEFINE was == op[Solo]
           e == was.entry
           new == Latest(Append(stacks.undo, e))
           next == IF was.kind = "snapshot" THEN Resting ELSE [was EXCEPT !.pc = "mutate"]
<1>1. /\ was.pc = "push"
      /\ stacks' = [undo |-> Latest(Append(was.meta.undo, e)), redo |-> <<>>]
      /\ Step(Solo, next)
      /\ UNCHANGED <<file, made, crashes>>
  BY DEF PushSnapshot, Rest, Step
<1>2. /\ Types /\ Current(was) /\ Room /\ Distinct(stacks.undo, stacks.redo, Pushed(was))
      /\ was \in Ops
  BY OnlySolo DEF UndoInv, Types
<1>3. was \in HeldOps
  BY <1>1, <1>2, StageTells
<1>4. /\ e \in Entry /\ was.meta = stacks /\ e.id = made /\ e.content = file[e.path]
      /\ e.path \in Paths
  BY <1>1, <1>2, <1>3 DEF HeldOps, Current, Entry
<1>5. /\ stacks.undo \in Seq(Entry) /\ stacks.redo \in Seq(Entry) /\ made \in Nat
      /\ Len(stacks.undo) \in Nat /\ Len(stacks.redo) \in Nat
  BY <1>2, EntriesOfStacks
<1>6. Len(stacks.undo) <= Cap
  <2>1. Len(stacks.undo) \in Nat /\ Len(stacks.redo) \in Nat /\ Cap \in Nat
    BY <1>5, UndoAssumption
  <2>2. Len(stacks.undo) + Len(stacks.redo) <= Cap
    BY <1>2 DEF Room
  <2> QED
    BY <2>1, <2>2, PartOfSum
<1>7. Pushed(was) = made - 1
  BY <1>1 DEF Pushed
<1>8. /\ new \in Seq(Entry) /\ new # <<>> /\ Len(new) <= Cap /\ Last(new) = e
      /\ Distinct(new, <<>>, made)
  BY <1>2, <1>4, <1>5, <1>6, <1>7, PushDistinct
<1>9. stacks' = [undo |-> new, redo |-> <<>>] /\ stacks'.undo = new /\ stacks'.redo = <<>>
  BY <1>1, <1>4
<1> HIDE DEF new
<1>10. next \in Ops /\ next.pc \in {"idle", "mutate"} /\ (next.pc = "mutate" => next.entry = e)
  BY <1>1, <1>3 DEF Ops, HeldOps, Resting
<1> HIDE DEF next
<1>11. op' \in [Actors -> Ops] /\ op'[Solo] = next
  BY <1>1, <1>2, <1>10, SoloSteps
<1>12. Types'
  <2>1. stacks' \in Stacks
    BY <1>8, <1>9 DEF Stacks
  <2> QED
    BY <1>1, <1>2, <1>11, <2>1 DEF Types
<1>13. Room'
  <2>1. Len(stacks'.undo) \in Nat /\ Len(stacks'.undo) <= Cap /\ Len(stacks'.redo) = 0
    BY <1>8, <1>9
  <2> QED
    BY <2>1, UndoAssumption DEF Room
<1>14. Current(op[Solo])'
  BY <1>8, <1>9, <1>10, <1>11 DEF Current
<1>15. Pushed(op[Solo])' = made
  BY <1>1, <1>10, <1>11 DEF Pushed
<1>16. Distinct(stacks.undo, stacks.redo, Pushed(op[Solo]))'
  BY <1>8, <1>9, <1>15 DEF Distinct
<1>17. Implements
  <2>1. Past = Known(stacks.undo)
    BY <1>1, StacksAreSeen
  <2>2. Past' = Known(new) /\ Future' = Known(<<>>)
    BY <1>9, <1>10, <1>11 DEF Past, Future, Undone, Redone
  <2>3. Known(<<>>) = <<>>
    BY KnownEffect, EmptySeq
  <2>4. Known(Append(stacks.undo, e)) = Append(Past, Saved(e))
    BY <1>4, <1>5, <2>1, KnownPush
  <2>5. /\ Append(stacks.undo, e) \in Seq(Entry)
        /\ Len(Append(stacks.undo, e)) <= Cap + 1
    BY <1>4, <1>5, <1>6, UndoAssumption
  <2>6. Known(new) = History!Latest(Append(Past, Saved(e)))
    BY <2>4, <2>5, KnownLatest DEF new, History!Latest
  <2>7. Saved(e) = [path |-> e.path, content |-> file[e.path]]
    BY <1>4 DEF Saved
  <2>8. History!Save(e.path)
    BY <1>1, <2>2, <2>3, <2>6, <2>7 DEF History!Save
  <2> QED
    BY <1>1, <1>4, <2>8 DEF Implements, Seen, History!Next
<1> QED
  BY <1>12, <1>13, <1>14, <1>16, <1>17 DEF UndoInv

\* The file changes, as the snapshot on top allows, or it does not.
LEMMA MutateStep ==
    ASSUME OneAgent, UndoInv, Mutate(Solo) \/ MutateFails(Solo)
    PROVE  UndoInv' /\ Implements
<1> DEFINE was == op[Solo]
           e == was.entry
<1>1. was.pc = "mutate" /\ UNCHANGED <<stacks, made, crashes>>
  BY DEF Mutate, MutateFails
<1>2. /\ Types /\ Current(was) /\ Room /\ Distinct(stacks.undo, stacks.redo, Pushed(was))
      /\ was \in Ops
  BY OnlySolo DEF UndoInv, Types
<1>3. was \in HeldOps
  BY <1>1, <1>2, StageTells
<1>4. /\ e \in Entry /\ e.path \in Paths /\ was.new \in State
      /\ stacks.undo # <<>> /\ stacks.redo = <<>> /\ Last(stacks.undo).path = e.path
  BY <1>1, <1>2, <1>3 DEF HeldOps, Current, Entry
<1>5. /\ file' \in [Paths -> State]
      /\ op' \in [Actors -> Ops]
      /\ op'[Solo].pc \in {"record", "idle"}
      /\ op'[Solo].pc = "record" => op'[Solo].entry = e
  <2>1. CASE Mutate(Solo)
    <3>1. [was EXCEPT !.pc = "record"] \in Ops
      BY <1>3 DEF HeldOps, Ops
    <3>2. Step(Solo, [was EXCEPT !.pc = "record"])
      BY <2>1 DEF Mutate
    <3>3. op' \in [Actors -> Ops] /\ op'[Solo] = [was EXCEPT !.pc = "record"]
      BY <1>2, <3>1, <3>2, SoloSteps
    <3>4. file' \in [Paths -> State]
      BY <1>2, <1>4, <2>1 DEF Mutate, Types
    <3> QED
      BY <1>3, <3>3, <3>4 DEF HeldOps
  <2>2. CASE MutateFails(Solo)
    <3>1. Rest(Solo) /\ file' = file
      BY <2>2 DEF MutateFails
    <3>2. op' \in [Actors -> Ops] /\ op'[Solo] = Resting
      BY <1>2, <3>1, OnlySolo, SoloRests
    <3> QED
      BY <1>2, <3>1, <3>2 DEF Types, Resting
  <2> QED
    BY <2>1, <2>2
<1>6. Types' /\ Room'
  BY <1>1, <1>2, <1>5 DEF Types, Room
<1>7. Current(op[Solo])'
  BY <1>1, <1>4, <1>5 DEF Current
<1>8. Pushed(op[Solo])' = Pushed(op[Solo])
  BY <1>1, <1>5 DEF Pushed
<1>9. Distinct(stacks.undo, stacks.redo, Pushed(op[Solo]))'
  BY <1>1, <1>2, <1>8 DEF Distinct
<1>10. CASE MutateFails(Solo)
  <2>1. file' = file
    BY <1>10 DEF MutateFails
  <2>2. Implements
    BY <1>1, <1>5, <2>1, LookingIsUnseen
  <2> QED
    BY <1>6, <1>7, <1>9, <2>2 DEF UndoInv
<1>11. CASE Mutate(Solo)
  <2>1. Past = Known(stacks.undo) /\ Future = Known(stacks.redo)
    BY <1>1, StacksAreSeen
  <2>2. Past' = Past /\ Future' = Future
    BY <1>1, <1>5, <2>1 DEF Past, Future, Undone, Redone
  <2>3. Past # <<>> /\ Last(Past).path = e.path
    <3>1. stacks.undo \in Seq(Entry)
      BY <1>2, EntriesOfStacks
    <3>2. Known(stacks.undo) # <<>> /\ Last(Known(stacks.undo)) = Saved(Last(stacks.undo))
      BY <1>4, <3>1, KnownPop
    <3> QED
      BY <1>4, <2>1, <3>2 DEF Saved
  <2>4. Future = <<>>
    BY <1>4, <2>1, KnownEffect, EmptySeq
  <2>5. History!Rewrite(e.path)
    BY <1>4, <1>11 DEF Mutate, History!Rewrite, State
  <2>6. History!Last(Past) = Last(Past)
    BY DEF History!Last, Last
  <2>7. History!Change
    BY <2>2, <2>3, <2>4, <2>5, <2>6 DEF History!Change
  <2>8. Implements
    BY <1>1, <2>7 DEF Implements, Seen, History!Next
  <2> QED
    BY <1>6, <1>7, <1>9, <2>8 DEF UndoInv
<1> QED
  BY <1>10, <1>11

\* Recording what was written changes no entry but in its "after".
AmendedBy(u, e, v) ==
    [i \in DOMAIN u |-> IF u[i].id = e.id THEN [u[i] EXCEPT !.after = v] ELSE u[i]]

LEMMA AmendEffect ==
    ASSUME NEW u \in Seq(Entry), NEW e \in Entry, NEW v \in State
    PROVE  LET new == AmendedBy(u, e, v)
           IN  /\ new \in Seq(Entry) /\ Len(new) = Len(u)
               /\ \A i \in 1 .. Len(u) : new[i].id = u[i].id /\ new[i].path = u[i].path
               /\ Known(new) = Known(u)
<1> DEFINE Amended(i) == IF u[i].id = e.id THEN [u[i] EXCEPT !.after = v] ELSE u[i]
           new == AmendedBy(u, e, v)
<1>1. Len(u) \in Nat /\ DOMAIN u = 1 .. Len(u) /\ \A i \in 1 .. Len(u) : u[i] \in Entry
  OBVIOUS
<1>2. \A i \in 1 .. Len(u) : /\ Amended(i) \in Entry /\ Amended(i).id = u[i].id
                             /\ Amended(i).path = u[i].path
                             /\ Saved(Amended(i)) = Saved(u[i])
  BY <1>1 DEF Entry, Saved
<1>0. new = [i \in 1 .. Len(u) |-> Amended(i)]
  BY <1>1 DEF AmendedBy
<1> HIDE DEF Amended
<1>3. new \in Seq(Entry) /\ Len(new) = Len(u) /\ \A i \in 1 .. Len(u) : new[i] = Amended(i)
  BY <1>0, <1>1, <1>2
<1> HIDE DEF new
<1>4. /\ Known(new) \in Seq(SavedEntry) /\ Len(Known(new)) = Len(u)
      /\ \A i \in 1 .. Len(u) : Known(new)[i] = Saved(new[i])
      /\ Known(u) \in Seq(SavedEntry) /\ Len(Known(u)) = Len(u)
      /\ \A i \in 1 .. Len(u) : Known(u)[i] = Saved(u[i])
  BY <1>3, KnownEffect
<1>5. \A i \in 1 .. Len(u) : Known(new)[i] = Known(u)[i]
  BY <1>2, <1>3, <1>4
<1>6. Known(new) = Known(u)
  BY <1>4, <1>5, SeqEqual
<1>7. /\ new \in Seq(Entry) /\ Len(new) = Len(u)
      /\ \A i \in 1 .. Len(u) : new[i].id = u[i].id /\ new[i].path = u[i].path
  BY <1>2, <1>3
<1> QED
  BY <1>6, <1>7 DEF new, Amended

LEMMA RecordStep ==
    ASSUME OneAgent, UndoInv, RecordAfter(Solo)
    PROVE  UndoInv' /\ Implements
<1> DEFINE was == op[Solo]
           e == was.entry
           u == stacks.undo
           new == AmendedBy(u, e, was.new)
<1>1. was.pc = "amend" /\ Rest(Solo) /\ UNCHANGED <<file, made, crashes>>
  BY DEF RecordAfter
<1>2. /\ Types /\ Current(was) /\ Room /\ Distinct(stacks.undo, stacks.redo, Pushed(was))
      /\ was \in Ops
  BY OnlySolo DEF UndoInv, Types
<1>3. was \in HeldOps
  BY <1>1, <1>2, StageTells
<1>4. e \in Entry /\ was.new \in State /\ was.meta = stacks
  BY <1>1, <1>2, <1>3 DEF HeldOps, Current
<1>5. stacks' = [undo |-> Latest(new), redo |-> stacks.redo]
  BY <1>4 DEF RecordAfter, AmendedBy
<1>6. /\ u \in Seq(Entry) /\ stacks.redo \in Seq(Entry) /\ made \in Nat
      /\ Len(u) \in Nat /\ Len(stacks.redo) \in Nat
  BY <1>2, EntriesOfStacks
<1>7. Len(u) <= Cap
  <2>1. Cap \in Nat /\ Len(u) + Len(stacks.redo) <= Cap
    BY <1>2, UndoAssumption DEF Room
  <2> QED
    BY <1>6, <2>1, PartOfSum
<1>8. /\ new \in Seq(Entry) /\ Len(new) = Len(u)
      /\ \A i \in 1 .. Len(u) : new[i].id = u[i].id /\ new[i].path = u[i].path
      /\ Known(new) = Known(u)
  BY <1>4, <1>6, AmendEffect
<1> HIDE DEF new
<1>9. Latest(new) = new
  <2>1. Cap \in Nat /\ ~(Len(new) > Cap)
    BY <1>6, <1>7, <1>8, UndoAssumption
  <2> QED
    BY <2>1 DEF Latest
<1>10. stacks' = [undo |-> new, redo |-> stacks.redo] /\ stacks'.undo = new /\ stacks'.redo = stacks.redo
  BY <1>5, <1>9
<1>11. op' \in [Actors -> Ops] /\ op'[Solo] = Resting
  BY <1>1, <1>2, OnlySolo, SoloRests
<1>12. stacks' \in Stacks
  BY <1>6, <1>8, <1>10 DEF Stacks
<1>13. Types'
  BY <1>1, <1>2, <1>11, <1>12 DEF Types
<1>14. Room'
  BY <1>2, <1>8, <1>10 DEF Room
<1>15. Current(op[Solo])'
  BY <1>11 DEF Current, Resting
<1>16. Pushed(op[Solo])' = made /\ Pushed(was) = made
  BY <1>1, <1>11 DEF Pushed, Resting
<1>17. Distinct(new, stacks.redo, made)
  BY <1>2, <1>8, <1>16 DEF Distinct
<1>18. Distinct(stacks.undo, stacks.redo, Pushed(op[Solo]))'
  BY <1>10, <1>16, <1>17 DEF Distinct
<1>19. Implements
  <2>1. Past = Known(u) /\ Future = Known(stacks.redo)
    BY <1>1, StacksAreSeen
  <2>2. Past' = Known(new) /\ Future' = Known(stacks.redo)
    BY <1>10, <1>11 DEF Past, Future, Undone, Redone, Resting
  <2> QED
    BY <1>1, <1>8, <2>1, <2>2 DEF Implements, Seen
<1> QED
  BY <1>13, <1>14, <1>15, <1>18, <1>19 DEF UndoInv

\* Undo and redo look at the top of their stack.
LEMMA PopStep ==
    ASSUME OneAgent, UndoInv, StartUndo(Solo) \/ StartRedo(Solo)
    PROVE  UndoInv' /\ Implements
<1>1. PICK kind \in {"undo", "redo"}, s \in {stacks.undo, stacks.redo} :
          /\ Pop(Solo, kind, s)
          /\ kind = "undo" => s = stacks.undo
          /\ kind = "redo" => s = stacks.redo
  BY DEF StartUndo, StartRedo
<1> DEFINE o == [pc |-> "restore", kind |-> kind, entry |-> Last(s), meta |-> stacks]
<1>2. /\ op[Solo].pc = "idle" /\ s # <<>> /\ Step(Solo, o)
      /\ UNCHANGED <<file, stacks, made, crashes>>
  BY <1>1 DEF Pop
<1>3. /\ Types /\ Room /\ Distinct(stacks.undo, stacks.redo, Pushed(op[Solo]))
      /\ stacks \in Stacks
  BY DEF UndoInv, Types
<1>4. s \in Seq(Entry) /\ Last(s) \in Entry
  BY <1>1, <1>2, <1>3, EntriesOfStacks, PopPush
<1>5. o \in Ops
  BY <1>3, <1>4 DEF Ops, BackOps
<1>6. op' \in [Actors -> Ops] /\ op'[Solo] = o
  BY <1>2, <1>3, <1>5, SoloSteps
<1>7. Types' /\ Room'
  BY <1>2, <1>3, <1>6 DEF Types, Room
<1>8. Current(op[Solo])'
  BY <1>1, <1>2, <1>6 DEF Current
<1>9. Pushed(op[Solo])' = Pushed(op[Solo])
  BY <1>2, <1>6 DEF Pushed
<1>10. Distinct(stacks.undo, stacks.redo, Pushed(op[Solo]))'
  BY <1>2, <1>3, <1>9 DEF Distinct
<1>11. Implements
  BY <1>2, <1>6, LookingIsUnseen
<1> QED
  BY <1>7, <1>8, <1>10, <1>11 DEF UndoInv

\* From here on UndoHistory has the undo, or the redo, behind it.
LEMMA RestoreStep ==
    ASSUME OneAgent, UndoInv, Restore(Solo) \/ RestoreFails(Solo)
    PROVE  UndoInv' /\ Implements
<1> DEFINE was == op[Solo]
           e == was.entry
           o == IF Restore(Solo) THEN [was EXCEPT !.pc = "settle"]
                ELSE [was EXCEPT !.pc = "settle", !.kind = "failed"]
<1>1. was.pc = "restore" /\ UNCHANGED <<stacks, made, crashes>>
  BY DEF Restore, RestoreFails
<1>2. /\ Types /\ Current(was) /\ Room /\ Distinct(stacks.undo, stacks.redo, Pushed(was))
      /\ was \in Ops
  BY OnlySolo DEF UndoInv, Types
<1>3. was \in BackOps
  BY <1>1, <1>2, StageTells
<1>4. e \in Entry /\ e.path \in Paths /\ e.content \in State /\ e.after \in State
  BY <1>3 DEF BackOps, Entry
<1>5. Step(Solo, o)
  BY DEF Restore, RestoreFails
<1>6. /\ o \in Ops /\ o.pc = "settle" /\ o.entry = e /\ o.meta = was.meta
      /\ o.kind = "failed" \/ o.kind = was.kind
      /\ Restore(Solo) => o.kind = was.kind
      /\ ~Restore(Solo) => o.kind = "failed"
  BY <1>3 DEF BackOps, Ops
<1> HIDE DEF o
<1>7. op' \in [Actors -> Ops] /\ op'[Solo] = o
  BY <1>2, <1>5, <1>6, SoloSteps
<1>8. file' \in [Paths -> State]
  BY <1>2, <1>4 DEF Restore, RestoreFails, Types
<1>9. Types' /\ Room'
  BY <1>1, <1>2, <1>7, <1>8 DEF Types, Room
<1>10. Current(op[Solo])'
  BY <1>1, <1>2, <1>6, <1>7 DEF Current
<1>11. Pushed(op[Solo])' = Pushed(op[Solo])
  BY <1>1, <1>6, <1>7 DEF Pushed
<1>12. Distinct(stacks.undo, stacks.redo, Pushed(op[Solo]))'
  BY <1>1, <1>2, <1>11 DEF Distinct
<1>13. UndoInv'
  BY <1>9, <1>10, <1>12 DEF UndoInv
<1>14. /\ Past = Known(stacks.undo) /\ Future = Known(stacks.redo)
       /\ stacks.undo \in Seq(Entry) /\ stacks.redo \in Seq(Entry)
  BY <1>1, <1>2, StacksAreSeen, EntriesOfStacks
<1>15. CASE ~Restore(Solo)
  <2>1. Past' = Past /\ Future' = Future
    BY <1>1, <1>6, <1>7, <1>14, <1>15 DEF Past, Future, Undone, Redone
  <2>2. RestoreFails(Solo)
    BY <1>15
  <2> QED
    BY <1>1, <1>13, <2>1, <2>2 DEF Implements, Seen, RestoreFails
<1>16. CASE Restore(Solo) /\ was.kind = "undo"
  <2>1. stacks.undo # <<>> /\ e = Last(stacks.undo)
    BY <1>1, <1>2, <1>16 DEF Current
  <2>2. Past' = Known(ButLast(stacks.undo)) /\ Future' = Known(Append(stacks.redo, e))
    BY <1>1, <1>6, <1>7, <1>16 DEF Past, Future, Undone, Redone
  <2>3. Past # <<>> /\ Past' = ButLast(Past) /\ Saved(e) = Last(Past)
    BY <1>14, <2>1, <2>2, KnownPop
  <2>4. Future' = Append(Future, Saved(e))
    BY <1>4, <1>14, <2>2, KnownPush
  <2>5. History!Last(Past) = Last(Past) /\ History!ButLast(Past) = ButLast(Past)
    BY DEF History!Last, History!ButLast, Last, ButLast
  <2>6. Saved(e).path = e.path /\ Saved(e).content = e.content
    BY DEF Saved
  <2>7. file' = [file EXCEPT ![e.path] = e.content]
    BY <1>16 DEF Restore
  <2>8. History!Undo
    BY <2>3, <2>4, <2>5, <2>6, <2>7 DEF History!Undo, History!Back
  <2> QED
    BY <1>1, <1>13, <2>8 DEF Implements, Seen, History!Next
<1>17. CASE Restore(Solo) /\ was.kind = "redo"
  <2>1. stacks.redo # <<>> /\ e = Last(stacks.redo)
    BY <1>1, <1>2, <1>17 DEF Current
  <2>2. Past' = Known(Append(stacks.undo, e)) /\ Future' = Known(ButLast(stacks.redo))
    BY <1>1, <1>6, <1>7, <1>17 DEF Past, Future, Undone, Redone
  <2>3. Future # <<>> /\ Future' = ButLast(Future) /\ Saved(e) = Last(Future)
    BY <1>14, <2>1, <2>2, KnownPop
  <2>4. Past' = Append(Past, Saved(e))
    BY <1>4, <1>14, <2>2, KnownPush
  <2>5. History!Last(Future) = Last(Future) /\ History!ButLast(Future) = ButLast(Future)
    BY DEF History!Last, History!ButLast, Last, ButLast
  <2>6. Saved(e).path = e.path
    BY DEF Saved
  <2>7. History!Rewrite(e.path)
    BY <1>4, <1>17 DEF Restore, History!Rewrite, State
  <2>8. History!Redo
    BY <2>3, <2>4, <2>5, <2>6, <2>7 DEF History!Redo, History!Forward
  <2> QED
    BY <1>1, <1>13, <2>8 DEF Implements, Seen, History!Next
<1>18. was.kind \in {"undo", "redo"}
  BY <1>1, <1>2, <1>3 DEF BackOps, Current
<1> QED
  BY <1>15, <1>16, <1>17, <1>18

\* stacks.json follows: the entry goes to the other stack, or stays when its
\* file could not be written.
LEMMA SettleStep ==
    ASSUME OneAgent, UndoInv, Settle(Solo)
    PROVE  UndoInv' /\ Implements
<1> DEFINE was == op[Solo]
           e == was.entry
<1>1. was.pc = "settle" /\ Rest(Solo) /\ UNCHANGED <<file, made, crashes>>
  BY DEF Settle
<1>2. /\ Types /\ Current(was) /\ Room /\ Distinct(stacks.undo, stacks.redo, Pushed(was))
      /\ was \in Ops
  BY OnlySolo DEF UndoInv, Types
<1>3. was \in BackOps
  BY <1>1, <1>2, StageTells
<1>4. e \in Entry /\ was.meta = stacks /\ was.kind \in {"undo", "redo", "failed"}
  BY <1>1, <1>2, <1>3 DEF BackOps, Current
<1>5. op' \in [Actors -> Ops] /\ op'[Solo] = Resting
  BY <1>1, <1>2, OnlySolo, SoloRests
<1>6. /\ stacks.undo \in Seq(Entry) /\ stacks.redo \in Seq(Entry) /\ made \in Nat
      /\ Len(stacks.undo) \in Nat /\ Len(stacks.redo) \in Nat
      /\ stacks = [undo |-> stacks.undo, redo |-> stacks.redo]
  BY <1>2, EntriesOfStacks
<1>7. Pushed(was) = made /\ Pushed(op[Solo])' = made
  BY <1>1, <1>5 DEF Pushed, Resting
<1>8. Current(op[Solo])'
  BY <1>5 DEF Current, Resting
<1>9. Past' = Known(stacks'.undo) /\ Future' = Known(stacks'.redo)
  BY <1>5 DEF Past, Future, Undone, Redone, Resting
<1>10. SUFFICES /\ stacks'.undo \in Seq(Entry) /\ stacks'.redo \in Seq(Entry)
                /\ stacks' \in Stacks
                /\ Len(stacks'.undo) + Len(stacks'.redo) <= Cap
                /\ Distinct(stacks'.undo, stacks'.redo, made)
                /\ Past = Known(stacks'.undo) /\ Future = Known(stacks'.redo)
  <2>1. Types'
    BY <1>1, <1>2, <1>5, <1>10 DEF Types
  <2>2. Room'
    BY <1>10 DEF Room
  <2>3. Distinct(stacks.undo, stacks.redo, Pushed(op[Solo]))'
    BY <1>7, <1>10 DEF Distinct
  <2>4. Implements
    BY <1>1, <1>9, <1>10 DEF Implements, Seen
  <2> QED
    BY <1>8, <2>1, <2>2, <2>3, <2>4 DEF UndoInv
<1>11. CASE was.kind = "undo"
  <2> DEFINE less == ButLast(stacks.undo)
             more == Latest(Append(stacks.redo, e))
  <2>1. stacks.undo # <<>> /\ e = Last(stacks.undo)
    BY <1>1, <1>2, <1>11 DEF Current
  <2>2. Len(stacks.undo) + Len(stacks.redo) <= Cap
    BY <1>2 DEF Room
  <2>3. /\ more = Append(stacks.redo, e) /\ more \in Seq(Entry)
        /\ Len(less) + Len(more) = Len(stacks.undo) + Len(stacks.redo)
        /\ Distinct(less, more, made)
    BY <1>2, <1>6, <1>7, <2>1, <2>2, MoveDistinct
  <2>4. less \in Seq(Entry)
    BY <1>6, <2>1, PopPush
  <2>5. stacks' = [undo |-> less, redo |-> more]
    BY <1>4, <1>11 DEF Settle
  <2>6. Past = Known(less) /\ Future = Known(Append(stacks.redo, e))
    BY <1>1, <1>11 DEF Past, Future, Undone, Redone
  <2> HIDE DEF less, more
  <2>7. stacks'.undo = less /\ stacks'.redo = more /\ stacks' \in Stacks
    BY <2>3, <2>4, <2>5 DEF Stacks
  <2> QED
    BY <2>2, <2>3, <2>4, <2>6, <2>7
<1>12. CASE was.kind = "redo"
  <2> DEFINE less == ButLast(stacks.redo)
             more == Latest(Append(stacks.undo, e))
  <2>1. stacks.redo # <<>> /\ e = Last(stacks.redo)
    BY <1>1, <1>2, <1>12 DEF Current
  <2>2. Len(stacks.redo) + Len(stacks.undo) <= Cap
    BY <1>2, <1>6 DEF Room
  <2>3. Distinct(stacks.redo, stacks.undo, made)
    BY <1>2, <1>7, DistinctSwaps
  <2>4. /\ more = Append(stacks.undo, e) /\ more \in Seq(Entry)
        /\ Len(less) + Len(more) = Len(stacks.redo) + Len(stacks.undo)
        /\ Distinct(less, more, made)
    BY <1>6, <2>1, <2>2, <2>3, MoveDistinct
  <2>5. less \in Seq(Entry)
    BY <1>6, <2>1, PopPush
  <2>6. stacks' = [undo |-> more, redo |-> less]
    BY <1>4, <1>12 DEF Settle
  <2>7. Past = Known(Append(stacks.undo, e)) /\ Future = Known(less)
    BY <1>1, <1>12 DEF Past, Future, Undone, Redone
  <2> HIDE DEF less, more
  <2>8. stacks'.undo = more /\ stacks'.redo = less /\ stacks' \in Stacks
    BY <2>4, <2>5, <2>6 DEF Stacks
  <2>9. Distinct(more, less, made)
    BY <2>4, DistinctSwaps
  <2>10. Len(less) \in Nat /\ Len(more) \in Nat
    BY <2>4, <2>5
  <2>11. Len(more) + Len(less) = Len(less) + Len(more)
    BY <2>10
  <2>12. Len(more) + Len(less) <= Cap
    BY <2>2, <2>4, <2>11
  <2> QED
    BY <2>4, <2>5, <2>7, <2>8, <2>9, <2>12
<1>13. CASE was.kind = "failed"
  <2>1. stacks' = stacks
    BY <1>4, <1>13 DEF Settle
  <2>2. Past = Known(stacks.undo) /\ Future = Known(stacks.redo)
    BY <1>13, StacksAreSeen
  <2> QED
    BY <1>2, <1>6, <1>7, <2>1, <2>2 DEF Room, Types
<1> QED
  BY <1>4, <1>11, <1>12, <1>13

\* A crash takes an undo, or a redo, back that stacks.json does not know of.
LEMMA CrashStep ==
    ASSUME OneAgent, UndoInv, Crash
    PROVE  UndoInv' /\ Implements
<1> DEFINE was == op[Solo]
<1>1. /\ crashes < MaxCrashes /\ crashes' = crashes + 1 /\ UNCHANGED <<file, made>>
      /\ op' = [a \in Actors |-> Resting]
      /\ stacks' = stacks \/ stacks' = Empty
  BY DEF Crash
<1>2. /\ Types /\ Current(was) /\ Room /\ Distinct(stacks.undo, stacks.redo, Pushed(was))
      /\ was \in Ops
  BY OnlySolo DEF UndoInv, Types
<1>3. /\ stacks.undo \in Seq(Entry) /\ stacks.redo \in Seq(Entry) /\ made \in Nat
      /\ Len(stacks.undo) \in Nat /\ Len(stacks.redo) \in Nat
  BY <1>2, EntriesOfStacks
<1>4. op' \in [Actors -> Ops] /\ op'[Solo] = Resting
  BY <1>1, OnlySolo DEF Ops
<1>5. stacks' = Empty => stacks'.undo = <<>> /\ stacks'.redo = <<>> /\ stacks' \in Stacks
  BY DEF Empty, Stacks
<1>6. Types'
  <2>1. crashes' \in 0 .. MaxCrashes
    BY <1>1, <1>2, UndoAssumption DEF Types
  <2>2. stacks' \in Stacks
    BY <1>1, <1>2, <1>5 DEF Types
  <2> QED
    BY <1>1, <1>2, <1>4, <2>1, <2>2 DEF Types
<1>7. Room'
  <2>1. CASE stacks' = Empty
    <3>1. Len(stacks'.undo) = 0 /\ Len(stacks'.redo) = 0
      BY <1>5, <2>1, EmptySeq
    <3> QED
      BY <3>1, UndoAssumption DEF Room
  <2> QED
    BY <1>1, <1>2, <2>1 DEF Room
<1>8. Current(op[Solo])'
  BY <1>4 DEF Current, Resting
<1>9. Pushed(op[Solo])' = made
  BY <1>1, <1>4 DEF Pushed, Resting
<1>10. Distinct(stacks.undo, stacks.redo, made)
  <2>1. CASE was.pc \in {"snap", "push"}
    <3>1. Distinct(stacks.undo, stacks.redo, made - 1)
      BY <1>2, <2>1 DEF Pushed
    <3>2. \A i \in 1 .. Len(stacks.undo) : stacks.undo[i].id \in Nat
      BY <1>3, IdsAreNumbers
    <3>3. \A i \in 1 .. Len(stacks.redo) : stacks.redo[i].id \in Nat
      BY <1>3, IdsAreNumbers
    <3> QED
      BY <1>3, <3>1, <3>2, <3>3 DEF Distinct
  <2>2. CASE was.pc \notin {"snap", "push"}
    BY <1>2, <2>2 DEF Pushed
  <2> QED
    BY <2>1, <2>2
<1>11. Distinct(stacks.undo, stacks.redo, Pushed(op[Solo]))'
  <2>1. CASE stacks' = Empty
    BY <1>5, <1>9, <2>1, EmptySeq DEF Distinct
  <2> QED
    BY <1>1, <1>9, <1>10, <2>1
<1>12. UndoInv'
  BY <1>6, <1>7, <1>8, <1>11 DEF UndoInv
<1>13. Past' = Known(stacks'.undo) /\ Future' = Known(stacks'.redo)
  BY <1>4 DEF Past, Future, Undone, Redone, Resting
<1>14. \/ Past' = <<>> /\ Future' = <<>>
       \/ Past' = Past /\ Future' = Future
       \/ History!Back
       \/ History!Forward
  <2>1. CASE stacks' = Empty
    BY <1>5, <1>13, <2>1, KnownEffect, EmptySeq
  <2>2. CASE stacks' = stacks /\ (was.pc # "settle" \/ was.kind \notin {"undo", "redo"})
    BY <1>13, <2>2, StacksAreSeen
  <2>3. CASE stacks' = stacks /\ was.pc = "settle" /\ was.kind = "undo"
    <3> DEFINE e == Last(stacks.undo)
    <3>1. stacks.undo # <<>> /\ was.entry = e /\ e \in Entry
      BY <1>2, <1>3, <2>3, PopPush DEF Current
    <3>2. Past = Known(ButLast(stacks.undo)) /\ Future = Known(Append(stacks.redo, e))
      BY <2>3, <3>1 DEF Past, Future, Undone, Redone
    <3>3. Past' = Append(Past, Saved(e))
      BY <1>3, <1>13, <2>3, <3>1, <3>2, KnownPop
    <3>4. /\ Future = Append(Known(stacks.redo), Saved(e))
          /\ Known(stacks.redo) \in Seq(SavedEntry) /\ Saved(e) \in SavedEntry
      BY <1>3, <3>1, <3>2, KnownPush, KnownEffect
    <3>5. Future # <<>> /\ Last(Future) = Saved(e) /\ ButLast(Future) = Future'
      BY <1>13, <2>3, <3>4, PushPop
    <3> QED
      BY <3>3, <3>5 DEF History!Forward, History!Last, History!ButLast, Last, ButLast
  <2>4. CASE stacks' = stacks /\ was.pc = "settle" /\ was.kind = "redo"
    <3> DEFINE e == Last(stacks.redo)
    <3>1. stacks.redo # <<>> /\ was.entry = e /\ e \in Entry
      BY <1>2, <1>3, <2>4, PopPush DEF Current
    <3>2. Past = Known(Append(stacks.undo, e)) /\ Future = Known(ButLast(stacks.redo))
      BY <2>4, <3>1 DEF Past, Future, Undone, Redone
    <3>3. Future' = Append(Future, Saved(e))
      BY <1>3, <1>13, <2>4, <3>1, <3>2, KnownPop
    <3>4. /\ Past = Append(Known(stacks.undo), Saved(e))
          /\ Known(stacks.undo) \in Seq(SavedEntry) /\ Saved(e) \in SavedEntry
      BY <1>3, <3>1, <3>2, KnownPush, KnownEffect
    <3>5. Past # <<>> /\ Last(Past) = Saved(e) /\ ButLast(Past) = Past'
      BY <1>13, <2>4, <3>4, PushPop
    <3> QED
      BY <3>3, <3>5 DEF History!Back, History!Last, History!ButLast, Last, ButLast
  <2> QED
    BY <1>1, <2>1, <2>2, <2>3, <2>4
<1>15. History!Crash
  BY <1>1, <1>14 DEF History!Crash
<1> QED
  BY <1>12, <1>15 DEF Implements, Seen, History!Next

-----------------------------------------------------------------------------
(* The theorems.                                                           *)

\* A tool that changes a file takes its snapshot first.
LEMMA TakeStep ==
    ASSUME OneAgent, UndoInv, NEW p \in Paths,
           \/ \E v \in Contents : Write(Solo, p, v) \/ Edit(Solo, p, v)
           \/ Delete(Solo, p) \/ ManualSnapshot(Solo, p)
    PROVE  UndoInv' /\ Implements
<1>1. file[p] \in State /\ Absent \in State /\ Contents \subseteq State
  BY DEF UndoInv, Types, State
<1>2. PICK kind \in {"write", "snapshot"}, w \in State : TakeSnapshot(Solo, kind, p, w)
  BY <1>1 DEF Write, Edit, Delete, ManualSnapshot
<1>3. UndoInv' /\ op[Solo].pc = "idle" /\ op'[Solo].pc = "snap"
  BY <1>2, TakeKeeps
<1> QED
  BY <1>2, <1>3, LookingIsUnseen DEF TakeSnapshot

LEMMA EachStep ==
    ASSUME OneAgent, UndoInv, [Next]_vars
    PROVE  UndoInv' /\ Implements
<1>1. CASE UNCHANGED vars
  <2>1. UndoInv'
    BY <1>1 DEF vars, UndoInv, Types, Room, Current, Distinct, Pushed
  <2>2. Implements
    BY <1>1 DEF vars, Implements, Seen, Past, Future, Undone, Redone
  <2> QED
    BY <2>1, <2>2
<1>2. CASE Next
  <2>1. CASE Crash
    BY <2>1, CrashStep
  <2>2. ASSUME NEW p \in Paths,
               \/ \E v \in Contents : Write(Solo, p, v) \/ Edit(Solo, p, v)
               \/ Delete(Solo, p) \/ ManualSnapshot(Solo, p)
        PROVE  UndoInv' /\ Implements
    BY <2>2, TakeStep
  <2>3. CASE \/ ReadStacks(Solo) \/ PushSnapshot(Solo)
             \/ Mutate(Solo) \/ MutateFails(Solo) \/ RecordAfter(Solo)
             \/ StartUndo(Solo) \/ StartRedo(Solo)
             \/ Restore(Solo) \/ RestoreFails(Solo) \/ Settle(Solo)
    BY <2>3, ReadStep, PushStep, MutateStep, RecordStep, PopStep, RestoreStep, SettleStep
  <2> QED
    BY <1>2, <2>1, <2>2, <2>3, OnlySolo DEF Next
<1> QED
  BY <1>1, <1>2

\* The inductive invariant: what a tool has read of its file and of the stacks
\* is still so, each id is in one place, and neither stack is ever cut by an
\* undo or a redo (undoSnapshot.ts 60-125, undo.ts).
THEOREM UndoCorrect == ASSUME OneAgent PROVE Spec => []UndoInv
<1>1. Init => UndoInv
  BY InitKeeps
<1>2. UndoInv /\ [Next]_vars => UndoInv'
  BY EachStep
<1> QED
  BY <1>1, <1>2, PTL DEF Spec

\* The variables keep their types, and no stack outgrows its cap.
THEOREM UndoTypes == ASSUME OneAgent PROVE Spec => []TypeOK
<1>1. UndoInv => TypeOK
  <2> SUFFICES ASSUME UndoInv PROVE TypeOK
    OBVIOUS
  <2>1. Types /\ Room
    BY DEF UndoInv
  <2>2. Len(stacks.undo) <= Cap /\ Len(stacks.redo) <= Cap
    <3>1. /\ Len(stacks.undo) \in Nat /\ Len(stacks.redo) \in Nat /\ Cap \in Nat
          /\ Len(stacks.undo) + Len(stacks.redo) <= Cap
      BY <2>1, EntriesOfStacks, UndoAssumption DEF Room
    <3> QED
      BY <3>1, PartOfSum
  <2>3. \A o \in Ops : o.pc \in Steps /\ o.kind \in Kinds
    BY DEF Ops, Resting, SnapOps, HeldOps, BackOps, Steps, Kinds
  <2> QED
    BY <2>1, <2>2, <2>3 DEF TypeOK, Types
<1> QED
  BY <1>1, UndoCorrect, PTL

\* A change is undone or not, never both and never twice, for any cap and any
\* number of changes.
THEOREM ChangesOnce == ASSUME OneAgent PROVE Spec => []EachChangeOnce
<1>1. UndoInv => EachChangeOnce
  <2> SUFFICES ASSUME UndoInv PROVE EachChangeOnce
    OBVIOUS
  <2> DEFINE u == stacks.undo
             r == stacks.redo
             all == u \o r
  <2>1. u \in Seq(Entry) /\ r \in Seq(Entry) /\ Len(u) \in Nat /\ Len(r) \in Nat
    BY EntriesOfStacks DEF UndoInv
  <2>2. Distinct(u, r, Pushed(op[Solo]))
    BY DEF UndoInv
  <2> HIDE DEF u, r
  <2>3. /\ all \in Seq(Entry) /\ Len(all) = Len(u) + Len(r)
        /\ \A i \in 1 .. Len(u) + Len(r) :
               all[i] = IF i <= Len(u) THEN u[i] ELSE r[i - Len(u)]
    BY <2>1, ConcatProperties
  <2> HIDE DEF all
  <2>4. DOMAIN all = 1 .. Len(u) + Len(r)
    BY <2>3
  <2>5. ASSUME NEW i \in 1 .. Len(u) + Len(r), NEW j \in 1 .. Len(u) + Len(r),
               all[i].id = all[j].id
        PROVE  i = j
    <3>1. CASE i <= Len(u) /\ j <= Len(u)
      BY <2>1, <2>2, <2>3, <2>5, <3>1 DEF Distinct
    <3>2. CASE i <= Len(u) /\ ~(j <= Len(u))
      <4>1. i \in 1 .. Len(u) /\ j - Len(u) \in 1 .. Len(r)
        BY <2>1, <3>2
      <4>2. all[i] = u[i] /\ all[j] = r[j - Len(u)]
        BY <2>3, <3>2
      <4> QED
        BY <2>2, <2>5, <4>1, <4>2 DEF Distinct
    <3>3. CASE ~(i <= Len(u)) /\ j <= Len(u)
      <4>1. j \in 1 .. Len(u) /\ i - Len(u) \in 1 .. Len(r)
        BY <2>1, <3>3
      <4>2. all[j] = u[j] /\ all[i] = r[i - Len(u)]
        BY <2>3, <3>3
      <4> QED
        BY <2>2, <2>5, <4>1, <4>2 DEF Distinct
    <3>4. CASE ~(i <= Len(u)) /\ ~(j <= Len(u))
      <4>1. i - Len(u) \in 1 .. Len(r) /\ j - Len(u) \in 1 .. Len(r)
        BY <2>1, <3>4
      <4>2. all[i] = r[i - Len(u)] /\ all[j] = r[j - Len(u)]
        BY <2>3, <3>4
      <4>3. i - Len(u) = j - Len(u)
        BY <2>2, <2>5, <4>1, <4>2 DEF Distinct
      <4> QED
        BY <2>1, <4>3
    <3> QED
      BY <3>1, <3>2, <3>3, <3>4
  <2> QED
    BY <2>4, <2>5 DEF EachChangeOnce, all, u, r
<1> QED
  BY <1>1, UndoCorrect, PTL

\* The tools of one agent implement UndoHistory: the changes of a project are
\* one line that is walked back and forth, whatever fails, and whenever the
\* engine dies (undoSnapshot.ts, undo.ts, files.ts).
THEOREM ImplementsHistory == ASSUME OneAgent PROVE Spec => GoesBack
<1>1. Init => History!Init
  <2> SUFFICES ASSUME Init PROVE History!Init
    OBVIOUS
  <2>1. op[Solo] = Resting /\ stacks.undo = <<>> /\ stacks.redo = <<>>
    BY OnlySolo DEF Init, Empty
  <2>2. Known(<<>>) = <<>>
    BY KnownEffect, EmptySeq
  <2>3. Past = Known(stacks.undo) /\ Future = Known(stacks.redo)
    BY <2>1, StacksAreSeen DEF Resting
  <2> QED
    BY <2>1, <2>2, <2>3 DEF Init, History!Init, State
<1>2. UndoInv /\ [Next]_vars => [History!Next]_<<file, Past, Future, crashes>>
  BY EachStep DEF Implements, Seen
<1> QED
  BY <1>1, <1>2, UndoCorrect, PTL DEF Spec, GoesBack, History!Spec

=============================================================================
