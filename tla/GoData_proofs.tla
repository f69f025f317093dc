---------------------------- MODULE GoData_proofs ----------------------------
(***************************************************************************)
(* Proofs about what the program in Go stores. GoFiles, the tools that     *)
(* change files: the history keeps what a session's first change found,    *)
(* unless that change was overtaken or never recorded, and a tool changes  *)
(* what a model has not seen through three windows only. GoStore, the      *)
(* messages of a session: what a request sends is a conversation, whoever  *)
(* else writes to the session.                                             *)
(***************************************************************************)
EXTENDS GoFiles, GoStore, TLAPS

(***************************************************************************)
(* The inductive invariant. Its first two parts type the tools and the     *)
(* files; the next ones say what a record of a file means, and what a tool *)
(* that has looked at a file or changed it knows of it. The last one is    *)
(* about a session and a path: versions are stored for changes only; the   *)
(* first of them is what the first change found, and until it is stored    *)
(* the plan of the tool that made the change still holds it.               *)
(***************************************************************************)

Plans == UNION {[ps -> Change] : ps \in SUBSET Paths}
Names == {"none", "view", "part", "replace", "delete", "create", "write", "patch"}
Stages == {"idle", "ask", "change", "record", "cut", "again"}
ToolStates == [name : Names, at : Stages, plan : Plans, left : SUBSET Paths]

ToolFits(t) ==
    /\ t \in ToolStates
    /\ t.left \subseteq DOMAIN t.plan
    /\ t.name \in Views => t.at = "record"
    /\ t.name = "create" => \A p \in DOMAIN t.plan : t.plan[p].old = Empty

ToolTypes == tool \in [Editors -> ToolStates] /\ \A s \in Editors : ToolFits(tool[s])

HistoryTypes ==
    /\ disk \in [Paths -> {Absent} \cup Contents]
    /\ record \in [Paths -> {"never", "fresh", "stale"}]
    /\ DOMAIN seen = Paths
    /\ before \in [Editors \X Paths -> {Absent, Patched} \cup Contents]

\* What a tool that changed or read a file has left there.
Left(s, p) ==
    IF Plan(s, p).type = "delete" \/ Plan(s, p).to # p THEN Absent ELSE Plan(s, p).new

\* What a tool knows of a file: what it planned the change from, or has left.
There(s, p) ==
    IF At(s, "ask") \/ (At(s, "change") /\ p \in tool[s].left) THEN AsPlanned(s, p)
    ELSE disk[p] = Left(s, p)

FreshIsSeen == \A p \in Paths : record[p] = "fresh" => disk[p] = seen[p] \/ p \in missed

WatchOK(s, p) == s \in Watching(p) => <<s, p>> \in hit \/ There(s, p)

WatchedIsThere == \A s \in Editors, p \in Paths : WatchOK(s, p)

PatchAdds(s, p) == tool[s].name = "patch" /\ Plan(s, p).type = "add"

HasFirst(rs, s, p, c) == \E r \in Mine(rs, s, p) : r.version = 0 /\ r.content = c

PairOK(s, p) ==
    /\ Mine(rows, s, p) # {} => before[<<s, p>>] # Absent
    /\ before[<<s, p>>] \notin {Absent, Patched} /\ <<s, p>> \notin lost =>
           \/ p \in Unrecorded(s) /\ Mine(rows, s, p) = {}
           \/ HasFirst(rows, s, p, before[<<s, p>>])
    /\ p \in Unrecorded(s) =>
           /\ before[<<s, p>>] # Absent
           /\ before[<<s, p>>] # Patched /\ <<s, p>> \notin lost /\ Mine(rows, s, p) = {} =>
                  before[<<s, p>>] = Plan(s, p).old /\ ~PatchAdds(s, p)

PairsOK == \A s \in Editors, p \in Paths : PairOK(s, p)

FilesInv == ToolTypes /\ HistoryTypes /\ FreshIsSeen /\ WatchedIsThere /\ PairsOK

-----------------------------------------------------------------------------
(* The history. *)

\* ts is rs with more versions of p in s.
Grows(rs, ts, s, p) == rs \subseteq ts /\ \A r \in ts \ rs : r.sess = s /\ r.path = p

\* The first of the three attempts.
LEMMA MinOfThree == Min(1 .. 3) = 1
  BY DEF Min

\* createWithVersion adds at most one row, of the path and the session.
LEMMA InsertGrows ==
  ASSUME NEW rs, NEW s, NEW p, NEW c, NEW v
  PROVE  Grows(rs, Insert(rs, s, p, c, v), s, p)
  BY DEF Insert, Row, Grows

\* The first version of a path in a session is the initial one.
LEMMA InsertFirst ==
  ASSUME NEW rs, NEW s, NEW p, NEW c, Mine(rs, s, p) = {}
  PROVE  HasFirst(Insert(rs, s, p, c, 0), s, p, c)
  <1> DEFINE tries == <<0, Stamp, Stamp + 1>>
             free  == {i \in 1 .. 3 : \A r \in Mine(rs, s, p) : r.version # tries[i]}
  <1>1. free = 1 .. 3
    OBVIOUS
  <1>2. Insert(rs, s, p, c, 0) = rs \cup {Row(s, p, c, 0)}
    BY <1>1, MinOfThree DEF Insert
  <1> DEFINE x == Row(s, p, c, 0)
  <1>3. x.sess = s /\ x.path = p /\ x.version = 0 /\ x.content = c
    BY DEF Row
  <1> HIDE DEF x, tries, free
  <1>4. x \in Insert(rs, s, p, c, 0)
    BY <1>2 DEF x
  <1>5. x \in Mine(Insert(rs, s, p, c, 0), s, p)
    BY <1>3, <1>4 DEF Mine, Of
  <1>6. QED
    BY <1>3, <1>5 DEF HasFirst

\* CreateVersion adds at most one row, too.
LEMMA CreateVersionGrows ==
  ASSUME NEW rs, NEW s, NEW p, NEW c, NEW ts \in CreateVersion(rs, s, p, c)
  PROVE  Grows(rs, ts, s, p)
  BY InsertGrows DEF CreateVersion

LEMMA GrowsOn ==
  ASSUME NEW rs, NEW ts, NEW us, NEW s, NEW p, Grows(rs, ts, s, p), Grows(ts, us, s, p)
  PROVE  Grows(rs, us, s, p)
  BY DEF Grows

\* The initial version stays.
LEMMA GrowsKeeps ==
  ASSUME NEW rs, NEW ts, NEW s, NEW p, Grows(rs, ts, s, p), NEW t, NEW q
  PROVE  /\ Mine(rs, t, q) \subseteq Mine(ts, t, q)
         /\ <<t, q>> # <<s, p>> => Mine(ts, t, q) = Mine(rs, t, q)
  BY DEF Grows, Mine, Of

LEMMA FirstStays ==
  ASSUME NEW rs, NEW ts, NEW s, NEW p, Grows(rs, ts, s, p), NEW c, HasFirst(rs, s, p, c)
  PROVE  HasFirst(ts, s, p, c)
  BY GrowsKeeps DEF HasFirst

\* ts is rs with the content old as the first version, if there was none.
Founds(rs, ts, s, p, old) ==
    /\ Grows(rs, ts, s, p)
    /\ Mine(rs, s, p) = {} => HasFirst(ts, s, p, old)

LEMMA FoundsOn ==
  ASSUME NEW rs, NEW ts, NEW us, NEW s, NEW p, NEW old,
         Founds(rs, ts, s, p, old), Grows(ts, us, s, p)
  PROVE  Founds(rs, us, s, p, old)
  BY GrowsOn, FirstStays DEF Founds

LEMMA FirstFounds ==
  ASSUME NEW rs, NEW s, NEW p, NEW old
  PROVE  Founds(rs, First(rs, s, p, old), s, p, old)
  BY InsertGrows, InsertFirst DEF First, Founds, Grows

LEMMA BetweenFounds ==
  ASSUME NEW rs, NEW s, NEW p, NEW old, NEW ts \in Between(rs, s, p, old)
  PROVE  Founds(rs, ts, s, p, old)
  <1>1. ts = First(rs, s, p, old) \/ ts \in CreateVersion(First(rs, s, p, old), s, p, old)
    BY Zenon DEF Between
  <1>2. Grows(First(rs, s, p, old), ts, s, p)
    <2>1. Grows(First(rs, s, p, old), First(rs, s, p, old), s, p)
      BY DEF Grows
    <2>2. QED
      BY <1>1, <2>1, CreateVersionGrows
  <1>3. QED
    BY <1>2, FirstFounds, FoundsOn

LEMMA VersionsFound ==
  ASSUME NEW rs, NEW s, NEW p, NEW old, NEW new, NEW ts \in Versions(rs, s, p, old, new)
  PROVE  Founds(rs, ts, s, p, old)
  <1>1. PICK mid \in Between(rs, s, p, old) : ts \in CreateVersion(mid, s, p, new)
    BY DEF Versions
  <1>2. Founds(rs, mid, s, p, old) /\ Grows(mid, ts, s, p)
    BY <1>1, BetweenFounds, CreateVersionGrows
  <1>3. QED
    BY <1>2, FoundsOn

LEMMA NewVersionsFound ==
  ASSUME NEW rs, NEW s, NEW p, NEW new, NEW ts \in NewVersions(rs, s, p, new)
  PROVE  Founds(rs, ts, s, p, Empty)
  <1> DEFINE first == Insert(rs, s, p, Empty, 0)
  <1>1. Founds(rs, first, s, p, Empty)
    BY InsertGrows, InsertFirst DEF Founds
  <1>2. ts \in CreateVersion(first, s, p, new)
    BY DEF NewVersions
  <1> HIDE DEF first
  <1>3. Grows(first, ts, s, p)
    BY <1>2, CreateVersionGrows
  <1>4. QED
    BY <1>1, <1>3, FoundsOn

-----------------------------------------------------------------------------
(* The tools. *)

LEMMA PlanType ==
  ASSUME NEW plan \in Plans
  PROVE  /\ DOMAIN plan \subseteq Paths
         /\ \A p \in DOMAIN plan : plan[p] \in Change
  BY DEF Plans

LEMMA IdleFits ==
  /\ ToolFits(Idle) /\ DOMAIN Idle.plan = {}
  /\ Idle.name = "none" /\ Idle.at = "idle" /\ Idle.left = {}
  <1>1. [p \in {} |-> 0] \in [{} -> Change]
    OBVIOUS
  <1>2. [p \in {} |-> 0] \in Plans
    BY <1>1 DEF Plans
  <1> DEFINE none == [p \in {} |-> 0]
  <1>3. Idle = [name |-> "none", at |-> "idle", plan |-> none, left |-> {}]
    BY DEF Idle
  <1>4. none \in Plans /\ DOMAIN none = {}
    BY <1>2
  <1> HIDE DEF none
  <1>5. Idle \in ToolStates
    BY <1>3, <1>4 DEF ToolStates, Names, Stages
  <1>6. Idle.plan = none /\ Idle.name = "none" /\ Idle.at = "idle" /\ Idle.left = {}
    BY <1>3
  <1>7. QED
    BY <1>4, <1>5, <1>6 DEF ToolFits, Views

LEMMA BeginType ==
  ASSUME NEW plan \in Plans, NEW name \in Names, NEW at \in Stages
  PROVE  /\ Begin(name, at, plan) \in ToolStates
         /\ Begin(name, at, plan).name = name /\ Begin(name, at, plan).at = at
         /\ Begin(name, at, plan).plan = plan /\ Begin(name, at, plan).left = DOMAIN plan
  BY PlanType DEF Begin, ToolStates

LEMMA SingleType ==
  ASSUME NEW p \in Paths, NEW type \in {"add", "update", "delete"},
         NEW old \in Contents, NEW new \in Contents
  PROVE  /\ Single(p, type, old, new) \in Plans
         /\ DOMAIN Single(p, type, old, new) = {p}
         /\ Single(p, type, old, new)[p] = [type |-> type, old |-> old, new |-> new, to |-> p]
  <1>1. Single(p, type, old, new) \in [{p} -> Change]
    BY DEF Single, Change
  <1>2. QED
    BY <1>1 DEF Single, Plans

\* What is planned to change is fresh, and the plan is made from it.
Looked(plan) ==
    \A p \in DOMAIN plan : /\ Present(p) => Fresh(p)
                           /\ Was(p) = plan[p].old
                           /\ Present(p) <=> plan[p].type # "add"

\* What view has read is the file.
Shown(plan) ==
    \A p \in DOMAIN plan : plan[p].type = "update" /\ plan[p].to = p /\ plan[p].new = disk[p]

\* A tool begins, or goes on to replaceContent.
BeginsWith(s, name, at, plan) ==
    /\ tool' = [tool EXCEPT ![s] = Begin(name, at, plan)]
    /\ tool[s].at \in {"idle", "again"}
    /\ name = "create" => \A p \in DOMAIN plan : plan[p].old = Empty
    /\ \/ at = "record" /\ name \in Views /\ Shown(plan)
       \/ at = "ask" /\ name \notin Views /\ Looked(plan)
    /\ UNCHANGED <<disk, record, rows, seen, hit, missed, before, lost>>

ToolBegins(s) ==
    \E name \in Names, at \in {"ask", "record"}, plan \in Plans : BeginsWith(s, name, at, plan)

\* A tool ends without a change.
Rests(s) ==
    /\ tool[s].at \in {"ask", "again"}
    /\ tool' = [tool EXCEPT ![s] = Idle]
    /\ \A t \in Editors \ {s}, p \in Paths : <<t, p>> \in hit => <<t, p>> \in hit'
    /\ UNCHANGED <<disk, record, rows, seen, missed, before, lost>>

\* What each of the beginnings comes to.
LEMMA StartsBegins ==
  ASSUME NEW s \in Editors, NEW name \in Names, NEW at \in {"ask", "record"},
         NEW plan \in Plans, Starts(s, name, at, plan),
         name = "create" => \A p \in DOMAIN plan : plan[p].old = Empty,
         \/ at = "record" /\ name \in Views /\ Shown(plan)
         \/ at = "ask" /\ name \notin Views /\ Looked(plan)
  PROVE  ToolBegins(s)
  <1>1. tool[s].at \in {"idle", "again"}
    BY IdleFits DEF Starts
  <1>2. UNCHANGED <<disk, record, rows, seen, hit, missed, before, lost>>
    BY DEF Starts
  <1>3. tool' = [tool EXCEPT ![s] = Begin(name, at, plan)]
    BY DEF Starts
  <1>4. BeginsWith(s, name, at, plan)
    BY <1>1, <1>2, <1>3, Zenon DEF BeginsWith
  <1>5. QED
    BY <1>4, Zenon DEF ToolBegins

\* The tools that change one file.
LEMMA SingleBegins ==
  ASSUME NEW s \in Editors, NEW p \in Paths, NEW name \in Names \ Views,
         NEW type \in {"add", "update"},
         NEW old \in Contents, NEW new \in Contents,
         Starts(s, name, "ask", Single(p, type, old, new)),
         name = "create" => old = Empty,
         Present(p) => Fresh(p), old = Was(p), Present(p) <=> type # "add"
  PROVE  ToolBegins(s)
  <1> DEFINE plan == Single(p, type, old, new)
  <1>1. /\ plan \in Plans /\ DOMAIN plan = {p}
        /\ plan[p] = [type |-> type, old |-> old, new |-> new, to |-> p]
    BY SingleType
  <1>2. Starts(s, name, "ask", plan)
    OBVIOUS
  <1> HIDE DEF plan
  <1>3. Looked(plan)
    BY <1>1 DEF Looked
  <1>4. QED
    BY <1>1, <1>2, <1>3, StartsBegins

LEMMA ViewBegins ==
  ASSUME HistoryTypes, NEW s \in Editors, NEW p \in Paths, View(s, p)
  PROVE  ToolBegins(s)
  <1>1. PICK c \in Contents : c = disk[p]
    BY DEF View, Present, HistoryTypes
  <1> DEFINE plan == Single(p, "update", c, c)
  <1>2. PICK name \in Views : Starts(s, name, "record", plan)
    BY <1>1, Zenon DEF View, Views
  <1>3. /\ plan \in Plans /\ DOMAIN plan = {p}
        /\ plan[p] = [type |-> "update", old |-> c, new |-> c, to |-> p]
    BY SingleType
  <1> HIDE DEF plan
  <1>4. Shown(plan) /\ name \in Names /\ name # "create"
    BY <1>1, <1>3 DEF Shown, Names, Views
  <1>5. QED
    BY <1>2, <1>3, <1>4, StartsBegins

LEMMA EditBegins ==
  ASSUME HistoryTypes, NEW s \in Editors, NEW p \in Paths, NEW new \in Contents,
         Edit(s, p, new) \/ EditDelete(s, p, new) \/ EditNew(s, p, new) \/ Write(s, p, new)
  PROVE  ToolBegins(s)
  <1>1. CASE Edit(s, p, new)
    <2>1. disk[p] \in Contents /\ Fresh(p) /\ Present(p) /\ Was(p) = disk[p]
      BY <1>1 DEF Edit, Fresh, Present, HistoryTypes, Was
    <2>2. Starts(s, "replace", "ask", Single(p, "update", disk[p], new))
      BY <1>1 DEF Edit
    <2>3. QED
      BY <2>1, <2>2, SingleBegins DEF Names, Views
  <1>2. CASE EditDelete(s, p, new)
    <2>1. disk[p] \in Contents /\ Fresh(p) /\ Present(p) /\ Was(p) = disk[p]
      BY <1>2 DEF EditDelete, Fresh, Present, HistoryTypes, Was
    <2>2. Starts(s, "delete", "ask", Single(p, "update", disk[p], new))
      BY <1>2 DEF EditDelete
    <2>3. QED
      BY <2>1, <2>2, SingleBegins DEF Names, Views
  <1>3. CASE EditNew(s, p, new)
    <2>1. Empty \in Contents /\ ~Present(p) /\ Was(p) = Empty
      BY <1>3 DEF EditNew, Contents, Was
    <2>2. Starts(s, "create", "ask", Single(p, "add", Empty, new))
      BY <1>3 DEF EditNew
    <2>3. QED
      BY <2>1, <2>2, SingleBegins DEF Names, Views
  <1>4. CASE Write(s, p, new)
    <2> DEFINE type == IF Present(p) THEN "update" ELSE "add"
               old == IF Present(p) THEN disk[p] ELSE Empty
    <2>1. /\ type \in {"add", "update"} /\ old \in Contents /\ old = Was(p)
          /\ Present(p) <=> type # "add"
      BY DEF Present, Contents, HistoryTypes, Was
    <2>2. Starts(s, "write", "ask", Single(p, type, old, new))
      BY <1>4 DEF Write
    <2>3. Present(p) => Fresh(p)
      BY <1>4 DEF Write
    <2> HIDE DEF type, old
    <2>4. QED
      BY <2>1, <2>2, <2>3, SingleBegins DEF Names, Views
  <1>5. QED
    BY <1>1, <1>2, <1>3, <1>4

LEMMA PatchBegins ==
  ASSUME HistoryTypes, NEW s \in Editors, Patch(s)
  PROVE  ToolBegins(s)
  <1>1. PICK ps \in (SUBSET Paths) \ {{}}, to \in [Paths -> Paths] :
            \E new \in [ps -> Contents \cup {Absent}] :
            /\ \A p \in ps : IF Present(p) THEN Fresh(p) ELSE new[p] # Absent
            /\ \A p \in Paths : to[p] # p => p \in ps /\ Present(p) /\ new[p] # Absent
            /\ Starts(s, "patch", "ask",
                   [p \in ps |-> [type |-> IF ~Present(p) THEN "add"
                                           ELSE IF new[p] = Absent THEN "delete" ELSE "update",
                                  old  |-> IF Present(p) THEN disk[p] ELSE Empty,
                                  new  |-> IF new[p] = Absent THEN Empty ELSE new[p],
                                  to   |-> to[p]]])
    BY Zenon DEF Patch
  <1>2. PICK new \in [ps -> Contents \cup {Absent}] :
            /\ \A p \in ps : IF Present(p) THEN Fresh(p) ELSE new[p] # Absent
            /\ \A p \in Paths : to[p] # p => p \in ps /\ Present(p) /\ new[p] # Absent
            /\ Starts(s, "patch", "ask",
                   [p \in ps |-> [type |-> IF ~Present(p) THEN "add"
                                           ELSE IF new[p] = Absent THEN "delete" ELSE "update",
                                  old  |-> IF Present(p) THEN disk[p] ELSE Empty,
                                  new  |-> IF new[p] = Absent THEN Empty ELSE new[p],
                                  to   |-> to[p]]])
    BY <1>1
  <1> DEFINE change(p) == [type |-> IF ~Present(p) THEN "add"
                                    ELSE IF new[p] = Absent THEN "delete" ELSE "update",
                           old  |-> IF Present(p) THEN disk[p] ELSE Empty,
                           new  |-> IF new[p] = Absent THEN Empty ELSE new[p],
                           to   |-> to[p]]
             plan == [p \in ps |-> change(p)]
  <1>3. \A p \in ps : /\ change(p) \in Change
                      /\ change(p).old = Was(p)
                      /\ Present(p) <=> change(p).type # "add"
    BY DEF Change, Contents, HistoryTypes, Present, Was
  <1>4. Starts(s, "patch", "ask", plan)
    BY <1>2
  <1> HIDE DEF change
  <1>5. plan \in Plans /\ DOMAIN plan = ps
    BY <1>3 DEF Plans
  <1>6. \A p \in ps : Present(p) => Fresh(p)
    BY <1>2
  <1>7. \A p \in ps : plan[p] = change(p)
    OBVIOUS
  <1> HIDE DEF plan
  <1>8. Looked(plan)
    BY <1>3, <1>5, <1>6, <1>7 DEF Looked
  <1>9. QED
    BY <1>4, <1>5, <1>8, StartsBegins DEF Names, Views

LEMMA EditAgainBegins ==
  ASSUME HistoryTypes, NEW s \in Editors, NEW p \in Paths, EditAgain(s, p)
  PROVE  ToolBegins(s) \/ Rests(s)
  <1>1. CASE tool' = [tool EXCEPT ![s] = Idle]
    BY <1>1 DEF EditAgain, Rests, At
  <1>2. CASE /\ Fresh(p)
             /\ \E new \in Contents \ {disk[p]} :
                   tool' = [tool EXCEPT ![s] = Begin("replace", "ask", Single(p, "update", disk[p], new))]
    <2>1. PICK new \in Contents :
              tool' = [tool EXCEPT ![s] = Begin("replace", "ask", Single(p, "update", disk[p], new))]
      BY <1>2
    <2> DEFINE plan == Single(p, "update", disk[p], new)
    <2>2. disk[p] \in Contents /\ Present(p) /\ Was(p) = disk[p]
      BY <1>2 DEF Fresh, Present, HistoryTypes, Was
    <2>3. /\ plan \in Plans /\ DOMAIN plan = {p}
          /\ plan[p] = [type |-> "update", old |-> disk[p], new |-> new, to |-> p]
      BY <2>2, SingleType
    <2>4. UNCHANGED <<disk, record, rows, seen, hit, missed, before, lost>> /\ tool[s].at = "again"
      BY DEF EditAgain, At
    <2>5. tool' = [tool EXCEPT ![s] = Begin("replace", "ask", plan)]
      BY <2>1
    <2> HIDE DEF plan
    <2>6. Looked(plan)
      BY <1>2, <2>2, <2>3 DEF Looked
    <2>7. BeginsWith(s, "replace", "ask", plan)
      BY <2>4, <2>5, <2>6 DEF BeginsWith, Views
    <2>8. QED
      BY <2>3, <2>7 DEF ToolBegins, Names
  <1>3. QED
    BY <1>1, <1>2 DEF EditAgain

\* One tool moves.
LEMMA ToolMoves ==
  ASSUME ToolTypes, NEW s \in Editors, NEW t, ToolFits(t), tool' = [tool EXCEPT ![s] = t]
  PROVE  ToolTypes' /\ tool'[s] = t /\ \A x \in Editors \ {s} : tool'[x] = tool[x]
  <1>1. tool'[s] = t /\ \A x \in Editors \ {s} : tool'[x] = tool[x]
    BY DEF ToolTypes
  <1>2. tool' \in [Editors -> ToolStates]
    BY DEF ToolTypes, ToolFits
  <1>3. ASSUME NEW x \in Editors PROVE ToolFits(tool'[x])
    <2>1. CASE x = s
      BY <2>1, <1>1
    <2>2. CASE x # s
      BY <2>2, <1>1 DEF ToolTypes
    <2>3. QED
      BY <2>1, <2>2
  <1>4. QED
    BY <1>1, <1>2, <1>3 DEF ToolTypes

\* The tool s has done p, and stays in this stage ...
Stays(s, p, at) ==
    /\ tool'[s].at = at /\ tool'[s].left = tool[s].left \ {p}
    /\ tool'[s].plan = tool[s].plan /\ tool'[s].name = tool[s].name

\* ... or goes on to the next one.
GoesOn(s, next) ==
    \/ next = "idle" /\ tool'[s] = Idle
    \/ /\ next # "idle" /\ tool'[s].at = next /\ tool'[s].left = DOMAIN tool[s].plan
       /\ tool'[s].plan = tool[s].plan /\ tool'[s].name = tool[s].name

LEMMA PassesOn ==
  ASSUME ToolTypes, NEW s \in Editors, NEW p \in tool[s].left,
         NEW next \in Stages, Passes(s, p, next), tool[s].name \in Views => next = "idle"
  PROVE  /\ ToolTypes'
         /\ \A t \in Editors \ {s} : tool'[t] = tool[t]
         /\ tool[s].left # {p} => Stays(s, p, tool[s].at)
         /\ tool[s].left = {p} => GoesOn(s, next)
  <1> DEFINE t == tool[s]
             less == [t EXCEPT !.left = t.left \ {p}]
             at   == [t EXCEPT !.at = next]
             all  == [at EXCEPT !.left = DOMAIN t.plan]
  <1>1. ToolFits(t) /\ t \in ToolStates /\ t.left \subseteq DOMAIN t.plan /\ DOMAIN t.plan \subseteq Paths
    BY PlanType DEF ToolTypes, ToolFits, ToolStates
  <1>2. /\ less \in ToolStates /\ less.left = t.left \ {p}
        /\ less.at = t.at /\ less.plan = t.plan /\ less.name = t.name
    BY <1>1 DEF ToolStates
  <1>3. /\ at \in ToolStates /\ at.at = next /\ at.left = t.left
        /\ at.plan = t.plan /\ at.name = t.name
    BY <1>1 DEF ToolStates
  <1>4. /\ all \in ToolStates /\ all.at = next /\ all.left = DOMAIN t.plan
        /\ all.plan = t.plan /\ all.name = t.name
    <2> HIDE DEF at, t
    <2>1. QED
      BY <1>1, <1>3 DEF ToolStates
  <1>5. [t EXCEPT !.at = next, !.left = DOMAIN t.plan] = all
    BY <1>1 DEF ToolStates
  <1> DEFINE after == IF t.left # {p} THEN less ELSE IF next = "idle" THEN Idle ELSE all
  <1>6. tool' = [tool EXCEPT ![s] = after]
    BY <1>5, Zenon DEF Passes
  <1>7. ToolFits(less)
    <2> HIDE DEF less, t
    <2>1. QED
      BY <1>1, <1>2 DEF ToolFits
  <1>8. next # "idle" => ToolFits(all)
    <2>1. t.name \in Views => next = "idle"
      OBVIOUS
    <2> HIDE DEF all, t
    <2>2. QED
      BY <1>1, <1>4, <2>1 DEF ToolFits
  <1>9. ToolFits(after)
    <2> HIDE DEF less, all, t
    <2>1. QED
      BY <1>7, <1>8, IdleFits
  <1>10. ToolTypes' /\ tool'[s] = after /\ \A x \in Editors \ {s} : tool'[x] = tool[x]
    <2> HIDE DEF after
    <2>1. QED
      BY <1>6, <1>9, ToolMoves
  <1> HIDE DEF less, all
  <1>11. tool[s].left # {p} => Stays(s, p, tool[s].at)
    BY <1>2, <1>10 DEF Stays
  <1>12. tool[s].left = {p} => GoesOn(s, next)
    BY <1>4, <1>10 DEF GoesOn
  <1>13. QED
    BY <1>10, <1>11, <1>12

-----------------------------------------------------------------------------
(* What the steps have in common. *)

\* A tool that is at rest, or waits for the user, has changed nothing.
LEMMA NoneUnrecorded ==
  ASSUME NEW t \in Editors, tool[t].at \in {"idle", "ask", "again"}
  PROVE  \A q : q \notin Unrecorded(t)
  BY DEF Unrecorded, At

\* What a tool at work has changed and not recorded.
LEMMA WhatIsUnrecorded ==
  ASSUME NEW t \in Editors, tool[t].at \in {"change", "record", "cut"}
  PROVE  \A q : q \in Unrecorded(t) <=>
                    /\ tool[t].name \notin Views
                    /\ IF tool[t].at = "change" THEN q \in DOMAIN tool[t].plan /\ q \notin tool[t].left
                       ELSE q \in tool[t].left
  BY DEF Unrecorded, At

\* A tool that does not move has the same files unrecorded.
LEMMA SameTool ==
  ASSUME NEW t \in Editors, tool'[t] = tool[t], NEW p
  PROVE  /\ (p \in Unrecorded(t))' <=> p \in Unrecorded(t)
         /\ (t \in Watching(p))' <=> t \in Watching(p)
         /\ tool'[t].plan = tool[t].plan /\ tool'[t].name = tool[t].name
  BY DEF Unrecorded, Watching, At

\* What a tool knows of a file stays true, or the tool is hit.
LEMMA WatchKeeps ==
  ASSUME WatchedIsThere, NEW ps \in SUBSET Paths, NEW t \in Editors, NEW q \in Paths,
         tool'[t] = tool[t], \A r \in Paths \ ps : disk'[r] = disk[r],
         <<t, q>> \in hit \cup Hits(ps) => <<t, q>> \in hit'
  PROVE  WatchOK(t, q)'
  <1> SUFFICES ASSUME (t \in Watching(q))', <<t, q>> \notin hit'
               PROVE  There(t, q)'
    BY DEF WatchOK
  <1>1. t \in Watching(q)
    BY SameTool
  <1>2. There(t, q)
    BY <1>1 DEF WatchedIsThere, WatchOK
  <1>3. q \notin ps
    BY <1>1 DEF Hits
  <1>4. disk'[q] = disk[q]
    BY <1>3
  <1>5. QED
    BY <1>2, <1>4 DEF There, AsPlanned, Was, Present, Left, Plan, At

\* The history of a pair stays as it is ...
LEMMA FramePair ==
  ASSUME NEW t, NEW q, PairOK(t, q),
         Mine(rows', t, q) = Mine(rows, t, q), before'[<<t, q>>] = before[<<t, q>>],
         <<t, q>> \in lost => <<t, q>> \in lost',
         (q \in Unrecorded(t))' => q \in Unrecorded(t),
         q \in Unrecorded(t) => (q \in Unrecorded(t))',
         q \in Unrecorded(t) => tool'[t].plan = tool[t].plan /\ tool'[t].name = tool[t].name
  PROVE  PairOK(t, q)'
  BY DEF PairOK, HasFirst, PatchAdds, Plan

\* ... or its tool is done: what it has not stored is lost.
LEMMA EndPair ==
  ASSUME NEW t, NEW q, PairOK(t, q),
         Mine(rows', t, q) = Mine(rows, t, q), before'[<<t, q>>] = before[<<t, q>>],
         <<t, q>> \in lost => <<t, q>> \in lost',
         ~(q \in Unrecorded(t))',
         q \in Unrecorded(t) /\ Mine(rows, t, q) = {} => <<t, q>> \in lost'
  PROVE  PairOK(t, q)'
  BY DEF PairOK, HasFirst

\* A tool that does not move, in a step that stores nothing of its own.
LEMMA RestingPair ==
  ASSUME PairsOK, NEW t \in Editors, NEW q \in Paths, tool'[t] = tool[t],
         Mine(rows', t, q) = Mine(rows, t, q), before'[<<t, q>>] = before[<<t, q>>],
         <<t, q>> \in lost => <<t, q>> \in lost'
  PROVE  PairOK(t, q)'
  <1>1. PairOK(t, q)
    BY DEF PairsOK
  <1>2. QED
    BY <1>1, SameTool, FramePair

\* A tool ends. What it has changed and not stored is lost.
LEMMA EndsKeeps ==
  ASSUME ToolTypes, PairsOK, NEW s \in Editors, tool' = [tool EXCEPT ![s] = Idle],
         UNCHANGED <<rows, before>>, lost \cup Loses(s) \subseteq lost'
  PROVE  /\ ToolTypes' /\ PairsOK'
         /\ \A t \in Editors \ {s} : tool'[t] = tool[t]
         /\ \A q : ~(s \in Watching(q))'
  <1>1. ToolTypes' /\ tool'[s] = Idle /\ \A t \in Editors \ {s} : tool'[t] = tool[t]
    BY IdleFits, ToolMoves
  <1>2. \A q : ~(q \in Unrecorded(s))' /\ ~(s \in Watching(q))'
    BY <1>1, IdleFits DEF Unrecorded, Watching, At
  <1>3. ASSUME NEW t \in Editors, NEW q \in Paths PROVE PairOK(t, q)'
    <2>1. /\ Mine(rows', t, q) = Mine(rows, t, q) /\ before'[<<t, q>>] = before[<<t, q>>]
          /\ <<t, q>> \in lost => <<t, q>> \in lost'
      OBVIOUS
    <2>2. CASE t = s
      <3>1. q \in Unrecorded(s) /\ Mine(rows, s, q) = {} => <<s, q>> \in lost'
        BY DEF Loses
      <3>2. PairOK(s, q)
        BY DEF PairsOK
      <3>3. QED
        BY <1>2, <2>1, <2>2, <3>1, <3>2, EndPair
    <2>3. CASE t # s
      BY <1>1, <2>1, <2>3, RestingPair
    <2>4. QED
      BY <2>2, <2>3
  <1>4. PairsOK'
    BY <1>3 DEF PairsOK
  <1>5. QED
    BY <1>1, <1>2, <1>4

\* A tool that has changed nothing loses nothing.
LEMMA LosesNothing ==
  ASSUME NEW s \in Editors, tool[s].at \in {"idle", "ask", "again"}
  PROVE  Loses(s) = {}
  BY NoneUnrecorded DEF Loses

\* The record of a file that changes is stale.
LEMMA StaleKeeps ==
  ASSUME HistoryTypes, FreshIsSeen, NEW ps \in SUBSET Paths,
         record' = Stale(ps), seen' = seen, missed' = missed,
         \A q \in Paths \ ps : disk'[q] = disk[q]
  PROVE  FreshIsSeen' /\ record' \in [Paths -> {"never", "fresh", "stale"}]
  BY DEF HistoryTypes, FreshIsSeen, Stale

\* The records stay as they are, if the files do.
LEMMA QuietKeeps ==
  ASSUME HistoryTypes, FreshIsSeen, UNCHANGED <<disk, record, seen, missed, before>>
  PROVE  HistoryTypes' /\ FreshIsSeen'
  BY DEF HistoryTypes, FreshIsSeen

-----------------------------------------------------------------------------
(* The steps. *)

LEMMA InitInv == ASSUME FilesInit PROVE FilesInv
  <1>1. \A s \in Editors : tool[s] = Idle
    BY DEF FilesInit
  <1>2. ToolTypes
    BY <1>1, IdleFits DEF FilesInit, ToolTypes, ToolFits
  <1>3. HistoryTypes
    BY DEF FilesInit, HistoryTypes
  <1>4. FreshIsSeen
    BY DEF FilesInit, FreshIsSeen
  <1>5. WatchedIsThere
    BY <1>1, IdleFits DEF WatchedIsThere, WatchOK, Watching, At
  <1>6. ASSUME NEW s \in Editors, NEW p \in Paths PROVE PairOK(s, p)
    <2>1. p \notin Unrecorded(s)
      BY <1>1, IdleFits, NoneUnrecorded
    <2>2. before[<<s, p>>] = Absent /\ Mine(rows, s, p) = {}
      BY DEF FilesInit, Mine, Of
    <2>3. QED
      BY <2>1, <2>2 DEF PairOK
  <1>7. QED
    BY <1>2, <1>3, <1>4, <1>5, <1>6 DEF FilesInv, PairsOK

LEMMA BeginsKeeps ==
  ASSUME FilesInv, NEW s \in Editors, ToolBegins(s)
  PROVE  FilesInv'
  <1> USE DEF FilesInv
  <1>1. PICK name \in Names, at \in {"ask", "record"}, plan \in Plans :
            BeginsWith(s, name, at, plan)
    BY DEF ToolBegins
  <1> DEFINE t == Begin(name, at, plan)
  <1>2. at \in Stages
    BY DEF Stages
  <1>3. /\ t \in ToolStates /\ t.name = name /\ t.at = at /\ t.plan = plan /\ t.left = DOMAIN plan
    BY <1>2, BeginType
  <1>4. tool' = [tool EXCEPT ![s] = t]
    BY <1>1 DEF BeginsWith
  <1> HIDE DEF t
  <1>5. ToolFits(t)
    BY <1>1, <1>3 DEF ToolFits, BeginsWith
  <1>6. ToolTypes' /\ tool'[s] = t /\ \A x \in Editors \ {s} : tool'[x] = tool[x]
    BY <1>4, <1>5, ToolMoves
  <1>7. UNCHANGED <<disk, record, rows, seen, hit, missed, before, lost>>
    BY <1>1 DEF BeginsWith
  <1>8. HistoryTypes' /\ FreshIsSeen'
    BY <1>7, QuietKeeps
  <1>9. ASSUME NEW q \in Paths, q \in DOMAIN plan PROVE There(s, q)'
    <2>1. CASE at = "ask"
      <3>1. Was(q) = plan[q].old /\ (Present(q) <=> plan[q].type # "add")
        BY <1>1, <1>9, <2>1 DEF BeginsWith, Looked
      <3>2. QED
        <4>1. At(s, "ask")' /\ Plan(s, q)' = plan[q]
          BY <2>1, <1>3, <1>6 DEF At, Plan
        <4>2. Was(q)' = Was(q) /\ (Present(q)' <=> Present(q))
          BY <1>7 DEF Was, Present
        <4>3. AsPlanned(s, q)'
          BY <3>1, <4>1, <4>2 DEF AsPlanned
        <4>4. QED
          BY <4>1, <4>3 DEF There
    <2>2. CASE at = "record"
      <3>1. plan[q].type = "update" /\ plan[q].to = q /\ plan[q].new = disk[q]
        BY <1>1, <1>9, <2>2 DEF BeginsWith, Shown
      <3>2. QED
        BY <2>2, <3>1, <1>3, <1>6, <1>7 DEF There, Left, Plan, At
    <2>3. QED
      BY <2>1, <2>2
  <1>10. \A q : ~(q \in Unrecorded(s))'
    BY <1>1, <1>3, <1>6 DEF Unrecorded, At, BeginsWith
  <1>11. WatchedIsThere'
    <2> SUFFICES ASSUME NEW x \in Editors, NEW q \in Paths PROVE WatchOK(x, q)'
      BY DEF WatchedIsThere
    <2>1. CASE x = s
      <3>1. (s \in Watching(q))' => q \in DOMAIN plan
        BY <1>3, <1>6 DEF Watching
      <3>2. QED
        BY <2>1, <3>1, <1>9 DEF WatchOK
    <2>2. CASE x # s
      <3>1. Hits({}) = {}
        BY DEF Hits
      <3>2. QED
        BY <2>2, <3>1, <1>6, <1>7, WatchKeeps
    <2>3. QED
      BY <2>1, <2>2
  <1>12. PairsOK'
    <2> SUFFICES ASSUME NEW x \in Editors, NEW q \in Paths PROVE PairOK(x, q)'
      BY DEF PairsOK
    <2>1. /\ Mine(rows', x, q) = Mine(rows, x, q) /\ before'[<<x, q>>] = before[<<x, q>>]
          /\ <<x, q>> \in lost => <<x, q>> \in lost'
      BY <1>7
    <2>2. CASE x = s
      <3>1. q \notin Unrecorded(s)
        BY <1>1, NoneUnrecorded DEF BeginsWith
      <3>2. PairOK(s, q)
        BY DEF PairsOK
      <3>3. QED
        BY <1>10, <2>1, <2>2, <3>1, <3>2, EndPair
    <2>3. CASE x # s
      BY <1>6, <2>1, <2>3, RestingPair
    <2>4. QED
      BY <2>2, <2>3
  <1>13. QED
    BY <1>6, <1>8, <1>11, <1>12

LEMMA RestsKeeps ==
  ASSUME FilesInv, NEW s \in Editors, Rests(s)
  PROVE  FilesInv'
  <1> USE DEF FilesInv
  <1>1. tool' = [tool EXCEPT ![s] = Idle] /\ UNCHANGED <<rows, before>>
    BY DEF Rests
  <1>2. lost \cup Loses(s) \subseteq lost'
    BY LosesNothing DEF Rests
  <1>3. /\ ToolTypes' /\ PairsOK'
        /\ \A t \in Editors \ {s} : tool'[t] = tool[t]
        /\ \A q : ~(s \in Watching(q))'
    BY <1>1, <1>2, EndsKeeps
  <1>4. HistoryTypes' /\ FreshIsSeen'
    BY QuietKeeps DEF Rests
  <1>5. WatchedIsThere'
    <2> SUFFICES ASSUME NEW x \in Editors, NEW q \in Paths PROVE WatchOK(x, q)'
      BY DEF WatchedIsThere
    <2>1. CASE x = s
      BY <2>1, <1>3 DEF WatchOK
    <2>2. CASE x # s
      <3>1. Hits({}) = {}
        BY DEF Hits
      <3>2. <<x, q>> \in hit => <<x, q>> \in hit'
        BY <2>2 DEF Rests
      <3>3. tool'[x] = tool[x] /\ disk' = disk
        BY <1>3, <2>2 DEF Rests
      <3>4. QED
        BY <3>1, <3>2, <3>3, WatchKeeps
    <2>3. QED
      BY <2>1, <2>2
  <1>6. QED
    BY <1>3, <1>4, <1>5

LEMMA GrantsKeeps ==
  ASSUME FilesInv, NEW s \in Editors, NEW p \in Paths, Grants(s, p)
  PROVE  FilesInv'
  <1> USE DEF FilesInv
  <1>1. p \in tool[s].left /\ tool[s].at = "ask" /\ Passes(s, p, "change")
    BY DEF Grants, At
  <1>2. UNCHANGED <<disk, record, rows, seen, hit, missed, before, lost>>
    BY DEF Grants
  <1>3. /\ ToolTypes' /\ \A t \in Editors \ {s} : tool'[t] = tool[t]
        /\ tool[s].left # {p} => Stays(s, p, "ask")
        /\ tool[s].left = {p} => GoesOn(s, "change")
    <2>1. "change" \in Stages /\ (tool[s].name \in Views => "change" = "idle")
      BY <1>1 DEF Stages, ToolTypes, ToolFits
    <2>2. QED
      BY <1>1, <2>1, PassesOn
  <1>4. /\ tool'[s].plan = tool[s].plan
        /\ \/ tool'[s].at = "ask"
           \/ tool'[s].at = "change" /\ tool'[s].left = DOMAIN tool'[s].plan
    BY <1>3 DEF Stays, GoesOn
  <1>5. HistoryTypes' /\ FreshIsSeen'
    BY <1>2, QuietKeeps
  <1>6. \A q : q \notin Unrecorded(s) /\ ~(q \in Unrecorded(s))'
    BY <1>1, <1>4 DEF Unrecorded, At
  <1>7. WatchedIsThere'
    <2> SUFFICES ASSUME NEW x \in Editors, NEW q \in Paths PROVE WatchOK(x, q)'
      BY DEF WatchedIsThere
    <2>1. CASE x = s
      <3>1. SUFFICES ASSUME (s \in Watching(q))', <<s, q>> \notin hit PROVE There(s, q)'
        BY <1>2, <2>1 DEF WatchOK
      <3>2. q \in DOMAIN tool[s].plan
        BY <1>4, <3>1 DEF Watching
      <3>3. s \in Watching(q) /\ At(s, "ask")
        BY <1>1, <3>2 DEF Watching, At
      <3>4. AsPlanned(s, q)
        BY <3>1, <3>3 DEF WatchedIsThere, WatchOK, There
      <3>5. Plan(s, q)' = Plan(s, q) /\ Was(q)' = Was(q) /\ (Present(q)' <=> Present(q))
        BY <1>2, <1>4 DEF Plan, Was, Present
      <3>6. AsPlanned(s, q)'
        BY <3>4, <3>5 DEF AsPlanned
      <3>7. At(s, "ask")' \/ (At(s, "change")' /\ q \in tool'[s].left)
        BY <1>4, <3>2 DEF At
      <3>8. QED
        BY <3>6, <3>7 DEF There
    <2>2. CASE x # s
      <3>1. Hits({}) = {}
        BY DEF Hits
      <3>2. QED
        BY <2>2, <3>1, <1>2, <1>3, WatchKeeps
    <2>3. QED
      BY <2>1, <2>2
  <1>8. PairsOK'
    <2> SUFFICES ASSUME NEW x \in Editors, NEW q \in Paths PROVE PairOK(x, q)'
      BY DEF PairsOK
    <2>1. /\ Mine(rows', x, q) = Mine(rows, x, q) /\ before'[<<x, q>>] = before[<<x, q>>]
          /\ <<x, q>> \in lost => <<x, q>> \in lost'
      BY <1>2
    <2>2. CASE x = s
      <3>1. PairOK(s, q)
        BY DEF PairsOK
      <3>2. QED
        BY <1>6, <2>1, <2>2, <3>1, EndPair
    <2>3. CASE x # s
      BY <1>3, <2>1, <2>3, RestingPair
    <2>4. QED
      BY <2>2, <2>3
  <1>9. QED
    BY <1>3, <1>5, <1>7, <1>8

\* A tool that changes the file p, until it goes on to the record.
LEMMA ChangesMoves ==
  ASSUME ToolTypes, NEW s \in Editors, NEW p \in tool[s].left,
         tool[s].at = "change", Passes(s, p, "record")
  PROVE  /\ ToolTypes' /\ \A t \in Editors \ {s} : tool'[t] = tool[t]
         /\ tool'[s].plan = tool[s].plan /\ tool'[s].name = tool[s].name
         /\ tool[s].name \notin Views
         /\ (p \in Unrecorded(s))' /\ p \notin Unrecorded(s)
         /\ \A q : q # p => ((q \in Unrecorded(s))' <=> q \in Unrecorded(s))
         /\ \A q : (s \in Watching(q))' => s \in Watching(q)
         /\ tool'[s].at = "change" => tool'[s].left = tool[s].left \ {p}
         /\ tool'[s].at = "change" \/ (tool'[s].at = "record" /\ tool[s].left = {p})
  <1>1. tool[s].name \notin Views /\ tool[s].left \subseteq DOMAIN tool[s].plan
    BY DEF ToolTypes, ToolFits
  <1>2. /\ ToolTypes' /\ \A t \in Editors \ {s} : tool'[t] = tool[t]
        /\ tool[s].left # {p} => Stays(s, p, "change")
        /\ tool[s].left = {p} => GoesOn(s, "record")
    <2>1. "record" \in Stages
      BY DEF Stages
    <2>2. QED
      BY <1>1, <2>1, PassesOn
  <1>3. /\ tool'[s].plan = tool[s].plan /\ tool'[s].name = tool[s].name
        /\ \/ tool'[s].at = "change" /\ tool'[s].left = tool[s].left \ {p}
           \/ tool'[s].at = "record" /\ tool'[s].left = DOMAIN tool[s].plan /\ tool[s].left = {p}
    BY <1>2 DEF Stays, GoesOn
  <1>4. \A q : q \in Unrecorded(s) <=> q \in DOMAIN tool[s].plan /\ q \notin tool[s].left
    BY <1>1, WhatIsUnrecorded
  <1>5. \A q : (q \in Unrecorded(s))' <=> q \in DOMAIN tool[s].plan /\ (q \notin tool[s].left \/ q = p)
    <2>1. CASE tool'[s].at = "change" /\ tool'[s].left = tool[s].left \ {p}
      BY <1>1, <1>3, <2>1 DEF Unrecorded, At
    <2>2. CASE tool'[s].at = "record" /\ tool'[s].left = DOMAIN tool[s].plan /\ tool[s].left = {p}
      BY <1>1, <1>3, <2>2 DEF Unrecorded, At
    <2>3. QED
      BY <1>3, <2>1, <2>2
  <1>6. \A q : (s \in Watching(q))' => s \in Watching(q)
    BY <1>3 DEF Watching, At
  <1>7. p \in DOMAIN tool[s].plan
    BY <1>1
  <1>8. QED
    BY <1>1, <1>2, <1>3, <1>4, <1>5, <1>6, <1>7

LEMMA ChangesKeeps ==
  ASSUME FilesInv, NEW s \in Editors, NEW p \in Paths, Changes(s, p)
  PROVE  FilesInv'
  <1> USE DEF FilesInv
  <1> DEFINE ch == Plan(s, p)
             ps == {p, ch.to}
  <1>1. p \in tool[s].left /\ tool[s].at = "change" /\ Passes(s, p, "record")
    BY DEF Changes, At
  <1>2. /\ ToolTypes' /\ \A t \in Editors \ {s} : tool'[t] = tool[t]
        /\ tool'[s].plan = tool[s].plan /\ tool'[s].name = tool[s].name
        /\ tool[s].name \notin Views
        /\ (p \in Unrecorded(s))' /\ p \notin Unrecorded(s)
        /\ \A q : q # p => ((q \in Unrecorded(s))' <=> q \in Unrecorded(s))
        /\ \A q : (s \in Watching(q))' => s \in Watching(q)
        /\ tool'[s].at = "change" => tool'[s].left = tool[s].left \ {p}
        /\ tool'[s].at = "change" \/ (tool'[s].at = "record" /\ tool[s].left = {p})
    BY <1>1, ChangesMoves
  <1>3. ch \in Change /\ p \in DOMAIN tool[s].plan
    BY <1>1, PlanType DEF ToolTypes, ToolFits, ToolStates, Plan
  <1>4. ch.to \in Paths /\ ch.new \in Contents /\ ch.old \in Contents /\ ps \in SUBSET Paths
    BY <1>3 DEF Change
  <1>5. disk' = [q \in Paths |-> CASE ch.type # "delete" /\ q = ch.to -> ch.new
                                  [] ch.type = "delete" /\ q = p    -> Absent
                                  [] ch.to # p /\ q = p             -> Absent
                                  [] OTHER                          -> disk[q]]
    BY DEF Changes
  <1>6. /\ record' = Stale(ps) /\ hit' = (hit \cup Hits(ps)) \ {<<s, p>>}
        /\ UNCHANGED <<rows, seen, missed>>
    BY DEF Changes
  <1>7. Left(s, p)' = disk'[p]
    BY <1>2, <1>5 DEF Left, Plan
  <1>8. \A q \in Paths \ ps : disk'[q] = disk[q]
    BY <1>5
  <1>9. disk' \in [Paths -> {Absent} \cup Contents]
    BY <1>4, <1>5 DEF HistoryTypes
  <1>10. before' = IF before[<<s, p>>] # Absent THEN before
                   ELSE [before EXCEPT ![<<s, p>>] =
                             IF PatchAdds(s, p) THEN Patched ELSE Was(p)]
    BY DEF Changes, PatchAdds
  <1>11. lost' = IF before[<<s, p>>] = Absent /\ <<s, p>> \in hit
                 THEN lost \cup {<<s, p>>} ELSE lost
    BY DEF Changes
  <1> HIDE DEF ch
  <1>12. FreshIsSeen' /\ record' \in [Paths -> {"never", "fresh", "stale"}]
    BY <1>4, <1>6, <1>8, StaleKeeps
  <1>13. Was(p) \in Contents /\ Absent \notin Contents /\ Patched # Absent
    BY FilesAssumption DEF Was, Present, HistoryTypes, Contents, Patched
  <1>14. HistoryTypes'
    <2>1. before' \in [Editors \X Paths -> {Absent, Patched} \cup Contents]
      BY <1>10, <1>13 DEF HistoryTypes
    <2>2. QED
      BY <1>6, <1>9, <1>12, <2>1 DEF HistoryTypes
  <1>15. WatchedIsThere'
    <2> SUFFICES ASSUME NEW x \in Editors, NEW q \in Paths PROVE WatchOK(x, q)'
      BY DEF WatchedIsThere
    <2>1. CASE x = s /\ q = p
      <3>1. ~(At(s, "ask"))' /\ ~(At(s, "change") /\ p \in tool[s].left)'
        BY <1>2 DEF At
      <3>2. There(s, p)'
        BY <1>7, <3>1 DEF There
      <3>3. QED
        BY <2>1, <3>2 DEF WatchOK
    <2>2. CASE x = s /\ q # p
      <3>1. SUFFICES ASSUME (s \in Watching(q))', <<s, q>> \notin hit' PROVE There(s, q)'
        BY <2>2 DEF WatchOK
      <3>2. s \in Watching(q)
        BY <1>2, <3>1
      <3>3. <<s, q>> \notin hit /\ q \notin ps
        BY <1>6, <2>2, <3>1, <3>2 DEF Hits
      <3>4. There(s, q) /\ disk'[q] = disk[q]
        BY <1>8, <3>2, <3>3 DEF WatchedIsThere, WatchOK
      <3>5. /\ Plan(s, q)' = Plan(s, q) /\ Was(q)' = Was(q) /\ (Present(q)' <=> Present(q))
            /\ Left(s, q)' = Left(s, q)
        BY <1>2, <3>4 DEF Plan, Was, Present, Left
      <3>6. AsPlanned(s, q)' <=> AsPlanned(s, q)
        BY <3>5 DEF AsPlanned
      <3>7. ~At(s, "ask") /\ ~(At(s, "ask"))' /\ At(s, "change")
        BY <1>1, <1>2 DEF At
      <3>8. CASE q \in tool[s].left
        <4>1. (At(s, "change") /\ q \in tool[s].left)'
          BY <1>2, <2>2, <3>8 DEF At
        <4>2. QED
          BY <3>4, <3>6, <3>7, <3>8, <4>1 DEF There
      <3>9. CASE q \notin tool[s].left
        <4>1. ~(At(s, "change") /\ q \in tool[s].left)'
          BY <1>2, <2>2, <3>9 DEF At
        <4>2. QED
          BY <3>4, <3>5, <3>7, <3>9, <4>1 DEF There
      <3>10. QED
        BY <3>8, <3>9
    <2>3. CASE x # s
      <3>1. <<x, q>> \in hit \cup Hits(ps) => <<x, q>> \in hit'
        BY <1>6, <2>3
      <3>2. QED
        BY <1>2, <1>4, <1>8, <2>3, <3>1, WatchKeeps
    <2>4. QED
      BY <2>1, <2>2, <2>3
  <1>16. PairOK(s, p)'
    <2>1. PairOK(s, p)
      BY DEF PairsOK
    <2>2. Mine(rows', s, p) = Mine(rows, s, p)
      BY <1>6
    <2>3. (Plan(s, p) = ch)' /\ Plan(s, p)' = ch /\ (PatchAdds(s, p)' <=> PatchAdds(s, p))
      BY <1>2 DEF ch, PatchAdds, Plan
    <2>4. CASE before[<<s, p>>] # Absent
      <3>1. before' = before /\ lost' = lost
        BY <1>10, <1>11, <2>4
      <3>2. <<s, p>> \notin lost /\ before[<<s, p>>] # Patched =>
                HasFirst(rows, s, p, before[<<s, p>>]) /\ Mine(rows, s, p) # {}
        BY <1>2, <2>1, <2>4 DEF PairOK, HasFirst
      <3>3. QED
        BY <1>2, <1>6, <2>1, <2>2, <2>4, <3>1, <3>2 DEF PairOK, HasFirst
    <2>5. CASE before[<<s, p>>] = Absent
      <3>1. Mine(rows, s, p) = {}
        BY <2>1, <2>5 DEF PairOK
      <3>2. before'[<<s, p>>] = IF PatchAdds(s, p) THEN Patched ELSE Was(p)
        BY <1>10, <2>5 DEF HistoryTypes
      <3>3. <<s, p>> \notin lost' => <<s, p>> \notin hit
        BY <1>11, <2>5
      <3>4. s \in Watching(p) /\ ~At(s, "ask") /\ At(s, "change")
        BY <1>1, <1>3 DEF Watching, At
      <3>5. <<s, p>> \notin hit => Was(p) = ch.old
        BY <1>1, <3>4 DEF WatchedIsThere, WatchOK, There, AsPlanned, ch
      <3>6. before'[<<s, p>>] # Absent
        BY <1>13, <3>2
      <3>7. /\ before'[<<s, p>>] # Patched /\ <<s, p>> \notin lost' =>
                before'[<<s, p>>] = ch.old /\ ~PatchAdds(s, p)
        BY <3>2, <3>3, <3>5
      <3>8. QED
        BY <1>2, <2>2, <2>3, <3>1, <3>6, <3>7 DEF PairOK
    <2>6. QED
      BY <2>4, <2>5
  <1>17. PairsOK'
    <2> SUFFICES ASSUME NEW x \in Editors, NEW q \in Paths PROVE PairOK(x, q)'
      BY DEF PairsOK
    <2>1. CASE <<x, q>> = <<s, p>>
      BY <1>16, <2>1
    <2>2. CASE <<x, q>> # <<s, p>>
      <3>1. /\ Mine(rows', x, q) = Mine(rows, x, q) /\ before'[<<x, q>>] = before[<<x, q>>]
            /\ <<x, q>> \in lost => <<x, q>> \in lost'
        BY <1>6, <1>10, <1>11, <2>2 DEF HistoryTypes
      <3>2. CASE x = s
        <4>1. PairOK(s, q) /\ q # p
          BY <2>2, <3>2 DEF PairsOK
        <4>2. QED
          BY <1>2, <3>1, <3>2, <4>1, FramePair
      <3>3. CASE x # s
        BY <1>2, <3>1, <3>3, RestingPair
      <3>4. QED
        BY <3>2, <3>3
    <2>3. QED
      BY <2>1, <2>2
  <1>18. QED
    BY <1>2, <1>12, <1>14, <1>15, <1>17

\* The others, when a tool ends.
LEMMA OthersWatch ==
  ASSUME WatchedIsThere, NEW s \in Editors, NEW ps \in SUBSET Paths,
         \A q : ~(s \in Watching(q))', \A t \in Editors \ {s} : tool'[t] = tool[t],
         \A q \in Paths \ ps : disk'[q] = disk[q],
         hit' = {h \in hit \cup Hits(ps) : h[1] # s}
  PROVE  WatchedIsThere'
  <1> SUFFICES ASSUME NEW x \in Editors, NEW q \in Paths PROVE WatchOK(x, q)'
    BY DEF WatchedIsThere
  <1>1. CASE x = s
    BY <1>1 DEF WatchOK
  <1>2. CASE x # s
    <2>1. <<x, q>> \in hit \cup Hits(ps) => <<x, q>> \in hit'
      BY <1>2
    <2>2. tool'[x] = tool[x]
      BY <1>2
    <2>3. QED
      BY <2>1, <2>2, WatchKeeps
  <1>3. QED
    BY <1>1, <1>2

LEMMA NobodyHit == Hits({}) = {}
  BY DEF Hits

\* The tool s forgets what it was hit by.
LEMMA Forgotten ==
  ASSUME NEW s \in Editors, ForgetsHits(s)
  PROVE  hit' = {h \in hit \cup Hits({}) : h[1] # s}
  <1>1. hit \cup Hits({}) = hit
    BY NobodyHit
  <1>2. QED
    BY <1>1, Zenon DEF ForgetsHits

LEMMA ChangeFailsKeeps ==
  ASSUME FilesInv, NEW s \in Editors, NEW p \in Paths, ChangeFails(s, p)
  PROVE  FilesInv'
  <1> USE DEF FilesInv
  <1> DEFINE to == Plan(s, p).to
             new == Plan(s, p).new
  <1>1. /\ tool' = [tool EXCEPT ![s] = Idle] /\ UNCHANGED <<rows, before>>
        /\ lost' = lost \cup Loses(s)
    BY DEF ChangeFails
  <1>2. /\ ToolTypes' /\ PairsOK' /\ \A t \in Editors \ {s} : tool'[t] = tool[t]
        /\ \A q : ~(s \in Watching(q))'
    BY <1>1, EndsKeeps
  <1>3. PICK ps \in SUBSET Paths :
            /\ record' = Stale(ps)
            /\ disk' \in [Paths -> {Absent} \cup Contents]
            /\ \A q \in Paths \ ps : disk'[q] = disk[q]
            /\ hit' = {h \in hit \cup Hits(ps) : h[1] # s}
    <2>1. CASE UNCHANGED <<disk, record>> /\ ForgetsHits(s)
      <3>1. Stale({}) = record
        BY DEF Stale, HistoryTypes
      <3>2. hit' = {h \in hit \cup Hits({}) : h[1] # s}
        BY <2>1, Forgotten
      <3>3. QED
        BY <2>1, <3>1, <3>2 DEF HistoryTypes
    <2>2. CASE /\ disk' = [disk EXCEPT ![to] = new]
               /\ record' = Stale({to})
               /\ hit' = {h \in hit \cup Hits({to}) : h[1] # s}
      <3>1. to \in Paths /\ new \in Contents
        BY PlanType DEF ToolTypes, ToolFits, ToolStates, Plan, Change, ChangeFails
      <3> HIDE DEF to, new
      <3>2. /\ disk' \in [Paths -> {Absent} \cup Contents]
            /\ \A q \in Paths \ {to} : disk'[q] = disk[q]
        BY <2>2, <3>1 DEF HistoryTypes
      <3>3. QED
        BY <2>2, <3>1, <3>2
    <2>3. \/ UNCHANGED <<disk, record>> /\ ForgetsHits(s)
          \/ /\ disk' = [disk EXCEPT ![to] = new]
             /\ record' = Stale({to})
             /\ hit' = {h \in hit \cup Hits({to}) : h[1] # s}
      BY Zenon DEF ChangeFails
    <2>4. QED
      BY <2>1, <2>2, <2>3, Zenon
  <1>4. seen' = seen /\ missed' = missed
    BY DEF ChangeFails
  <1>5. FreshIsSeen' /\ record' \in [Paths -> {"never", "fresh", "stale"}]
    BY <1>3, <1>4, StaleKeeps
  <1>6. HistoryTypes'
    BY <1>1, <1>3, <1>4, <1>5 DEF HistoryTypes
  <1>7. WatchedIsThere'
    BY <1>2, <1>3, OthersWatch
  <1>8. QED
    BY <1>2, <1>5, <1>6, <1>7

LEMMA RecordFailsKeeps ==
  ASSUME FilesInv, NEW s \in Editors, RecordFails(s)
  PROVE  FilesInv'
  <1> USE DEF FilesInv
  <1>1. /\ tool' = [tool EXCEPT ![s] = Idle] /\ UNCHANGED <<rows, before>>
        /\ lost' = lost \cup Loses(s)
    BY DEF RecordFails
  <1>2. /\ ToolTypes' /\ PairsOK' /\ \A t \in Editors \ {s} : tool'[t] = tool[t]
        /\ \A q : ~(s \in Watching(q))'
    BY <1>1, EndsKeeps
  <1>3. UNCHANGED <<disk, record, seen, missed>> /\ ForgetsHits(s)
    BY DEF RecordFails
  <1>4. HistoryTypes' /\ FreshIsSeen'
    BY <1>1, <1>3, QuietKeeps
  <1>5. WatchedIsThere'
    BY <1>2, <1>3, Forgotten, OthersWatch
  <1>6. QED
    BY <1>2, <1>4, <1>5

\* What the history of a change stores, if all of it is, ...
LEMMA HistoryGrows ==
  ASSUME ToolTypes, NEW s \in Editors, NEW p \in tool[s].left, NEW ts \in History(s, p)
  PROVE  /\ Grows(rows, ts, s, p)
         /\ tool[s].name \in Views => ts = rows
         /\ tool[s].name \notin Views /\ ~PatchAdds(s, p) /\ Mine(rows, s, p) = {} =>
                HasFirst(ts, s, p, Plan(s, p).old)
  <1> DEFINE ch == Plan(s, p)
  <1>1. CASE tool[s].name \in Views
    <2>1. ts = rows
      BY <1>1 DEF History, Views
    <2>2. QED
      BY <1>1, <2>1 DEF Grows
  <1>2. CASE tool[s].name = "create"
    <2>1. ts \in NewVersions(rows, s, p, ch.new)
      BY <1>2 DEF History, Views
    <2>2. ch.old = Empty
      BY <1>2 DEF ToolTypes, ToolFits, Plan
    <2>3. QED
      BY <1>2, <2>1, <2>2, NewVersionsFound DEF Founds, Views
  <1>3. CASE tool[s].name = "delete"
    <2>1. ts \in Versions(rows, s, p, ch.old, Empty)
      BY <1>3 DEF History, Views
    <2>2. QED
      BY <1>3, <2>1, VersionsFound DEF Founds, Views
  <1>4. CASE PatchAdds(s, p)
    <2>1. ts \in CreateVersion(rows, s, p, ch.new)
      BY <1>4 DEF History, PatchAdds, Views
    <2>2. QED
      BY <1>4, <2>1, CreateVersionGrows DEF PatchAdds, Views
  <1>5. CASE tool[s].name \notin Views \cup {"create", "delete"} /\ ~PatchAdds(s, p)
    <2>1. ts \in Versions(rows, s, p, ch.old, ch.new)
      BY <1>5 DEF History, PatchAdds
    <2>2. QED
      BY <1>5, <2>1, VersionsFound DEF Founds
  <1>6. QED
    BY <1>1, <1>2, <1>3, <1>4, <1>5

\* ... and if the request is cancelled on the way.
LEMMA KeptGrows ==
  ASSUME ToolTypes, NEW s \in Editors, NEW p \in tool[s].left, NEW ts \in Kept(s, p)
  PROVE  /\ Grows(rows, ts, s, p)
         /\ Mine(rows, s, p) = {} =>
                Mine(ts, s, p) = {} \/ HasFirst(ts, s, p, Plan(s, p).old)
  <1> DEFINE old == Plan(s, p).old
  <1>1. tool[s].name = "create" => old = Empty
    BY DEF ToolTypes, ToolFits, Plan
  <1>2. \/ ts = rows
        \/ ts = First(rows, s, p, old)
        \/ ts \in Between(rows, s, p, old)
        \/ tool[s].name = "create" /\ ts = Insert(rows, s, p, Empty, 0)
    BY Zenon DEF Kept
  <1> HIDE DEF old
  <1>3. CASE ts = rows
    BY <1>3 DEF Grows
  <1>4. CASE ts = First(rows, s, p, old)
    BY <1>4, FirstFounds DEF Founds, old
  <1>5. CASE ts \in Between(rows, s, p, old)
    BY <1>5, BetweenFounds DEF Founds, old
  <1>6. CASE tool[s].name = "create" /\ ts = Insert(rows, s, p, Empty, 0)
    BY <1>1, <1>6, InsertGrows, InsertFirst DEF old
  <1>7. QED
    BY <1>2, <1>3, <1>4, <1>5, <1>6

\* A change is recorded, and its tool goes on to the next file or is done.
GoesOnFrom(s, p) ==
    \/ Stays(s, p, "record") \/ Stays(s, p, "cut")
    \/ tool[s].left = {p} /\ tool'[s].at \in {"again", "idle"}

\* Its versions are stored, or it is lost.
StoresOrLoses(s, p) ==
    /\ Grows(rows, rows', s, p)
    /\ tool[s].name \in Views => rows' = rows
    /\ tool[s].name \notin Views /\ Mine(rows, s, p) = {} =>
           \/ <<s, p>> \in lost' \/ PatchAdds(s, p)
           \/ HasFirst(rows', s, p, Plan(s, p).old)
    /\ lost \subseteq lost' /\ lost' \subseteq lost \cup {<<s, p>>}

LEMMA RecordedKeeps ==
  ASSUME FilesInv, NEW s \in Editors, NEW p \in Paths, p \in tool[s].left,
         tool[s].at \in {"record", "cut"},
         ToolTypes', \A t \in Editors \ {s} : tool'[t] = tool[t],
         GoesOnFrom(s, p), StoresOrLoses(s, p), Marks(s, p), UNCHANGED <<disk, before>>
  PROVE  FilesInv'
  <1> USE DEF FilesInv
  <1>1. /\ record' = [record EXCEPT ![p] = "fresh"]
        /\ seen' = [seen EXCEPT ![p] = Left(s, p)]
        /\ <<s, p>> \in hit => missed' = missed \cup {p}
        /\ missed \ {p} \subseteq missed'
        /\ hit' = hit \ {<<s, p>>}
    BY DEF Marks, Left
  <1>2. HistoryTypes'
    BY <1>1 DEF HistoryTypes
  <1>3. p \in DOMAIN tool[s].plan /\ s \in Watching(p)
    BY DEF ToolTypes, ToolFits, Watching, At
  <1>4. FreshIsSeen'
    <2> SUFFICES ASSUME NEW q \in Paths, record'[q] = "fresh"
                 PROVE  disk'[q] = seen'[q] \/ q \in missed'
      BY DEF FreshIsSeen
    <2>1. CASE q = p
      <3>1. seen'[p] = Left(s, p)
        BY <1>1 DEF HistoryTypes
      <3>2. <<s, p>> \in hit \/ disk[p] = Left(s, p)
        BY <1>3 DEF WatchedIsThere, WatchOK, There, At
      <3>3. QED
        BY <2>1, <3>1, <3>2, <1>1
    <2>2. CASE q # p
      <3>1. record[q] = "fresh" /\ seen'[q] = seen[q]
        BY <2>2, <1>1 DEF HistoryTypes
      <3>2. QED
        BY <2>2, <3>1, <1>1 DEF FreshIsSeen
    <2>3. QED
      BY <2>1, <2>2
  <1>5. \A q : q \in Unrecorded(s) <=> tool[s].name \notin Views /\ q \in tool[s].left
    BY WhatIsUnrecorded
  <1>6. \A q : (q \in Unrecorded(s))' <=> q \in Unrecorded(s) /\ q # p
    <2>1. CASE Stays(s, p, "record") \/ Stays(s, p, "cut")
      <3>1. tool'[s].at \in {"change", "record", "cut"} /\ tool'[s].at # "change"
        BY <2>1 DEF Stays
      <3>2. \A q : (q \in Unrecorded(s))' <=> tool'[s].name \notin Views /\ q \in tool'[s].left
        BY <3>1 DEF Unrecorded, At
      <3>3. tool'[s].name = tool[s].name /\ tool'[s].left = tool[s].left \ {p}
        BY <2>1 DEF Stays
      <3>4. QED
        BY <1>5, <3>2, <3>3
    <2>2. CASE tool[s].left = {p} /\ tool'[s].at \in {"again", "idle"}
      <3>1. \A q : ~(q \in Unrecorded(s))'
        BY <2>2 DEF Unrecorded, At
      <3>2. QED
        BY <1>5, <2>2, <3>1
    <2>3. QED
      BY <2>1, <2>2 DEF GoesOnFrom
  <1>7. \A q : (s \in Watching(q))' =>
            /\ q # p /\ s \in Watching(q) /\ q \in tool[s].left
            /\ tool'[s].plan = tool[s].plan /\ tool'[s].at \in {"record", "cut"}
    <2>1. CASE Stays(s, p, "record") \/ Stays(s, p, "cut")
      <3>1. /\ tool'[s].at \in {"record", "cut"} /\ tool'[s].plan = tool[s].plan
            /\ tool'[s].left = tool[s].left \ {p}
        BY <2>1 DEF Stays
      <3>2. QED
        BY <3>1 DEF Watching, At
    <2>2. CASE tool[s].left = {p} /\ tool'[s].at \in {"again", "idle"}
      BY <2>2 DEF Watching, At
    <2>3. QED
      BY <2>1, <2>2 DEF GoesOnFrom
  <1>8. WatchedIsThere'
    <2> SUFFICES ASSUME NEW x \in Editors, NEW q \in Paths PROVE WatchOK(x, q)'
      BY DEF WatchedIsThere
    <2>1. CASE x = s
      <3>1. SUFFICES ASSUME (s \in Watching(q))', <<s, q>> \notin hit' PROVE There(s, q)'
        BY <2>1 DEF WatchOK
      <3>2. /\ q # p /\ s \in Watching(q) /\ q \in tool[s].left
            /\ tool'[s].plan = tool[s].plan /\ tool'[s].at \in {"record", "cut"}
        BY <1>7, <3>1
      <3>3. There(s, q)
        BY <1>1, <3>1, <3>2 DEF WatchedIsThere, WatchOK
      <3>4. disk[q] = Left(s, q) /\ Left(s, q)' = Left(s, q)
        BY <3>2, <3>3 DEF There, At, Left, Plan
      <3>5. QED
        BY <3>2, <3>4 DEF There, At
    <2>2. CASE x # s
      <3>1. <<x, q>> \in hit \cup Hits({}) => <<x, q>> \in hit'
        BY <1>1, <2>2, NobodyHit
      <3>2. QED
        BY <2>2, <3>1, WatchKeeps
    <2>3. QED
      BY <2>1, <2>2
  <1>9. PairOK(s, p)'
    <2>1. PairOK(s, p)
      BY DEF PairsOK
    <2>2. Mine(rows, s, p) \subseteq Mine(rows', s, p)
      BY GrowsKeeps DEF StoresOrLoses
    <2> DEFINE b == before[<<s, p>>]
    <2>3. before'[<<s, p>>] = b /\ ~(p \in Unrecorded(s))'
      BY <1>6
    <2>4. Mine(rows', s, p) # {} => b # Absent
      BY <1>5, <2>1 DEF PairOK, StoresOrLoses
    <2>5. b \notin {Absent, Patched} /\ <<s, p>> \notin lost' => HasFirst(rows', s, p, b)
      <3>1. SUFFICES ASSUME b \notin {Absent, Patched}, <<s, p>> \notin lost'
                     PROVE  HasFirst(rows', s, p, b)
        OBVIOUS
      <3>2. <<s, p>> \notin lost
        BY <3>1 DEF StoresOrLoses
      <3>3. CASE Mine(rows, s, p) = {}
        <4>1. p \in Unrecorded(s)
          BY <2>1, <3>1, <3>2, <3>3 DEF PairOK, HasFirst
        <4>2. b = Plan(s, p).old /\ ~PatchAdds(s, p)
          BY <2>1, <3>1, <3>2, <3>3, <4>1 DEF PairOK
        <4>3. QED
          BY <1>5, <3>1, <3>3, <4>1, <4>2 DEF StoresOrLoses
      <3>4. CASE Mine(rows, s, p) # {}
        <4>1. HasFirst(rows, s, p, b)
          BY <2>1, <3>1, <3>2, <3>4 DEF PairOK
        <4>2. QED
          BY <4>1, FirstStays DEF StoresOrLoses
      <3>5. QED
        BY <3>3, <3>4
    <2>6. QED
      BY <2>3, <2>4, <2>5 DEF PairOK
  <1>10. PairsOK'
    <2> SUFFICES ASSUME NEW x \in Editors, NEW q \in Paths PROVE PairOK(x, q)'
      BY DEF PairsOK
    <2>1. CASE <<x, q>> = <<s, p>>
      BY <1>9, <2>1
    <2>2. CASE <<x, q>> # <<s, p>>
      <3>1. /\ Mine(rows', x, q) = Mine(rows, x, q) /\ before'[<<x, q>>] = before[<<x, q>>]
            /\ <<x, q>> \in lost => <<x, q>> \in lost'
        BY <2>2, GrowsKeeps DEF StoresOrLoses
      <3>2. CASE x = s
        <4>1. PairOK(s, q) /\ q # p
          BY <2>2, <3>2 DEF PairsOK
        <4>2. /\ (q \in Unrecorded(s))' => q \in Unrecorded(s)
              /\ q \in Unrecorded(s) => (q \in Unrecorded(s))'
          BY <1>6, <4>1
        <4>3. q \in Unrecorded(s) => tool'[s].plan = tool[s].plan /\ tool'[s].name = tool[s].name
          BY <1>5, <4>1 DEF GoesOnFrom, Stays
        <4>4. QED
          BY <3>1, <3>2, <4>1, <4>2, <4>3, FramePair
      <3>3. CASE x # s
        BY <3>1, <3>3, RestingPair
      <3>4. QED
        BY <3>2, <3>3
    <2>3. QED
      BY <2>1, <2>2
  <1>11. QED
    BY <1>2, <1>4, <1>8, <1>10

LEMMA RecordsMoves ==
  ASSUME ToolTypes, NEW s \in Editors, NEW p \in Paths, p \in tool[s].left,
         tool[s].at \in {"record", "cut"}, Passes(s, p, Recorded(s))
  PROVE  /\ ToolTypes' /\ \A t \in Editors \ {s} : tool'[t] = tool[t]
         /\ GoesOnFrom(s, p)
  <1>1. /\ Recorded(s) \in {"again", "idle"} /\ Recorded(s) \in Stages
        /\ tool[s].name \in Views => Recorded(s) = "idle"
    BY DEF Recorded, Stages, Views
  <1>2. /\ ToolTypes' /\ \A t \in Editors \ {s} : tool'[t] = tool[t]
        /\ tool[s].left # {p} => Stays(s, p, tool[s].at)
        /\ tool[s].left = {p} => GoesOn(s, Recorded(s))
    BY <1>1, PassesOn
  <1>3. QED
    BY <1>1, <1>2, IdleFits DEF GoesOnFrom, GoesOn

LEMMA RecordsKeeps ==
  ASSUME FilesInv, NEW s \in Editors, NEW p \in Paths, Records(s, p)
  PROVE  FilesInv'
  <1> USE DEF FilesInv
  <1>1. /\ p \in tool[s].left /\ tool[s].at = "record" /\ Passes(s, p, Recorded(s))
        /\ rows' \in History(s, p) /\ Marks(s, p) /\ UNCHANGED <<disk, before, lost>>
    BY DEF Records, At
  <1>2. /\ ToolTypes' /\ \A t \in Editors \ {s} : tool'[t] = tool[t]
        /\ GoesOnFrom(s, p)
    BY <1>1, RecordsMoves
  <1>3. StoresOrLoses(s, p)
    BY <1>1, HistoryGrows DEF StoresOrLoses
  <1>4. QED
    BY <1>1, <1>2, <1>3, RecordedKeeps

LEMMA RecordsCutKeeps ==
  ASSUME FilesInv, NEW s \in Editors, NEW p \in Paths, RecordsCut(s, p)
  PROVE  FilesInv'
  <1> USE DEF FilesInv
  <1>1. /\ p \in tool[s].left /\ tool[s].at \in {"record", "cut"} /\ tool[s].name \notin Views
        /\ Marks(s, p) /\ UNCHANGED <<disk, before>>
    BY DEF RecordsCut, At
  <1>2. Grows(rows, rows', s, p) /\ (Mine(rows, s, p) = {} =>
            Mine(rows', s, p) = {} \/ HasFirst(rows', s, p, Plan(s, p).old))
    <2>1. CASE rows' \in Kept(s, p)
      BY <1>1, <2>1, KeptGrows
    <2>2. CASE rows' = rows
      BY <2>2 DEF Grows
    <2>3. QED
      BY <2>1, <2>2 DEF RecordsCut
  <1>3. lost' = IF Mine(rows', s, p) = {} THEN lost \cup {<<s, p>>} ELSE lost
    BY DEF RecordsCut
  <1>4. StoresOrLoses(s, p)
    BY <1>1, <1>2, <1>3 DEF StoresOrLoses
  <1>5. /\ ToolTypes' /\ \A t \in Editors \ {s} : tool'[t] = tool[t]
        /\ GoesOnFrom(s, p)
    <2>1. CASE Passes(s, p, Recorded(s))
      BY <1>1, <2>1, RecordsMoves
    <2>2. CASE tool' = [tool EXCEPT ![s].at = "cut", ![s].left = @ \ {p}]
      <3> DEFINE t == [tool[s] EXCEPT !.at = "cut"]
                 u == [t EXCEPT !.left = t.left \ {p}]
      <3>1. tool[s] \in ToolStates /\ ToolFits(tool[s])
        BY DEF ToolTypes, ToolFits
      <3>2. /\ t \in ToolStates /\ t.at = "cut" /\ t.left = tool[s].left
            /\ t.plan = tool[s].plan /\ t.name = tool[s].name
        BY <3>1 DEF ToolStates, Stages
      <3>3. tool' = [tool EXCEPT ![s] = u]
        BY <2>2 DEF ToolTypes
      <3> HIDE DEF t
      <3>4. /\ u \in ToolStates /\ u.at = "cut" /\ u.left = tool[s].left \ {p}
            /\ u.plan = tool[s].plan /\ u.name = tool[s].name
        BY <3>2 DEF ToolStates
      <3> HIDE DEF u
      <3>5. ToolFits(u)
        BY <1>1, <3>1, <3>4 DEF ToolFits
      <3>6. ToolTypes' /\ tool'[s] = u /\ \A x \in Editors \ {s} : tool'[x] = tool[x]
        BY <3>3, <3>5, ToolMoves
      <3>7. Stays(s, p, "cut")
        BY <3>4, <3>6 DEF Stays
      <3>8. QED
        BY <3>6, <3>7 DEF GoesOnFrom
    <2>3. QED
      BY <2>1, <2>2 DEF RecordsCut
  <1>6. QED
    BY <1>1, <1>4, <1>5, RecordedKeeps

LEMMA OutsideKeeps ==
  ASSUME FilesInv, NEW p \in Paths, Outside(p)
  PROVE  FilesInv'
  <1> USE DEF FilesInv
  <1>1. /\ record' = Stale({p}) /\ hit' = hit \cup Hits({p})
        /\ UNCHANGED <<rows, tool, seen, missed, before, lost>>
    BY DEF Outside
  <1>2. /\ disk' \in [Paths -> {Absent} \cup Contents]
        /\ \A q \in Paths \ {p} : disk'[q] = disk[q]
    BY DEF Outside, HistoryTypes
  <1>3. FreshIsSeen' /\ record' \in [Paths -> {"never", "fresh", "stale"}]
    BY <1>1, <1>2, StaleKeeps
  <1>4. HistoryTypes'
    BY <1>1, <1>2, <1>3 DEF HistoryTypes
  <1>5. ToolTypes'
    BY <1>1 DEF ToolTypes
  <1>6. WatchedIsThere'
    <2> SUFFICES ASSUME NEW x \in Editors, NEW q \in Paths PROVE WatchOK(x, q)'
      BY DEF WatchedIsThere
    <2>1. tool'[x] = tool[x] /\ hit' = hit \cup Hits({p}) /\ {p} \in SUBSET Paths
      BY <1>1
    <2>2. QED
      BY <1>2, <2>1, WatchKeeps
  <1>7. PairsOK'
    <2> SUFFICES ASSUME NEW x \in Editors, NEW q \in Paths PROVE PairOK(x, q)'
      BY DEF PairsOK
    <2>1. QED
      BY <1>1, RestingPair
  <1>8. QED
    BY <1>3, <1>4, <1>5, <1>6, <1>7

LEMMA FilesCrashKeeps ==
  ASSUME FilesInv, FilesCrash
  PROVE  FilesInv'
  <1> USE DEF FilesInv
  <1>1. \A s \in Editors : tool'[s] = Idle
    BY DEF FilesCrash
  <1>2. ToolTypes'
    <2>1. tool' \in [Editors -> ToolStates]
      BY IdleFits DEF FilesCrash, ToolFits
    <2>2. QED
      BY <1>1, <2>1, IdleFits DEF ToolTypes
  <1>3. HistoryTypes' /\ FreshIsSeen'
    BY DEF FilesCrash, HistoryTypes, FreshIsSeen
  <1>4. WatchedIsThere'
    BY <1>1, IdleFits DEF WatchedIsThere, WatchOK, Watching, At
  <1>5. PairsOK'
    <2> SUFFICES ASSUME NEW x \in Editors, NEW q \in Paths PROVE PairOK(x, q)'
      BY DEF PairsOK
    <2>1. /\ Mine(rows', x, q) = Mine(rows, x, q) /\ before'[<<x, q>>] = before[<<x, q>>]
          /\ <<x, q>> \in lost => <<x, q>> \in lost'
      BY DEF FilesCrash
    <2>2. q \in Unrecorded(x) /\ Mine(rows, x, q) = {} => <<x, q>> \in lost'
      <3>1. lost' = lost \cup UNION {Loses(s) : s \in Editors}
        BY DEF FilesCrash
      <3>2. q \in Unrecorded(x) /\ Mine(rows, x, q) = {} => <<x, q>> \in Loses(x)
        BY DEF Loses
      <3>3. QED
        BY <3>1, <3>2
    <2>3. ~(q \in Unrecorded(x))'
      BY <1>1, IdleFits DEF Unrecorded, At
    <2>4. PairOK(x, q)
      BY DEF PairsOK
    <2>5. QED
      BY <2>1, <2>2, <2>3, <2>4, EndPair
  <1>6. QED
    BY <1>2, <1>3, <1>4, <1>5

LEMMA StutterKeeps ==
  ASSUME FilesInv, UNCHANGED <<disk, record, rows, tool, seen, hit, missed, before, lost>>
  PROVE  FilesInv'
  <1> USE DEF FilesInv
  <1>1. ToolTypes' /\ HistoryTypes' /\ FreshIsSeen'
    BY QuietKeeps DEF ToolTypes
  <1>2. WatchedIsThere'
    <2> SUFFICES ASSUME NEW x \in Editors, NEW q \in Paths PROVE WatchOK(x, q)'
      BY DEF WatchedIsThere
    <2>1. QED
      BY NobodyHit, WatchKeeps
  <1>3. PairsOK'
    <2> SUFFICES ASSUME NEW x \in Editors, NEW q \in Paths PROVE PairOK(x, q)'
      BY DEF PairsOK
    <2>1. QED
      BY RestingPair
  <1>4. QED
    BY <1>1, <1>2, <1>3

\* The steps of a tool at work on a file.
Works(s, p) ==
    Grants(s, p) \/ Changes(s, p) \/ ChangeFails(s, p) \/ Records(s, p) \/ RecordsCut(s, p)

\* The steps, sorted by what they do to the files and their record.
LEMMA StepCases ==
  ASSUME FilesInv, FilesNext
  PROVE  \/ \E s \in Editors : \/ ToolBegins(s) \/ Rests(s) \/ RecordFails(s)
                               \/ \E p \in Paths : Works(s, p)
         \/ \E p \in Paths : Outside(p)
         \/ Second \/ FilesCrash
  <1>1. ASSUME NEW s \in Editors, Patch(s) PROVE ToolBegins(s)
    BY <1>1, PatchBegins DEF FilesInv
  <1>2. ASSUME NEW s \in Editors, Denies(s) PROVE Rests(s)
    <2>1. hit' = {h \in hit \cup Hits({}) : h[1] # s}
      BY <1>2, Forgotten DEF Denies
    <2>2. \A t \in Editors \ {s}, p \in Paths : <<t, p>> \in hit => <<t, p>> \in hit'
      BY <2>1
    <2>3. QED
      BY <1>2, <2>2 DEF Denies, Rests, At
  <1>3. ASSUME NEW s \in Editors, NEW p \in Paths, View(s, p) PROVE ToolBegins(s)
    BY <1>3, ViewBegins DEF FilesInv
  <1>4. ASSUME NEW s \in Editors, NEW p \in Paths,
               \E new \in Contents : \/ Edit(s, p, new) \/ EditDelete(s, p, new)
                                    \/ EditNew(s, p, new) \/ Write(s, p, new)
        PROVE  ToolBegins(s)
    BY <1>4, EditBegins DEF FilesInv
  <1>5. ASSUME NEW s \in Editors, NEW p \in Paths, EditAgain(s, p)
        PROVE  ToolBegins(s) \/ Rests(s)
    BY <1>5, EditAgainBegins DEF FilesInv
  <1>6. QED
    BY <1>1, <1>2, <1>3, <1>4, <1>5 DEF FilesNext, Works

\* Every step keeps the invariant.
LEMMA NextInv == ASSUME FilesInv, [FilesNext]_filesVars PROVE FilesInv'
  <1>1. CASE UNCHANGED filesVars
    BY <1>1, StutterKeeps DEF filesVars
  <1>2. CASE FilesNext
    <2>1. CASE Second
      BY <2>1, StutterKeeps DEF Second
    <2>2. CASE FilesCrash
      BY <2>2, FilesCrashKeeps
    <2>3. CASE \E p \in Paths : Outside(p)
      BY <2>3, OutsideKeeps
    <2>4. ASSUME NEW s \in Editors, ToolBegins(s) \/ Rests(s) \/ RecordFails(s) PROVE FilesInv'
      BY <2>4, BeginsKeeps, RestsKeeps, RecordFailsKeeps
    <2>5. ASSUME NEW s \in Editors, NEW p \in Paths, Works(s, p)
          PROVE  FilesInv'
      BY <2>5, GrantsKeeps, ChangesKeeps, ChangeFailsKeeps, RecordsKeeps, RecordsCutKeeps DEF Works
    <2>6. QED
      BY <1>2, <2>1, <2>2, <2>3, <2>4, <2>5, StepCases
  <1>3. QED
    BY <1>1, <1>2

-----------------------------------------------------------------------------
(* The theorems. *)

\* The tools, the record of what was read and the history stay consistent,
\* whatever sessions, editors, cancelled requests and crashes do in between
\* (file.go, history/file.go, edit.go, write.go, patch.go, view.go).
THEOREM FilesCorrect == FilesSpec => []FilesInv
  BY InitInv, NextInv, PTL DEF FilesSpec

\* The tools are what their types say.
THEOREM FilesTypes == FilesSpec => [](ToolTypes /\ HistoryTypes)
  <1>1. FilesInv => ToolTypes /\ HistoryTypes
    BY DEF FilesInv
  <1>2. QED
    BY <1>1, FilesCorrect, PTL

\* What a session's first change of a file found there is the initial version
\* of the file in that session, unless the change wrote over something else
\* than was read or was never recorded (edit.go:452-480, write.go:176-203,
\* patch.go:308-333, history/file.go).
THEOREM FirstVersionIsBaseline == FilesSpec => []BaselineKept
  <1>1. FilesInv => BaselineKept
    <2> SUFFICES ASSUME FilesInv, NEW s \in Editors, NEW p \in Paths,
                        before[<<s, p>>] \notin {Absent, Patched}, <<s, p>> \notin lost
                 PROVE  \/ p \in Unrecorded(s)
                        \/ \E r \in Mine(rows, s, p) : r.version = 0 /\ r.content = before[<<s, p>>]
      BY DEF BaselineKept
    <2>1. PairOK(s, p)
      BY DEF FilesInv, PairsOK
    <2>2. QED
      BY <2>1 DEF PairOK, HasFirst
  <1>2. QED
    BY <1>1, FilesCorrect, PTL

\* A tool asks to change what a model has seen as it is, unless a change fell
\* between reading a file and recording it, or the model saw a part only; and
\* it writes over what it planned from, unless the file was changed while the
\* user was asked.
KnowsWhatItAsks(s) ==
    tool[s].at # "ask" /\ tool'[s].at = "ask" =>
        \A p \in DOMAIN tool'[s].plan : Present(p) => disk[p] = seen[p] \/ p \in missed

KnowsWhatItChanges(s) == \A p \in Paths : Changes(s, p) => AsPlanned(s, p) \/ <<s, p>> \in hit

LEMMA StepsKnow ==
  ASSUME FilesInv, FilesNext, NEW s \in Editors
  PROVE  KnowsWhatItAsks(s)
  <1> SUFFICES ASSUME tool[s].at # "ask", tool'[s].at = "ask",
                      NEW p \in DOMAIN tool'[s].plan, Present(p)
               PROVE  disk[p] = seen[p] \/ p \in missed
    BY DEF KnowsWhatItAsks
  <1>1. ToolTypes /\ tool \in [Editors -> ToolStates]
    BY DEF FilesInv, ToolTypes
  <1>2. CASE \E t \in Editors : ToolBegins(t)
    <2>1. PICK t \in Editors, name \in Names, at \in {"ask", "record"}, plan \in Plans :
              BeginsWith(t, name, at, plan)
      BY <1>2 DEF ToolBegins
    <2>2. tool'[s] = Begin(name, at, plan)
      <3>1. t = s
        BY <1>1, <2>1 DEF BeginsWith
      <3>2. QED
        BY <1>1, <2>1, <3>1 DEF BeginsWith
    <2>3. at = "ask" /\ p \in DOMAIN plan
      BY <2>2, BeginType DEF Stages
    <2>4. Fresh(p) /\ p \in Paths
      BY <2>1, <2>3, PlanType DEF BeginsWith, Looked
    <2>5. QED
      BY <2>4 DEF Fresh, FilesInv, FreshIsSeen
  <1>3. ASSUME NEW t \in Editors, tool' = [tool EXCEPT ![t] = Idle] PROVE FALSE
    BY <1>1, <1>3, IdleFits
  <1>4. CASE \E t \in Editors : Rests(t) \/ RecordFails(t)
    BY <1>3, <1>4 DEF Rests, RecordFails
  <1>5. CASE \E t \in Editors, q \in Paths : Works(t, q)
    <2>1. PICK t \in Editors, q \in Paths : Works(t, q)
      BY <1>5
    <2>2. CASE ChangeFails(t, q)
      BY <1>3, <2>2 DEF ChangeFails
    <2>3. CASE Grants(t, q)
      <3>1. tool[t].at = "ask" /\ Passes(t, q, "change") /\ t # s
        BY <2>3 DEF Grants, At
      <3>2. tool'[s] = tool[s]
        BY <1>1, <3>1 DEF Passes
      <3>3. QED
        BY <3>2
    <2>4. CASE Changes(t, q) \/ Records(t, q)
      <3>1. q \in tool[t].left /\ tool[t].at \in {"change", "record"}
        BY <2>4 DEF Changes, Records, At
      <3>2. PICK next \in Stages \ {"ask"} :
                Passes(t, q, next) /\ (tool[t].name \in Views => next = "idle")
        <4>1. Changes(t, q) => tool[t].name \notin Views /\ Passes(t, q, "record")
          BY <1>1 DEF Changes, At, ToolTypes, ToolFits
        <4>2. Records(t, q) => /\ Passes(t, q, Recorded(t)) /\ Recorded(t) \in {"again", "idle"}
                               /\ tool[t].name \in Views => Recorded(t) = "idle"
          BY DEF Records, Recorded, Views
        <4>3. {"again", "idle", "record"} \subseteq Stages \ {"ask"}
          BY DEF Stages
        <4>4. QED
          BY <2>4, <4>1, <4>2, <4>3
      <3>3. /\ \A x \in Editors \ {t} : tool'[x] = tool[x]
            /\ tool[t].left # {q} => Stays(t, q, tool[t].at)
            /\ tool[t].left = {q} => GoesOn(t, next)
        BY <1>1, <3>1, <3>2, PassesOn
      <3>4. tool'[t].at # "ask"
        BY <3>1, <3>2, <3>3, IdleFits DEF Stays, GoesOn
      <3>5. QED
        BY <3>3, <3>4
    <2>5. CASE RecordsCut(t, q)
      <3>1. q \in tool[t].left /\ tool[t].at \in {"record", "cut"}
        BY <2>5 DEF RecordsCut, At
      <3>2. CASE Passes(t, q, Recorded(t))
        <4>1. /\ \A x \in Editors \ {t} : tool'[x] = tool[x]
              /\ GoesOnFrom(t, q)
          BY <1>1, <3>1, <3>2, RecordsMoves
        <4>2. QED
          BY <4>1 DEF GoesOnFrom, Stays
      <3>3. CASE tool' = [tool EXCEPT ![t].at = "cut", ![t].left = @ \ {q}]
        <4>1. tool[t] \in ToolStates
          BY <1>1
        <4>2. tool'[t].at = "cut" /\ \A x \in Editors \ {t} : tool'[x] = tool[x]
          BY <1>1, <3>3, <4>1 DEF ToolStates
        <4>3. QED
          BY <4>2
      <3>4. QED
        BY <2>5, <3>2, <3>3 DEF RecordsCut
    <2>6. QED
      BY <2>1, <2>2, <2>3, <2>4, <2>5 DEF Works
  <1>6. CASE \E q \in Paths : Outside(q)
    BY <1>6 DEF Outside
  <1>7. CASE Second
    BY <1>7 DEF Second
  <1>8. CASE FilesCrash
    BY <1>8, IdleFits DEF FilesCrash
  <1>9. QED
    BY <1>2, <1>4, <1>5, <1>6, <1>7, <1>8, StepCases

LEMMA ChangesKnow ==
  ASSUME FilesInv, NEW s \in Editors
  PROVE  KnowsWhatItChanges(s)
  <1> SUFFICES ASSUME NEW p \in Paths, Changes(s, p), <<s, p>> \notin hit
               PROVE  AsPlanned(s, p)
    BY DEF KnowsWhatItChanges
  <1>1. At(s, "change") /\ p \in tool[s].left /\ p \in DOMAIN tool[s].plan
    BY DEF Changes, FilesInv, ToolTypes, ToolFits
  <1>2. s \in Watching(p)
    BY <1>1 DEF Watching
  <1>3. QED
    BY <1>1, <1>2 DEF FilesInv, WatchedIsThere, WatchOK, There

\* Three windows are all through which a tool changes what no model has seen
\* as it is: a change between the reading or writing of a file and its record,
\* a view of a part, and a change between the look of the tool and its write
\* (file.go, view.go:171-190, edit.go:260-285, 389-452, write.go:116-176,
\* patch.go:88-277).
THEOREM NoToolIsBlind == FilesSpec => NoBlindEdit
  <1>1. ASSUME FilesInv, [FilesNext]_filesVars
        PROVE  [\A s \in Editors : KnowsWhatItAsks(s) /\ KnowsWhatItChanges(s)]_filesVars
    BY <1>1, StepsKnow, ChangesKnow
  <1>2. [\A s \in Editors : KnowsWhatItAsks(s) /\ KnowsWhatItChanges(s)]_filesVars
        => [\A s \in Editors :
              /\ tool[s].at # "ask" /\ tool'[s].at = "ask" =>
                     \A p \in DOMAIN tool'[s].plan :
                         Present(p) => disk[p] = seen[p] \/ p \in missed
              /\ \A p \in Paths : Changes(s, p) => AsPlanned(s, p) \/ <<s, p>> \in hit]_filesVars
    BY DEF KnowsWhatItAsks, KnowsWhatItChanges
  <1>3. QED
    BY <1>1, <1>2, FilesCorrect, PTL DEF FilesSpec, NoBlindEdit

-----------------------------------------------------------------------------
(***************************************************************************)
(* The messages of a session. Of a table, the requests that are excused,   *)
(* and the rows of the answers that still come in:                         *)
(***************************************************************************)

MessageRows == [role : {"user", "assistant", "tool"}, calls : {"none", "empty"} \cup Called,
                of : Nat, by : Requests \cup {NoOne}]
Entries == [id : Nat, row : MessageRows]

\* Only excused messages are between i and j.
Alone(table, excused, i, j) ==
    \A k \in DOMAIN table : i < k /\ k < j => table[k].by \in excused

Answers(table, excused, i, j) ==
    /\ i < j
    /\ table[j].role = "tool" /\ table[j].of = i
    /\ Alone(table, excused, i, j)

\* Calls are followed by their results, unless the answer still comes in.
CallFits(table, excused, coming, i) ==
    table[i].by \in Requests \ excused /\ table[i].calls \in Called =>
        i \in coming \/ \E j \in DOMAIN table : Answers(table, excused, i, j)

CallsAnswered(table, excused, coming) ==
    \A i \in DOMAIN table : CallFits(table, excused, coming, i)

\* Results are those of calls that are stored before, and stay as they are.
ResultFits(table, excused, coming, j) ==
    table[j].role = "tool" =>
        /\ table[j].calls = "none" /\ table[j].by \in Requests
        /\ table[j].of \in DOMAIN table /\ table[j].of < j
        /\ table[table[j].of].calls \in Called
        /\ table[table[j].of].by = table[j].by
        /\ table[j].of \notin coming
        /\ table[j].by \notin excused => Alone(table, excused, table[j].of, j)

ResultsCalled(table, excused, coming) ==
    \A j \in DOMAIN table : ResultFits(table, excused, coming, j)

(***************************************************************************)
(* And of a history that was made from the table:                          *)
(***************************************************************************)

Copied(table, m) ==
    /\ m.id \in DOMAIN table
    /\ m.row.by = table[m.id].by
    /\ m.row.role = "tool" => m.row = table[m.id]

HasResults(excused, h, i) ==
    \E j \in DOMAIN h :
        /\ i < j
        /\ h[j].row.role = "tool" /\ h[j].row.of = h[i].id
        /\ \A k \in DOMAIN h : i < k /\ k < j => h[k].row.by \in excused

\* The calls as they are stored, and no summary since then.
HasCalls(table, h, j) ==
    \E i \in DOMAIN h :
        /\ i < j
        /\ h[i].id = h[j].row.of /\ h[i].row.calls = table[h[j].row.of].calls
        /\ \A k \in DOMAIN h : i <= k /\ k < j => h[k].row.by # NoOne

EntryFits(table, excused, h, i) ==
    /\ Copied(table, h[i])
    /\ h[i].row.by \in Requests \ excused =>
           /\ h[i].row.calls \in Called => HasResults(excused, h, i)
           /\ h[i].row.role = "tool" => HasCalls(table, h, i)

Whole(table, excused, h) == \A i \in DOMAIN h : EntryFits(table, excused, h, i)

(***************************************************************************)
(* The inductive invariant.                                                *)
(***************************************************************************)

Streaming == {"stream", "usage", "tools"}
Reading == {"open", "send"} \cup Streaming
StoreStages == {"idle", "list", "over", "ended"} \cup Reading

StoreTypes ==
    /\ messages \in Seq(MessageRows) /\ Len(messages) <= MaxRows
    /\ session \in Nat
    /\ stage \in [Requests -> StoreStages]
    /\ owner \in Requests \cup {NoOne}
    /\ hist \in [Requests -> Seq(Entries)]
    /\ answer \in [Requests -> Nat]
    /\ read \in [Requests \cup {"title", "summary"} -> Nat]
    /\ summing \in {"idle", "asked", "created"}
    /\ unguarded \subseteq Requests

\* Where a history may begin.
Begun(table) == {0} \cup {i \in DOMAIN table : table[i].by = NoOne}

LastSummary(table, i) ==
    table[i] = Summary /\ \A k \in DOMAIN table : table[k] = Summary => k <= i

\* The session begins at a summary, whoever writes its row.
SessionFits ==
    /\ session \in Begun(messages)
    /\ \A w \in Requests \cup {"title", "summary"} : read[w] \in Begun(messages) \cup {Unread}
    /\ \A r \in Requests : In(r, "usage") => read[r] \in Begun(messages)
    /\ summing = "created" => \E i \in DOMAIN messages : LastSummary(messages, i)

OwnsAlone == \A r \in Requests \ unguarded : Live(r) => owner = r /\ summing = "idle"

Coming == {answer[r] : r \in {q \in Requests : stage[q] \in Streaming}}

AnswerFits(r) ==
    stage[r] \in Streaming =>
        /\ answer[r] \in DOMAIN messages
        /\ messages[answer[r]].by = r /\ messages[answer[r]].role = "assistant"
        /\ r \notin unguarded => Alone(messages, unguarded, answer[r], Len(messages) + 1)

AnswersFit == \A r \in Requests : AnswerFits(r)

TableFits ==
    CallsAnswered(messages, unguarded, Coming) /\ ResultsCalled(messages, unguarded, Coming)

\* Until it is cut a history has the first messages of the table.
Listed(r) == In(r, "open") => \A i \in DOMAIN hist[r] : hist[r][i].id = i

HistoryFits(r) == stage[r] \in Reading => Whole(messages, unguarded, hist[r])

HistoriesFit ==
    /\ \A r \in Requests : Listed(r)
    /\ \A r \in Requests \ unguarded : HistoryFits(r)

StoreInv ==
    /\ StoreTypes /\ SessionFits /\ OwnsAlone
    /\ AnswersFit /\ TableFits /\ HistoriesFit

-----------------------------------------------------------------------------
(* A table. *)

LEMMA RowType ==
    ASSUME NEW table \in Seq(MessageRows), NEW i \in DOMAIN table
    PROVE  /\ table[i] \in MessageRows
           /\ i \in Nat /\ 1 <= i /\ i <= Len(table) /\ Len(table) \in Nat
  OBVIOUS

LEMMA Appended ==
    ASSUME NEW S, NEW s \in Seq(S), NEW x \in S
    PROVE  /\ Append(s, x) \in Seq(S)
           /\ Len(s) \in Nat /\ Len(Append(s, x)) = Len(s) + 1
           /\ DOMAIN s = 1 .. Len(s)
           /\ DOMAIN Append(s, x) = DOMAIN s \cup {Len(s) + 1}
           /\ \A i \in DOMAIN s : Append(s, x)[i] = s[i] /\ i \in Nat /\ i < Len(s) + 1
           /\ Append(s, x)[Len(s) + 1] = x
  <1>1. /\ Append(s, x) \in Seq(S)
        /\ Len(s) \in Nat /\ Len(Append(s, x)) = Len(s) + 1
        /\ DOMAIN s = 1 .. Len(s)
    OBVIOUS
  <1>2. DOMAIN Append(s, x) = 1 .. Len(s) + 1
    OBVIOUS
  <1>3. 1 .. Len(s) + 1 = DOMAIN s \cup {Len(s) + 1}
    BY <1>1
  <1>4. \A i \in DOMAIN s : Append(s, x)[i] = s[i] /\ i \in Nat /\ i < Len(s) + 1
    BY <1>1
  <1>5. Append(s, x)[Len(s) + 1] = x
    OBVIOUS
  <1>6. QED
    BY <1>1, <1>2, <1>3, <1>4, <1>5

LEMMA ExceptType ==
    ASSUME NEW S, NEW s \in Seq(S), NEW i \in DOMAIN s, NEW x \in S
    PROVE  /\ [s EXCEPT ![i] = x] \in Seq(S)
           /\ Len([s EXCEPT ![i] = x]) = Len(s)
  OBVIOUS

\* More requests are excused, and answers are done.
LEMMA TableExcuses ==
    ASSUME NEW table \in Seq(MessageRows), NEW excused, NEW more, NEW coming, NEW fewer,
           excused \subseteq more, fewer \subseteq coming,
           \A i \in coming \ fewer :
               i \in DOMAIN table => table[i].by \in more \/ table[i].calls \notin Called,
           CallsAnswered(table, excused, coming), ResultsCalled(table, excused, coming)
    PROVE  CallsAnswered(table, more, fewer) /\ ResultsCalled(table, more, fewer)
  <1>1. \A i, j : Alone(table, excused, i, j) => Alone(table, more, i, j)
    BY DEF Alone
  <1>2. \A i, j : Answers(table, excused, i, j) => Answers(table, more, i, j)
    BY <1>1 DEF Answers
  <1>3. ASSUME NEW i \in DOMAIN table PROVE CallFits(table, more, fewer, i)
    BY <1>2 DEF CallsAnswered, CallFits
  <1>4. ASSUME NEW j \in DOMAIN table PROVE ResultFits(table, more, fewer, j)
    BY <1>1 DEF ResultsCalled, ResultFits
  <1>5. QED
    BY <1>3, <1>4 DEF CallsAnswered, ResultsCalled

\* A message without calls or results is added.
LEMMA TableGrows ==
    ASSUME NEW table \in Seq(MessageRows), NEW excused, NEW coming, NEW more,
           NEW m \in MessageRows, m.role # "tool", m.calls \notin Called,
           coming \subseteq more, more \subseteq coming \cup {Len(table) + 1},
           CallsAnswered(table, excused, coming), ResultsCalled(table, excused, coming)
    PROVE  CallsAnswered(Append(table, m), excused, more) /\ ResultsCalled(Append(table, m), excused, more)
  <1> DEFINE new == Append(table, m)
  <1>1. /\ Len(table) \in Nat
        /\ DOMAIN new = DOMAIN table \cup {Len(table) + 1}
        /\ \A i \in DOMAIN table : new[i] = table[i] /\ i \in Nat /\ i < Len(table) + 1
        /\ new[Len(table) + 1] = m
    BY Appended
  <1> HIDE DEF new
  <1>2. ASSUME NEW i, NEW j \in DOMAIN table, Alone(table, excused, i, j)
        PROVE  Alone(new, excused, i, j)
    <2>1. j \in Nat /\ ~(Len(table) + 1 < j)
      BY <1>1
    <2>2. QED
      BY <1>1, <1>2, <2>1 DEF Alone
  <1>3. ASSUME NEW i \in DOMAIN new PROVE CallFits(new, excused, more, i)
    <2>1. CASE i = Len(table) + 1
      BY <1>1, <2>1 DEF CallFits
    <2>2. CASE i \in DOMAIN table
      <3>1. CallFits(table, excused, coming, i) /\ new[i] = table[i]
        BY <1>1, <2>2 DEF CallsAnswered
      <3>2. ASSUME NEW j \in DOMAIN table, Answers(table, excused, i, j)
            PROVE  j \in DOMAIN new /\ Answers(new, excused, i, j)
        BY <1>1, <1>2, <3>2 DEF Answers
      <3>3. QED
        BY <3>1, <3>2 DEF CallFits
    <2>3. QED
      BY <1>1, <2>1, <2>2
  <1>4. ASSUME NEW j \in DOMAIN new PROVE ResultFits(new, excused, more, j)
    <2>1. CASE j = Len(table) + 1
      BY <1>1, <2>1 DEF ResultFits
    <2>2. CASE j \in DOMAIN table /\ table[j].role = "tool"
      <3>1. ResultFits(table, excused, coming, j) /\ new[j] = table[j]
        BY <1>1, <2>2 DEF ResultsCalled
      <3>2. table[j].of \in DOMAIN table
        BY <2>2, <3>1 DEF ResultFits
      <3>3. /\ new[table[j].of] = table[table[j].of] /\ table[j].of \in DOMAIN new
            /\ table[j].of # Len(table) + 1
        BY <1>1, <3>2
      <3>4. Alone(table, excused, table[j].of, j) => Alone(new, excused, table[j].of, j)
        BY <1>2, <2>2
      <3>5. QED
        BY <2>2, <3>1, <3>3, <3>4 DEF ResultFits
    <2>3. CASE j \in DOMAIN table /\ table[j].role # "tool"
      BY <1>1, <2>3 DEF ResultFits
    <2>4. QED
      BY <1>1, <2>1, <2>2, <2>3
  <1>5. QED
    BY <1>3, <1>4 DEF CallsAnswered, ResultsCalled, new

\* An answer that still comes in is stored.
LEMMA TableStores ==
    ASSUME NEW table \in Seq(MessageRows), NEW excused, NEW coming,
           NEW a \in coming, a \in DOMAIN table, table[a].role # "tool",
           NEW calls \in {"none", "empty"} \cup Called,
           CallsAnswered(table, excused, coming), ResultsCalled(table, excused, coming)
    PROVE  LET new == [table EXCEPT ![a].calls = calls]
           IN  CallsAnswered(new, excused, coming) /\ ResultsCalled(new, excused, coming)
  <1> DEFINE new == [table EXCEPT ![a].calls = calls]
  <1>1. /\ DOMAIN new = DOMAIN table
        /\ \A i \in DOMAIN table : i # a => new[i] = table[i]
        /\ \A i \in DOMAIN table : new[i].by = table[i].by /\ new[i].role = table[i].role
                                   /\ new[i].of = table[i].of
        /\ \A i \in DOMAIN table : table[i].role = "tool" => new[i] = table[i]
    BY DEF MessageRows
  <1> HIDE DEF new
  <1>2. \A i, j : Alone(table, excused, i, j) => Alone(new, excused, i, j)
    BY <1>1 DEF Alone
  <1>3. ASSUME NEW i \in DOMAIN new PROVE CallFits(new, excused, coming, i)
    <2>1. CASE i = a
      BY <2>1 DEF CallFits
    <2>2. CASE i # a
      <3>1. CallFits(table, excused, coming, i) /\ new[i] = table[i]
        BY <1>1, <2>2 DEF CallsAnswered
      <3>2. ASSUME NEW j \in DOMAIN table, Answers(table, excused, i, j)
            PROVE  j \in DOMAIN new /\ Answers(new, excused, i, j)
        BY <1>1, <1>2, <3>2 DEF Answers
      <3>3. QED
        BY <3>1, <3>2 DEF CallFits
    <2>3. QED
      BY <2>1, <2>2
  <1>4. ASSUME NEW j \in DOMAIN new, new[j].role = "tool"
        PROVE  ResultFits(new, excused, coming, j)
    <2>1. j \in DOMAIN table /\ table[j].role = "tool" /\ new[j] = table[j]
      BY <1>1, <1>4
    <2>2. ResultFits(table, excused, coming, j)
      BY <2>1 DEF ResultsCalled
    <2>3. table[j].of \in DOMAIN table /\ table[j].of # a
      BY <2>1, <2>2 DEF ResultFits
    <2>4. new[table[j].of] = table[table[j].of]
      BY <1>1, <2>3
    <2>5. QED
      BY <1>1, <1>2, <2>1, <2>2, <2>4 DEF ResultFits
  <1>5. ASSUME NEW j \in DOMAIN new PROVE ResultFits(new, excused, coming, j)
    BY <1>4 DEF ResultFits
  <1>6. QED
    BY <1>3, <1>5 DEF CallsAnswered, ResultsCalled, new

\* The results of an answer are added, which comes in no more.
LEMMA TableResults ==
    ASSUME NEW table \in Seq(MessageRows), NEW excused, NEW coming,
           NEW a \in coming, a \in DOMAIN table, NEW r \in Requests,
           table[a].by = r, table[a].calls \in Called,
           r \notin excused => Alone(table, excused, a, Len(table) + 1),
           CallsAnswered(table, excused, coming), ResultsCalled(table, excused, coming)
    PROVE  LET new == Append(table, Results(r, a))
           IN  /\ CallsAnswered(new, excused, coming \ {a})
               /\ ResultsCalled(new, excused, coming \ {a})
  <1> DEFINE new == Append(table, Results(r, a))
             last == Len(table) + 1
             rest == coming \ {a}
  <1>0. Results(r, a) \in MessageRows
    BY DEF Results, MessageRows
  <1>1. /\ Len(table) \in Nat
        /\ DOMAIN new = DOMAIN table \cup {last}
        /\ \A i \in DOMAIN table : new[i] = table[i] /\ i \in Nat /\ i < last
        /\ new[last] = Results(r, a)
    BY <1>0, Appended
  <1> HIDE DEF new
  <1>2. ASSUME NEW i, NEW j \in DOMAIN new, Alone(table, excused, i, j)
        PROVE  Alone(new, excused, i, j)
    <2>1. j \in Nat /\ ~(last < j)
      BY <1>1
    <2>2. QED
      BY <1>1, <1>2, <2>1 DEF Alone
  <1>3. ASSUME NEW i \in DOMAIN new PROVE CallFits(new, excused, rest, i)
    <2>1. CASE i = last
      BY <1>1, <2>1 DEF CallFits, Results, Called
    <2>2. CASE i = a /\ r \notin excused
      <3>1. Alone(new, excused, a, last)
        BY <1>1, <1>2, <2>2
      <3>2. Answers(new, excused, a, last)
        BY <1>1, <3>1 DEF Answers, Results
      <3>3. QED
        BY <1>1, <2>2, <3>2 DEF CallFits
    <2>3. CASE i = a /\ r \in excused
      BY <1>1, <2>3 DEF CallFits
    <2>4. CASE i \in DOMAIN table /\ i # a
      <3>1. CallFits(table, excused, coming, i) /\ new[i] = table[i]
        BY <1>1, <2>4 DEF CallsAnswered
      <3>2. ASSUME NEW j \in DOMAIN table, Answers(table, excused, i, j)
            PROVE  j \in DOMAIN new /\ Answers(new, excused, i, j)
        BY <1>1, <1>2, <3>2 DEF Answers
      <3>3. QED
        BY <2>4, <3>1, <3>2 DEF CallFits
    <2>5. QED
      BY <1>1, <2>1, <2>2, <2>3, <2>4
  <1>4. ASSUME NEW j \in DOMAIN new PROVE ResultFits(new, excused, rest, j)
    <2>1. CASE j = last
      <3>1. r \notin excused => Alone(new, excused, a, last)
        BY <1>1, <1>2
      <3>2. new[a] = table[a] /\ a < last /\ a \in DOMAIN new
        BY <1>1
      <3>3. QED
        BY <1>1, <2>1, <3>1, <3>2 DEF ResultFits, Results
    <2>2. CASE j \in DOMAIN table /\ table[j].role = "tool"
      <3>1. ResultFits(table, excused, coming, j) /\ new[j] = table[j]
        BY <1>1, <2>2 DEF ResultsCalled
      <3>2. table[j].of \in DOMAIN table
        BY <2>2, <3>1 DEF ResultFits
      <3>3. new[table[j].of] = table[table[j].of] /\ table[j].of \in DOMAIN new
        BY <1>1, <3>2
      <3>4. Alone(table, excused, table[j].of, j) => Alone(new, excused, table[j].of, j)
        BY <1>1, <1>2, <2>2
      <3>5. QED
        BY <2>2, <3>1, <3>3, <3>4 DEF ResultFits
    <2>3. CASE j \in DOMAIN table /\ table[j].role # "tool"
      BY <1>1, <2>3 DEF ResultFits
    <2>4. QED
      BY <1>1, <2>1, <2>2, <2>3
  <1>5. QED
    BY <1>3, <1>4 DEF CallsAnswered, ResultsCalled, new

-----------------------------------------------------------------------------
(* A history. *)

\* The table changes elsewhere: it keeps its results, and the calls that they
\* answer.
LEMMA WholeKept ==
    ASSUME NEW table \in Seq(MessageRows), NEW new, NEW excused, NEW more, NEW coming,
           NEW h \in Seq(Entries),
           excused \subseteq more,
           ResultsCalled(table, excused, coming),
           DOMAIN table \subseteq DOMAIN new,
           \A i \in DOMAIN table :
               /\ new[i].by = table[i].by
               /\ table[i].role = "tool" => new[i] = table[i]
               /\ i \notin coming => new[i].calls = table[i].calls,
           Whole(table, excused, h)
    PROVE  Whole(new, more, h)
  <1> SUFFICES ASSUME NEW i \in DOMAIN h PROVE EntryFits(new, more, h, i)
    BY DEF Whole
  <1>1. EntryFits(table, excused, h, i)
    BY DEF Whole
  <1>2. Copied(table, h[i])
    BY <1>1 DEF EntryFits
  <1>3. Copied(new, h[i])
    BY <1>2 DEF Copied
  <1>4. HasResults(excused, h, i) => HasResults(more, h, i)
    BY DEF HasResults
  <1>5. ASSUME h[i].row.role = "tool", HasCalls(table, h, i) PROVE HasCalls(new, h, i)
    <2>1. h[i].id \in DOMAIN table /\ h[i].row = table[h[i].id]
      BY <1>2, <1>5 DEF Copied
    <2>2. ResultFits(table, excused, coming, h[i].id)
      BY <2>1 DEF ResultsCalled
    <2>3. h[i].row.of \in DOMAIN table /\ h[i].row.of \notin coming
      BY <1>5, <2>1, <2>2 DEF ResultFits
    <2>4. new[h[i].row.of].calls = table[h[i].row.of].calls
      BY <2>3
    <2>5. QED
      BY <1>5, <2>4 DEF HasCalls
  <1>6. QED
    BY <1>1, <1>3, <1>4, <1>5 DEF EntryFits

\* The messages are listed while no answer comes in but those that are
\* excused.
LEMMA WholeListed ==
    ASSUME NEW table \in Seq(MessageRows), NEW excused, NEW coming,
           NoOne \notin excused,
           \A i \in coming : i \in DOMAIN table => table[i].by \in excused,
           CallsAnswered(table, excused, coming), ResultsCalled(table, excused, coming)
    PROVE  Whole(table, excused, Numbered(table))
  <1> DEFINE h == Numbered(table)
  <1>1. /\ DOMAIN h = DOMAIN table
        /\ \A i \in DOMAIN table : h[i].id = i /\ h[i].row = table[i]
    BY DEF Numbered
  <1> HIDE DEF h
  <1> SUFFICES ASSUME NEW i \in DOMAIN table PROVE EntryFits(table, excused, h, i)
    BY <1>1 DEF Whole, h
  <1>2. Copied(table, h[i])
    BY <1>1 DEF Copied
  <1>3. ASSUME table[i].by \in Requests \ excused, table[i].calls \in Called
        PROVE  HasResults(excused, h, i)
    <2>1. CallFits(table, excused, coming, i) /\ i \notin coming
      BY <1>3 DEF CallsAnswered
    <2>2. PICK j \in DOMAIN table : Answers(table, excused, i, j)
      BY <1>3, <2>1 DEF CallFits
    <2>3. QED
      BY <1>1, <2>2 DEF Answers, Alone, HasResults
  <1>4. ASSUME table[i].by \in Requests \ excused, table[i].role = "tool"
        PROVE  HasCalls(table, h, i)
    <2>1. ResultFits(table, excused, coming, i)
      BY DEF ResultsCalled
    <2>2. /\ table[i].of \in DOMAIN table /\ table[i].of < i
          /\ table[table[i].of].by = table[i].by
          /\ Alone(table, excused, table[i].of, i)
      BY <1>4, <2>1 DEF ResultFits
    <2>3. ASSUME NEW k \in DOMAIN table, table[i].of <= k, k < i PROVE table[k].by # NoOne
      <3>1. CASE k = table[i].of
        BY <1>4, <2>2, <3>1, StoreAssumption DEF NoOne
      <3>2. CASE k # table[i].of
        <4>1. table[i].of < k
          BY <2>2, <2>3, <3>2, RowType
        <4>2. QED
          BY <2>2, <2>3, <4>1 DEF Alone
      <3>3. QED
        BY <3>1, <3>2
    <2>4. QED
      BY <1>1, <2>2, <2>3 DEF HasCalls
  <1>5. QED
    BY <1>1, <1>2, <1>3, <1>4 DEF EntryFits

\* A message without calls or results is added to a history.
LEMMA WholeGrows ==
    ASSUME NEW table, NEW excused, NEW h \in Seq(Entries), NEW m \in Entries,
           Copied(table, m), m.row.role # "tool", m.row.calls \notin Called,
           Whole(table, excused, h)
    PROVE  Whole(table, excused, Append(h, m))
  <1> DEFINE new == Append(h, m)
             last == Len(h) + 1
  <1>1. /\ Len(h) \in Nat
        /\ DOMAIN new = DOMAIN h \cup {last}
        /\ \A i \in DOMAIN h : new[i] = h[i] /\ i \in Nat /\ i < last
        /\ new[last] = m
    BY Appended
  <1> HIDE DEF new
  <1> SUFFICES ASSUME NEW i \in DOMAIN new PROVE EntryFits(table, excused, new, i)
    BY DEF Whole, new
  <1>2. CASE i = last
    BY <1>1, <1>2 DEF EntryFits
  <1>3. CASE i \in DOMAIN h
    <2>1. EntryFits(table, excused, h, i) /\ new[i] = h[i] /\ i < last
      BY <1>1, <1>3 DEF Whole
    <2>2. ASSUME HasResults(excused, h, i) PROVE HasResults(excused, new, i)
      <3>1. PICK j \in DOMAIN h :
              /\ i < j
              /\ h[j].row.role = "tool" /\ h[j].row.of = h[i].id
              /\ \A k \in DOMAIN h : i < k /\ k < j => h[k].row.by \in excused
        BY <2>2 DEF HasResults
      <3>2. j < last /\ j \in Nat /\ new[j] = h[j] /\ j \in DOMAIN new
        BY <1>1
      <3>3. \A k \in DOMAIN new : i < k /\ k < j => new[k].row.by \in excused
        BY <1>1, <3>1, <3>2
      <3>4. QED
        BY <2>1, <3>1, <3>2, <3>3 DEF HasResults
    <2>3. ASSUME HasCalls(table, h, i) PROVE HasCalls(table, new, i)
      <3>1. PICK j \in DOMAIN h :
              /\ j < i
              /\ h[j].id = h[i].row.of /\ h[j].row.calls = table[h[i].row.of].calls
              /\ \A k \in DOMAIN h : j <= k /\ k < i => h[k].row.by # NoOne
        BY <2>3 DEF HasCalls
      <3>2. i \in Nat /\ new[j] = h[j] /\ j \in DOMAIN new
        BY <1>1, <1>3
      <3>3. \A k \in DOMAIN new : j <= k /\ k < i => new[k].row.by # NoOne
        BY <1>1, <2>1, <3>1, <3>2
      <3>4. QED
        BY <2>1, <3>1, <3>2, <3>3 DEF HasCalls
    <2>4. QED
      BY <2>1, <2>2, <2>3 DEF EntryFits
  <1>4. QED
    BY <1>1, <1>2, <1>3

\* An answer is added that has calls, and then their results.
LEMMA WholeAnswered ==
    ASSUME NEW table, NEW excused, NEW h \in Seq(Entries), NEW m \in Entries, NEW n \in Entries,
           Copied(table, m), Copied(table, n), m.row.role # "tool", n.row.role = "tool",
           n.row.of = m.id, n.row.calls \notin Called, m.row.by # NoOne,
           m.row.calls = table[m.id].calls,
           Whole(table, excused, h)
    PROVE  Whole(table, excused, h \o <<m, n>>)
  <1> DEFINE new == h \o <<m, n>>
             a == Len(h) + 1
             b == Len(h) + 2
  <1>1. /\ Len(h) \in Nat
        /\ DOMAIN new = DOMAIN h \cup {a, b}
        /\ \A i \in DOMAIN h : new[i] = h[i] /\ i \in Nat /\ i < a
        /\ new[a] = m /\ new[b] = n
    <2>1. Len(h) \in Nat /\ DOMAIN h = 1 .. Len(h) /\ Len(new) = Len(h) + 2
      OBVIOUS
    <2>2. DOMAIN new = 1 .. Len(h) + 2
      BY <2>1
    <2>3. 1 .. Len(h) + 2 = DOMAIN h \cup {a, b}
      BY <2>1
    <2>4. \A i \in DOMAIN h : new[i] = h[i] /\ i \in Nat /\ i < a
      BY <2>1
    <2>5. new[a] = m
      BY <2>1
    <2>6. new[b] = n
      BY <2>1
    <2>7. QED
      BY <2>1, <2>2, <2>3, <2>4, <2>5, <2>6
  <1> HIDE DEF new
  <1> SUFFICES ASSUME NEW i \in DOMAIN new PROVE EntryFits(table, excused, new, i)
    BY DEF Whole, new
  <1>2. CASE i = a
    <2>1. \A k \in DOMAIN new : ~(a < k /\ k < b)
      BY <1>1
    <2>2. HasResults(excused, new, a)
      BY <1>1, <2>1 DEF HasResults
    <2>3. QED
      BY <1>1, <1>2, <2>2 DEF EntryFits
  <1>3. CASE i = b
    <2>1. \A k \in DOMAIN new : a <= k /\ k < b => k = a
      BY <1>1
    <2>2. \A k \in DOMAIN new : a <= k /\ k < b => new[k].row.by # NoOne
      BY <1>1, <2>1
    <2>3. a < b /\ new[a].id = new[b].row.of /\ new[a].row.calls = table[new[b].row.of].calls
      BY <1>1
    <2>4. HasCalls(table, new, b)
      BY <1>1, <2>2, <2>3 DEF HasCalls
    <2>5. QED
      BY <1>1, <1>3, <2>4 DEF EntryFits
  <1>4. CASE i \in DOMAIN h
    <2>1. EntryFits(table, excused, h, i) /\ new[i] = h[i] /\ i < a
      BY <1>1, <1>4 DEF Whole
    <2>2. ASSUME HasResults(excused, h, i) PROVE HasResults(excused, new, i)
      <3>1. PICK j \in DOMAIN h :
              /\ i < j
              /\ h[j].row.role = "tool" /\ h[j].row.of = h[i].id
              /\ \A k \in DOMAIN h : i < k /\ k < j => h[k].row.by \in excused
        BY <2>2 DEF HasResults
      <3>2. j < a /\ j < b /\ j \in Nat /\ new[j] = h[j] /\ j \in DOMAIN new
        BY <1>1
      <3>3. \A k \in DOMAIN new : i < k /\ k < j => new[k].row.by \in excused
        BY <1>1, <3>1, <3>2
      <3>4. QED
        BY <2>1, <3>1, <3>2, <3>3 DEF HasResults
    <2>3. ASSUME HasCalls(table, h, i) PROVE HasCalls(table, new, i)
      <3>1. PICK j \in DOMAIN h :
              /\ j < i
              /\ h[j].id = h[i].row.of /\ h[j].row.calls = table[h[i].row.of].calls
              /\ \A k \in DOMAIN h : j <= k /\ k < i => h[k].row.by # NoOne
        BY <2>3 DEF HasCalls
      <3>2. i \in Nat /\ new[j] = h[j] /\ j \in DOMAIN new
        BY <1>1, <1>4
      <3>3. \A k \in DOMAIN new : j <= k /\ k < i => new[k].row.by # NoOne
        BY <1>1, <2>1, <3>1, <3>2
      <3>4. QED
        BY <2>1, <3>1, <3>2, <3>3 DEF HasCalls
    <2>4. QED
      BY <2>1, <2>2, <2>3 DEF EntryFits
  <1>5. QED
    BY <1>1, <1>2, <1>3, <1>4

\* What Cut makes of a history of numbered messages.
LEMMA CutShape ==
    ASSUME NEW h \in Seq(Entries), NEW s \in DOMAIN h,
           \A i \in DOMAIN h : h[i].id = i
    PROVE  LET new == Cut(h, s)
           IN  /\ new \in Seq(Entries)
               /\ Len(h) \in Nat /\ s \in Nat /\ 1 <= s
               /\ DOMAIN new = 1 .. Len(h) - s + 1
               /\ \A i \in 2 .. Len(h) - s + 1 : new[i] = h[i + s - 1] /\ i + s - 1 \in DOMAIN h
               /\ new[1] = [h[s] EXCEPT !.row.role = "user"]
  <1> DEFINE tail == SubSeq(h, s, Len(h))
             first == [h[s] EXCEPT !.row.role = "user"]
             new == [tail EXCEPT ![1].row.role = "user"]
  <1>1. Len(h) \in Nat /\ s \in Nat /\ 1 <= s /\ s <= Len(h) /\ DOMAIN h = 1 .. Len(h)
    OBVIOUS
  <1>2. tail \in Seq(Entries) /\ Len(tail) = Len(h) - s + 1
    BY <1>1
  <1>3. DOMAIN tail = 1 .. Len(h) - s + 1
    BY <1>1, <1>2
  <1>4. \A i \in 1 .. Len(h) - s + 1 : tail[i] = h[i + s - 1] /\ i + s - 1 \in DOMAIN h
    BY <1>1
  <1>5. 1 \in DOMAIN tail /\ tail[1] = h[s]
    BY <1>1, <1>3, <1>4
  <1>6. new = [tail EXCEPT ![1] = first]
    BY <1>5
  <1>7. h[s] \in Entries
    OBVIOUS
  <1>8. first \in Entries
    BY <1>7 DEF Entries, MessageRows
  <1> HIDE DEF first, tail
  <1>9. new \in Seq(Entries)
    <2>1. [tail EXCEPT ![1] = first] \in Seq(Entries)
      BY <1>2, <1>5, <1>8, ExceptType
    <2>2. QED
      BY <2>1, <1>6
  <1>10. DOMAIN new = DOMAIN tail /\ new[1] = first /\ \A i \in DOMAIN tail : i # 1 => new[i] = tail[i]
    BY <1>5, <1>6
  <1>11. \A i \in 2 .. Len(h) - s + 1 : new[i] = h[i + s - 1] /\ i + s - 1 \in DOMAIN h
    BY <1>1, <1>3, <1>4, <1>10
  <1>12. Cut(h, s) = new
    BY DEF Cut, tail
  <1>13. QED
    BY <1>1, <1>3, <1>9, <1>10, <1>11, <1>12 DEF first

LEMMA CutType ==
    ASSUME NEW h \in Seq(Entries), NEW s \in Nat, \A i \in DOMAIN h : h[i].id = i
    PROVE  Cut(h, s) \in Seq(Entries)
  <1>1. CASE s \in DOMAIN h
    BY <1>1, CutShape
  <1>2. CASE s \notin DOMAIN h
    BY <1>2 DEF Cut
  <1>3. QED
    BY <1>1, <1>2

LEMMA AsUser ==
    ASSUME NEW m \in Entries
    PROVE  LET n == [m EXCEPT !.row.role = "user"]
           IN  n.id = m.id /\ n.row.by = m.row.by /\ n.row.role = "user"
  BY DEF Entries, MessageRows

\* Calls and their results are on the same side of a summary.
LEMMA WholeCut ==
    ASSUME NEW table, NEW excused, NEW h \in Seq(Entries), NEW s \in Begun(table),
           \A i \in DOMAIN h : h[i].id = i,
           Whole(table, excused, h)
    PROVE  Cut(h, s) \in Seq(Entries) /\ Whole(table, excused, Cut(h, s))
  <1>1. CASE s \notin DOMAIN h
    BY <1>1 DEF Cut
  <1>2. CASE s \in DOMAIN h
    <2> DEFINE new == Cut(h, s)
               last == Len(h) - s + 1
    <2>1. /\ new \in Seq(Entries)
          /\ Len(h) \in Nat /\ s \in Nat /\ 1 <= s /\ s <= Len(h)
          /\ DOMAIN h = 1 .. Len(h) /\ DOMAIN new = 1 .. last
          /\ \A i \in 2 .. last : new[i] = h[i + s - 1] /\ i + s - 1 \in DOMAIN h
          /\ new[1] = [h[s] EXCEPT !.row.role = "user"]
      <3>1. Len(h) \in Nat /\ s \in Nat /\ 1 <= s /\ s <= Len(h) /\ DOMAIN h = 1 .. Len(h)
        BY <1>2
      <3>2. /\ new \in Seq(Entries)
            /\ DOMAIN new = 1 .. last
            /\ \A i \in 2 .. last : new[i] = h[i + s - 1] /\ i + s - 1 \in DOMAIN h
            /\ new[1] = [h[s] EXCEPT !.row.role = "user"]
        BY <1>2, CutShape
      <3>3. QED
        BY <3>1, <3>2
    <2> HIDE DEF new
    <2>2. EntryFits(table, excused, h, s)
      BY <1>2 DEF Whole
    <2>3. h[s].id = s /\ Copied(table, h[s])
      BY <1>2, <2>2 DEF EntryFits
    <2>4. s \in DOMAIN table /\ table[s].by = NoOne
      BY <2>1, <2>3 DEF Begun, Copied
    <2>5. h[s].row.by = NoOne
      BY <2>3, <2>4 DEF Copied
    <2>6. ASSUME NEW i \in DOMAIN new PROVE EntryFits(table, excused, new, i)
      <3>1. CASE i = 1
        <4>1. h[s] \in Entries
          BY <1>2
        <4>2. /\ new[1].id = s /\ new[1].row.by = NoOne
              /\ new[1].row.role = "user"
          BY <2>1, <2>3, <2>5, <4>1, AsUser
        <4>3. NoOne \notin Requests
          BY StoreAssumption DEF NoOne
        <4>4. QED
          BY <2>4, <3>1, <4>2, <4>3 DEF EntryFits, Copied
      <3>2. CASE i # 1
        <4> DEFINE o == i + s - 1
        <4>1. /\ i \in 2 .. last /\ new[i] = h[o] /\ o \in DOMAIN h
              /\ s < o /\ i \in Nat
          BY <2>1, <3>2
        <4>2. EntryFits(table, excused, h, o)
          BY <4>1 DEF Whole
        <4>3. ASSUME HasResults(excused, h, o) PROVE HasResults(excused, new, i)
          <5>1. PICK j \in DOMAIN h :
                  /\ o < j
                  /\ h[j].row.role = "tool" /\ h[j].row.of = h[o].id
                  /\ \A k \in DOMAIN h : o < k /\ k < j => h[k].row.by \in excused
            BY <4>3 DEF HasResults
          <5> DEFINE n == j - s + 1
          <5>2. n \in 2 .. last /\ n \in DOMAIN new /\ i < n /\ n + s - 1 = j
            BY <2>1, <4>1, <5>1
          <5>3. new[n] = h[j]
            BY <2>1, <5>2
          <5>4. ASSUME NEW k \in DOMAIN new, i < k, k < n PROVE new[k].row.by \in excused
            <6>1. k \in 2 .. last /\ o < k + s - 1 /\ k + s - 1 < j
              BY <2>1, <4>1, <5>1, <5>4
            <6>2. QED
              BY <2>1, <5>1, <6>1
          <5>5. QED
            BY <4>1, <5>1, <5>2, <5>3, <5>4 DEF HasResults
        <4>4. ASSUME HasCalls(table, h, o) PROVE HasCalls(table, new, i)
          <5>1. PICK j \in DOMAIN h :
                  /\ j < o
                  /\ h[j].id = h[o].row.of /\ h[j].row.calls = table[h[o].row.of].calls
                  /\ \A k \in DOMAIN h : j <= k /\ k < o => h[k].row.by # NoOne
            BY <4>4 DEF HasCalls
          <5> DEFINE n == j - s + 1
          <5>2. ~(j <= s)
            BY <1>2, <2>5, <4>1, <5>1
          <5>3. n \in 2 .. last /\ n \in DOMAIN new /\ n < i /\ n + s - 1 = j
            BY <2>1, <4>1, <5>1, <5>2
          <5>4. new[n] = h[j]
            BY <2>1, <5>3
          <5>5. ASSUME NEW k \in DOMAIN new, n <= k, k < i PROVE new[k].row.by # NoOne
            <6>1. k \in 2 .. last /\ j <= k + s - 1 /\ k + s - 1 < o
              BY <2>1, <4>1, <5>3, <5>5
            <6>2. QED
              BY <2>1, <5>1, <6>1
          <5>6. QED
            BY <4>1, <5>1, <5>3, <5>4, <5>5 DEF HasCalls
        <4>5. QED
          BY <4>1, <4>2, <4>3, <4>4 DEF EntryFits
      <3>3. QED
        BY <3>1, <3>2
    <2>7. QED
      BY <2>1, <2>6 DEF Whole, new
  <1>3. QED
    BY <1>1, <1>2

-----------------------------------------------------------------------------
(* What is sent. *)

\* The places of a history that a client sends, and what it makes of them.
Places(client, h) ==
    IF client \in {"anthropic", "gemini"} THEN FilledPlaces(h) ELSE DOMAIN h

LEMMA Converted ==
    ASSUME NEW client \in Clients, NEW h \in Seq(Entries)
    PROVE  LET ms == ConvertMessages(client, h)
           IN  /\ DOMAIN ms = Places(client, h)
               /\ \A i \in DOMAIN ms :
                   /\ i \in DOMAIN h
                   /\ ms[i].id = h[i].id /\ ms[i].row.role = h[i].row.role
                   /\ ms[i].row.of = h[i].row.of /\ ms[i].row.by = h[i].row.by
                   /\ ms[i].row.calls =
                        IF client = "anthropic" /\ h[i].row.calls = "broken" THEN "none"
                        ELSE h[i].row.calls
  <1>1. \A i \in DOMAIN h : h[i] \in Entries
    OBVIOUS
  <1>2. client \in {"anthropic", "openai", "copilot", "gemini"}
    BY StoreAssumption
  <1>3. CASE client = "anthropic"
    <2>1. ConvertMessages(client, h) = [i \in FilledPlaces(h) |-> AnthropicMessage(h[i])]
      BY <1>3 DEF ConvertMessages, AnthropicMessages
    <2>2. ASSUME NEW m \in Entries
          PROVE  LET n == AnthropicMessage(m)
                 IN  /\ n.id = m.id /\ n.row.role = m.row.role
                     /\ n.row.of = m.row.of /\ n.row.by = m.row.by
                     /\ n.row.calls = IF m.row.calls = "broken" THEN "none" ELSE m.row.calls
      BY DEF AnthropicMessage, Entries, MessageRows
    <2>3. QED
      BY <1>1, <1>3, <2>1, <2>2 DEF Places, FilledPlaces
  <1>4. CASE client = "gemini"
    BY <1>1, <1>4 DEF ConvertMessages, GeminiMessages, Places, FilledPlaces
  <1>5. CASE client = "openai"
    BY <1>1, <1>5 DEF ConvertMessages, OpenAIMessages, Places
  <1>6. CASE client = "copilot"
    BY <1>1, <1>6 DEF ConvertMessages, CopilotMessages, Places
  <1>7. QED
    BY <1>2, <1>3, <1>4, <1>5, <1>6

\* A whole history is a conversation for every client.
LEMMA WholeIsSound == StoreInv => ConversationIsSound
  <1> SUFFICES ASSUME StoreInv, NEW r \in Requests \ unguarded, NEW client \in Clients,
                      In(r, "send"),
                      NEW i \in DOMAIN ConvertMessages(client, hist[r]),
                      ~Excused(ConvertMessages(client, hist[r])[i])
               PROVE  LET ms == ConvertMessages(client, hist[r])
                      IN  /\ ms[i].row.calls \in Called =>
                               \E j \in DOMAIN ms :
                                   /\ i < j /\ ms[j].row.role = "tool" /\ ms[j].row.of = ms[i].id
                                   /\ \A k \in DOMAIN ms : i < k /\ k < j => Excused(ms[k])
                          /\ ms[i].row.role = "tool" =>
                               \/ \E j \in DOMAIN ms : /\ j < i /\ ms[j].id = ms[i].row.of
                                                       /\ ms[j].row.calls \in Called
                               \/ client = "anthropic" /\ messages[ms[i].row.of].calls = "broken"
    BY DEF ConversationIsSound
  <1> DEFINE h == hist[r]
             ms == ConvertMessages(client, h)
  <1>1. h \in Seq(Entries)
    BY DEF StoreInv, StoreTypes
  <1>2. Whole(messages, unguarded, h)
    BY DEF StoreInv, HistoriesFit, HistoryFits, In, Reading
  <1>3. /\ DOMAIN ms = Places(client, h)
        /\ \A j \in DOMAIN ms :
            /\ j \in DOMAIN h
            /\ ms[j].id = h[j].id /\ ms[j].row.role = h[j].row.role
            /\ ms[j].row.of = h[j].row.of /\ ms[j].row.by = h[j].row.by
            /\ ms[j].row.calls =
                 IF client = "anthropic" /\ h[j].row.calls = "broken" THEN "none"
                 ELSE h[j].row.calls
    BY <1>1, Converted
  <1>4. /\ messages \in Seq(MessageRows) /\ ResultsCalled(messages, unguarded, Coming)
    BY DEF StoreInv, StoreTypes, TableFits
  <1>5. ~Excused(ms[i]) /\ i \in DOMAIN ms
    OBVIOUS
  <1> HIDE DEF h, ms
  <1>6. i \in DOMAIN h /\ h[i].row.by \in Requests \ unguarded
    <2>1. i \in DOMAIN h /\ ms[i].row.by = h[i].row.by
      BY <1>3, <1>5
    <2>2. h[i] \in Entries
      BY <1>1, <2>1
    <2>3. QED
      BY <1>5, <2>1, <2>2 DEF Excused, Entries, MessageRows
  <1>7. EntryFits(messages, unguarded, h, i)
    BY <1>2, <1>6 DEF Whole
  <1>8. ASSUME NEW j \in DOMAIN h, h[j].row.calls # "empty" PROVE j \in DOMAIN ms
    BY <1>3, <1>8 DEF Places, FilledPlaces, Filled
  <1>9. ASSUME NEW j \in DOMAIN h, h[j].row.role = "tool"
        PROVE  /\ ResultFits(messages, unguarded, Coming, h[j].id)
               /\ messages[h[j].id] = h[j].row
    <2>1. EntryFits(messages, unguarded, h, j)
      BY <1>2 DEF Whole
    <2>2. h[j].id \in DOMAIN messages /\ messages[h[j].id] = h[j].row
      BY <1>9, <2>1 DEF EntryFits, Copied
    <2>3. QED
      BY <1>4, <2>2 DEF ResultsCalled
  <1>10. ASSUME ms[i].row.calls \in Called
         PROVE  \E j \in DOMAIN ms :
                    /\ i < j /\ ms[j].row.role = "tool" /\ ms[j].row.of = ms[i].id
                    /\ \A k \in DOMAIN ms : i < k /\ k < j => Excused(ms[k])
    <2>1. h[i].row.calls \in Called
      BY <1>3, <1>5, <1>10 DEF Called
    <2>2. PICK j \in DOMAIN h :
            /\ i < j
            /\ h[j].row.role = "tool" /\ h[j].row.of = h[i].id
            /\ \A k \in DOMAIN h : i < k /\ k < j => h[k].row.by \in unguarded
      BY <1>6, <1>7, <2>1 DEF EntryFits, HasResults
    <2>3. h[j].row.calls = "none"
      BY <1>9, <2>2 DEF ResultFits
    <2>4. j \in DOMAIN ms
      BY <1>8, <2>3
    <2>5. \A k \in DOMAIN ms : i < k /\ k < j => Excused(ms[k])
      BY <1>3, <2>2 DEF Excused
    <2>6. QED
      BY <1>3, <1>5, <2>2, <2>4, <2>5
  <1>11. ASSUME ms[i].row.role = "tool"
         PROVE  \/ \E j \in DOMAIN ms : /\ j < i /\ ms[j].id = ms[i].row.of
                                        /\ ms[j].row.calls \in Called
                \/ client = "anthropic" /\ messages[ms[i].row.of].calls = "broken"
    <2>1. h[i].row.role = "tool" /\ ms[i].row.of = h[i].row.of
      BY <1>3, <1>5, <1>11
    <2>2. PICK j \in DOMAIN h :
            /\ j < i
            /\ h[j].id = h[i].row.of /\ h[j].row.calls = messages[h[i].row.of].calls
      BY <1>6, <1>7, <2>1 DEF EntryFits, HasCalls
    <2>3. messages[h[i].row.of].calls \in Called
      BY <1>6, <1>9, <2>1 DEF ResultFits
    <2>4. j \in DOMAIN ms
      BY <1>8, <2>2, <2>3 DEF Called
    <2>5. CASE client = "anthropic" /\ h[j].row.calls = "broken"
      BY <2>1, <2>2, <2>5
    <2>6. CASE ~(client = "anthropic" /\ h[j].row.calls = "broken")
      <3>1. ms[j].row.calls = h[j].row.calls /\ ms[j].id = h[j].id
        BY <1>3, <2>4, <2>6
      <3>2. QED
        BY <2>1, <2>2, <2>3, <2>4, <3>1
    <2>7. QED
      BY <2>5, <2>6
  <1>12. QED
    BY <1>10, <1>11 DEF ms, h

-----------------------------------------------------------------------------
(* The steps: the types. *)

LEMMA NumberedType ==
    ASSUME NEW table \in Seq(MessageRows)
    PROVE  Numbered(table) \in Seq(Entries) /\ Len(Numbered(table)) = Len(table)
  <1>1. \A i \in DOMAIN table : table[i] \in MessageRows /\ i \in Nat
    BY RowType
  <1>2. \A i \in 1 .. Len(table) : [id |-> i, row |-> table[i]] \in Entries
    BY <1>1 DEF Entries
  <1>3. Numbered(table) = [i \in 1 .. Len(table) |-> [id |-> i, row |-> table[i]]]
    BY DEF Numbered
  <1>4. Len(table) \in Nat
    OBVIOUS
  <1>5. QED
    BY <1>2, <1>3, <1>4

LEMMA RowTypes ==
    ASSUME NEW r \in Requests, NEW i \in Nat
    PROVE  /\ User(r) \in MessageRows /\ Assistant(r) \in MessageRows
           /\ Summary \in MessageRows /\ Results(r, i) \in MessageRows
  BY DEF User, Assistant, Summary, Results, MessageRows

LEMMA StoredType ==
    ASSUME NEW table \in Seq(MessageRows), NEW a \in DOMAIN table,
           NEW calls \in {"none", "empty"} \cup Called
    PROVE  /\ [table EXCEPT ![a].calls = calls] \in Seq(MessageRows)
           /\ Len([table EXCEPT ![a].calls = calls]) = Len(table)
  <1> DEFINE m == [table[a] EXCEPT !.calls = calls]
  <1>1. m \in MessageRows
    <2>1. table[a] \in MessageRows
      OBVIOUS
    <2>2. QED
      BY <2>1 DEF MessageRows
  <1>2. [table EXCEPT ![a].calls = calls] = [table EXCEPT ![a] = m]
    OBVIOUS
  <1> HIDE DEF m
  <1>3. [table EXCEPT ![a] = m] \in Seq(MessageRows) /\ Len([table EXCEPT ![a] = m]) = Len(table)
    BY <1>1, ExceptType
  <1>4. QED
    BY <1>2, <1>3

RequestStep(r) ==
    \/ Begins(r) \/ Lists(r) \/ Opens(r) \/ Sends(r) \/ Delta(r) \/ Completes(r)
    \/ SavesUsage(r) \/ SubAgentReads(r) \/ SubAgentSaves(r) \/ ToolsEnd(r)
    \/ BreaksOff(r) \/ Ends(r)

OtherStep ==
    \/ Cancels \/ Titles \/ TitleFails
    \/ Summarizes \/ SummaryCreated \/ SummarySaved \/ SummaryFails
    \/ StoreCrash

\* The messages change in one of three ways, or not at all.
Adds(m) == Room /\ messages' = Append(messages, m)
AnswerStored(r) ==
    /\ stage[r] \in Streaming
    /\ \E calls \in {"none", "empty"} \cup Called :
           messages' = [messages EXCEPT ![answer[r]].calls = calls]

TableChange(r) ==
    \/ messages' = messages
    \/ Adds(User(r)) \/ Adds(Assistant(r)) \/ Adds(Results(r, answer[r]))
    \/ AnswerStored(r)

LEMMA RequestChanges ==
    ASSUME NEW r \in Requests, RequestStep(r)
    PROVE  TableChange(r)
  <1>1. CASE Begins(r) \/ Lists(r) \/ SavesUsage(r) \/ SubAgentReads(r) \/ SubAgentSaves(r)
             \/ BreaksOff(r) \/ Ends(r)
    BY <1>1 DEF Begins, Lists, SavesUsage, SubAgentReads, SubAgentSaves, BreaksOff, Ends, TableChange
  <1>2. CASE Opens(r) \/ Sends(r)
    BY <1>2 DEF Opens, Sends, TableChange, Adds
  <1>3. CASE Delta(r)
    BY <1>3 DEF Delta, Stores, In, TableChange, AnswerStored, Streaming, Called
  <1>4. CASE Completes(r)
    BY <1>4 DEF Completes, Stores, In, TableChange, AnswerStored, Streaming, Called
  <1>5. CASE ToolsEnd(r)
    BY <1>5 DEF ToolsEnd, TableChange, Adds
  <1>6. QED
    BY <1>1, <1>2, <1>3, <1>4, <1>5 DEF RequestStep

LEMMA OtherChanges ==
    ASSUME OtherStep
    PROVE  messages' = messages \/ Adds(Summary)
  BY DEF OtherStep, Cancels, Titles, TitleFails, Summarizes, SummaryCreated, SummarySaved,
         SummaryFails, StoreCrash, Adds

\* What is answered in the table.
LEMMA ComingFits ==
    ASSUME StoreInv, NEW r \in Requests, stage[r] \in Streaming
    PROVE  /\ answer[r] \in Coming /\ answer[r] \in DOMAIN messages
           /\ messages[answer[r]].by = r /\ messages[answer[r]].role = "assistant"
           /\ r \notin unguarded => Alone(messages, unguarded, answer[r], Len(messages) + 1)
           /\ \A q \in Requests : stage[q] \in Streaming /\ answer[q] = answer[r] => q = r
  <1>1. \A q \in Requests : stage[q] \in Streaming => messages[answer[q]].by = q
    BY DEF StoreInv, AnswersFit, AnswerFits
  <1>2. QED
    BY <1>1 DEF StoreInv, AnswersFit, AnswerFits, Coming

LEMMA TableTypes ==
    ASSUME StoreInv, StoreNext
    PROVE  messages' \in Seq(MessageRows) /\ Len(messages') <= MaxRows
  <1>1. messages \in Seq(MessageRows) /\ Len(messages) <= MaxRows /\ answer \in [Requests -> Nat]
    BY DEF StoreInv, StoreTypes
  <1>2. ASSUME NEW m \in MessageRows, Adds(m)
        PROVE  messages' \in Seq(MessageRows) /\ Len(messages') <= MaxRows
    <2>1. /\ messages' \in Seq(MessageRows) /\ Len(messages) \in Nat
          /\ Len(messages') = Len(messages) + 1
      BY <1>1, <1>2, Appended DEF Adds
    <2>2. QED
      BY <1>2, <2>1, StoreAssumption DEF Adds, Room
  <1>3. ASSUME NEW r \in Requests, AnswerStored(r)
        PROVE  messages' \in Seq(MessageRows) /\ Len(messages') <= MaxRows
    <2>1. answer[r] \in DOMAIN messages
      BY <1>3, ComingFits DEF AnswerStored
    <2>2. PICK calls \in {"none", "empty"} \cup Called :
              messages' = [messages EXCEPT ![answer[r]].calls = calls]
      BY <1>3 DEF AnswerStored
    <2>3. /\ [messages EXCEPT ![answer[r]].calls = calls] \in Seq(MessageRows)
          /\ Len([messages EXCEPT ![answer[r]].calls = calls]) = Len(messages)
      BY <1>1, <2>1, StoredType
    <2>4. QED
      BY <1>1, <2>2, <2>3
  <1>4. ASSUME NEW r \in Requests, RequestStep(r)
        PROVE  messages' \in Seq(MessageRows) /\ Len(messages') <= MaxRows
    <2>1. answer[r] \in Nat
      BY <1>1
    <2>2. /\ User(r) \in MessageRows /\ Assistant(r) \in MessageRows
          /\ Results(r, answer[r]) \in MessageRows
      BY <2>1, RowTypes
    <2>3. TableChange(r)
      BY <1>4, RequestChanges
    <2>4. QED
      BY <1>1, <1>2, <1>3, <2>2, <2>3 DEF TableChange
  <1>5. ASSUME OtherStep
        PROVE  messages' \in Seq(MessageRows) /\ Len(messages') <= MaxRows
    <2>1. Summary \in MessageRows
      BY DEF Summary, MessageRows
    <2>2. QED
      BY <1>1, <1>2, <1>5, <2>1, OtherChanges
  <1>6. QED
    BY <1>4, <1>5 DEF StoreNext, RequestStep, OtherStep

\* The history of a request: read by Opens, it is cut at the summary.
LEMMA OpensHistory ==
    ASSUME StoreInv, NEW r \in Requests \ unguarded, Opens(r)
    PROVE  /\ Cut(hist[r], session) \in Seq(Entries)
           /\ Whole(messages, unguarded, Cut(hist[r], session))
  <1>1. Whole(messages, unguarded, hist[r]) /\ \A i \in DOMAIN hist[r] : hist[r][i].id = i
    BY DEF StoreInv, HistoriesFit, HistoryFits, Listed, Opens, In, Reading
  <1>2. hist[r] \in Seq(Entries) /\ session \in Begun(messages) /\ session \in Nat
    BY DEF StoreInv, StoreTypes, SessionFits
  <1>3. Cut(hist[r], session) \in Seq(Entries)
    BY <1>1, <1>2, CutType
  <1>4. QED
    BY <1>1, <1>2, <1>3, WholeCut

LEMMA HistoryTypesNext ==
    ASSUME StoreInv, NEW r \in Requests, RequestStep(r)
    PROVE  hist' \in [Requests -> Seq(Entries)]
  <1> USE DEF StoreInv, StoreTypes
  <1>1. CASE Lists(r)
    <2>1. Numbered(messages) \in Seq(Entries)
      BY NumberedType
    <2>2. QED
      BY <1>1, <2>1 DEF Lists
  <1>2. CASE Opens(r)
    <2>1. Cut(hist[r], session) \in Seq(Entries)
      BY <1>2, CutType DEF Opens, In, HistoriesFit, Listed
    <2>2. [id |-> Len(messages) + 1, row |-> User(r)] \in Entries
      <3>1. Len(messages) + 1 \in Nat /\ User(r) \in MessageRows
        BY RowTypes, RowType
      <3>2. QED
        BY <3>1 DEF Entries
    <2>3. Append(Cut(hist[r], session), [id |-> Len(messages) + 1, row |-> User(r)]) \in Seq(Entries)
      BY <2>1, <2>2, Appended
    <2>4. QED
      BY <1>2, <2>3 DEF Opens
  <1>3. CASE ToolsEnd(r)
    <2> DEFINE m == [id |-> answer[r], row |-> messages[answer[r]]]
               n == [id |-> Len(messages) + 1, row |-> Results(r, answer[r])]
    <2>1. answer[r] \in DOMAIN messages
      BY <1>3, ComingFits DEF ToolsEnd, In, Streaming
    <2>2. /\ answer[r] \in Nat /\ Len(messages) + 1 \in Nat
          /\ messages[answer[r]] \in MessageRows
          /\ Results(r, answer[r]) \in MessageRows
      BY <2>1, RowType, RowTypes
    <2>3. m \in Entries /\ n \in Entries
      BY <2>2 DEF Entries
    <2>4. \/ hist' = hist
          \/ hist' = [hist EXCEPT ![r] = <<>>]
          \/ hist' = [hist EXCEPT ![r] = @ \o <<m, n>>]
      BY <1>3 DEF ToolsEnd
    <2> HIDE DEF m, n
    <2>5. hist[r] \o <<m, n>> \in Seq(Entries)
      <3>1. hist[r] \in Seq(Entries)
        OBVIOUS
      <3>2. <<m, n>> \in Seq(Entries)
        BY <2>3
      <3>3. QED
        BY <3>1, <3>2
    <2>6. <<>> \in Seq(Entries)
      OBVIOUS
    <2>7. QED
      BY <2>4, <2>5, <2>6
  <1>4. CASE BreaksOff(r)
    BY <1>4 DEF BreaksOff
  <1>5. CASE Begins(r) \/ Sends(r) \/ Delta(r) \/ Completes(r) \/ SavesUsage(r)
             \/ SubAgentReads(r) \/ SubAgentSaves(r) \/ Ends(r)
    BY <1>5 DEF Begins, Sends, Delta, Completes, SavesUsage, SubAgentReads, SubAgentSaves, Ends
  <1>6. QED
    BY <1>1, <1>2, <1>3, <1>4, <1>5 DEF RequestStep

LEMMA StagesNext ==
    ASSUME StoreInv, NEW r \in Requests, RequestStep(r)
    PROVE  stage' \in [Requests -> StoreStages]
  BY DEF StoreInv, StoreTypes, RequestStep, Goes, StoreStages, Reading, Streaming, Begins, Lists,
         Opens, Sends, Delta, Completes, SavesUsage, SubAgentReads, SubAgentSaves, ToolsEnd,
         BreaksOff, Ends

LEMMA AnswersNext ==
    ASSUME StoreInv, NEW r \in Requests, RequestStep(r)
    PROVE  answer' \in [Requests -> Nat]
  <1>1. answer \in [Requests -> Nat] /\ Len(messages) + 1 \in Nat
    BY DEF StoreInv, StoreTypes
  <1>2. QED
    BY <1>1 DEF RequestStep, Begins, Lists, Opens, Sends, Delta, Completes, SavesUsage,
                SubAgentReads, SubAgentSaves, ToolsEnd, BreaksOff, Ends

LEMMA OwnersNext ==
    ASSUME StoreInv, NEW r \in Requests, RequestStep(r)
    PROVE  /\ owner' \in Requests \cup {NoOne} /\ unguarded' \subseteq Requests
           /\ unguarded \subseteq unguarded' /\ summing' = summing
  BY DEF StoreInv, StoreTypes, RequestStep, Begins, Lists, Opens, Sends, Delta, Completes,
         SavesUsage, SubAgentReads, SubAgentSaves, ToolsEnd, BreaksOff, Ends

-----------------------------------------------------------------------------
(* The steps: the session and its owner. *)

\* What a step leaves of the table: only answers that come in change, and
\* only in their calls.
LEMMA TableKept ==
    ASSUME StoreInv, StoreNext
    PROVE  /\ DOMAIN messages \subseteq DOMAIN messages'
           /\ \A i \in DOMAIN messages :
               /\ messages'[i].by = messages[i].by
               /\ messages[i].role = "tool" => messages'[i] = messages[i]
               /\ i \notin Coming => messages'[i].calls = messages[i].calls
               /\ messages'[i] = Summary <=> messages[i] = Summary
  <1> DEFINE Keeps ==
               /\ DOMAIN messages \subseteq DOMAIN messages'
               /\ \A i \in DOMAIN messages :
                   /\ messages'[i].by = messages[i].by
                   /\ messages[i].role = "tool" => messages'[i] = messages[i]
                   /\ i \notin Coming => messages'[i].calls = messages[i].calls
                   /\ messages'[i] = Summary <=> messages[i] = Summary
  <1>1. messages \in Seq(MessageRows) /\ answer \in [Requests -> Nat]
    BY DEF StoreInv, StoreTypes
  <1>2. messages' = messages => Keeps
    OBVIOUS
  <1>3. ASSUME NEW m \in MessageRows, Adds(m) PROVE Keeps
    <2>1. /\ DOMAIN messages' = DOMAIN messages \cup {Len(messages) + 1}
          /\ \A i \in DOMAIN messages : messages'[i] = messages[i]
      BY <1>1, <1>3, Appended DEF Adds
    <2>2. QED
      BY <2>1
  <1>4. ASSUME NEW r \in Requests, AnswerStored(r) PROVE Keeps
    <2> DEFINE a == answer[r]
    <2>1. /\ a \in Coming /\ a \in DOMAIN messages
          /\ messages[a].by = r /\ messages[a].role = "assistant"
      BY <1>4, ComingFits DEF AnswerStored
    <2>2. PICK calls \in {"none", "empty"} \cup Called :
              messages' = [messages EXCEPT ![a].calls = calls]
      BY <1>4 DEF AnswerStored
    <2>3. messages[a] \in MessageRows
      BY <1>1, <2>1, RowType
    <2>4. /\ DOMAIN messages' = DOMAIN messages
          /\ \A i \in DOMAIN messages : i # a => messages'[i] = messages[i]
          /\ messages'[a].by = r
      BY <1>1, <2>1, <2>2, <2>3 DEF MessageRows
    <2>5. messages'[a] # Summary /\ messages[a] # Summary
      BY <2>1, <2>4, StoreAssumption DEF Summary, NoOne
    <2>6. QED
      BY <2>1, <2>4, <2>5
  <1>5. ASSUME NEW r \in Requests, RequestStep(r) PROVE Keeps
    <2>1. answer[r] \in Nat
      BY <1>1
    <2>2. /\ User(r) \in MessageRows /\ Assistant(r) \in MessageRows
          /\ Results(r, answer[r]) \in MessageRows
      BY <2>1, RowTypes
    <2>3. TableChange(r)
      BY <1>5, RequestChanges
    <2>4. QED
      BY <1>2, <1>3, <1>4, <2>2, <2>3 DEF TableChange
  <1>6. ASSUME OtherStep PROVE Keeps
    <2>1. Summary \in MessageRows
      BY DEF Summary, MessageRows
    <2>2. QED
      BY <1>2, <1>3, <1>6, <2>1, OtherChanges
  <1>7. QED
    BY <1>5, <1>6 DEF StoreNext, RequestStep, OtherStep

\* A request adds none but its own messages.
LEMMA TableAdded ==
    ASSUME StoreInv, NEW r \in Requests, RequestStep(r)
    PROVE  \A i \in DOMAIN messages' \ DOMAIN messages : messages'[i].by = r
  <1>1. messages \in Seq(MessageRows) /\ answer \in [Requests -> Nat]
    BY DEF StoreInv, StoreTypes
  <1>2. ASSUME NEW m \in MessageRows, m.by = r, Adds(m)
        PROVE  \A i \in DOMAIN messages' \ DOMAIN messages : messages'[i].by = r
    <2>1. /\ DOMAIN messages' = DOMAIN messages \cup {Len(messages) + 1}
          /\ messages'[Len(messages) + 1] = m
      BY <1>1, <1>2, Appended DEF Adds
    <2>2. QED
      BY <1>2, <2>1
  <1>3. answer[r] \in Nat
    BY <1>1
  <1>4. /\ User(r) \in MessageRows /\ Assistant(r) \in MessageRows
        /\ Results(r, answer[r]) \in MessageRows
    BY <1>3, RowTypes
  <1>5. User(r).by = r /\ Assistant(r).by = r /\ Results(r, answer[r]).by = r
    BY DEF User, Assistant, Results
  <1>6. AnswerStored(r) => DOMAIN messages' = DOMAIN messages
    BY DEF AnswerStored
  <1>7. QED
    BY <1>2, <1>4, <1>5, <1>6, RequestChanges DEF TableChange

LEMMA BegunGrows ==
    ASSUME StoreInv, StoreNext
    PROVE  Begun(messages) \subseteq Begun(messages')
  BY TableKept DEF Begun

LEMMA LastSummaryKept ==
    ASSUME StoreInv, StoreNext, \A i \in DOMAIN messages' \ DOMAIN messages : messages'[i] # Summary,
           \E i \in DOMAIN messages : LastSummary(messages, i)
    PROVE  \E i \in DOMAIN messages' : LastSummary(messages', i)
  <1>1. PICK i \in DOMAIN messages : LastSummary(messages, i)
    OBVIOUS
  <1>2. i \in DOMAIN messages' /\ LastSummary(messages', i)
    BY <1>1, TableKept DEF LastSummary
  <1>3. QED
    BY <1>2

LEMMA SessionNextRequest ==
    ASSUME StoreInv, NEW r \in Requests, RequestStep(r)
    PROVE  SessionFits' /\ session' \in Nat /\ read' \in [Requests \cup {"title", "summary"} -> Nat]
  <1> DEFINE Writers == Requests \cup {"title", "summary"}
  <1>0. StoreNext
    BY DEF StoreNext, RequestStep
  <1>1. /\ session \in Begun(messages) /\ session \in Nat
        /\ \A w \in Writers : read[w] \in Begun(messages) \cup {Unread}
        /\ \A q \in Requests : In(q, "usage") => read[q] \in Begun(messages)
        /\ read \in [Writers -> Nat] /\ stage \in [Requests -> StoreStages]
        /\ summing = "created" => \E i \in DOMAIN messages : LastSummary(messages, i)
    BY DEF StoreInv, StoreTypes, SessionFits
  <1>2. Unread \in Nat /\ r \in Writers /\ "title" \in Writers
    BY StoreAssumption DEF Unread
  <1>3. /\ session' \in {session} \cup {read[w] : w \in {q \in {r} : read[q] # Unread \/ In(q, "usage")}}
        /\ \/ read' = read
           \/ \E w \in Writers : Reads(w)
           \/ \E w \in Writers : Forgets(w)
    BY <1>2 DEF RequestStep, Begins, Lists, Opens, Sends, Delta, Completes, SavesUsage,
            SubAgentReads, SubAgentSaves, ToolsEnd, BreaksOff, Ends
  <1>4. session' \in Begun(messages) /\ session' \in Nat
    BY <1>1, <1>2, <1>3
  <1>5. \A w \in Writers : read'[w] \in Begun(messages) \cup {Unread}
    BY <1>1, <1>3 DEF Reads, Forgets
  <1>6. read' \in [Writers -> Nat]
    BY <1>1, <1>2, <1>3 DEF Reads, Forgets
  <1>7. ASSUME NEW q \in Requests, stage'[q] = "usage" PROVE read'[q] \in Begun(messages)
    <2>1. CASE Completes(r) /\ q = r
      BY <1>1, <2>1 DEF Completes, Reads
    <2>2. CASE ~(Completes(r) /\ q = r)
      <3>1. stage[q] = "usage" /\ ~(q = r /\ (SavesUsage(r) \/ BreaksOff(r)))
        BY <1>1, <1>7, <2>2 DEF RequestStep, Begins, Lists, Opens, Sends, Delta, Completes, SavesUsage,
           SubAgentReads, SubAgentSaves, ToolsEnd, BreaksOff, Ends, Goes, In
      <3>2. "title" # q
        BY StoreAssumption
      <3>3. read'[q] = read[q]
        BY <1>1, <3>1, <3>2 DEF RequestStep, Begins, Lists, Opens, Sends, Delta, Completes, SavesUsage,
           SubAgentReads, SubAgentSaves, ToolsEnd, BreaksOff, Ends, Goes, In, Reads, Forgets
      <3>4. QED
        BY <1>1, <3>1, <3>3 DEF In
    <2>3. QED
      BY <2>1, <2>2
  <1>8. summing' = "created" => \E i \in DOMAIN messages' : LastSummary(messages', i)
    <2>1. summing' = summing
      BY OwnersNext
    <2>2. \A i \in DOMAIN messages' \ DOMAIN messages : messages'[i] # Summary
      BY TableAdded, StoreAssumption DEF Summary, NoOne
    <2>3. QED
      BY <1>0, <1>1, <2>1, <2>2, LastSummaryKept
  <1>9. Begun(messages) \subseteq Begun(messages')
    BY <1>0, BegunGrows
  <1>10. QED
    BY <1>4, <1>5, <1>6, <1>7, <1>8, <1>9 DEF SessionFits, In, Unread

\* The last of the summaries.
LEMMA MaxSummary ==
    ASSUME NEW table \in Seq(MessageRows), NEW i \in DOMAIN table, LastSummary(table, i)
    PROVE  Max({k \in DOMAIN table : table[k] = Summary}) = i
  <1> DEFINE S == {k \in DOMAIN table : table[k] = Summary}
  <1>1. i \in S /\ \A k \in S : k <= i
    BY DEF LastSummary
  <1>2. \A k \in S : k \in Nat
    BY RowType
  <1>3. \A x \in S : (\A k \in S : k <= x) => x = i
    BY <1>1, <1>2
  <1> HIDE DEF S
  <1>4. Max(S) \in S /\ \A k \in S : k <= Max(S)
    BY <1>1 DEF Max
  <1>5. QED
    BY <1>3, <1>4 DEF S

LEMMA SessionNextOther ==
    ASSUME StoreInv, OtherStep
    PROVE  SessionFits' /\ session' \in Nat /\ read' \in [Requests \cup {"title", "summary"} -> Nat]
  <1> DEFINE Writers == Requests \cup {"title", "summary"}
  <1>0. StoreNext
    BY DEF StoreNext, OtherStep
  <1>1. /\ session \in Begun(messages) /\ session \in Nat
        /\ \A w \in Writers : read[w] \in Begun(messages) \cup {Unread}
        /\ \A q \in Requests : In(q, "usage") => read[q] \in Begun(messages)
        /\ read \in [Writers -> Nat] /\ stage \in [Requests -> StoreStages]
        /\ summing = "created" => \E i \in DOMAIN messages : LastSummary(messages, i)
        /\ messages \in Seq(MessageRows)
    BY DEF StoreInv, StoreTypes, SessionFits
  <1>2. Unread \in Nat /\ "title" \in Writers /\ "summary" \in Writers
    BY StoreAssumption DEF Unread
  <1>3. session' \in Begun(messages) /\ session' \in Nat
    <2>1. CASE SummarySaved
      <3>1. PICK i \in DOMAIN messages : LastSummary(messages, i)
        BY <1>1, <2>1 DEF SummarySaved
      <3>2. session' = i
        BY <1>1, <2>1, <3>1, MaxSummary DEF SummarySaved
      <3>3. messages[i].by = NoOne /\ i \in Nat
        BY <1>1, <3>1, RowType DEF LastSummary, Summary
      <3>4. QED
        BY <3>2, <3>3 DEF Begun
    <2>2. CASE Titles
      BY <1>1, <1>2, <2>2 DEF Titles
    <2>3. CASE session' = session
      BY <1>1, <2>3
    <2>4. QED
      BY <2>1, <2>2, <2>3 DEF OtherStep, Cancels, TitleFails, Summarizes, SummaryCreated,
                               SummaryFails, StoreCrash
  <1>4. \/ read' = read
        \/ Reads("summary") \/ Forgets("title") \/ Forgets("summary")
        \/ StoreCrash /\ read' = [w \in DOMAIN read |-> Unread]
    BY DEF OtherStep, Cancels, Titles, TitleFails, Summarizes, SummaryCreated, SummarySaved,
           SummaryFails, StoreCrash
  <1>5. /\ \A w \in Writers : read'[w] \in Begun(messages) \cup {Unread}
        /\ read' \in [Writers -> Nat]
    BY <1>1, <1>2, <1>4 DEF Reads, Forgets
  <1>6. ASSUME NEW q \in Requests, stage'[q] = "usage" PROVE read'[q] \in Begun(messages)
    <2>1. stage' = stage /\ ~StoreCrash
      BY <1>1, <1>6 DEF OtherStep, Cancels, Titles, TitleFails, Summarizes, SummaryCreated,
                        SummarySaved, SummaryFails, StoreCrash, Live
    <2>2. q # "title" /\ q # "summary"
      BY StoreAssumption
    <2>3. read'[q] = read[q]
      BY <1>1, <1>4, <2>1, <2>2 DEF Reads, Forgets
    <2>4. QED
      BY <1>1, <1>6, <2>1, <2>3 DEF In
  <1>7. summing' = "created" => \E i \in DOMAIN messages' : LastSummary(messages', i)
    <2>1. CASE SummaryCreated
      <3>1. Summary \in MessageRows
        BY DEF Summary, MessageRows
      <3>2. /\ DOMAIN messages' = DOMAIN messages \cup {Len(messages) + 1}
            /\ messages'[Len(messages) + 1] = Summary
            /\ \A k \in DOMAIN messages : k \in Nat /\ k < Len(messages) + 1
            /\ Len(messages) \in Nat
        BY <1>1, <2>1, <3>1, Appended DEF SummaryCreated
      <3>3. LastSummary(messages', Len(messages) + 1)
        BY <3>2 DEF LastSummary
      <3>4. QED
        BY <3>2, <3>3
    <2>2. CASE ~SummaryCreated
      <3>1. messages' = messages /\ (summing' = "created" => summing = "created")
        BY <2>2 DEF OtherStep, Cancels, Titles, TitleFails, Summarizes, SummarySaved,
                    SummaryFails, StoreCrash
      <3>2. QED
        BY <1>1, <3>1
    <2>3. QED
      BY <2>1, <2>2
  <1>8. Begun(messages) \subseteq Begun(messages')
    BY <1>0, BegunGrows
  <1>9. QED
    BY <1>3, <1>5, <1>6, <1>7, <1>8 DEF SessionFits, In, Unread

LEMMA TypesNext == StoreInv /\ StoreNext => StoreTypes'
  <1> SUFFICES ASSUME StoreInv, StoreNext PROVE StoreTypes'
    OBVIOUS
  <1>1. messages' \in Seq(MessageRows) /\ Len(messages') <= MaxRows
    BY TableTypes
  <1>2. ASSUME NEW r \in Requests, RequestStep(r) PROVE StoreTypes'
    <2>1. session' \in Nat /\ read' \in [Requests \cup {"title", "summary"} -> Nat]
      BY <1>2, SessionNextRequest
    <2>2. hist' \in [Requests -> Seq(Entries)]
      BY <1>2, HistoryTypesNext
    <2>3. stage' \in [Requests -> StoreStages] /\ answer' \in [Requests -> Nat]
      BY <1>2, StagesNext, AnswersNext
    <2>4. /\ owner' \in Requests \cup {NoOne} /\ unguarded' \subseteq Requests
          /\ summing' \in {"idle", "asked", "created"}
      BY <1>2, OwnersNext DEF StoreInv, StoreTypes
    <2>5. QED
      BY <1>1, <2>1, <2>2, <2>3, <2>4 DEF StoreTypes
  <1>3. ASSUME OtherStep PROVE StoreTypes'
    <2>1. session' \in Nat /\ read' \in [Requests \cup {"title", "summary"} -> Nat]
      BY <1>3, SessionNextOther
    <2>2. /\ hist' \in [Requests -> Seq(Entries)] /\ answer' \in [Requests -> Nat]
          /\ stage' \in [Requests -> StoreStages]
      <3>1. /\ hist \in [Requests -> Seq(Entries)] /\ answer \in [Requests -> Nat]
            /\ stage \in [Requests -> StoreStages]
            /\ <<>> \in Seq(Entries) /\ "ended" \in StoreStages
        BY DEF StoreInv, StoreTypes, StoreStages
      <3>2. CASE StoreCrash
        BY <3>1, <3>2 DEF StoreCrash
      <3>3. CASE ~StoreCrash
        BY <1>3, <3>1, <3>3 DEF OtherStep, Cancels, Titles, TitleFails, Summarizes,
                                SummaryCreated, SummarySaved, SummaryFails
      <3>4. QED
        BY <3>2, <3>3
    <2>3. /\ owner' \in Requests \cup {NoOne} /\ unguarded' \subseteq Requests
          /\ summing' \in {"idle", "asked", "created"}
      BY <1>3 DEF StoreInv, StoreTypes, OtherStep, Cancels, Titles, TitleFails, Summarizes,
                  SummaryCreated, SummarySaved, SummaryFails, StoreCrash
    <2>4. QED
      BY <1>1, <2>1, <2>2, <2>3 DEF StoreTypes
  <1>4. QED
    BY <1>2, <1>3 DEF StoreNext, RequestStep, OtherStep

\* A request that is not excused has the session for itself.
LEMMA OwnsNext == StoreInv /\ StoreNext => OwnsAlone'
  <1> SUFFICES ASSUME StoreInv, StoreNext,
                      NEW q \in Requests, q \notin unguarded', stage'[q] \notin {"idle", "ended"}
               PROVE  owner' = q /\ summing' = "idle"
    BY DEF OwnsAlone, Live
  <1>1. /\ \A r \in Requests \ unguarded :
              stage[r] \notin {"idle", "ended"} => owner = r /\ summing = "idle"
        /\ stage \in [Requests -> StoreStages] /\ owner \in Requests \cup {NoOne}
        /\ NoOne \notin Requests /\ summing \in {"idle", "asked", "created"}
    BY StoreAssumption DEF StoreInv, StoreTypes, OwnsAlone, Live, NoOne
  <1>2. ASSUME NEW r \in Requests, RequestStep(r) PROVE owner' = q /\ summing' = "idle"
    <2>1. CASE Begins(r)
      BY <1>1, <2>1 DEF Begins, Goes, In
    <2>2. CASE Ends(r)
      BY <1>1, <2>2 DEF Ends, Goes, In
    <2>3. CASE ~Begins(r) /\ ~Ends(r)
      <3>1. /\ owner' = owner /\ summing' = summing /\ unguarded \subseteq unguarded'
            /\ stage[r] \notin {"idle", "ended"} /\ \A x \in Requests : x # r => stage'[x] = stage[x]
        BY <1>1, <1>2, <2>3 DEF RequestStep, Lists, Opens, Sends, Delta, Completes, SavesUsage,
           SubAgentReads, SubAgentSaves, ToolsEnd, BreaksOff, Goes, In
      <3>2. QED
        BY <1>1, <3>1
    <2>4. QED
      BY <2>1, <2>2, <2>3
  <1>3. ASSUME OtherStep PROVE owner' = q /\ summing' = "idle"
    <2>1. CASE Cancels
      BY <1>1, <2>1 DEF Cancels
    <2>2. CASE Summarizes
      BY <1>1, <2>2 DEF Summarizes
    <2>3. CASE StoreCrash
      BY <1>1, <2>3 DEF StoreCrash, Live
    <2>4. CASE Titles \/ TitleFails \/ SummaryCreated \/ SummarySaved \/ SummaryFails
      BY <1>1, <2>4 DEF Titles, TitleFails, SummaryCreated, SummarySaved, SummaryFails
    <2>5. QED
      BY <1>3, <2>1, <2>2, <2>3, <2>4 DEF OtherStep
  <1>4. QED
    BY <1>2, <1>3 DEF StoreNext, RequestStep, OtherStep

-----------------------------------------------------------------------------
(* The steps: the table. *)

\* Answers that come in, before and after a step.
LEMMA ComingNext ==
    ASSUME StoreInv, NEW r \in Requests, RequestStep(r)
    PROVE  /\ Sends(r) => Coming' = Coming \cup {Len(messages) + 1}
           /\ ToolsEnd(r) => Coming' = Coming \ {answer[r]}
           /\ BreaksOff(r) => /\ Coming' \subseteq Coming
                              /\ \A i \in Coming \ Coming' : i = answer[r] /\ stage[r] \in Streaming
           /\ ~Sends(r) /\ ~ToolsEnd(r) /\ ~BreaksOff(r) => Coming' = Coming
           /\ \A q \in Requests \ {r} : stage'[q] = stage[q] /\ answer'[q] = answer[q]
           /\ ~Sends(r) /\ stage'[r] \in Streaming => stage[r] \in Streaming /\ answer'[r] = answer[r]
  <1>1. stage \in [Requests -> StoreStages] /\ answer \in [Requests -> Nat]
    BY DEF StoreInv, StoreTypes
  <1>2. \A q \in Requests \ {r} : stage'[q] = stage[q] /\ answer'[q] = answer[q]
    BY <1>1 DEF RequestStep, Begins, Lists, Opens, Sends, Delta, Completes, SavesUsage,
                SubAgentReads, SubAgentSaves, ToolsEnd, BreaksOff, Ends, Goes
  <1>3. CASE Sends(r)
    <2>1. /\ stage[r] \notin Streaming /\ stage'[r] \in Streaming
          /\ answer'[r] = Len(messages) + 1
      BY <1>1, <1>3 DEF Sends, Goes, In, Streaming
    <2>2. Coming' = Coming \cup {Len(messages) + 1}
      BY <1>2, <2>1 DEF Coming
    <2>3. ~BreaksOff(r)
      BY <1>1, <1>3 DEF Sends, BreaksOff, Goes
    <2>4. ~ToolsEnd(r)
      BY <1>3 DEF Sends, ToolsEnd, In
    <2>5. QED
      BY <1>2, <1>3, <2>2, <2>3, <2>4
  <1>4. CASE ToolsEnd(r)
    <2>1. stage[r] \in Streaming /\ stage'[r] \notin Streaming
      BY <1>1, <1>4 DEF ToolsEnd, Goes, In, Streaming
    <2>2. \A q \in Requests : stage[q] \in Streaming /\ answer[q] = answer[r] => q = r
      BY <2>1, ComingFits
    <2>3. Coming' = Coming \ {answer[r]}
      BY <1>2, <2>1, <2>2 DEF Coming
    <2>4. ~Sends(r) /\ ~BreaksOff(r)
      BY <1>4 DEF Sends, ToolsEnd, BreaksOff, In
    <2>5. QED
      BY <1>2, <1>4, <2>1, <2>3, <2>4
  <1>5. CASE BreaksOff(r)
    <2>1. stage'[r] \notin Streaming
      BY <1>1, <1>5 DEF BreaksOff, Goes, Streaming
    <2>2. /\ Coming' \subseteq Coming
          /\ \A i \in Coming \ Coming' : i = answer[r] /\ stage[r] \in Streaming
      BY <1>2, <2>1 DEF Coming
    <2>3. ~Sends(r) /\ ~ToolsEnd(r)
      BY <1>1, <1>5 DEF Sends, ToolsEnd, BreaksOff, Goes, In
    <2>4. QED
      BY <1>2, <1>5, <2>1, <2>2, <2>3
  <1>6. CASE ~Sends(r) /\ ~ToolsEnd(r) /\ ~BreaksOff(r)
    <2>1. /\ stage'[r] \in Streaming <=> stage[r] \in Streaming
          /\ stage[r] \in Streaming => answer'[r] = answer[r]
      BY <1>1, <1>6 DEF RequestStep, Begins, Lists, Opens, Delta, Completes, SavesUsage,
           SubAgentReads, SubAgentSaves, Ends, Goes, In, Streaming
    <2>2. Coming' = Coming
      BY <1>2, <2>1 DEF Coming
    <2>3. QED
      BY <1>2, <1>6, <2>1, <2>2
  <1>7. QED
    BY <1>3, <1>4, <1>5, <1>6

LEMMA ComingNextOther ==
    ASSUME StoreInv, OtherStep
    PROVE  /\ \/ Coming' = Coming /\ stage' = stage /\ answer' = answer
              \/ /\ Coming' = {} /\ messages' = messages
                 /\ \A i \in Coming : messages[i].by \in unguarded'
                 /\ \A r \in Requests : stage'[r] \notin Streaming \cup Reading
           /\ unguarded \subseteq unguarded' /\ unguarded' \subseteq Requests
           /\ hist' = hist \/ \A r \in Requests : stage'[r] \notin Streaming \cup Reading
  <1>1. stage \in [Requests -> StoreStages] /\ unguarded \subseteq Requests
        /\ owner \in Requests \cup {NoOne}
    BY DEF StoreInv, StoreTypes
  <1>2. CASE StoreCrash
    <2>1. \A r \in Requests : stage'[r] \notin Streaming \cup Reading
      BY <1>1, <1>2 DEF StoreCrash, Live, Streaming, Reading
    <2>2. Coming' = {}
      BY <2>1 DEF Coming
    <2>3. \A r \in Requests : stage[r] \in Streaming => messages[answer[r]].by = r /\ r \in unguarded'
      BY <1>2, ComingFits DEF StoreCrash, Live, Streaming
    <2>4. \A i \in Coming : messages[i].by \in unguarded'
      BY <2>3 DEF Coming
    <2>5. /\ messages' = messages
          /\ unguarded \subseteq unguarded' /\ unguarded' \subseteq Requests
      BY <1>1, <1>2 DEF StoreCrash
    <2>6. QED
      BY <2>1, <2>2, <2>4, <2>5
  <1>3. CASE ~StoreCrash
    <2>1. stage' = stage /\ answer' = answer /\ hist' = hist
      BY <1>3 DEF OtherStep, Cancels, Titles, TitleFails, Summarizes, SummaryCreated,
                  SummarySaved, SummaryFails
    <2>2. Coming' = Coming
      BY <2>1 DEF Coming
    <2>3. unguarded \subseteq unguarded' /\ unguarded' \subseteq Requests
      BY <1>1, <1>3 DEF OtherStep, Cancels, Titles, TitleFails, Summarizes, SummaryCreated,
                  SummarySaved, SummaryFails
    <2>4. QED
      BY <2>1, <2>2, <2>3
  <1>4. QED
    BY <1>2, <1>3

LEMMA TableNextRequest ==
    ASSUME StoreInv, NEW r \in Requests, RequestStep(r)
    PROVE  TableFits'
  <1>1. /\ messages \in Seq(MessageRows) /\ answer \in [Requests -> Nat]
        /\ CallsAnswered(messages, unguarded, Coming)
        /\ ResultsCalled(messages, unguarded, Coming)
        /\ Len(messages) \in Nat
    BY DEF StoreInv, StoreTypes, TableFits
  <1>2. unguarded \subseteq unguarded'
    BY OwnersNext
  <1>3. SUFFICES CallsAnswered(messages', unguarded', Coming') /\ ResultsCalled(messages', unguarded', Coming')
    BY DEF TableFits
  <1>4. User(r) \in MessageRows /\ Assistant(r) \in MessageRows
    BY <1>1, RowTypes
  <1>5. CASE Opens(r)
    <2>1. Coming' = Coming
      <3>1. stage \in [Requests -> StoreStages]
        BY DEF StoreInv, StoreTypes
      <3>2. ~Sends(r) /\ ~ToolsEnd(r) /\ ~BreaksOff(r)
        BY <1>5, <3>1 DEF Opens, Sends, ToolsEnd, BreaksOff, In, Goes
      <3>3. QED
        BY <3>2, ComingNext
    <2>2. messages' = Append(messages, User(r)) /\ unguarded' = unguarded
      BY <1>5 DEF Opens
    <2>3. User(r).role # "tool" /\ User(r).calls \notin Called
      BY DEF User, Called
    <2>4. QED
      BY <1>1, <1>4, <2>1, <2>2, <2>3, TableGrows
  <1>6. CASE Sends(r)
    <2>1. Coming' = Coming \cup {Len(messages) + 1}
      BY <1>6, ComingNext
    <2>2. messages' = Append(messages, Assistant(r)) /\ unguarded' = unguarded
      BY <1>6 DEF Sends
    <2>3. Assistant(r).role # "tool" /\ Assistant(r).calls \notin Called
      BY DEF Assistant, Called
    <2>4. QED
      BY <1>1, <1>4, <2>1, <2>2, <2>3, TableGrows
  <1>7. CASE Delta(r) \/ Completes(r)
    <2>1. Coming' = Coming /\ unguarded' = unguarded
      <3>1. ~Sends(r) /\ ~ToolsEnd(r)
        BY <1>7 DEF Delta, Completes, Sends, ToolsEnd, In
      <3>2. ~BreaksOff(r)
        <4>1. stage \in [Requests -> StoreStages]
          BY DEF StoreInv, StoreTypes
        <4>2. QED
          BY <1>7, <4>1 DEF Delta, Completes, BreaksOff, In, Goes
      <3>3. QED
        BY <1>7, <3>1, <3>2, ComingNext DEF Delta, Completes
    <2>2. AnswerStored(r)
      BY <1>7 DEF Delta, Completes, Stores, In, AnswerStored, Streaming, Called
    <2>3. /\ answer[r] \in Coming /\ answer[r] \in DOMAIN messages
          /\ messages[answer[r]].role # "tool"
      BY <2>2, ComingFits DEF AnswerStored
    <2>4. PICK calls \in {"none", "empty"} \cup Called :
              messages' = [messages EXCEPT ![answer[r]].calls = calls]
      BY <2>2 DEF AnswerStored
    <2>5. QED
      BY <1>1, <2>1, <2>3, <2>4, TableStores
  <1>8. CASE ToolsEnd(r)
    <2>1. Coming' = Coming \ {answer[r]} /\ unguarded' = unguarded
      BY <1>8, ComingNext DEF ToolsEnd
    <2>2. stage[r] \in Streaming
      BY <1>8 DEF ToolsEnd, In, Streaming
    <2>3. /\ answer[r] \in Coming /\ answer[r] \in DOMAIN messages
          /\ messages[answer[r]].by = r
          /\ r \notin unguarded => Alone(messages, unguarded, answer[r], Len(messages) + 1)
      BY <2>2, ComingFits
    <2>4. CASE /\ messages[answer[r]].calls \in Called
               /\ messages' = Append(messages, Results(r, answer[r]))
      BY <1>1, <2>1, <2>3, <2>4, TableResults
    <2>5. CASE messages[answer[r]].calls \notin Called /\ messages' = messages
      <3>1. \A i \in Coming \ Coming' :
               i \in DOMAIN messages => messages[i].by \in unguarded' \/ messages[i].calls \notin Called
        BY <2>1, <2>5
      <3>2. Coming' \subseteq Coming
        BY <2>1
      <3>3. QED
        BY <1>1, <1>2, <2>5, <3>1, <3>2, TableExcuses
    <2>6. QED
      BY <1>8, <2>4, <2>5 DEF ToolsEnd
  <1>9. CASE BreaksOff(r)
    <2>1. messages' = messages /\ r \in unguarded'
      BY <1>9 DEF BreaksOff
    <2>2. Coming' \subseteq Coming /\ \A i \in Coming \ Coming' : i = answer[r] /\ stage[r] \in Streaming
      BY <1>9, ComingNext
    <2>3. \A i \in Coming \ Coming' :
               i \in DOMAIN messages => messages[i].by \in unguarded' \/ messages[i].calls \notin Called
      BY <2>1, <2>2, ComingFits
    <2>4. QED
      BY <1>1, <1>2, <2>1, <2>2, <2>3, TableExcuses
  <1>10. CASE Begins(r) \/ Lists(r) \/ SavesUsage(r) \/ SubAgentReads(r) \/ SubAgentSaves(r) \/ Ends(r)
    <2>1. messages' = messages
      BY <1>10 DEF Begins, Lists, SavesUsage, SubAgentReads, SubAgentSaves, Ends
    <2>2. ~Sends(r) /\ (ToolsEnd(r) => messages' = messages)
      <3>1. stage \in [Requests -> StoreStages]
        BY DEF StoreInv, StoreTypes
      <3>2. QED
        BY <1>10, <2>1, <3>1 DEF Begins, Lists, SavesUsage, SubAgentReads, SubAgentSaves, Ends, Sends, In
    <2>3. CASE ToolsEnd(r) \/ BreaksOff(r)
      BY <2>3, <1>8, <1>9
    <2>4. CASE ~(ToolsEnd(r) \/ BreaksOff(r))
      <3>1. Coming' = Coming
        BY <2>2, <2>4, ComingNext
      <3>2. QED
        BY <1>1, <1>2, <2>1, <3>1, TableExcuses
    <2>5. QED
      BY <2>3, <2>4
  <1>11. QED
    BY <1>5, <1>6, <1>7, <1>8, <1>9, <1>10 DEF RequestStep

LEMMA TableNextOther ==
    ASSUME StoreInv, OtherStep
    PROVE  TableFits'
  <1>1. /\ messages \in Seq(MessageRows)
        /\ CallsAnswered(messages, unguarded, Coming)
        /\ ResultsCalled(messages, unguarded, Coming)
    BY DEF StoreInv, StoreTypes, TableFits
  <1>2. unguarded \subseteq unguarded'
    BY ComingNextOther
  <1>3. SUFFICES CallsAnswered(messages', unguarded', Coming') /\ ResultsCalled(messages', unguarded', Coming')
    BY DEF TableFits
  <1>4. CASE SummaryCreated
    <2>1. messages' = Append(messages, Summary) /\ unguarded' = unguarded /\ Coming' = Coming
      BY <1>4 DEF SummaryCreated, Coming
    <2>2. Summary \in MessageRows /\ Summary.role # "tool" /\ Summary.calls \notin Called
      BY DEF Summary, MessageRows, Called
    <2>3. QED
      BY <1>1, <2>1, <2>2, TableGrows
  <1>5. CASE ~SummaryCreated
    <2>1. messages' = messages
      BY <1>5 DEF OtherStep, Cancels, Titles, TitleFails, Summarizes, SummarySaved,
                  SummaryFails, StoreCrash
    <2>2. /\ Coming' \subseteq Coming
          /\ \A i \in Coming \ Coming' :
               i \in DOMAIN messages => messages[i].by \in unguarded' \/ messages[i].calls \notin Called
      BY ComingNextOther
    <2>3. QED
      BY <1>1, <1>2, <2>1, <2>2, TableExcuses
  <1>6. QED
    BY <1>4, <1>5

\* Nobody else writes while an answer of a request comes in that is not
\* excused.
LEMMA AnswersFitNext == StoreInv /\ StoreNext => AnswersFit'
  <1> SUFFICES ASSUME StoreInv, StoreNext, NEW q \in Requests, stage'[q] \in Streaming
               PROVE  /\ answer'[q] \in DOMAIN messages'
                      /\ messages'[answer'[q]].by = q /\ messages'[answer'[q]].role = "assistant"
                      /\ q \notin unguarded' =>
                             Alone(messages', unguarded', answer'[q], Len(messages') + 1)
    BY DEF AnswersFit, AnswerFits
  <1>1. /\ messages \in Seq(MessageRows) /\ answer \in [Requests -> Nat]
        /\ stage \in [Requests -> StoreStages] /\ Len(messages) \in Nat
        /\ messages' \in Seq(MessageRows) /\ Len(messages') \in Nat
    BY TableTypes DEF StoreInv, StoreTypes
  <1>2. unguarded \subseteq unguarded'
    BY OwnersNext, ComingNextOther DEF StoreNext, RequestStep, OtherStep
  <1>3. CASE Sends(q)
    <2>1. messages' = Append(messages, Assistant(q)) /\ answer'[q] = Len(messages) + 1
      BY <1>1, <1>3 DEF Sends
    <2>2. Assistant(q) \in MessageRows /\ Assistant(q).by = q /\ Assistant(q).role = "assistant"
      BY DEF Assistant, MessageRows
    <2>3. /\ DOMAIN messages' = DOMAIN messages \cup {Len(messages) + 1}
          /\ messages'[Len(messages) + 1] = Assistant(q)
          /\ Len(messages') = Len(messages) + 1
      BY <1>1, <2>1, <2>2, Appended
    <2>4. \A k \in DOMAIN messages' : k \in Nat /\ k <= Len(messages')
      BY <1>1
    <2>5. Alone(messages', unguarded', answer'[q], Len(messages') + 1)
      BY <1>1, <2>1, <2>3, <2>4 DEF Alone
    <2>6. QED
      BY <2>1, <2>2, <2>3, <2>5
  <1>4. CASE ~Sends(q)
    <2>1. stage[q] \in Streaming /\ answer'[q] = answer[q]
      <3>1. ASSUME NEW r \in Requests, RequestStep(r)
            PROVE  stage[q] \in Streaming /\ answer'[q] = answer[q]
        BY <1>4, <3>1, ComingNext
      <3>2. ASSUME OtherStep
            PROVE  stage[q] \in Streaming /\ answer'[q] = answer[q]
        BY <3>2, ComingNextOther
      <3>3. QED
        BY <3>1, <3>2 DEF StoreNext, RequestStep, OtherStep
    <2> DEFINE a == answer[q]
    <2>2. /\ a \in DOMAIN messages /\ messages[a].by = q /\ messages[a].role = "assistant"
          /\ q \notin unguarded => Alone(messages, unguarded, a, Len(messages) + 1)
      BY <2>1, ComingFits
    <2>3. a \in DOMAIN messages' /\ messages'[a].by = q
      BY <2>2, TableKept
    <2>4. messages'[a].role = "assistant"
      <3>1. messages' = messages => messages'[a].role = "assistant"
        BY <2>2
      <3>2. ASSUME NEW m \in MessageRows, Adds(m) PROVE messages'[a].role = "assistant"
        BY <1>1, <2>2, <3>2, Appended DEF Adds
      <3>3. ASSUME NEW r \in Requests, AnswerStored(r) PROVE messages'[a].role = "assistant"
        <4>1. PICK calls \in {"none", "empty"} \cup Called :
                  messages' = [messages EXCEPT ![answer[r]].calls = calls]
          BY <3>3 DEF AnswerStored
        <4>2. messages[a] \in MessageRows
          BY <1>1, <2>2, RowType
        <4>3. QED
          BY <1>1, <2>2, <4>1, <4>2 DEF MessageRows
      <3>4. ASSUME NEW r \in Requests, RequestStep(r) PROVE messages'[a].role = "assistant"
        <4>1. answer[r] \in Nat
          BY <1>1
        <4>2. /\ User(r) \in MessageRows /\ Assistant(r) \in MessageRows
              /\ Results(r, answer[r]) \in MessageRows
          BY <4>1, RowTypes
        <4>3. QED
          BY <3>1, <3>2, <3>3, <3>4, <4>2, RequestChanges DEF TableChange
      <3>5. ASSUME OtherStep PROVE messages'[a].role = "assistant"
        <4>1. Summary \in MessageRows
          BY DEF Summary, MessageRows
        <4>2. QED
          BY <3>1, <3>2, <3>5, <4>1, OtherChanges
      <3>6. QED
        BY <3>4, <3>5 DEF StoreNext, RequestStep, OtherStep
    <2>5. ASSUME q \notin unguarded', NEW k \in DOMAIN messages', a < k
          PROVE  messages'[k].by \in unguarded'
      <3>1. q \notin unguarded
        BY <1>2, <2>5
      <3>2. CASE k \in DOMAIN messages
        <4>1. messages[k].by \in unguarded
          BY <1>1, <2>2, <2>5, <3>1, <3>2 DEF Alone
        <4>2. QED
          BY <1>2, <3>2, <4>1, TableKept
      <3>3. CASE k \notin DOMAIN messages
        <4>1. /\ owner = q /\ summing = "idle"
              /\ \A r \in Requests \ unguarded : stage[r] \notin {"idle", "ended"} => r = q
          BY <2>1, <3>1 DEF StoreInv, OwnsAlone, Live, Streaming
        <4>2. ASSUME NEW r \in Requests, RequestStep(r) PROVE r \in unguarded /\ messages'[k].by = r
          <5>1. messages'[k].by = r
            BY <2>5, <3>3, <4>2, TableAdded
          <5>2. messages' # messages
            BY <2>5, <3>3
          <5>3. Opens(r) \/ Sends(r) \/ ToolsEnd(r) \/ AnswerStored(r)
            BY <4>2, <5>2 DEF RequestStep, Begins, Lists, Delta, Completes, SavesUsage,
               SubAgentReads, SubAgentSaves, BreaksOff, Ends, Stores, In, AnswerStored, Streaming,
               Called
          <5>4. ~AnswerStored(r)
            BY <2>5, <3>3 DEF AnswerStored
          <5>5. r # q
            <6>1. Opens(q) => FALSE
              BY <2>1 DEF Opens, In, Streaming
            <6>2. ToolsEnd(q) => FALSE
              BY <1>1 DEF ToolsEnd, Goes, Streaming
            <6>3. QED
              BY <1>4, <5>3, <5>4, <6>1, <6>2
          <5>6. stage[r] \notin {"idle", "ended"}
            BY <5>3, <5>4 DEF Opens, Sends, ToolsEnd, In
          <5>7. QED
            BY <4>1, <5>1, <5>5, <5>6
        <4>3. ASSUME OtherStep PROVE FALSE
          <5>1. SummaryCreated
            BY <2>5, <3>3, <4>3 DEF OtherStep, Cancels, Titles, TitleFails, Summarizes,
               SummarySaved, SummaryFails, StoreCrash
          <5>2. QED
            BY <4>1, <5>1 DEF SummaryCreated
        <4>4. QED
          BY <1>2, <4>2, <4>3 DEF StoreNext, RequestStep, OtherStep
      <3>4. QED
        BY <3>2, <3>3
    <2>6. QED
      BY <2>1, <2>3, <2>4, <2>5 DEF Alone
  <1>5. QED
    BY <1>3, <1>4

-----------------------------------------------------------------------------
(* The steps: the histories. *)

\* What a step leaves of a history.
LEMMA HistoryRests ==
    ASSUME StoreInv, StoreNext, NEW q \in Requests, stage'[q] \in Reading,
           ~Lists(q), ~Opens(q), ~ToolsEnd(q)
    PROVE  hist'[q] = hist[q] /\ stage[q] \in Reading /\ (stage'[q] = "open" => stage[q] = "open")
  <1>1. /\ stage \in [Requests -> StoreStages] /\ hist \in [Requests -> Seq(Entries)]
        /\ stage' \in [Requests -> StoreStages]
    BY TypesNext DEF StoreInv, StoreTypes
  <1>2. ASSUME NEW r \in Requests \ {q}, RequestStep(r)
        PROVE  hist'[q] = hist[q] /\ stage'[q] = stage[q]
    <2>1. stage'[q] = stage[q]
      BY <1>2, ComingNext
    <2>2. hist'[q] = hist[q]
      BY <1>1, <1>2 DEF RequestStep, Begins, Lists, Opens, Sends, Delta, Completes, SavesUsage,
         SubAgentReads, SubAgentSaves, ToolsEnd, BreaksOff, Ends
    <2>3. QED
      BY <2>1, <2>2
  <1>3. ASSUME RequestStep(q)
        PROVE  /\ hist'[q] = hist[q] /\ stage[q] \in Reading
               /\ stage'[q] = "open" => stage[q] = "open"
    <2>1. Sends(q) \/ Delta(q) \/ Completes(q) \/ SavesUsage(q) \/ SubAgentReads(q) \/ SubAgentSaves(q)
      BY <1>1, <1>3 DEF RequestStep, Begins, BreaksOff, Ends, Goes, Reading, Streaming
    <2>2. QED
      BY <1>1, <2>1 DEF Sends, Delta, Completes, SavesUsage, SubAgentReads, SubAgentSaves, Goes,
         In, Reading, Streaming
  <1>4. ASSUME OtherStep PROVE hist'[q] = hist[q] /\ stage'[q] = stage[q]
    BY <1>4, ComingNextOther
  <1>5. QED
    BY <1>2, <1>3, <1>4 DEF StoreNext, RequestStep, OtherStep

LEMMA ListedNext == StoreInv /\ StoreNext => \A q \in Requests : Listed(q)'
  <1> SUFFICES ASSUME StoreInv, StoreNext, NEW q \in Requests, stage'[q] = "open"
               PROVE  \A i \in DOMAIN hist'[q] : hist'[q][i].id = i
    BY DEF Listed, In
  <1>1. /\ stage \in [Requests -> StoreStages] /\ hist \in [Requests -> Seq(Entries)]
        /\ messages \in Seq(MessageRows)
    BY DEF StoreInv, StoreTypes
  <1>2. CASE Lists(q)
    <2>1. hist'[q] = Numbered(messages)
      BY <1>1, <1>2 DEF Lists
    <2>2. QED
      BY <2>1 DEF Numbered
  <1>3. CASE Opens(q) \/ ToolsEnd(q)
    BY <1>1, <1>3 DEF Opens, ToolsEnd, Goes
  <1>4. CASE ~Lists(q) /\ ~Opens(q) /\ ~ToolsEnd(q)
    <2>1. hist'[q] = hist[q] /\ stage[q] = "open"
      BY <1>4, HistoryRests DEF Reading
    <2>2. QED
      BY <2>1 DEF StoreInv, HistoriesFit, Listed, In
  <1>5. QED
    BY <1>2, <1>3, <1>4

LEMMA WholeNext ==
    ASSUME StoreInv, StoreNext, NEW h \in Seq(Entries), Whole(messages, unguarded, h)
    PROVE  Whole(messages', unguarded', h)
  <1>1. messages \in Seq(MessageRows) /\ ResultsCalled(messages, unguarded, Coming)
    BY DEF StoreInv, StoreTypes, TableFits
  <1>2. unguarded \subseteq unguarded'
    BY OwnersNext, ComingNextOther DEF StoreNext, RequestStep, OtherStep
  <1>3. /\ DOMAIN messages \subseteq DOMAIN messages'
        /\ \A i \in DOMAIN messages :
            /\ messages'[i].by = messages[i].by
            /\ messages[i].role = "tool" => messages'[i] = messages[i]
            /\ i \notin Coming => messages'[i].calls = messages[i].calls
    BY TableKept
  <1>4. QED
    BY <1>1, <1>2, <1>3, WholeKept

LEMMA HistoriesNext == StoreInv /\ StoreNext => HistoriesFit'
  <1> SUFFICES ASSUME StoreInv, StoreNext, NEW q \in Requests, q \notin unguarded',
                      stage'[q] \in Reading
               PROVE  Whole(messages', unguarded', hist'[q])
    BY ListedNext DEF HistoriesFit, HistoryFits
  <1>1. /\ stage \in [Requests -> StoreStages] /\ hist \in [Requests -> Seq(Entries)]
        /\ messages \in Seq(MessageRows) /\ answer \in [Requests -> Nat]
        /\ unguarded \subseteq Requests /\ NoOne \notin Requests
    BY StoreAssumption DEF StoreInv, StoreTypes, NoOne
  <1>2. q \notin unguarded
    BY OwnersNext, ComingNextOther DEF StoreNext, RequestStep, OtherStep
  <1>3. CASE Lists(q)
    <2>1. hist'[q] = Numbered(messages) /\ messages' = messages /\ unguarded' = unguarded
      BY <1>1, <1>3 DEF Lists
    <2>2. owner = q /\ stage[q] \notin Streaming
      BY <1>2, <1>3 DEF Lists, In, StoreInv, OwnsAlone, Live, Streaming
    <2>3. ASSUME NEW x \in Requests, stage[x] \in Streaming PROVE messages[answer[x]].by \in unguarded
      <3>1. messages[answer[x]].by = x
        BY <2>3, ComingFits
      <3>2. x \notin unguarded => owner = x
        BY <2>3 DEF StoreInv, OwnsAlone, Live, Streaming
      <3>3. QED
        BY <2>2, <2>3, <3>1, <3>2
    <2>4. \A i \in Coming : messages[i].by \in unguarded
      BY <2>3 DEF Coming
    <2>5. CallsAnswered(messages, unguarded, Coming) /\ ResultsCalled(messages, unguarded, Coming)
      BY DEF StoreInv, TableFits
    <2>6. Whole(messages, unguarded, Numbered(messages))
      BY <1>1, <2>4, <2>5, WholeListed
    <2>7. QED
      BY <2>1, <2>6
  <1>4. CASE Opens(q)
    <2> DEFINE h == Cut(hist[q], session)
               m == [id |-> Len(messages) + 1, row |-> User(q)]
    <2>1. h \in Seq(Entries) /\ Whole(messages, unguarded, h)
      BY <1>2, <1>4, OpensHistory
    <2>2. Whole(messages', unguarded', h)
      BY <2>1, WholeNext
    <2>3. /\ messages' = Append(messages, User(q)) /\ hist'[q] = Append(h, m)
      BY <1>1, <1>4 DEF Opens
    <2>4. User(q) \in MessageRows /\ Len(messages) + 1 \in Nat
      BY <1>1, RowTypes
    <2>5. m \in Entries
      BY <2>4 DEF Entries
    <2>6. Len(messages) + 1 \in DOMAIN messages' /\ messages'[Len(messages) + 1] = User(q)
      BY <1>1, <2>3, <2>4, Appended
    <2>7. Copied(messages', m) /\ m.row.role # "tool" /\ m.row.calls \notin Called
      BY <2>6 DEF Copied, User, Called
    <2> HIDE DEF h, m
    <2>8. QED
      BY <2>1, <2>2, <2>3, <2>5, <2>7, WholeGrows
  <1>5. CASE ToolsEnd(q)
    <2> DEFINE a == answer[q]
               m == [id |-> a, row |-> messages[a]]
               n == [id |-> Len(messages) + 1, row |-> Results(q, a)]
               h == hist[q]
    <2>1. /\ a \in DOMAIN messages /\ messages[a].by = q /\ messages[a].role = "assistant"
      BY <1>5, ComingFits DEF ToolsEnd, In, Streaming
    <2>2. messages' = Append(messages, Results(q, a)) /\ hist'[q] = h \o <<m, n>>
      <3>1. stage'[q] # "over"
        BY DEF Reading, Streaming
      <3>2. QED
        BY <1>1, <1>5, <3>1 DEF ToolsEnd, Goes
    <2>3. h \in Seq(Entries) /\ Whole(messages, unguarded, h)
      BY <1>1, <1>2, <1>5 DEF StoreInv, HistoriesFit, HistoryFits, ToolsEnd, In, Reading, Streaming
    <2>4. Whole(messages', unguarded', h)
      BY <2>3, WholeNext
    <2>5. /\ messages[a] \in MessageRows /\ Results(q, a) \in MessageRows
          /\ Len(messages) + 1 \in Nat /\ a \in Nat
      BY <1>1, <2>1, RowType, RowTypes
    <2>6. m \in Entries /\ n \in Entries
      BY <2>5 DEF Entries
    <2>7. /\ a \in DOMAIN messages' /\ messages'[a] = messages[a]
          /\ Len(messages) + 1 \in DOMAIN messages'
          /\ messages'[Len(messages) + 1] = Results(q, a)
      BY <1>1, <2>1, <2>2, <2>5, Appended
    <2>8. Copied(messages', m) /\ m.row.role # "tool" /\ m.row.by # NoOne
          /\ m.row.calls = messages'[m.id].calls
      BY <1>1, <2>1, <2>7 DEF Copied
    <2>9. Copied(messages', n) /\ n.row.role = "tool" /\ n.row.calls \notin Called /\ n.row.of = m.id
      BY <2>7 DEF Copied, Results, Called
    <2> HIDE DEF h, m, n
    <2>10. QED
      BY <2>2, <2>3, <2>4, <2>6, <2>8, <2>9, WholeAnswered
  <1>6. CASE ~Lists(q) /\ ~Opens(q) /\ ~ToolsEnd(q)
    <2>1. hist'[q] = hist[q] /\ stage[q] \in Reading
      BY <1>6, HistoryRests
    <2>2. hist[q] \in Seq(Entries) /\ Whole(messages, unguarded, hist[q])
      BY <1>1, <1>2, <2>1 DEF StoreInv, HistoriesFit, HistoryFits
    <2>3. QED
      BY <2>1, <2>2, WholeNext
  <1>7. QED
    BY <1>3, <1>4, <1>5, <1>6

-----------------------------------------------------------------------------
LEMMA StoreInitInv == StoreInit => StoreInv
  <1> SUFFICES ASSUME StoreInit PROVE StoreInv
    OBVIOUS
  <1>1. Unread \in Nat /\ MaxRows \in Nat
    BY StoreAssumption DEF Unread
  <1>2. <<>> \in Seq(MessageRows) /\ Len(<<>>) = 0 /\ <<>> \in Seq(Entries) /\ DOMAIN <<>> = {}
    OBVIOUS
  <1>3. StoreTypes
    BY <1>1, <1>2 DEF StoreInit, StoreTypes, StoreStages
  <1>4. SessionFits /\ OwnsAlone
    BY DEF StoreInit, SessionFits, OwnsAlone, Begun, In, Live
  <1>5. AnswersFit
    BY DEF StoreInit, AnswersFit, AnswerFits, Streaming
  <1>6. TableFits
    BY <1>2 DEF StoreInit, TableFits, CallsAnswered, ResultsCalled
  <1>7. HistoriesFit
    BY DEF StoreInit, HistoriesFit, HistoryFits, Listed, In, Reading, Streaming
  <1>8. QED
    BY <1>3, <1>4, <1>5, <1>6, <1>7 DEF StoreInv

LEMMA StoreNextInv == StoreInv /\ [StoreNext]_storeVars => StoreInv'
  <1> SUFFICES ASSUME StoreInv, [StoreNext]_storeVars PROVE StoreInv'
    OBVIOUS
  <1>1. CASE StoreNext
    <2>1. SessionFits'
      BY <1>1, SessionNextRequest, SessionNextOther DEF StoreNext, RequestStep, OtherStep
    <2>2. TableFits'
      BY <1>1, TableNextRequest, TableNextOther DEF StoreNext, RequestStep, OtherStep
    <2>3. StoreTypes' /\ OwnsAlone' /\ AnswersFit' /\ HistoriesFit'
      BY <1>1, TypesNext, OwnsNext, AnswersFitNext, HistoriesNext
    <2>4. QED
      BY <2>1, <2>2, <2>3 DEF StoreInv
  <1>2. CASE UNCHANGED storeVars
    BY <1>2 DEF storeVars, StoreInv, StoreTypes, SessionFits, OwnsAlone, AnswersFit, AnswerFits,
        TableFits, HistoriesFit, HistoryFits, Listed, In, Live, Coming
  <1>3. QED
    BY <1>1, <1>2

\* The table, the session and the histories of its requests fit together.
THEOREM StoreCorrect == StoreSpec => []StoreInv
  BY StoreInitInv, StoreNextInv, PTL DEF StoreSpec

\* What a request sends is a conversation that a provider accepts.
THEOREM EveryConversationIsSound == StoreSpec => []ConversationIsSound
  BY StoreCorrect, WholeIsSound, PTL

=============================================================================
