--------------------------- MODULE GoClient_proofs ---------------------------
(***************************************************************************)
(* What the engine does in the user's name he said yes to, for any         *)
(* sessions, turns, dialogs, keys, clicks and goroutines.                  *)
(*                                                                         *)
(* The lemmas go through the parts of Update in the order of GoClient:     *)
(* each leaves a dialog as it was asked for, and a request of the user on  *)
(* its way as he made it. That he saw the dialog is not so (Unseen).       *)
(***************************************************************************)
EXTENDS GoClient, TLAPS

IsDialog(d) == d = None \/ d = [kind |-> d.kind, of |-> d.of]
IsPost(p) == p = [kind |-> p.kind, of |-> p.of, step |-> p.step]

\* The two dialogs of a Model.
ScreenOK(mm) ==
    /\ "confirm" \in DOMAIN mm /\ "options" \in DOMAIN mm
    /\ IsDialog(mm.confirm) /\ IsDialog(mm.options)

\* The user answered the dialog d, seen or unseen.
Given(d) == Answered(d, d) \in said \/ Unseen(d)

\* An answer on its way was given to its dialog.
PostOK(p) ==
    /\ IsPost(p)
    /\ p.kind = "yes" => Given(Tool(p.of))
    /\ p.kind = "options" => Given(Ask(p.of))

\* The inductive invariant.
AnswersInv ==
    /\ ScreenOK(m)
    /\ \A p \in posts : PostOK(p)
    /\ AnswersAsShown

-----------------------------------------------------------------------------
(* The Model and the requests.                                             *)

\* Most steps change the Model alone.
LEMMA OnlyScreen ==
    ASSUME AnswersInv, NEW mm, ScreenOK(mm), Becomes(mm), UNCHANGED <<posts, said, obeyed>>
    PROVE  AnswersInv'
BY DEF AnswersInv, Becomes, PostOK, Given, AnswersAsShown, Unseen, ScreenOK

\* A request that is no answer to a dialog goes out.
LEMMA PlainPost ==
    ASSUME AnswersInv, NEW mm, ScreenOK(mm), Becomes(mm), NEW p, Sends(p), IsPost(p),
           p.kind \notin {"yes", "options"}, UNCHANGED <<said, obeyed>>
    PROVE  AnswersInv'
BY DEF AnswersInv, Becomes, Sends, PostOK, Given, AnswersAsShown, Unseen, ScreenOK

\* An answer is noted, whatever was painted; those given before stay.
LEMMA SaysGives ==
    ASSUME NEW d, NEW painted, Says(d, painted)
    PROVE  Given(d)' /\ \A e : Given(e) => Given(e)'
<1>1. Answered(d, painted) = Answered(d, d) \/ Answered(d, painted) = [dialog |-> d, seen |-> FALSE]
  BY DEF Answered
<1>2. said' = said \cup {Answered(d, painted)}
  BY DEF Says
<1>3. Answered(d, d) \in said' \/ [dialog |-> d, seen |-> FALSE] \in said'
  BY <1>1, <1>2
<1>4. said \subseteq said'
  BY <1>2
<1> QED
  BY <1>3, <1>4 DEF Given, Unseen

\* Parts of the Model other than its dialogs change.
LEMMA OtherParts ==
    ASSUME NEW mm, ScreenOK(mm), NEW x, NEW y
    PROVE  /\ ScreenOK([mm EXCEPT !.items = x, !.idx = y])
           /\ ScreenOK([mm EXCEPT !.renaming = x, !.input = y])
           /\ ScreenOK([mm EXCEPT !.focus = x, !.input = y])
           /\ ScreenOK([mm EXCEPT !.filter = x, !.idx = y])
           /\ ScreenOK([mm EXCEPT !.idx = x, !.focus = y])
           /\ ScreenOK([mm EXCEPT !.focus = x, !.filter = y])
           /\ ScreenOK([mm EXCEPT !.open = x, !.focus = y])
           /\ ScreenOK([mm EXCEPT !.form = x, !.wizard = y])
           /\ ScreenOK([mm EXCEPT !.wizard = x, !.form = y])
           /\ ScreenOK([mm EXCEPT !.thinking = x, !.turn = y])
           /\ ScreenOK([mm EXCEPT !.deploy = x, !.thinking = y])
           /\ ScreenOK([mm EXCEPT !.thinking = x])
           /\ ScreenOK([mm EXCEPT !.turn = x])
           /\ ScreenOK([mm EXCEPT !.quit = x])
           /\ ScreenOK([mm EXCEPT !.deploy = x])
           /\ ScreenOK([mm EXCEPT !.form = x])
           /\ ScreenOK([mm EXCEPT !.wizard = x])
           /\ ScreenOK([mm EXCEPT !.input = x])
           /\ ScreenOK([mm EXCEPT !.focus = x])
           /\ ScreenOK([mm EXCEPT !.open = x])
           /\ ScreenOK([mm EXCEPT !.idx = x])
           /\ ScreenOK([mm EXCEPT !.pending = x])
BY DEF ScreenOK

\* A dialog is opened or closed.
LEMMA DialogParts ==
    ASSUME NEW mm, ScreenOK(mm), NEW d, IsDialog(d)
    PROVE  /\ ScreenOK([mm EXCEPT !.confirm = d])
           /\ ScreenOK([mm EXCEPT !.options = d])
           /\ IsDialog(None)
BY DEF ScreenOK, IsDialog

\* The kinds of dialog.
LEMMA DialogKinds ==
    /\ \A c : IsDialog(Tool(c)) /\ IsDialog(Delsess(c)) /\ IsDialog(Ask(c))
    /\ \A k : IsDialog(Local(k))
    /\ IsDialog(Logout) /\ IsDialog(None)
BY DEF IsDialog, Tool, Delsess, Ask, Local, Logout

\* The requests of a kind.
LEMMA PostKinds ==
    /\ \A k, n : IsPost(Post(k, n)) /\ Post(k, n).kind = k /\ Post(k, n).of = n
    /\ \A k : IsPost(Job(k)) /\ Job(k).kind = k
    /\ \A k, s : /\ IsPost([Job(k) EXCEPT !.step = s])
                 /\ [Job(k) EXCEPT !.step = s].kind = k
<1>1. \A k, n : IsPost(Post(k, n)) /\ Post(k, n).kind = k /\ Post(k, n).of = n
  BY DEF IsPost, Post
<1>2. \A k, n, s : /\ IsPost([Post(k, n) EXCEPT !.step = s])
                   /\ [Post(k, n) EXCEPT !.step = s].kind = k
  BY DEF IsPost, Post
<1> QED
  BY <1>1, <1>2 DEF Job

LEMMA RefreshedOK ==
    ASSUME NEW mm, ScreenOK(mm), NEW list
    PROVE  ScreenOK(Refreshed(mm, list))
BY OtherParts DEF Refreshed

-----------------------------------------------------------------------------
(* Parts of Update.                                                        *)

LEMMA OpenStep ==
    ASSUME AnswersInv, NEW mm, ScreenOK(mm), UNCHANGED <<posts, said, obeyed>>,
           OpenSession(mm) \/ Becomes(NewSession(mm))
    PROVE  AnswersInv'
BY RefreshedOK, OnlyScreen DEF OpenSession, NewSession

LEMMA PanelEnterStep ==
    ASSUME AnswersInv, NEW mm, ScreenOK(mm), PanelEnter(mm)
    PROVE  AnswersInv'
<1> DEFINE done == [mm EXCEPT !.renaming = FALSE, !.input = "empty"]
<1>1. ScreenOK(done) /\ ScreenOK(Refreshed(done, Reverse(engine.sessions)))
  BY OtherParts, RefreshedOK
<1>2. UNCHANGED <<posts, said, obeyed>>
  BY DEF PanelEnter, Quiet
<1>3. \/ Becomes(Refreshed(done, Reverse(engine.sessions)))
      \/ Becomes(done)
      \/ Becomes(NewSession(mm))
      \/ OpenSession(mm)
  BY DEF PanelEnter
<1> HIDE DEF done
<1> QED
  BY <1>1, <1>2, <1>3, OnlyScreen, OpenStep

LEMMA StartsStep ==
    ASSUME AnswersInv, NEW mm, ScreenOK(mm), NEW p, IsPost(p), p.kind \notin {"yes", "options"},
           Starts(mm, p)
    PROVE  AnswersInv'
<1>1. ScreenOK([mm EXCEPT !.thinking = TRUE])
  BY OtherParts
<1> QED
  BY <1>1, PlainPost DEF Starts

LEMMA CommandStep ==
    ASSUME AnswersInv, NEW mm, ScreenOK(mm), Command(mm)
    PROVE  AnswersInv'
<1>1. CASE Becomes([mm EXCEPT !.quit = TRUE]) /\ Quiet
  BY <1>1, OtherParts, OnlyScreen DEF Quiet
<1>2. CASE Shows(mm)
  BY <1>2, OnlyScreen DEF Shows, Quiet
<1>3. CASE Undoes(mm)
  BY <1>3, RefreshedOK, OnlyScreen DEF Undoes, Quiet
<1>4. CASE ShowConnections(mm)
  BY <1>4, DialogKinds, DialogParts, OnlyScreen DEF ShowConnections, Quiet
<1>5. CASE ShowLevels(mm)
  BY <1>5, DialogKinds, DialogParts, OnlyScreen DEF ShowLevels, Quiet
<1>6. CASE AsksLogout(mm)
  BY <1>6, DialogKinds, DialogParts, OnlyScreen DEF AsksLogout, Quiet
<1>7. CASE DoLogin(mm)
  BY <1>7, PostKinds, StartsStep DEF DoLogin
<1>8. CASE Deploy(mm)
  <2>1. ScreenOK([mm EXCEPT !.deploy = TRUE])
    BY OtherParts
  <2> QED
    BY <1>8, <2>1, PostKinds, StartsStep DEF Deploy
<1>9. CASE CustomCommand(mm)
  BY <1>9, PostKinds, StartsStep DEF CustomCommand
<1>10. CASE QueueAdd(mm)
  BY <1>10, OnlyScreen DEF QueueAdd
<1> QED
  BY <1>1, <1>2, <1>3, <1>4, <1>5, <1>6, <1>7, <1>8, <1>9, <1>10 DEF Command

LEMMA EnterStep ==
    ASSUME AnswersInv, NEW mm, ScreenOK(mm), DoEnter(mm)
    PROVE  AnswersInv'
<1> DEFINE read == [mm EXCEPT !.input = "empty"]
           key == [Job("connect") EXCEPT !.step = IF mm.wizard = None THEN "sent" ELSE "wizard"]
<1>1. /\ ScreenOK(read) /\ ScreenOK([read EXCEPT !.form = FALSE])
      /\ IsPost(key) /\ key.kind = "connect" /\ IsPost(Job("turn")) /\ Job("turn").kind = "turn"
  BY OtherParts, PostKinds
<1>2. \/ PanelEnter(mm)
      \/ Becomes(mm) /\ Quiet
      \/ Starts([read EXCEPT !.form = FALSE], key)
      \/ Command(read)
      \/ ShowConnections(read)
      \/ Starts(read, Job("turn"))
  BY DEF DoEnter
<1> HIDE DEF key, read
<1>3. CASE ShowConnections(read)
  BY <1>1, <1>3, DialogKinds, DialogParts, OnlyScreen DEF ShowConnections, Quiet
<1>4. CASE Becomes(mm) /\ Quiet
  BY <1>4, OnlyScreen DEF Quiet
<1> QED
  BY <1>1, <1>2, <1>3, <1>4, PanelEnterStep, StartsStep, CommandStep

\* A choice goes to the engine only when it asked for it, and is noted.
LEMMA OptionsStep ==
    ASSUME AnswersInv, NEW mm, ScreenOK(mm), mm.options # None, NEW cancel, NEW painted,
           ResolveOptions(mm, cancel, painted)
    PROVE  AnswersInv'
<1> DEFINE o == mm.options
           closed == [mm EXCEPT !.options = None]
<1>1. /\ ScreenOK(closed) /\ ScreenOK([closed EXCEPT !.input = "text"])
      /\ ScreenOK([closed EXCEPT !.input = "connect"])
      /\ \A w : ScreenOK([closed EXCEPT !.form = TRUE, !.wizard = w])
  BY DialogKinds, DialogParts, OtherParts
<1>2. CASE o.kind = "ask"
  <2>1. /\ Becomes(closed) /\ Sends(Post("options", o.of)) /\ Says(o, painted)
        /\ obeyed' = obeyed
    BY <1>2 DEF ResolveOptions
  <2>2. o = Ask(o.of)
    BY <1>2 DEF ScreenOK, IsDialog, Ask
  <2>3. ScreenOK(m)'
    BY <1>1, <2>1 DEF Becomes
  <2>4. Given(Ask(o.of))' /\ \A e : Given(e) => Given(e)'
    BY <2>1, <2>2, SaysGives
  <2>5. (\A p \in posts : PostOK(p))'
    BY <2>1, <2>4, PostKinds DEF AnswersInv, Sends, PostOK
  <2>6. AnswersAsShown'
    BY <2>1, <2>4 DEF AnswersInv, AnswersAsShown, Given
  <2> QED
    BY <2>3, <2>5, <2>6 DEF AnswersInv
<1>3. CASE o.kind # "ask"
  <2>1. \/ Becomes(closed) /\ Quiet
        \/ Becomes([closed EXCEPT !.input = "text"]) /\ Quiet
        \/ (\E w \in {mm.wizard, 1} : Becomes([closed EXCEPT !.form = TRUE, !.wizard = w])) /\ Quiet
        \/ DoEnter([closed EXCEPT !.input = "connect"])
    BY <1>3 DEF ResolveOptions
  <2> HIDE DEF closed
  <2> QED
    BY <1>1, <2>1, OnlyScreen, EnterStep DEF Quiet
<1> QED
  BY <1>2, <1>3

-----------------------------------------------------------------------------
(* Keys.                                                                   *)

LEMMA FilterOK ==
    ASSUME NEW mm, ScreenOK(mm)
    PROVE  /\ \A x \in AppendFilter(mm) : ScreenOK(x)
           /\ ScreenOK(Unpended(mm))
<1>1. ScreenOK(Unpended(mm))
  BY OtherParts DEF Unpended
<1>2. \A f : ScreenOK([mm EXCEPT !.filter = f, !.idx = 1])
  BY OtherParts
<1> QED
  BY <1>1, <1>2 DEF AppendFilter

LEMMA FlushedOK ==
    ASSUME NEW mm, ScreenOK(mm), NEW k
    PROVE  /\ ScreenOK(Unfocused(mm, k))
           /\ \A x \in Flushed(Unfocused(mm, k), k) : ScreenOK(x)
<1>1. ScreenOK(Unfocused(mm, k))
  BY OtherParts DEF Unfocused
<1>2. \A x : ScreenOK(x) => ScreenOK(Unpended(x)) /\ \A y \in AppendFilter(Unpended(x)) : ScreenOK(y)
  BY FilterOK
<1> QED
  BY <1>1, <1>2 DEF Flushed

LEMMA PanelKeyStep ==
    ASSUME AnswersInv, NEW mm, ScreenOK(mm), NEW k, PanelKey(mm, k),
           UNCHANGED <<posts, said, obeyed>>
    PROVE  AnswersInv'
<1>1. /\ ScreenOK(Unpended(mm))
      /\ \A x \in AppendFilter(mm) \cup AppendFilter(Unpended(mm)) : ScreenOK(x)
  BY FilterOK
<1>2. /\ ScreenOK([mm EXCEPT !.renaming = FALSE, !.input = "empty"])
      /\ \A x : ScreenOK([mm EXCEPT !.idx = x])
      /\ ScreenOK([mm EXCEPT !.filter = "", !.idx = 1])
      /\ \A x : ScreenOK([mm EXCEPT !.pending = x])
  BY OtherParts
<1>3. ScreenOK(m')
  BY <1>1, <1>2 DEF PanelKey, Becomes
<1> QED
  BY <1>3, OnlyScreen DEF Becomes

LEMMA SlashStep ==
    ASSUME AnswersInv, NEW mm, ScreenOK(mm), NEW k, SlashKey(mm, k)
    PROVE  AnswersInv'
<1>1. ScreenOK([mm EXCEPT !.input = "command"])
  BY OtherParts
<1>2. \/ Becomes([mm EXCEPT !.input = "command"]) /\ Quiet
      \/ DoEnter([mm EXCEPT !.input = "command"])
      \/ Becomes(mm) /\ Quiet
  BY DEF SlashKey
<1> QED
  BY <1>1, <1>2, OnlyScreen, EnterStep DEF Quiet

\* A yes goes out for the dialog that the Model holds, and a session is deleted
\* whose name it has.
LEMMA ConfirmStep ==
    ASSUME AnswersInv, NEW mm, ScreenOK(mm), mm.confirm # None, NEW k, ConfirmKey(mm, k)
    PROVE  AnswersInv'
<1> DEFINE c == mm.confirm
           closed == [mm EXCEPT !.confirm = None]
<1>1. ScreenOK(closed) /\ \A x : ScreenOK(Refreshed(closed, x))
  BY DialogKinds, DialogParts, RefreshedOK
<1>2. c = [kind |-> c.kind, of |-> c.of]
  BY DEF ScreenOK, IsDialog
<1> HIDE DEF closed
<1>3. CASE /\ c.kind = "tool" /\ Becomes(closed) /\ Sends(Post("yes", c.of))
           /\ (\E painted : Says(c, painted)) /\ obeyed' = obeyed
  <2>1. c = Tool(c.of)
    BY <1>2, <1>3 DEF Tool
  <2>2. ScreenOK(m)'
    BY <1>1, <1>3 DEF Becomes
  <2>3. Given(Tool(c.of))' /\ \A e : Given(e) => Given(e)'
    BY <1>3, <2>1, SaysGives
  <2>4. (\A p \in posts : PostOK(p))'
    BY <1>3, <2>3, PostKinds DEF AnswersInv, Sends, PostOK
  <2>5. AnswersAsShown'
    BY <1>3, <2>3 DEF AnswersInv, AnswersAsShown, Given
  <2> QED
    BY <2>2, <2>4, <2>5 DEF AnswersInv
<1>4. CASE Starts(closed, Job("logout"))
  BY <1>1, <1>4, PostKinds, StartsStep
<1>5. CASE /\ c.kind = "delsess" /\ (\E painted : Says(c, painted)) /\ UNCHANGED posts
           /\ \E x : Becomes(Refreshed(closed, x)) \/ Becomes(closed)
           /\ obeyed' \in {obeyed, obeyed \cup {Delsess(Deletes(mm))}}
  <2>1. c = Delsess(Deletes(mm))
    BY <1>2, <1>5 DEF Delsess, Deletes
  <2>2. ScreenOK(m)'
    BY <1>1, <1>5 DEF Becomes
  <2>3. Given(Delsess(Deletes(mm)))' /\ \A e : Given(e) => Given(e)'
    BY <1>5, <2>1, SaysGives
  <2>4. (\A p \in posts : PostOK(p))'
    BY <1>5, <2>3 DEF AnswersInv, PostOK
  <2>5. AnswersAsShown'
    BY <1>5, <2>3 DEF AnswersInv, AnswersAsShown, Given
  <2> QED
    BY <2>2, <2>4, <2>5 DEF AnswersInv
<1>6. CASE Becomes(closed) /\ Sends(Post("no", c.of)) /\ UNCHANGED <<said, obeyed>>
  BY <1>1, <1>6, PostKinds, PlainPost
<1>7. CASE Becomes(mm) /\ Quiet
  BY <1>7, OnlyScreen DEF Quiet
<1> QED
  BY <1>3, <1>4, <1>5, <1>6, <1>7 DEF ConfirmKey, closed

LEMMA OptionsKeyStep ==
    ASSUME AnswersInv, NEW mm, ScreenOK(mm), mm.options # None, NEW k, OptionsKey(mm, k)
    PROVE  AnswersInv'
<1>1. ScreenOK([mm EXCEPT !.options = None])
  BY DialogKinds, DialogParts
<1>2. \/ DoEnter([mm EXCEPT !.options = None])
      \/ \E painted : ResolveOptions(mm, FALSE, painted) \/ ResolveOptions(mm, TRUE, painted)
      \/ Becomes(mm) /\ Quiet
  BY DEF OptionsKey
<1> QED
  BY <1>1, <1>2, OnlyScreen, EnterStep, OptionsStep DEF Quiet

LEMMA MainKeyStep ==
    ASSUME AnswersInv, NEW mm, ScreenOK(mm), NEW k, MainKey(mm, k)
    PROVE  AnswersInv'
<1>1. /\ ScreenOK(Unpended(mm))
      /\ \A x, y : ScreenOK([Unpended(mm) EXCEPT !.open = x, !.focus = y])
      /\ \A x : ScreenOK([Unpended(mm) EXCEPT !.open = x])
      /\ \A x, y : ScreenOK([Unpended(mm) EXCEPT !.focus = x, !.filter = y])
      /\ \A x : ScreenOK([Unpended(mm) EXCEPT !.input = x])
  BY FilterOK, OtherParts
<1>2. ScreenOK(Tab(mm))
  BY <1>1 DEF Tab
<1>3. ScreenOK(CtrlB(mm))
  BY <1>1, RefreshedOK DEF CtrlB
<1>4. ScreenOK(Esc(mm))
  BY <1>1, OtherParts DEF Esc
<1>5. CASE CtrlC(mm)
  <2>1. ScreenOK([mm EXCEPT !.deploy = FALSE, !.thinking = FALSE]) /\ ScreenOK([mm EXCEPT !.quit = TRUE])
    BY OtherParts
  <2>2. CASE Becomes(mm) /\ Sends(Post("cancel", mm.turn)) /\ UNCHANGED <<said, obeyed>>
    BY <2>2, PostKinds, PlainPost
  <2>3. CASE /\ Becomes([mm EXCEPT !.deploy = FALSE, !.thinking = FALSE])
             /\ Sends(Post("deployCancel", 0)) /\ UNCHANGED <<said, obeyed>>
    BY <2>1, <2>3, PostKinds, PlainPost
  <2>4. CASE Becomes([mm EXCEPT !.quit = TRUE]) /\ Quiet
    BY <2>1, <2>4, OnlyScreen DEF Quiet
  <2> QED
    BY <1>5, <2>2, <2>3, <2>4 DEF CtrlC
<1>6. CASE Quiet /\ (Becomes(Tab(mm)) \/ Becomes(CtrlB(mm)) \/ Becomes(Esc(mm)) \/ Becomes(mm))
  BY <1>2, <1>3, <1>4, <1>6, OnlyScreen DEF Quiet
<1>7. CASE Quiet /\ \/ Becomes([mm EXCEPT !.focus = FALSE, !.input = "slash"])
                    \/ \E x : Becomes([mm EXCEPT !.input = x])
  BY <1>7, OtherParts, OnlyScreen DEF Quiet
<1>8. CASE DoEnter(mm)
  BY <1>8, EnterStep
<1> QED
  BY <1>5, <1>6, <1>7, <1>8 DEF MainKey

LEMMA KeyStep ==
    ASSUME AnswersInv, NEW k, Key(k)
    PROVE  AnswersInv'
<1>1. ScreenOK(m)
  BY DEF AnswersInv
<1>2. ASSUME NEW mm, ScreenOK(mm), KeyIn(mm, k)
      PROVE  AnswersInv'
  <2>1. ScreenOK([mm EXCEPT !.options = None])
    BY <1>2, DialogKinds, DialogParts
  <2>2. \/ PanelKey(mm, k) /\ UNCHANGED <<posts, said, obeyed>>
        \/ SlashKey(mm, k)
        \/ mm.confirm # None /\ ConfirmKey(mm, k)
        \/ mm.options # None /\ OptionsKey(mm, k)
        \/ MainKey(mm, k)
        \/ MainKey([mm EXCEPT !.options = None], k)
    BY <1>2 DEF KeyIn
  <2> QED
    BY <1>2, <2>1, <2>2, PanelKeyStep, SlashStep, ConfirmStep, OptionsKeyStep, MainKeyStep
<1>3. CASE DoEnter(m)
  BY <1>1, <1>3, EnterStep
<1>4. ASSUME NEW mm \in Flushed(Unfocused(m, k), k), KeyIn(mm, k)
      PROVE  AnswersInv'
  BY <1>1, <1>2, <1>4, FlushedOK
<1> QED
  BY <1>3, <1>4 DEF Key

LEMMA ClickStep ==
    ASSUME AnswersInv, Click
    PROVE  AnswersInv'
<1>1. /\ ScreenOK(m) /\ ScreenOK([m EXCEPT !.input = "command"])
      /\ ScreenOK([m EXCEPT !.idx = 1, !.focus = TRUE]) /\ ScreenOK([m EXCEPT !.focus = TRUE])
  BY OtherParts DEF AnswersInv
<1>2. CASE Quiet /\ \/ Becomes([m EXCEPT !.input = "command"]) \/ Becomes([m EXCEPT !.focus = TRUE])
                    \/ Becomes(Refreshed([m EXCEPT !.idx = 1, !.focus = TRUE], engine.sessions))
  BY <1>1, <1>2, RefreshedOK, OnlyScreen DEF Quiet
<1>3. CASE m.options # None /\ ResolveOptions(m, FALSE, m.options)
  BY <1>1, <1>3, OptionsStep
<1>4. CASE Quiet /\ (Becomes(NewSession(m)) \/ OpenSession([m EXCEPT !.focus = TRUE]))
  BY <1>1, <1>4, OpenStep DEF Quiet
<1> QED
  BY <1>2, <1>3, <1>4 DEF Click

LEMMA PanelTimeoutStep ==
    ASSUME AnswersInv, PanelTimeout
    PROVE  AnswersInv'
<1> DEFINE mm == Unpended(m)
           items == PanelFiltered(m)
<1>1. ScreenOK(mm)
  BY FilterOK DEF AnswersInv
<1>2. /\ \A x : ScreenOK(Refreshed(mm, x)) /\ ScreenOK(Refreshed([mm EXCEPT !.idx = 1], x))
      /\ ScreenOK(NewSession(mm))
      /\ \A s : ScreenOK([mm EXCEPT !.confirm = Delsess(s)])
      /\ ScreenOK([mm EXCEPT !.renaming = TRUE, !.input = "text"])
  BY <1>1, RefreshedOK, OtherParts, DialogKinds, DialogParts DEF NewSession
<1>3. \/ m' = NewSession(mm)
      \/ m' = Refreshed([mm EXCEPT !.idx = 1], engine.sessions)
      \/ m' = Refreshed(mm, Reverse(engine.sessions))
      \/ m' = [mm EXCEPT !.confirm = Delsess(items[m.idx])]
      \/ m' = [mm EXCEPT !.renaming = TRUE, !.input = "text"]
      \/ m' = mm
  BY DEF PanelTimeout, Becomes
<1>4. UNCHANGED <<posts, said, obeyed>>
  BY DEF PanelTimeout
<1> HIDE DEF mm, items
<1>5. ScreenOK(m')
  BY <1>1, <1>2, <1>3
<1> QED
  BY <1>4, <1>5, OnlyScreen DEF Becomes

-----------------------------------------------------------------------------
(* Events, the answers of the POSTs, and the engine.                       *)

LEMMA EventStep ==
    ASSUME AnswersInv, OnEvent
    PROVE  AnswersInv'
<1>1. /\ ScreenOK(Ended(m)) /\ ScreenOK(Failed(m)) /\ \A x : ScreenOK(Refreshed(Ended(m), x))
      /\ \A x : ScreenOK(Refreshed(m, x))
  BY OtherParts, RefreshedOK DEF AnswersInv, Ended, Failed
<1>2. /\ \A o : IsDialog(o) => ScreenOK([m EXCEPT !.options = o]) /\ ScreenOK([m EXCEPT !.confirm = o])
      /\ \A o, x : IsDialog(o) => ScreenOK(Refreshed([m EXCEPT !.options = o], x))
  BY DialogParts, RefreshedOK DEF AnswersInv
<1>3. IsDialog(m.options)
  BY DEF AnswersInv, ScreenOK
<1>4. UNCHANGED <<posts, said, obeyed>>
  BY DEF OnEvent
<1> DEFINE shown(o) == IF o = None THEN m.options ELSE o
<1>5. \/ \E o \in {None, Local("welcome")} :
            Becomes(Refreshed([m EXCEPT !.options = shown(o)], engine.sessions))
      \/ Becomes(Ended(m)) \/ Becomes(Failed(m))
      \/ Becomes(Refreshed(Ended(m), engine.sessions)) \/ Becomes(Refreshed(m, engine.sessions))
      \/ \E c : Becomes([m EXCEPT !.confirm = Tool(c)])
      \/ \E c : \E o \in {Ask(c), Local("followup")} : Becomes([m EXCEPT !.options = o])
  BY DEF OnEvent
<1>6. \A o \in {None, Local("welcome")} : IsDialog(shown(o))
  BY <1>3, DialogKinds
<1> HIDE DEF shown
<1>7. ScreenOK(m')
  BY <1>1, <1>2, <1>5, <1>6, DialogKinds DEF Becomes
<1> QED
  BY <1>4, <1>7, OnlyScreen DEF Becomes

\* Requests that are answered leave the others alone.
LEMMA FewerPosts ==
    ASSUME AnswersInv, ScreenOK(m'), posts' \subseteq posts, UNCHANGED <<said, obeyed>>
    PROVE  AnswersInv'
BY DEF AnswersInv, PostOK, Given, AnswersAsShown, Unseen, ScreenOK

LEMMA AnsweredStep ==
    ASSUME AnswersInv, NEW p \in posts, TurnAnswered(p) \/ JobEnds(p)
    PROVE  AnswersInv'
<1> DEFINE mm == [m EXCEPT !.thinking = FALSE]
<1>1. /\ ScreenOK(Failed(m)) /\ \A x : ScreenOK([m EXCEPT !.turn = x])
      /\ ScreenOK(mm) /\ ScreenOK([mm EXCEPT !.deploy = FALSE]) /\ ScreenOK([mm EXCEPT !.wizard = None])
      /\ ScreenOK([mm EXCEPT !.wizard = @ - 1, !.form = TRUE]) /\ ScreenOK([mm EXCEPT !.form = TRUE])
  BY OtherParts DEF AnswersInv, Failed
<1>2. CASE TurnAnswered(p)
  BY <1>1, <1>2, FewerPosts DEF TurnAnswered, Becomes
<1>3. CASE JobEnds(p)
  <2>1. \/ m' = mm \/ m' = [mm EXCEPT !.deploy = FALSE] \/ m' = [mm EXCEPT !.wizard = None]
        \/ m' = [mm EXCEPT !.wizard = @ - 1, !.form = TRUE] \/ m' = [mm EXCEPT !.form = TRUE]
    BY <1>3 DEF JobEnds, Becomes
  <2>2. posts' = posts \ {p} /\ UNCHANGED <<said, obeyed>>
    BY <1>3 DEF JobEnds
  <2> HIDE DEF mm
  <2> QED
    BY <1>1, <2>1, <2>2, FewerPosts
<1> QED
  BY <1>2, <1>3

LEMMA EngineTurnStep ==
    ASSUME AnswersInv, NEW p \in posts, EngineTurn(p)
    PROVE  AnswersInv'
<1> DEFINE taken == [p EXCEPT !.step = "accepted", !.of = engine.turns + 1]
           refused == [p EXCEPT !.step = "refused"]
<1>1. p.kind = "turn" /\ p = [kind |-> p.kind, of |-> p.of, step |-> p.step]
  BY DEF EngineTurn, AnswersInv, PostOK, IsPost
<1>2. /\ taken = [kind |-> "turn", of |-> engine.turns + 1, step |-> "accepted"]
      /\ refused = [kind |-> "turn", of |-> p.of, step |-> "refused"]
  <2>1. \A k, n, s, t : [[kind |-> k, of |-> n, step |-> s] EXCEPT !.step = t]
                        = [kind |-> k, of |-> n, step |-> t]
    OBVIOUS
  <2>2. \A k, n, s, o : [[kind |-> k, of |-> n, step |-> s] EXCEPT !.of = o]
                        = [kind |-> k, of |-> o, step |-> s]
    OBVIOUS
  <2>3. p = [kind |-> "turn", of |-> p.of, step |-> p.step]
    BY <1>1
  <2>4. refused = [[kind |-> "turn", of |-> p.of, step |-> p.step] EXCEPT !.step = "refused"]
    BY <2>3, Zenon
  <2>5. taken = [[[kind |-> "turn", of |-> p.of, step |-> p.step]
                   EXCEPT !.step = "accepted"] EXCEPT !.of = engine.turns + 1]
    BY <2>3, Zenon
  <2> HIDE DEF taken, refused
  <2> QED
    BY <2>1, <2>2, <2>4, <2>5
<1>3. \E q \in {taken, refused} : posts' = (posts \ {p}) \cup {q}
  BY DEF EngineTurn
<1>4. UNCHANGED <<m, said, obeyed>>
  BY DEF EngineTurn
<1> HIDE DEF taken, refused
<1>5. IsPost(taken) /\ taken.kind = "turn" /\ IsPost(refused) /\ refused.kind = "turn"
  BY <1>2 DEF IsPost
<1> QED
  BY <1>3, <1>4, <1>5 DEF AnswersInv, PostOK, Given, AnswersAsShown, Unseen, ScreenOK

\* The engine obeys an answer that was given.
LEMMA EngineAnswerStep ==
    ASSUME AnswersInv, NEW p \in posts, EngineAnswer(p)
    PROVE  AnswersInv'
<1>1. posts' = posts \ {p} /\ UNCHANGED <<m, said>>
  BY DEF EngineAnswer
<1>2. \/ obeyed' = obeyed
      \/ p.kind = "yes" /\ obeyed' = obeyed \cup {Tool(p.of)}
      \/ p.kind = "options" /\ obeyed' = obeyed \cup {Ask(p.of)}
  BY DEF EngineAnswer
<1>3. PostOK(p)
  BY DEF AnswersInv
<1>4. (\A q \in posts : PostOK(q))' /\ ScreenOK(m)'
  BY <1>1 DEF AnswersInv, PostOK, Given, Unseen, ScreenOK
<1>5. AnswersAsShown'
  BY <1>1, <1>2, <1>3 DEF AnswersInv, AnswersAsShown, PostOK, Given, Unseen
<1> QED
  BY <1>4, <1>5 DEF AnswersInv

LEMMA EngineStepOK ==
    ASSUME AnswersInv,
           \/ EngineQueue \/ EngineAsks \/ EngineTimesOut \/ EngineEnds \/ EngineTitles \/ EngineGone
           \/ \E p \in posts : EngineCancel(p)
    PROVE  AnswersInv'
<1>1. UNCHANGED <<m, said, obeyed>> /\ posts' \subseteq posts
  BY DEF EngineQueue, EngineAsks, EngineTimesOut, EngineEnds, EngineTitles, EngineGone, EngineCancel
<1> QED
  BY <1>1, FewerPosts DEF AnswersInv

-----------------------------------------------------------------------------

LEMMA AnswersStart == ClientInit => AnswersInv
<1> SUFFICES ASSUME ClientInit PROVE AnswersInv
  OBVIOUS
<1>1. m.confirm = None /\ m.options = None /\ "confirm" \in DOMAIN m /\ "options" \in DOMAIN m
  <2>1. \E f, w : m = [turn |-> None, thinking |-> FALSE, confirm |-> None, options |-> None,
                      form |-> f, wizard |-> w, deploy |-> FALSE, input |-> "empty",
                      open |-> TRUE, focus |-> FALSE, renaming |-> FALSE, items |-> <<>>, idx |-> 0,
                      filter |-> "", pending |-> None, quit |-> FALSE]
    BY Zenon DEF ClientInit
  <2>2. PICK f, w : m = [turn |-> None, thinking |-> FALSE, confirm |-> None, options |-> None,
                      form |-> f, wizard |-> w, deploy |-> FALSE, input |-> "empty",
                      open |-> TRUE, focus |-> FALSE, renaming |-> FALSE, items |-> <<>>, idx |-> 0,
                      filter |-> "", pending |-> None, quit |-> FALSE]
    BY <2>1, Zenon
  <2>3. "confirm" \in DOMAIN m /\ "options" \in DOMAIN m
    BY <2>2
  <2>4. m.confirm = None
    BY <2>2
  <2>5. m.options = None
    BY <2>2
  <2> QED
    BY <2>3, <2>4, <2>5
<1>2. posts = {} /\ obeyed = {}
  BY DEF ClientInit
<1> QED
  BY <1>1, <1>2 DEF AnswersInv, ScreenOK, IsDialog, AnswersAsShown

LEMMA AnswersKept == AnswersInv /\ [ClientNext]_clientVars => AnswersInv'
<1> SUFFICES ASSUME AnswersInv, [ClientNext]_clientVars PROVE AnswersInv'
  OBVIOUS
<1>1. CASE UserLeaves
  BY <1>1, KeyStep DEF UserLeaves
<1>2. CASE UserWorks
  BY <1>2, KeyStep, ClickStep DEF UserWorks
<1>3. CASE Timeout
  BY <1>3, PanelTimeoutStep DEF Timeout
<1>4. CASE ScreenStep
  BY <1>4, EventStep DEF ScreenStep
<1>5. CASE PostStep
  BY <1>5, EngineTurnStep, AnsweredStep, EngineAnswerStep, EngineStepOK DEF PostStep
<1>6. CASE CancelledEnds
  BY <1>6, EngineStepOK DEF CancelledEnds
<1>7. CASE EngineStep
  BY <1>7, EngineStepOK DEF EngineStep
<1>8. CASE UNCHANGED clientVars
  BY <1>8 DEF clientVars, AnswersInv, PostOK, Given, AnswersAsShown, Unseen, ScreenOK
<1> QED
  BY <1>1, <1>2, <1>3, <1>4, <1>5, <1>6, <1>7, <1>8 DEF ClientNext

\* The screen and the engine never leave the inductive invariant: a dialog and
\* an answer on its way are of the right kinds, and an answer on its way was
\* given to its dialog, painted or hidden (model.go:522-601, 842-888).
THEOREM AnswersCorrect == ClientSpec => []AnswersInv
BY AnswersStart, AnswersKept, PTL DEF ClientSpec

\* What the engine runs, chooses or deletes in the user's name, he answered the
\* dialog for just this, which the Model held when the key came: while View
\* painted it, or while it was hidden (Unseen); for any number of sessions,
\* dialogs, turns and keys (model.go:522-601, 842-888, panel.go:426-466).
THEOREM ObeysTheUser == ClientSpec => []AnswersAsShown
<1>1. AnswersInv => AnswersAsShown
  BY DEF AnswersInv
<1> QED
  BY <1>1, AnswersCorrect, PTL

=============================================================================
