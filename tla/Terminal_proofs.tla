-------------------------- MODULE Terminal_proofs ---------------------------
(***************************************************************************)
(* Proofs about four parts that share no state: the wrapper with its       *)
(* engine and its screen, for both values of NoParentWatch, the persistent *)
(* shell of the bash tool in Go, the screen of the Go program, for any     *)
(* number of sessions, messages and changes, and the patch tool in Go, for *)
(* every patch and every file.                                             *)
(***************************************************************************)
EXTENDS Wrapper, GoShell, GoScreen, GoPatch, SequenceTheorems, WellFoundedInduction, TLAPS

-----------------------------------------------------------------------------
(* The wrapper. *)


\* What the wrapper sends: while it waits it watches no screen, and in Ink
\* or after it left by itself, whoever is alive was sent SIGTERM.
Told ==
    /\ wrapper = "waiting" => watch = "off"
    /\ wrapper \in {"fallback", "exited"} =>
         "motor" \in term /\ (screen \in {"none", "dead"} \/ "screen" \in term)

WrapperInv == TypeOK /\ InkAlone /\ Told

\* A step leaves the code of the screen alone, or ends the screen with one.
LEMMA EndsEffect ==
    ASSUME NEW code \in {"zero", "three", "other", "signal", "spawn error"},
           WrapperInv, screen # "none", Ends(code)
    PROVE  WrapperInv'
  BY DEF WrapperInv, TypeOK, InkAlone, Told, Ends

\* InkAlone and TypeOK, with Told, are inductive.
THEOREM WrapperCorrect == Spec => []WrapperInv
<1>1. Init => WrapperInv
  BY DEF Init, WrapperInv, TypeOK, InkAlone, Told
<1>2. WrapperInv /\ [Next]_vars => WrapperInv'
  <2> SUFFICES ASSUME WrapperInv, [Next]_vars PROVE WrapperInv'
    OBVIOUS
  <2> USE DEF WrapperInv, TypeOK, InkAlone, Told
  <2>1. CASE Healthy
    BY <2>1 DEF Healthy
  <2>2. CASE StartupFails
    BY <2>2 DEF StartupFails
  <2>3. CASE ScreenGone
    BY <2>3 DEF ScreenGone
  <2>4. CASE MotorGone
    BY <2>4 DEF MotorGone
  <2>5. CASE ThreeSeconds
    BY <2>5 DEF ThreeSeconds
  <2>6. CASE WatchAsks
    BY <2>6 DEF WatchAsks
  <2>7. CASE WatchKills
    BY <2>7 DEF WatchKills
  <2>8. CASE Signalled
    BY <2>8 DEF Signalled
  <2>9. CASE InkEnds
    BY <2>9 DEF InkEnds
  <2>10. CASE Killed
    BY <2>10 DEF Killed
  <2>11. CASE Listens \/ ParentWatch \/ Closed \/ MotorTerminated \/ MotorDies
    BY <2>11 DEF Listens, ParentWatch, Closed, MotorTerminated, MotorDies
  <2>12. CASE Connects \/ Hangs
    BY <2>12 DEF Connects, Hangs
  <2>13. CASE ScreenFails
    <3>1. PICK code \in {"spawn error", "three", "other", "signal"} : Ends(code)
      BY <2>13 DEF ScreenFails
    <3>2. screen # "none"
      BY <2>13 DEF ScreenFails
    <3> QED
      BY <3>1, <3>2, EndsEffect
  <2>14. CASE Quits \/ WatchParent
    BY <2>14, EndsEffect DEF Quits, WatchParent
  <2>15. CASE ScreenTerminated
    <3>1. PICK code \in {"zero", "signal"} : Ends(code)
      BY <2>15 DEF ScreenTerminated
    <3>2. screen # "none"
      BY <2>15 DEF ScreenTerminated
    <3> QED
      BY <3>1, <3>2, EndsEffect
  <2>16. CASE UNCHANGED vars
    <3>1. /\ wrapper' = wrapper /\ motor' = motor /\ parent' = parent
          /\ screen' = screen /\ exit' = exit /\ term' = term
          /\ young' = young /\ watch' = watch
      BY <2>16 DEF vars
    <3>2. TypeOK'
      BY <3>1
    <3>3. InkAlone' /\ Told'
      BY <3>1
    <3> QED
      BY <3>2, <3>3
  <2> QED
    BY <2>1, <2>2, <2>3, <2>4, <2>5, <2>6, <2>7, <2>8, <2>9, <2>10, <2>11,
       <2>12, <2>13, <2>14, <2>15, <2>16 DEF Next
<1> QED
  BY <1>1, <1>2, PTL DEF Spec

\* The variables keep their types, and a screen has a code when it ended.
THEOREM WrapperTypes == Spec => []TypeOK
<1>1. WrapperInv => TypeOK
  BY DEF WrapperInv
<1> QED
  BY <1>1, WrapperCorrect, PTL

\* Ink never paints beside the screen in Go, and the engine was told to end.
THEOREM InkIsAlone == Spec => []InkAlone
<1>1. WrapperInv => InkAlone
  BY DEF WrapperInv
<1> QED
  BY <1>1, WrapperCorrect, PTL

\* A wrapper that leaves has sent SIGTERM to whoever of the two is alive: the
\* safety part of ExitLeavesNothing, which TLC checks.
THEOREM LeavingTellsBoth ==
    Spec => [](wrapper = "exited" => "motor" \in term
                 /\ (screen \in {"none", "dead"} \/ "screen" \in term))
<1>1. WrapperInv => (wrapper = "exited" => "motor" \in term
                       /\ (screen \in {"none", "dead"} \/ "screen" \in term))
  BY DEF WrapperInv, Told
<1> QED
  BY <1>1, WrapperCorrect, PTL

-----------------------------------------------------------------------------
(* The shell of the bash tool. Each call that waits is in the queue of its *)
(* shell, or the command that its goroutine waits for, and nowhere twice.  *)

CallStages == {"idle", "shell", "start", "exec", "send", "wait"} \cup Returned

ShellTypes ==
    /\ call \in [Calls -> CallStages]
    /\ shellOf \in [Calls -> 0 .. MaxShells]
    /\ instance \in 0 .. MaxShells
    /\ current \in [Shells -> Calls \cup {NoCall}]
    /\ queue \in [Shells -> Seq(Calls)]
    /\ name \in [Calls -> Calls \cup {NoCall}]
    /\ codeOf \in [Calls -> Calls \cup {NoCall}]

HasShell == \A c \in Calls : call[c] \in {"exec", "send", "wait"} => shellOf[c] \in Shells

QueuedWait ==
    \A h \in Shells : \A i \in 1 .. Len(queue[h]) :
        /\ call[queue[h][i]] = "wait" /\ shellOf[queue[h][i]] = h
        /\ queue[h][i] # current[h]
        /\ \A j \in 1 .. Len(queue[h]) : queue[h][i] = queue[h][j] => i = j

CurrentWaits ==
    \A h \in Shells : current[h] # NoCall =>
        call[current[h]] = "wait" /\ shellOf[current[h]] = h

InQueue(h, c) == \E i \in 1 .. Len(queue[h]) : queue[h][i] = c

NoneLost ==
    \A c \in Calls : call[c] = "wait" => current[shellOf[c]] = c \/ InQueue(shellOf[c], c)

\* A command has a name from when it is taken on, that of the first command
\* with its reading of the clock.
Named ==
    /\ \A c \in Calls : name[c] # NoCall =>
           /\ name[name[c]] = name[c]
           /\ \/ call[c] \in Returned
              \/ call[c] = "wait" /\ current[shellOf[c]] = c
    /\ \A h \in Shells : current[h] # NoCall => name[current[h]] # NoCall

\* No two commands of a shell have one name.
Apart ==
    \A c, d \in Calls : name[c] # NoCall /\ name[c] = name[d] /\ shellOf[c] = shellOf[d] => c = d

\* The exit code that was read was in a file of the name of the command.
ReadByName ==
    \A c \in Calls : call[c] = "complete" =>
        name[c] # NoCall /\ codeOf[c] \in Calls /\ name[codeOf[c]] = name[c]

ShellInv ==
    /\ ShellTypes /\ HasShell /\ QueuedWait /\ CurrentWaits /\ NoneLost
    /\ Named /\ Apart /\ ReadByName

\* A returned call stays as it is.
OutcomesStay == \A c \in Calls : call[c] \in Returned => call'[c] = call[c]

LEMMA ShellInitInv == ASSUME ShellInit PROVE ShellInv
  <1>1. ShellTypes
    BY ShellAssumption DEF ShellInit, ShellTypes, CallStages
  <1>2. HasShell /\ QueuedWait /\ CurrentWaits /\ NoneLost
    BY DEF ShellInit, HasShell, QueuedWait, CurrentWaits, NoneLost
  <1>3. Named /\ Apart /\ ReadByName
    BY DEF ShellInit, Named, Apart, ReadByName
  <1>4. QED
    BY <1>1, <1>2, <1>3 DEF ShellInv

\* Steps of a call that is not sent yet: nobody waits for it, or gets it.
LEMMA CallMoves ==
  ASSUME ShellInv, NEW c \in Calls, NEW stage \in CallStages \ {"wait", "complete"},
         call[c] \notin Returned \cup {"wait"}, To(c, stage),
         shellOf' \in [Calls -> 0 .. MaxShells],
         \A d \in Calls \ {c} : shellOf'[d] = shellOf[d],
         stage \in {"exec", "send"} => shellOf'[c] \in Shells,
         instance' \in 0 .. MaxShells, UNCHANGED <<queue, current, name, codeOf>>
  PROVE  ShellInv' /\ OutcomesStay
  <1> USE DEF ShellInv, ShellTypes
  <1>1. /\ call' \in [Calls -> CallStages] /\ call'[c] = stage
        /\ \A d \in Calls \ {c} : call'[d] = call[d]
    BY DEF To
  <1>2. ShellTypes' /\ OutcomesStay
    BY <1>1 DEF OutcomesStay
  <1>3. HasShell'
    BY <1>1 DEF HasShell
  <1>4. QueuedWait'
    <2> SUFFICES ASSUME NEW h \in Shells, NEW i \in 1 .. Len(queue[h])
                 PROVE  /\ call'[queue[h][i]] = "wait" /\ shellOf'[queue[h][i]] = h
                        /\ queue[h][i] # current[h]
                        /\ \A j \in 1 .. Len(queue[h]) : queue[h][i] = queue[h][j] => i = j
      BY DEF QueuedWait
    <2>1. queue[h][i] \in Calls /\ queue[h][i] # c
      BY DEF QueuedWait
    <2>2. QED
      BY <1>1, <2>1 DEF QueuedWait
  <1>5. CurrentWaits'
    BY <1>1, ShellAssumption DEF CurrentWaits
  <1>6. NoneLost'
    <2> SUFFICES ASSUME NEW d \in Calls, call'[d] = "wait"
                 PROVE  (current[shellOf[d]] = d \/ InQueue(shellOf[d], d))'
      BY DEF NoneLost
    <2>1. shellOf'[d] = shellOf[d] /\ call[d] = "wait"
      BY <1>1
    <2>2. current[shellOf[d]] = d \/ InQueue(shellOf[d], d)
      BY <2>1 DEF NoneLost
    <2>3. QED
      BY <2>1, <2>2 DEF InQueue
  <1>7. name[c] = NoCall
    BY DEF Named
  <1>8. Named'
    BY <1>1, <1>7 DEF Named
  <1>9. Apart'
    BY <1>7 DEF Apart
  <1>10. ReadByName'
    BY <1>1 DEF ReadByName
  <1>11. QED
    BY <1>2, <1>3, <1>4, <1>5, <1>6, <1>8, <1>9, <1>10

LEMMA CallStepKeeps ==
  ASSUME ShellInv, NEW c \in Calls, BashRun(c) \/ Look(c) \/ NewShell(c) \/ Exec(c)
  PROVE  ShellInv' /\ OutcomesStay
  <1> USE DEF ShellInv, ShellTypes
  <1>1. CASE BashRun(c)
    <2>1. PICK to \in {"shell", "refused"} : To(c, to)
      BY <1>1 DEF BashRun
    <2>2. QED
      BY <1>1, <2>1, CallMoves DEF BashRun, CallStages, Returned
  <1>2. CASE Look(c)
    <2>1. CASE instance # 0 /\ isAlive[instance]
      <3>1. To(c, "exec") /\ shellOf' = [shellOf EXCEPT ![c] = instance] /\ instance \in Shells
        BY <1>2, <2>1, ShellAssumption DEF Look, Shells
      <3>2. QED
        BY <1>2, <3>1, CallMoves DEF Look, CallStages, Returned
    <2>2. CASE ~(instance # 0 /\ isAlive[instance])
      BY <1>2, <2>2, CallMoves DEF Look, CallStages, Returned
    <2>3. QED
      BY <2>1, <2>2
  <1>3. CASE NewShell(c)
    <2>1. CASE instance' = 0 /\ To(c, "panicked") /\ UNCHANGED shellOf
      <3>1. instance' \in 0 .. MaxShells
        BY <2>1, ShellAssumption
      <3>2. UNCHANGED <<queue, current, name, codeOf>> /\ call[c] = "start"
        BY <1>3 DEF NewShell
      <3>3. QED
        BY <2>1, <3>1, <3>2, CallMoves DEF CallStages, Returned
    <2>2. CASE \E h \in Shells : /\ NewPersistentShell(h) /\ To(c, "exec")
                                 /\ shellOf' = [shellOf EXCEPT ![c] = h]
      <3>1. PICK h \in Shells : /\ NewPersistentShell(h) /\ To(c, "exec")
                                /\ shellOf' = [shellOf EXCEPT ![c] = h]
        BY <2>2
      <3>2. h \in 0 .. MaxShells /\ instance' = h
        BY <3>1, ShellAssumption DEF Shells, NewPersistentShell
      <3>3. QED
        BY <1>3, <3>1, <3>2, CallMoves DEF NewShell, CallStages, Returned
    <2>3. QED
      BY <1>3, <2>1, <2>2 DEF NewShell
  <1>4. CASE Exec(c)
    <2>1. To(c, "send") \/ To(c, "failed")
      BY <1>4 DEF Exec
    <2>2. QED
      BY <1>4, <2>1, CallMoves DEF Exec, CallStages, Returned, HasShell
  <1>5. QED
    BY <1>1, <1>2, <1>3, <1>4

LEMMA SendKeeps ==
  ASSUME ShellInv, NEW c \in Calls, Send(c)
  PROVE  ShellInv' /\ OutcomesStay
  <1> USE DEF ShellInv, ShellTypes
  <1> DEFINE h == shellOf[c]
  <1>1. call[c] = "send" /\ h \in Shells
    BY DEF Send, HasShell
  <1>2. CASE closed[h]
    BY <1>1, <1>2, CallMoves DEF Send, CallStages, Returned
  <1>3. CASE ~closed[h]
    <2>1. /\ queue' = [queue EXCEPT ![h] = Append(queue[h], c)] /\ To(c, "wait")
          /\ UNCHANGED <<shellOf, instance, current, name, codeOf>>
      BY <1>3 DEF Send
    <2> HIDE DEF h
    <2>2. /\ call' \in [Calls -> CallStages] /\ call'[c] = "wait"
          /\ \A d \in Calls \ {c} : call'[d] = call[d]
      BY <2>1 DEF To, CallStages
    <2>3. /\ queue' \in [Shells -> Seq(Calls)]
          /\ \A g \in Shells \ {h} : queue'[g] = queue[g]
          /\ queue'[h] = Append(queue[h], c)
      BY <1>1, <2>1
    <2>4. /\ Len(queue'[h]) = Len(queue[h]) + 1 /\ Len(queue[h]) \in Nat
          /\ \A i \in 1 .. Len(queue[h]) : queue'[h][i] = queue[h][i]
          /\ queue'[h][Len(queue[h]) + 1] = c
      BY <1>1, <2>3
    <2>5. ShellTypes' /\ OutcomesStay /\ HasShell'
      BY <1>1, <2>1, <2>2, <2>3 DEF OutcomesStay, HasShell, h, Returned
    <2>6. \A g \in Shells : \A i \in 1 .. Len(queue[g]) : queue[g][i] \in Calls /\ queue[g][i] # c
      BY <1>1 DEF QueuedWait
    <2>7. \A g \in Shells : current[g] # c
      BY <1>1, ShellAssumption DEF CurrentWaits
    <2>8. QueuedWait'
      <3> SUFFICES ASSUME NEW g \in Shells, NEW i \in 1 .. Len(queue'[g])
                   PROVE  /\ call'[queue'[g][i]] = "wait" /\ shellOf'[queue'[g][i]] = g
                          /\ queue'[g][i] # current'[g]
                          /\ \A j \in 1 .. Len(queue'[g]) : queue'[g][i] = queue'[g][j] => i = j
        BY DEF QueuedWait
      <3>1. CASE g # h
        BY <3>1, <2>1, <2>2, <2>3, <2>6 DEF QueuedWait
      <3>2. CASE g = h /\ i = Len(queue[h]) + 1
        BY <3>2, <1>1, <2>1, <2>2, <2>4, <2>6, <2>7 DEF h
      <3>3. CASE g = h /\ i # Len(queue[h]) + 1
        <4>1. i \in 1 .. Len(queue[h]) /\ queue'[g][i] = queue[h][i]
          <5>1. i \in 1 .. Len(queue[h]) + 1 /\ Len(queue[h]) \in Nat
            BY <3>3, <2>4
          <5>2. i \in 1 .. Len(queue[h])
            BY <3>3, <5>1
          <5> QED BY <3>3, <2>4, <5>2
        <4>2. queue[h][i] \in Calls /\ queue[h][i] # c
          BY <1>1, <4>1, <2>6
        <4>3. /\ call'[queue[h][i]] = "wait" /\ shellOf'[queue[h][i]] = h
              /\ queue[h][i] # current'[h]
          BY <1>1, <4>1, <4>2, <2>1, <2>2 DEF QueuedWait
        <4>4. ASSUME NEW j \in 1 .. Len(queue'[h]), queue[h][i] = queue'[h][j]
              PROVE  i = j
          <5>1. CASE j = Len(queue[h]) + 1
            BY <5>1, <4>2, <4>4, <2>4
          <5>2. CASE j # Len(queue[h]) + 1
            <6>1. j \in 1 .. Len(queue[h]) + 1 /\ Len(queue[h]) \in Nat
              BY <2>4
            <6>2. j \in 1 .. Len(queue[h])
              BY <5>2, <6>1
            <6>3. queue'[h][j] = queue[h][j]
              BY <6>2, <2>4
            <6>4. queue[h][i] = queue[h][j] /\ i \in 1 .. Len(queue[h])
              BY <4>1, <4>4, <6>3
            <6>5. \A k, l \in 1 .. Len(queue[h]) : queue[h][k] = queue[h][l] => k = l
              BY <1>1 DEF QueuedWait
            <6>6. QED
              BY <6>2, <6>4, <6>5
          <5>3. QED
            BY <5>1, <5>2
        <4>5. QED
          BY <3>3, <4>1, <4>3, <4>4
      <3>4. QED
        BY <3>1, <3>2, <3>3
    <2>9. CurrentWaits'
      BY <2>1, <2>2, <2>7, ShellAssumption DEF CurrentWaits
    <2>10. NoneLost'
      <3> SUFFICES ASSUME NEW d \in Calls, call'[d] = "wait"
                   PROVE  current[shellOf[d]] = d
                          \/ \E i \in 1 .. Len(queue'[shellOf[d]]) : queue'[shellOf[d]][i] = d
        BY <2>1 DEF NoneLost, InQueue
      <3>1. CASE d = c
        <4>1. Len(queue[h]) + 1 \in 1 .. Len(queue'[h]) /\ shellOf[d] = h
          BY <3>1, <2>4 DEF h
        <4>2. QED
          BY <3>1, <4>1, <2>4
      <3>2. CASE d # c
        <4>1. current[shellOf[d]] = d \/ InQueue(shellOf[d], d)
          BY <3>2, <2>2 DEF NoneLost
        <4>2. shellOf[d] \in Shells
          BY <3>2, <2>2 DEF HasShell
        <4>3. CASE InQueue(shellOf[d], d)
          <5>1. CASE shellOf[d] = h
            <6>1. PICK i \in 1 .. Len(queue[h]) : queue[h][i] = d
              BY <4>3, <5>1 DEF InQueue
            <6>2. i \in 1 .. Len(queue'[h]) /\ queue'[h][i] = d
              BY <6>1, <2>4
            <6>3. QED
              BY <5>1, <6>2
          <5>2. CASE shellOf[d] # h
            BY <4>2, <4>3, <5>2, <2>3 DEF InQueue
          <5>3. QED
            BY <5>1, <5>2
        <4>4. QED
          BY <4>1, <4>3
      <3>3. QED
        BY <3>1, <3>2
    <2>11. name[c] = NoCall
      BY <1>1 DEF Named, Returned
    <2>12. Named'
      BY <2>1, <2>2, <2>11 DEF Named
    <2>13. Apart' /\ ReadByName'
      BY <2>1, <2>2 DEF Apart, ReadByName
    <2>14. QED
      BY <2>5, <2>8, <2>9, <2>10, <2>12, <2>13
  <1>4. QED
    BY <1>2, <1>3

\* The command at the head of the queue leaves it: it fails, or is waited for.
LEMMA TakesKeeps ==
  ASSUME ShellInv, NEW h \in Shells, Takes(h)
  PROVE  ShellInv' /\ OutcomesStay
  <1> USE DEF ShellInv, ShellTypes
  <1> DEFINE q == queue[h]
             c == Head(q)
  <1>1. /\ q \in Seq(Calls) /\ Len(q) \in Nat /\ Len(q) >= 1 /\ c = q[1] /\ c \in Calls
        /\ Tail(q) \in Seq(Calls) /\ Len(Tail(q)) = Len(q) - 1
        /\ \A i \in 1 .. Len(q) - 1 : Tail(q)[i] = q[i + 1]
    <2>1. q \in Seq(Calls) /\ q # <<>>
      BY DEF Takes
    <2> HIDE DEF q
    <2>2. QED
      BY <2>1
  <1>2. /\ queue' \in [Shells -> Seq(Calls)] /\ queue'[h] = Tail(q)
        /\ \A g \in Shells \ {h} : queue'[g] = queue[g]
    BY <1>1 DEF Takes
  <1>3. UNCHANGED <<shellOf, instance, codeOf>> /\ current[h] = NoCall
    BY DEF Takes
  <1>4. call[c] = "wait" /\ shellOf[c] = h /\ \A i \in 2 .. Len(q) : q[i] # c
    BY <1>1 DEF QueuedWait
  <1>5. \/ To(c, "failed") /\ UNCHANGED <<current, name>>
        \/ /\ current' = [current EXCEPT ![h] = c] /\ call' = call
           /\ \E n \in NameOf(h, c) : name' = [name EXCEPT ![c] = n]
    BY DEF Takes, Writes
  <1>5a. \A i \in 1 .. Len(q) : /\ call[q[i]] = "wait" /\ shellOf[q[i]] = h
                                /\ \A j \in 1 .. Len(q) : q[i] = q[j] => i = j
    BY DEF QueuedWait
  <1>5b. queue[h] = q
    OBVIOUS
  <1> HIDE DEF c, q
  <1>6. /\ call' \in [Calls -> CallStages] /\ call'[c] \in {"wait", "failed"}
        /\ \A d \in Calls \ {c} : call'[d] = call[d]
        /\ current' \in [Shells -> Calls \cup {NoCall}]
        /\ \A g \in Shells \ {h} : current'[g] = current[g]
        /\ \/ call'[c] = "failed" /\ current'[h] = NoCall /\ name' = name
           \/ /\ call'[c] = "wait" /\ current'[h] = c
              /\ \E n \in NameOf(h, c) : name' = [name EXCEPT ![c] = n]
    BY <1>1, <1>3, <1>4, <1>5 DEF To, CallStages, Returned
  <1>6a. name[c] = NoCall
    <2>1. call[c] \notin Returned /\ current[shellOf[c]] # c
      BY <1>1, <1>3, <1>4, ShellAssumption DEF Returned
    <2>2. QED
      BY <1>1, <2>1 DEF Named
  <1>6b. name' \in [Calls -> Calls \cup {NoCall}] /\ \A d \in Calls \ {c} : name'[d] = name[d]
    <2>1. name' = name \/ \E n \in Calls : name' = [name EXCEPT ![c] = n]
      BY <1>1, <1>6 DEF NameOf
    <2>2. name \in [Calls -> Calls \cup {NoCall}]
      OBVIOUS
    <2>3. QED
      BY <2>1, <2>2
  <1>6c. name'[c] # NoCall => current'[h] = c /\ name'[c] \in NameOf(h, c)
    BY <1>1, <1>6, <1>6a
  <1>7. ShellTypes' /\ HasShell' /\ OutcomesStay
    BY <1>2, <1>3, <1>4, <1>6, <1>6b DEF HasShell, OutcomesStay, Returned
  <1>8. \A g \in Shells \ {h} : \A i \in 1 .. Len(queue[g]) : queue[g][i] \in Calls /\ queue[g][i] # c
    BY <1>4 DEF QueuedWait
  <1>9. \A g \in Shells : current[g] # c
    BY <1>1, <1>3, <1>4, ShellAssumption DEF CurrentWaits
  <1>10. QueuedWait'
    <2> SUFFICES ASSUME NEW g \in Shells, NEW i \in 1 .. Len(queue'[g])
                 PROVE  /\ call'[queue'[g][i]] = "wait" /\ shellOf'[queue'[g][i]] = g
                        /\ queue'[g][i] # current'[g]
                        /\ \A j \in 1 .. Len(queue'[g]) : queue'[g][i] = queue'[g][j] => i = j
      BY DEF QueuedWait
    <2>1. CASE g # h
      BY <2>1, <1>2, <1>3, <1>6, <1>8 DEF QueuedWait
    <2>2. CASE g = h
      <3>1. i + 1 \in 2 .. Len(q) /\ queue'[h][i] = q[i + 1]
        BY <2>2, <1>1, <1>2
      <3>2. q[i + 1] \in Calls /\ q[i + 1] # c
        BY <3>1, <1>1, <1>4
      <3>3. call[q[i + 1]] = "wait" /\ shellOf[q[i + 1]] = h
        BY <3>1, <1>1, <1>5a
      <3>4. q[i + 1] # current'[h]
        BY <3>2, <1>6, ShellAssumption
      <3>5. ASSUME NEW j \in 1 .. Len(queue'[h]), queue'[h][i] = queue'[h][j]
            PROVE  i = j
        <4>1. j + 1 \in 1 .. Len(q) /\ queue'[h][j] = q[j + 1] /\ i + 1 \in 1 .. Len(q)
          BY <2>2, <1>1, <1>2
        <4>2. i + 1 = j + 1
          BY <3>1, <3>5, <4>1, <1>5a
        <4>3. QED
          BY <2>2, <4>2, <1>1, <1>2
      <3>6. QED
        BY <2>2, <3>1, <3>2, <3>3, <3>4, <3>5, <1>3, <1>6
    <2>3. QED
      BY <2>1, <2>2
  <1>11. CurrentWaits'
    <2> SUFFICES ASSUME NEW g \in Shells, current'[g] # NoCall
                 PROVE  call'[current'[g]] = "wait" /\ shellOf[current'[g]] = g
      BY <1>3 DEF CurrentWaits
    <2>1. CASE g = h
      BY <2>1, <1>4, <1>6
    <2>2. CASE g # h
      <3>1. current'[g] = current[g] /\ current[g] \in Calls \ {c}
        BY <2>2, <1>6, <1>9
      <3>2. QED
        BY <3>1, <1>6 DEF CurrentWaits
    <2>3. QED
      BY <2>1, <2>2
  <1>12. NoneLost'
    <2> SUFFICES ASSUME NEW d \in Calls, call'[d] = "wait"
                 PROVE  current'[shellOf[d]] = d
                        \/ \E i \in 1 .. Len(queue'[shellOf[d]]) : queue'[shellOf[d]][i] = d
      BY <1>3 DEF NoneLost, InQueue
    <2>1. CASE d = c
      BY <2>1, <1>4, <1>6
    <2>2. CASE d # c
      <3>1. call[d] = "wait" /\ shellOf[d] \in Shells
        BY <2>2, <1>6 DEF HasShell
      <3>2. CASE current[shellOf[d]] = d
        <4>1. shellOf[d] # h
          BY <3>2, <1>3, ShellAssumption
        <4>2. QED
          BY <3>1, <3>2, <4>1, <1>6
      <3>3. CASE InQueue(shellOf[d], d) /\ shellOf[d] # h
        BY <3>1, <3>3, <1>2 DEF InQueue
      <3>4. CASE InQueue(h, d) /\ shellOf[d] = h
        <4>1. PICK i \in 1 .. Len(q) : q[i] = d
          BY <3>4, <1>5b DEF InQueue
        <4>2. i # 1
          BY <2>2, <4>1, <1>1
        <4>3. i - 1 \in 1 .. Len(Tail(q)) /\ Tail(q)[i - 1] = d
          BY <4>1, <4>2, <1>1
        <4>4. QED
          BY <3>4, <4>3, <1>2
      <3>5. QED
        BY <3>1, <3>2, <3>3, <3>4 DEF NoneLost
    <2>3. QED
      BY <2>1, <2>2
  <1>13. name'[c] # NoCall => name'[name'[c]] = name'[c]
    BY <1>1, <1>6a, <1>6b, <1>6c, ShellAssumption DEF Named, NameOf
  <1>14. \A d \in Calls \ {c} : name[d] # NoCall => name'[name'[d]] = name'[d]
    BY <1>1, <1>6a, <1>6b, ShellAssumption DEF Named
  <1>15. \A d \in Calls : name'[d] # NoCall =>
             call'[d] \in Returned \/ (call'[d] = "wait" /\ current'[shellOf'[d]] = d)
    <2> SUFFICES ASSUME NEW d \in Calls, name'[d] # NoCall
                 PROVE  call'[d] \in Returned \/ (call'[d] = "wait" /\ current'[shellOf[d]] = d)
      BY <1>3
    <2>1. CASE d = c
      BY <2>1, <1>4, <1>6, <1>6c DEF Returned
    <2>2. CASE d # c
      <3>1. name[d] # NoCall /\ call'[d] = call[d]
        BY <2>2, <1>6, <1>6b
      <3>2. CASE call[d] = "wait" /\ current[shellOf[d]] = d
        <4>1. shellOf[d] \in Shells \ {h}
          BY <3>2, <1>3, ShellAssumption DEF HasShell
        <4>2. QED
          BY <3>1, <3>2, <4>1, <1>6
      <3>3. QED
        BY <3>1, <3>2 DEF Named
    <2>3. QED
      BY <2>1, <2>2
  <1>16. \A g \in Shells : current'[g] # NoCall => name'[current'[g]] # NoCall
    <2> SUFFICES ASSUME NEW g \in Shells, current'[g] # NoCall
                 PROVE  name'[current'[g]] # NoCall
      OBVIOUS
    <2>1. CASE g = h
      BY <2>1, <1>1, <1>6, ShellAssumption DEF NameOf
    <2>2. CASE g # h
      BY <2>2, <1>6, <1>6b, <1>9 DEF Named
    <2>3. QED
      BY <2>1, <2>2
  <1>17. Named'
    BY <1>6b, <1>13, <1>14, <1>15, <1>16 DEF Named
  <1>18. ASSUME NEW d \in Calls \ {c}, name'[c] # NoCall, name'[d] = name'[c]
         PROVE  shellOf[d] # h
    <2>1. name[d] = name'[c] /\ name'[c] \in NameOf(h, c) /\ name[d] # NoCall
      BY <1>6b, <1>6c, <1>18
    <2>2. name[d] # c
      BY <2>1, <1>1, <1>6a, ShellAssumption DEF Named
    <2>3. current[shellOf[d]] = d
      BY <2>1, <2>2 DEF NameOf
    <2>4. QED
      BY <2>3, <1>3, ShellAssumption
  <1>19. Apart'
    <2> SUFFICES ASSUME NEW d \in Calls, NEW e \in Calls,
                        name'[d] # NoCall, name'[d] = name'[e], shellOf[d] = shellOf[e]
                 PROVE  d = e
      BY <1>3, Zenon DEF Apart
    <2>1. CASE d = c
      BY <2>1, <1>4, <1>18
    <2>2. CASE e = c
      BY <2>2, <1>4, <1>18
    <2>3. CASE d # c /\ e # c
      <3>1. name[d] = name'[d] /\ name[e] = name'[e]
        BY <2>3, <1>6b
      <3>2. QED
        BY <3>1 DEF Apart
    <2>4. QED
      BY <2>1, <2>2, <2>3
  <1>20. ReadByName'
    <2> SUFFICES ASSUME NEW d \in Calls, call'[d] = "complete"
                 PROVE  name'[d] # NoCall /\ codeOf[d] \in Calls /\ name'[codeOf[d]] = name'[d]
      BY <1>3 DEF ReadByName
    <2>1. d # c /\ call[d] = "complete"
      BY <1>6
    <2>2. name[d] # NoCall /\ codeOf[d] \in Calls /\ name[codeOf[d]] = name[d]
      BY <2>1 DEF ReadByName
    <2>3. codeOf[d] # c
      BY <2>2, <1>6a
    <2>4. QED
      BY <2>1, <2>2, <2>3, <1>6b
  <1>21. QED
    BY <1>7, <1>10, <1>11, <1>12, <1>17, <1>19, <1>20

\* The command that is waited for answers; the others are left alone.
LEMMA AnswersKeeps ==
  ASSUME ShellInv, NEW h \in Shells, current[h] # NoCall,
         NEW result \in Returned, NEW files, Answers(h, result, files),
         UNCHANGED <<shellOf, instance, queue>>,
         \/ result # "complete" /\ codeOf' = codeOf
         \/ \E d \in SameFile(current[h]) : codeOf' = [codeOf EXCEPT ![current[h]] = d]
  PROVE  ShellInv' /\ OutcomesStay
  <1> USE DEF ShellInv, ShellTypes
  <1> DEFINE c == current[h]
  <1>1. c \in Calls /\ call[c] = "wait" /\ shellOf[c] = h
    BY DEF CurrentWaits
  <1>2. call' = [call EXCEPT ![c] = result] /\ current' = [current EXCEPT ![h] = NoCall]
    BY DEF Answers
  <1>2a. /\ codeOf' \in [Calls -> Calls \cup {NoCall}] /\ name' = name
         /\ \A d \in Calls \ {c} : codeOf'[d] = codeOf[d]
         /\ result = "complete" => codeOf'[c] \in Calls /\ name[codeOf'[c]] = name[c]
    BY <1>1 DEF Answers, SameFile
  <1>2b. name[c] # NoCall
    BY DEF Named
  <1> HIDE DEF c
  <1>3. /\ call' \in [Calls -> CallStages] /\ call'[c] = result
        /\ \A d \in Calls \ {c} : call'[d] = call[d]
        /\ current' \in [Shells -> Calls \cup {NoCall}] /\ current'[h] = NoCall
        /\ \A g \in Shells \ {h} : current'[g] = current[g]
    BY <1>1, <1>2 DEF CallStages
  <1>4. ShellTypes' /\ HasShell' /\ OutcomesStay
    BY <1>1, <1>2a, <1>3 DEF HasShell, OutcomesStay, Returned
  <1>5. \A g \in Shells \ {h} : current[g] # c
    BY <1>1, ShellAssumption DEF CurrentWaits
  <1>6. \A g \in Shells : \A i \in 1 .. Len(queue[g]) : queue[g][i] \in Calls /\ queue[g][i] # c
    BY <1>1 DEF QueuedWait, c
  <1>7. QueuedWait'
    <2> SUFFICES ASSUME NEW g \in Shells, NEW i \in 1 .. Len(queue[g])
                 PROVE  /\ call'[queue[g][i]] = "wait" /\ shellOf[queue[g][i]] = g
                        /\ queue[g][i] # current'[g]
                        /\ \A j \in 1 .. Len(queue[g]) : queue[g][i] = queue[g][j] => i = j
      BY DEF QueuedWait
    <2>1. queue[g][i] # current'[g]
      BY <1>3, <1>6, ShellAssumption DEF QueuedWait
    <2>2. call'[queue[g][i]] = "wait"
      BY <1>3, <1>6 DEF QueuedWait
    <2>3. /\ shellOf[queue[g][i]] = g
          /\ \A j \in 1 .. Len(queue[g]) : queue[g][i] = queue[g][j] => i = j
      BY DEF QueuedWait
    <2>4. QED
      BY <2>1, <2>2, <2>3
  <1>8. CurrentWaits'
    <2> SUFFICES ASSUME NEW g \in Shells, current'[g] # NoCall
                 PROVE  call'[current'[g]] = "wait" /\ shellOf[current'[g]] = g
      BY DEF CurrentWaits
    <2>1. g # h /\ current'[g] = current[g] /\ current[g] \in Calls \ {c}
      BY <1>3, <1>5
    <2>2. QED
      BY <2>1, <1>3 DEF CurrentWaits
  <1>9. NoneLost'
    <2> SUFFICES ASSUME NEW d \in Calls, call'[d] = "wait"
                 PROVE  current'[shellOf[d]] = d \/ InQueue(shellOf[d], d)
      BY DEF NoneLost, InQueue
    <2>1. d # c /\ call[d] = "wait" /\ shellOf[d] \in Shells
      BY <1>3 DEF Returned, HasShell
    <2>2. current[shellOf[d]] = d => shellOf[d] # h
      BY <2>1 DEF c
    <2>3. QED
      BY <1>3, <2>1, <2>2 DEF NoneLost
  <1>10. Named'
    <2>1. \A d \in Calls : name[d] # NoCall =>
              call'[d] \in Returned \/ (call'[d] = "wait" /\ current'[shellOf[d]] = d)
      <3> SUFFICES ASSUME NEW d \in Calls, name[d] # NoCall
                   PROVE  call'[d] \in Returned \/ (call'[d] = "wait" /\ current'[shellOf[d]] = d)
        OBVIOUS
      <3>1. CASE d = c
        BY <3>1, <1>3
      <3>2. CASE d # c /\ call[d] = "wait" /\ current[shellOf[d]] = d
        <4>1. shellOf[d] \in Shells /\ shellOf[d] # h
          BY <3>2 DEF HasShell, c
        <4>2. QED
          BY <3>2, <4>1, <1>3
      <3>3. CASE d # c /\ call[d] \in Returned
        BY <3>3, <1>3
      <3>4. \/ d = c
            \/ d # c /\ call[d] = "wait" /\ current[shellOf[d]] = d
            \/ d # c /\ call[d] \in Returned
        BY DEF Named
      <3>5. QED
        BY <3>1, <3>2, <3>3, <3>4, Zenon
    <2>2. \A g \in Shells : current'[g] # NoCall => name[current'[g]] # NoCall
      <3>1. \A g \in Shells : current[g] # NoCall => name[current[g]] # NoCall
        BY DEF Named
      <3>2. \A g \in Shells : current'[g] # NoCall => current'[g] = current[g]
        BY <1>3
      <3>3. QED
        BY <3>1, <3>2
    <2>3. QED
      BY <2>1, <2>2, <1>2a DEF Named
  <1>11. Apart'
    BY <1>2a DEF Apart
  <1>12. ReadByName'
    BY <1>2a, <1>2b, <1>3 DEF ReadByName
  <1>13. QED
    BY <1>4, <1>7, <1>8, <1>9, <1>10, <1>11, <1>12

\* Steps that leave the calls, the queues and the current commands alone.
LEMMA ProcessKeeps ==
  ASSUME ShellInv, instance' \in 0 .. MaxShells,
         UNCHANGED <<call, shellOf, queue, current, name, codeOf>>
  PROVE  ShellInv' /\ OutcomesStay
  BY DEF ShellInv, ShellTypes, HasShell, QueuedWait, CurrentWaits, NoneLost, InQueue,
         Named, Apart, ReadByName, OutcomesStay

LEMMA ShellStepKeeps ==
  ASSUME ShellInv, [ShellNext]_shellVars
  PROVE  ShellInv' /\ OutcomesStay
  <1>1. CASE UNCHANGED shellVars
    BY <1>1, ProcessKeeps DEF shellVars, ShellInv, ShellTypes
  <1>2. ASSUME NEW c \in Calls, BashRun(c) \/ CallStep(c)
        PROVE  ShellInv' /\ OutcomesStay
    <2>1. CASE First(c)
      <3>1. instance' \in 0 .. MaxShells
        BY <2>1, ShellAssumption DEF First, NewPersistentShell, Shells, ShellInv, ShellTypes
      <3>2. UNCHANGED <<call, shellOf, queue, current, name, codeOf>>
        BY <2>1 DEF First
      <3>3. QED
        BY <3>1, <3>2, ProcessKeeps
    <2>2. CASE Send(c)
      BY <2>2, SendKeeps
    <2>3. CASE BashRun(c) \/ Look(c) \/ NewShell(c) \/ Exec(c)
      BY <2>3, CallStepKeeps
    <2>4. QED
      BY <1>2, <2>1, <2>2, <2>3 DEF CallStep
  <1>3. ASSUME NEW h \in Shells, Worker(h)
        PROVE  ShellInv' /\ OutcomesStay
    <2>1. CASE Takes(h)
      BY <2>1, TakesKeeps
    <2>2. CASE Completes(h)
      <3>1. /\ current[h] # NoCall /\ Answers(h, "complete", status)
            /\ UNCHANGED <<shellOf, instance, queue>>
            /\ \E d \in SameFile(current[h]) : codeOf' = [codeOf EXCEPT ![current[h]] = d]
        BY <2>2 DEF Completes
      <3>2. QED
        BY <3>1, AnswersKeeps DEF Returned
    <2>3. CASE Interrupts(h)
      <3>1. /\ current[h] # NoCall /\ \E files : Answers(h, "interrupted", files)
            /\ UNCHANGED <<shellOf, instance, queue, codeOf>>
        BY <2>3 DEF Interrupts
      <3>2. QED
        BY <3>1, AnswersKeeps DEF Returned
    <2>4. CASE Waited(h)
      BY <2>4, ProcessKeeps DEF Waited, ShellInv, ShellTypes
    <2>5. QED
      BY <1>3, <2>1, <2>2, <2>3, <2>4 DEF Worker
  <1>4. ASSUME NEW h \in Shells, ShellRuns(h) \/ ShellDies(h)
        PROVE  ShellInv' /\ OutcomesStay
    <2>1. UNCHANGED <<call, shellOf, instance, queue, current, name, codeOf>>
      BY <1>4 DEF ShellRuns, ShellDies
    <2>2. QED
      BY <2>1, ProcessKeeps DEF ShellInv, ShellTypes
  <1>5. QED
    BY <1>1, <1>2, <1>3, <1>4 DEF ShellNext

\* Every call of the bash tool that waits has its command in the queue of its
\* shell, or is waited for, once; the commands of a shell have files of their
\* own (shell.go:111-244).
THEOREM ShellCorrect == ShellSpec => []ShellInv
  BY ShellInitInv, ShellStepKeeps, PTL DEF ShellSpec

\* A call that is reported as complete has the exit code of its own command,
\* whatever was interrupted before it and ends late, or that of a command of
\* another shell that read the clock at the same time (shell.go:149-160).
THEOREM ExitCodeIsOwn == ShellSpec => []OwnExitCode
  <1>1. ShellInv => OwnExitCode
    BY DEF ShellInv, Apart, ReadByName, OwnExitCode, Twin
  <1>2. QED
    BY <1>1, ShellCorrect, PTL

\* No command is lost or queued twice between Exec and its answer.
THEOREM NoCommandLost == ShellSpec => [](QueuedWait /\ CurrentWaits /\ NoneLost)
  <1>1. ShellInv => QueuedWait /\ CurrentWaits /\ NoneLost
    BY DEF ShellInv
  <1>2. QED
    BY <1>1, ShellCorrect, PTL

\* A call that has returned is answered by nobody again: the result channel
\* of a command has no buffer, so that the worker waits for its reader, who is
\* there until it has the one result (shell.go:132-137, 278-287).
THEOREM OneResultEach == ShellSpec => [][OutcomesStay]_shellVars
  <1>1. ShellInv /\ [ShellNext]_shellVars => [OutcomesStay]_shellVars
    BY ShellStepKeeps
  <1>2. QED
    BY <1>1, ShellCorrect, PTL DEF ShellSpec

-----------------------------------------------------------------------------
(* The screen. *)

\* What is kept has the sessions and messages that there are; a "new" event
\* has the first version of its message.
Announced == {"Picked", "SidebarSelected", "Selected"}

Known(m) ==
    /\ m.kind \in Announced => m.about \in Sessions
    /\ m.kind = "Command" => m.about \in Commands

ListedStates == [id : Nat, version : Nat]
EventStates == [session : Sessions, id : Nat, version : Nat, new : BOOLEAN]

EventsFit(es, st) ==
    \A i \in DOMAIN es :
        /\ es[i].id \in DOMAIN st[es[i].session]
        /\ es[i].new => es[i].version = 0

ScreenTypes ==
    /\ choices \subseteq Sessions /\ rows \subseteq Sessions /\ created \subseteq Sessions
    /\ session \in Sessions \cup {None} /\ listed \in Sessions \cup {None}
    /\ IsABag(inbox)
    /\ \A m \in DOMAIN inbox : Known(m)
    /\ store \in [Sessions -> Seq(Nat)]
    /\ events \in Seq(EventStates) /\ EventsFit(events, store)
    /\ missed \in BOOLEAN

\* What a clearing on its way may find, and where the parts of the page differ
\* for want of a message that is on its way.
SessionsAgree ==
    /\ (Waits("Cleared") /\ session # None) => missed
    /\ (Crossed /\ ~missed) => listed = None
    /\ (~missed /\ ~Waits("Selected") /\ session # None) =>
          (listed = session /\ selected = session /\ editorSession = session)
    /\ (~missed /\ ~Waits("Selected") /\ ~Waits("Cleared") /\ session = None) => listed = None
    /\ listed = None => messages = <<>>

\* The event i of es tells of a change, or of the creation, of the message id
\* of s.
Changes(es, i, s, id) == es[i].session = s /\ es[i].id = id /\ ~es[i].new
Creates(es, i, s, id) == es[i].session = s /\ es[i].id = id /\ es[i].new

\* The list ms with the events es still to come becomes what is stored, st:
\* the last change on its way is what is stored; a message without one is
\* stored as it is shown, or else as it was created; what is not shown is
\* announced, in order, and before its changes.
Follows(ms, es, s, st) ==
    /\ ms \in Seq(ListedStates) /\ Len(ms) <= Len(st)
    /\ \A id \in DOMAIN ms : ms[id].id = id
    /\ \A i \in DOMAIN es, id \in DOMAIN st :
           (Changes(es, i, s, id) /\ \A j \in (i + 1) .. Len(es) : ~Changes(es, j, s, id))
           => es[i].version = st[id]
    /\ \A id \in DOMAIN st :
           (\A i \in DOMAIN es : ~Changes(es, i, s, id))
           => st[id] = IF id \in DOMAIN ms THEN ms[id].version ELSE 0
    /\ \A id \in DOMAIN st \ DOMAIN ms : \E i \in DOMAIN es : Creates(es, i, s, id)
    /\ \A i \in DOMAIN es :
           es[i].session = s =>
               \A id \in (Len(ms) + 1) .. es[i].id : \E j \in 1 .. i : Creates(es, j, s, id)

ListKeepsUp == (listed # None /\ ~missed) => Follows(messages, events, listed, store[listed])

ScreenInv == ScreenTypes /\ SessionsAgree /\ ListKeepsUp

-----------------------------------------------------------------------------
(* The list and the events.                                                *)

\* What was just read is what is stored, if no change on its way is older
\* than what is stored (list.go 441-460).
LEMMA LoadedFollows ==
    ASSUME NEW s \in Sessions, ScreenTypes, ~Overtaken(s)
    PROVE  Follows(Loaded(s), events, s, store[s])
<1> DEFINE ms == Loaded(s) st == store[s] n == Len(store[s])
<1>1. st \in Seq(Nat) /\ DOMAIN st = 1 .. n /\ n \in Nat
  BY DEF ScreenTypes
<1>2. /\ ms \in Seq(ListedStates) /\ Len(ms) = n /\ DOMAIN ms = 1 .. n
      /\ \A id \in 1 .. n : ms[id] = [id |-> id, version |-> st[id]]
  <2>1. ms = [i \in 1 .. n |-> [id |-> i, version |-> st[i]]]
    BY <1>1 DEF Loaded
  <2>2. \A i \in 1 .. n : [id |-> i, version |-> st[i]] \in ListedStates
    BY <1>1 DEF ListedStates
  <2>3. ms \in [1 .. n -> ListedStates]
    BY <2>1, <2>2
  <2> QED BY <1>1, <2>1, <2>3
<1>3. events \in Seq(EventStates)
  BY DEF ScreenTypes
<1>4. ASSUME NEW i \in DOMAIN events, NEW id \in DOMAIN st, Changes(events, i, s, id),
             \A j \in (i + 1) .. Len(events) : ~Changes(events, j, s, id)
      PROVE  events[i].version = st[id]
  <2>1. \A j \in (i + 1) .. Len(events) : events[j] \in EventStates
    BY <1>3
  <2>2. LastUpdate(s, i)
    BY <1>4, <2>1 DEF LastUpdate, Changes, EventStates
  <2> QED BY <1>4, <2>2 DEF Overtaken, Changes
<1>5. \A i \in DOMAIN events : events[i].session = s => events[i].id \in 1 .. n
  BY <1>1 DEF ScreenTypes, EventsFit
<1> HIDE DEF ms, st, n
<1>6. Follows(ms, events, s, st)
  BY <1>1, <1>2, <1>3, <1>4, <1>5 DEF Follows
<1> QED BY <1>6 DEF ms, st

\* Once no event is left the list shows what is stored.
LEMMA NoneToFollow ==
    ASSUME NEW s \in Sessions, NEW ms, ScreenTypes, events = <<>>,
           Follows(ms, events, s, store[s])
    PROVE  ms = Loaded(s)
<1> DEFINE st == store[s]
<1>1. st \in Seq(Nat) /\ DOMAIN st = 1 .. Len(st) /\ Len(st) \in Nat
  BY DEF ScreenTypes
<1>2. ms \in Seq(ListedStates) /\ Len(ms) <= Len(st)
  BY DEF Follows
<1>3. DOMAIN events = {}
  OBVIOUS
<1>4. DOMAIN st \ DOMAIN ms = {}
  BY <1>3 DEF Follows
<1>5. DOMAIN ms = DOMAIN st
  BY <1>1, <1>2, <1>4
<1>6. \A id \in DOMAIN st : ms[id].id = id /\ ms[id].version = st[id]
  BY <1>3, <1>5 DEF Follows
<1>7. \A id \in DOMAIN st : ms[id] = [id |-> id, version |-> st[id]]
  <2> TAKE id \in DOMAIN st
  <2>1. id \in DOMAIN ms /\ ms \in Seq(ListedStates)
    BY <1>2, <1>5
  <2>2. ms[id] \in ListedStates
    BY <2>1
  <2> QED BY <2>2, <1>6 DEF ListedStates
<1>8. ms = [id \in DOMAIN ms |-> ms[id]]
  BY <1>2
<1>9. ms = [id \in DOMAIN st |-> [id |-> id, version |-> st[id]]]
  BY <1>5, <1>7, <1>8
<1> QED BY <1>9 DEF Loaded

\* An event is added: of a change that is stored, or of the message that was
\* added, or of another session (message.go 57-83, 101-122).
LEMMA EventComes ==
    ASSUME NEW s \in Sessions, NEW st \in Seq(Nat), NEW stored \in Seq(Nat), NEW ms,
           NEW es \in Seq(EventStates), NEW e \in EventStates, Follows(ms, es, s, st),
           Len(st) <= Len(stored),
           \A id \in DOMAIN st : Changes(<<e>>, 1, s, id) \/ stored[id] = st[id],
           \A id \in DOMAIN stored : Changes(<<e>>, 1, s, id) => stored[id] = e.version,
           \A id \in DOMAIN stored \ DOMAIN st : stored[id] = 0 /\ Creates(<<e>>, 1, s, id),
           \A i \in DOMAIN es : es[i].session = s => es[i].id \in DOMAIN st,
           e.session = s => e.id \in DOMAIN stored
    PROVE  Follows(ms, Append(es, e), s, stored)
<1> DEFINE fs == Append(es, e) n == Len(es)
<1>1. /\ n \in Nat /\ DOMAIN es = 1 .. n /\ Len(fs) = n + 1 /\ DOMAIN fs = 1 .. (n + 1)
      /\ fs[n + 1] = e /\ <<e>>[1] = e /\ \A i \in 1 .. n : fs[i] = es[i]
  OBVIOUS
<1>2. /\ Len(st) \in Nat /\ DOMAIN st = 1 .. Len(st)
      /\ Len(stored) \in Nat /\ DOMAIN stored = 1 .. Len(stored)
      /\ DOMAIN st \subseteq DOMAIN stored
  OBVIOUS
<1>3. /\ ms \in Seq(ListedStates) /\ Len(ms) <= Len(st)
      /\ \A id \in DOMAIN ms : ms[id].id = id
  BY DEF Follows
<1>4. Len(ms) \in Nat /\ DOMAIN ms = 1 .. Len(ms)
  BY <1>3
<1> HIDE DEF fs
<1>5. \A id : /\ Changes(fs, n + 1, s, id) <=> Changes(<<e>>, 1, s, id)
              /\ Creates(fs, n + 1, s, id) <=> Creates(<<e>>, 1, s, id)
  BY <1>1 DEF Changes, Creates
<1>6. \A i \in 1 .. n :
         \A id : /\ Changes(fs, i, s, id) <=> Changes(es, i, s, id)
                 /\ Creates(fs, i, s, id) <=> Creates(es, i, s, id)
  BY <1>1 DEF Changes, Creates
<1>7. \A i \in 1 .. n : \A id : Changes(es, i, s, id) => id \in DOMAIN st
  BY <1>1 DEF Changes
<1>8. ASSUME NEW i \in DOMAIN fs, NEW id \in DOMAIN stored, Changes(fs, i, s, id),
             \A j \in (i + 1) .. Len(fs) : ~Changes(fs, j, s, id)
      PROVE  fs[i].version = stored[id]
  <2>1. CASE i = n + 1
    BY <1>1, <1>5, <1>8, <2>1
  <2>2. CASE i # n + 1
    <3>1. i \in 1 .. n /\ Changes(es, i, s, id)
      BY <1>1, <1>6, <1>8, <2>2
    <3>2. n + 1 \in (i + 1) .. Len(fs)
      BY <1>1, <3>1
    <3>3. ~Changes(<<e>>, 1, s, id)
      BY <1>5, <1>8, <3>2
    <3>4. \A j \in (i + 1) .. n : ~Changes(es, j, s, id)
      BY <1>1, <1>6, <1>8, <3>1
    <3>5. id \in DOMAIN st /\ stored[id] = st[id]
      BY <1>7, <3>1, <3>3
    <3>6. es[i].version = st[id]
      BY <1>1, <3>1, <3>4, <3>5 DEF Follows
    <3> QED BY <1>1, <3>1, <3>5, <3>6
  <2> QED BY <2>1, <2>2
<1>9. ASSUME NEW id \in DOMAIN stored, \A i \in DOMAIN fs : ~Changes(fs, i, s, id)
      PROVE  stored[id] = IF id \in DOMAIN ms THEN ms[id].version ELSE 0
  <2>1. ~Changes(<<e>>, 1, s, id)
    <3>1. n + 1 \in DOMAIN fs
      BY <1>1
    <3>2. ~Changes(fs, n + 1, s, id)
      BY <1>9, <3>1
    <3> QED BY <1>5, <3>2
  <2>2. CASE id \in DOMAIN st
    <3>1. \A i \in DOMAIN es : ~Changes(es, i, s, id)
      BY <1>1, <1>6, <1>9
    <3>2. st[id] = IF id \in DOMAIN ms THEN ms[id].version ELSE 0
      BY <2>2, <3>1 DEF Follows
    <3> QED BY <2>1, <2>2, <3>2
  <2>3. CASE id \notin DOMAIN st
    BY <1>2, <1>3, <1>4, <2>3
  <2> QED BY <2>2, <2>3
<1>10. ASSUME NEW id \in DOMAIN stored \ DOMAIN ms
       PROVE  \E i \in DOMAIN fs : Creates(fs, i, s, id)
  <2>1. CASE id \in DOMAIN st
    <3>1. PICK i \in DOMAIN es : Creates(es, i, s, id)
      BY <1>10, <2>1 DEF Follows
    <3> QED BY <1>1, <1>6, <3>1
  <2>2. CASE id \notin DOMAIN st
    <3>1. Creates(fs, n + 1, s, id)
      BY <1>5, <1>10, <2>2
    <3>2. n + 1 \in DOMAIN fs
      BY <1>1
    <3> QED BY <3>1, <3>2
  <2> QED BY <2>1, <2>2
<1>11. ASSUME NEW i \in DOMAIN fs, fs[i].session = s, NEW id \in (Len(ms) + 1) .. fs[i].id
       PROVE  \E j \in 1 .. i : Creates(fs, j, s, id)
  <2>1. CASE i # n + 1
    <3>1. i \in 1 .. n /\ fs[i] = es[i]
      BY <1>1, <2>1
    <3>2. PICK j \in 1 .. i : Creates(es, j, s, id)
      BY <1>1, <1>11, <3>1 DEF Follows
    <3>3. j \in 1 .. n
      BY <1>1, <3>1
    <3> QED BY <1>6, <3>2, <3>3
  <2>2. CASE i = n + 1
    <3>1. fs[i].id \in DOMAIN stored
      BY <1>1, <1>11, <2>2
    <3>2. id \in DOMAIN stored \ DOMAIN ms
      BY <1>2, <1>4, <1>11, <3>1
    <3>3. PICK j \in DOMAIN fs : Creates(fs, j, s, id)
      BY <1>10, <3>2
    <3>4. j \in 1 .. i
      BY <1>1, <2>2
    <3> QED BY <3>3, <3>4
  <2> QED BY <2>1, <2>2
<1>12. Len(ms) <= Len(stored)
  BY <1>2, <1>3, <1>4
<1> QED BY <1>3, <1>8, <1>9, <1>10, <1>11, <1>12 DEF Follows, fs

\* What the list has of a message: its first version before it is there.
Shows(ms, id) == IF id \in DOMAIN ms THEN ms[id].version ELSE 0

\* An event is taken, and the list ns has what it says.
LEMMA EventTold ==
    ASSUME NEW s \in Sessions, NEW st \in Seq(Nat), NEW ms, NEW ns,
           NEW es \in Seq(EventStates), es # <<>>, Follows(ms, es, s, st),
           \A i \in DOMAIN es : es[i].session = s => es[i].id \in DOMAIN st,
           ns \in Seq(ListedStates), Len(ms) <= Len(ns), Len(ns) <= Len(st),
           \A id \in DOMAIN ns : ns[id].id = id,
           \A id \in DOMAIN st :
               Shows(ns, id) = IF Changes(es, 1, s, id) THEN es[1].version ELSE Shows(ms, id),
           \A id \in DOMAIN st \ DOMAIN ns : ~Creates(es, 1, s, id)
    PROVE  Follows(ns, Tail(es), s, st)
<1> DEFINE ts == Tail(es) n == Len(es)
<1>1. /\ n \in Nat /\ n >= 1 /\ DOMAIN es = 1 .. n /\ Len(ts) = n - 1 /\ DOMAIN ts = 1 .. (n - 1)
      /\ \A i \in 1 .. (n - 1) : ts[i] = es[i + 1]
  OBVIOUS
<1>2. Len(st) \in Nat /\ DOMAIN st = 1 .. Len(st) /\ Len(ns) \in Nat /\ DOMAIN ns = 1 .. Len(ns)
  OBVIOUS
<1>3. ms \in Seq(ListedStates) /\ Len(ms) \in Nat /\ DOMAIN ms = 1 .. Len(ms)
  BY DEF Follows
<1>4. DOMAIN ms \subseteq DOMAIN ns
  BY <1>2, <1>3
<1> HIDE DEF ts, n
<1>5. \A i \in 1 .. (n - 1) :
         \A id : /\ Changes(ts, i, s, id) <=> Changes(es, i + 1, s, id)
                 /\ Creates(ts, i, s, id) <=> Creates(es, i + 1, s, id)
  BY <1>1 DEF Changes, Creates
<1>6. ASSUME NEW i \in DOMAIN ts, NEW id \in DOMAIN st, Changes(ts, i, s, id),
             \A j \in (i + 1) .. Len(ts) : ~Changes(ts, j, s, id)
      PROVE  ts[i].version = st[id]
  <2>1. i + 1 \in DOMAIN es /\ Changes(es, i + 1, s, id)
    BY <1>1, <1>5, <1>6
  <2>2. ASSUME NEW j \in (i + 2) .. n PROVE ~Changes(es, j, s, id)
    <3>1. j - 1 \in (i + 1) .. Len(ts) /\ j - 1 \in 1 .. (n - 1) /\ (j - 1) + 1 = j
      BY <1>1
    <3> QED BY <1>5, <1>6, <3>1
  <2>3. (i + 1) + 1 = i + 2
    BY <1>1
  <2>4. es[i + 1].version = st[id]
    BY <1>1, <2>1, <2>2, <2>3 DEF Follows, n
  <2> QED BY <1>1, <2>4
<1>7. ASSUME NEW id \in DOMAIN st, \A i \in DOMAIN ts : ~Changes(ts, i, s, id)
      PROVE  st[id] = Shows(ns, id)
  <2>1. ASSUME NEW j \in 2 .. n PROVE ~Changes(es, j, s, id)
    <3>1. j - 1 \in DOMAIN ts /\ j - 1 \in 1 .. (n - 1) /\ (j - 1) + 1 = j
      BY <1>1
    <3> QED BY <1>5, <1>7, <3>1
  <2>2. CASE Changes(es, 1, s, id)
    <3>1. 1 \in DOMAIN es /\ 1 + 1 = 2
      BY <1>1
    <3>2. es[1].version = st[id]
      BY <2>1, <2>2, <3>1 DEF Follows, n
    <3> QED BY <2>2, <3>2
  <2>3. CASE ~Changes(es, 1, s, id)
    <3>1. \A j \in DOMAIN es : ~Changes(es, j, s, id)
      <4> TAKE j \in DOMAIN es
      <4>1. j = 1 \/ j \in 2 .. n
        BY <1>1
      <4> QED BY <2>1, <2>3, <4>1
    <3>2. st[id] = Shows(ms, id)
      BY <3>1 DEF Follows, Shows
    <3> QED BY <2>3, <3>2
  <2> QED BY <2>2, <2>3
<1>8. ASSUME NEW id \in DOMAIN st \ DOMAIN ns PROVE \E i \in DOMAIN ts : Creates(ts, i, s, id)
  <2>1. PICK i \in DOMAIN es : Creates(es, i, s, id)
    BY <1>4 DEF Follows
  <2>2. i # 1
    BY <2>1
  <2>3. i - 1 \in DOMAIN ts /\ i - 1 \in 1 .. (n - 1) /\ (i - 1) + 1 = i
    BY <1>1, <2>2
  <2>4. Creates(ts, i - 1, s, id)
    BY <1>5, <2>1, <2>3
  <2> QED BY <2>3, <2>4
<1>9. ASSUME NEW i \in DOMAIN ts, ts[i].session = s, NEW id \in (Len(ns) + 1) .. ts[i].id
      PROVE  \E j \in 1 .. i : Creates(ts, j, s, id)
  <2>1. i + 1 \in DOMAIN es /\ ts[i] = es[i + 1] /\ es[i + 1].id \in DOMAIN st
    BY <1>1, <1>9
  <2>2. id \in DOMAIN st \ DOMAIN ns /\ id \in (Len(ms) + 1) .. es[i + 1].id
    BY <1>2, <1>3, <2>1
  <2>3. PICK j \in 1 .. (i + 1) : Creates(es, j, s, id)
    BY <1>9, <2>1, <2>2 DEF Follows
  <2>4. j # 1
    BY <2>2, <2>3
  <2>5. j - 1 \in 1 .. i /\ j - 1 \in 1 .. (n - 1) /\ (j - 1) + 1 = j
    BY <1>1, <2>1, <2>4
  <2>6. Creates(ts, j - 1, s, id)
    BY <1>5, <2>3, <2>5
  <2> QED BY <2>5, <2>6
<1> QED BY <1>6, <1>7, <1>8, <1>9 DEF Follows, Shows, ts

\* The list takes the events of its session, and no others (list.go 110-155).
LEMMA EventGoes ==
    ASSUME NEW s \in Sessions, NEW st \in Seq(Nat), NEW es \in Seq(EventStates), es # <<>>,
           Follows(messages, es, s, st),
           \A i \in DOMAIN es : es[i].session = s => es[i].id \in DOMAIN st,
           \A i \in DOMAIN es : es[i].new => es[i].version = 0
    PROVE  /\ es[1].session = s => Follows(WithEvent(es[1]), Tail(es), s, st)
           /\ es[1].session # s => Follows(messages, Tail(es), s, st)
<1> DEFINE e == es[1] n == Len(messages)
<1>1. e \in EventStates /\ 1 \in DOMAIN es
  OBVIOUS
<1>2. e.id \in Nat /\ e.version \in Nat /\ e.new \in BOOLEAN
  BY <1>1 DEF EventStates
<1>3. /\ messages \in Seq(ListedStates) /\ n \in Nat /\ DOMAIN messages = 1 .. n
      /\ n <= Len(st) /\ \A id \in DOMAIN messages : messages[id].id = id
  BY DEF Follows
<1>4. Len(st) \in Nat /\ DOMAIN st = 1 .. Len(st)
  OBVIOUS
<1>5. ASSUME e.session = s, NEW id \in (n + 1) .. e.id PROVE Creates(es, 1, s, id)
  <2>1. PICK j \in 1 .. 1 : Creates(es, j, s, id)
    BY <1>1, <1>5 DEF Follows
  <2>2. j = 1
    OBVIOUS
  <2> QED BY <2>1, <2>2
<1>6. ASSUME e.session # s PROVE Follows(messages, Tail(es), s, st)
  <2>1. \A id : ~Changes(es, 1, s, id) /\ ~Creates(es, 1, s, id)
    BY <1>6 DEF Changes, Creates
  <2>2. \A id \in DOMAIN st :
           Shows(messages, id) = IF Changes(es, 1, s, id) THEN es[1].version ELSE Shows(messages, id)
    BY <2>1
  <2>3. \A id \in DOMAIN st \ DOMAIN messages : ~Creates(es, 1, s, id)
    BY <2>1
  <2>4. n <= n
    BY <1>3
  <2> QED BY <1>3, <2>2, <2>3, <2>4, EventTold
<1>7. ASSUME e.session = s, e.new, e.id \in DOMAIN messages
      PROVE  Follows(WithEvent(e), Tail(es), s, st)
  <2>1. WithEvent(e) = messages
    BY <1>3, <1>7 DEF WithEvent
  <2>2. \A id : ~Changes(es, 1, s, id)
    BY <1>7 DEF Changes
  <2>3. \A id \in DOMAIN st \ DOMAIN messages : ~Creates(es, 1, s, id)
    BY <1>7 DEF Creates
  <2>4. \A id \in DOMAIN st :
           Shows(messages, id) = IF Changes(es, 1, s, id) THEN es[1].version ELSE Shows(messages, id)
    BY <2>2
  <2>5. n <= n
    BY <1>3
  <2>6. Follows(messages, Tail(es), s, st)
    BY <1>3, <2>3, <2>4, <2>5, EventTold
  <2> QED BY <2>1, <2>6
<1>8. ASSUME e.session = s, e.new, e.id \notin DOMAIN messages
      PROVE  Follows(WithEvent(e), Tail(es), s, st)
  <2>1. e.id \in DOMAIN st /\ e.id > n
    BY <1>1, <1>3, <1>4, <1>8
  <2>2. Creates(es, 1, s, n + 1)
    BY <1>2, <1>3, <1>5, <1>8, <2>1
  <2>3. e.id = n + 1 /\ e.version = 0
    BY <1>1, <1>8, <2>2 DEF Creates
  <2> DEFINE r == [id |-> e.id, version |-> e.version] ns == Append(messages, r)
  <2>4. WithEvent(e) = ns
    BY <1>3, <1>8 DEF WithEvent
  <2>5. r \in ListedStates /\ r.id = n + 1 /\ r.version = 0
    BY <1>2, <2>3 DEF ListedStates
  <2> HIDE DEF r
  <2>6. /\ ns \in Seq(ListedStates) /\ Len(ns) = n + 1 /\ DOMAIN ns = 1 .. (n + 1)
        /\ ns[n + 1] = r /\ \A id \in 1 .. n : ns[id] = messages[id]
    BY <1>3, <2>5
  <2> HIDE DEF ns
  <2>7. \A id \in DOMAIN ns : ns[id].id = id
    BY <1>3, <2>5, <2>6
  <2>8. \A id \in DOMAIN st : Shows(ns, id) = Shows(messages, id)
    BY <1>3, <2>5, <2>6 DEF Shows
  <2>9. \A id : ~Changes(es, 1, s, id)
    BY <1>8 DEF Changes
  <2>10. \A id \in DOMAIN st \ DOMAIN ns : ~Creates(es, 1, s, id)
    BY <1>3, <2>3, <2>6 DEF Creates
  <2>11. n <= Len(ns) /\ Len(ns) <= Len(st)
    BY <1>3, <1>4, <2>1, <2>3, <2>6
  <2>12. \A id \in DOMAIN st :
            Shows(ns, id) = IF Changes(es, 1, s, id) THEN es[1].version ELSE Shows(messages, id)
    BY <2>8, <2>9
  <2>13. Follows(ns, Tail(es), s, st)
    BY <2>6, <2>7, <2>10, <2>11, <2>12, EventTold
  <2> QED BY <2>4, <2>13
<1>9. ASSUME e.session = s, ~e.new PROVE Follows(WithEvent(e), Tail(es), s, st)
  <2>1. ~Creates(es, 1, s, e.id) /\ \A id : ~Creates(es, 1, s, id)
    BY <1>9 DEF Creates
  <2>2. e.id \in DOMAIN messages
    <3>1. e.id \in DOMAIN st
      BY <1>1, <1>9
    <3>2. CASE e.id \in (n + 1) .. e.id
      <4>1. Creates(es, 1, s, e.id)
        BY <1>5, <1>9, <3>2
      <4> QED BY <2>1, <4>1
    <3>3. CASE e.id \notin (n + 1) .. e.id
      BY <1>2, <1>3, <1>4, <3>1, <3>3
    <3> QED BY <3>2, <3>3
  <2> DEFINE ns == WithEvent(e)
  <2>3. ns = [i \in DOMAIN messages |->
                 IF messages[i].id = e.id THEN [messages[i] EXCEPT !.version = e.version]
                                          ELSE messages[i]]
    BY <1>9 DEF WithEvent
  <2> HIDE DEF ns
  <2>4. \A i \in 1 .. n : messages[i] \in ListedStates
    BY <1>3
  <2>5. \A i \in 1 .. n :
           /\ ns[i] \in ListedStates /\ ns[i].id = i
           /\ ns[i].version = IF i = e.id THEN e.version ELSE messages[i].version
    BY <1>2, <1>3, <2>3, <2>4 DEF ListedStates
  <2>6. ns \in [1 .. n -> ListedStates]
    BY <1>3, <2>3, <2>5
  <2>7. ns \in Seq(ListedStates) /\ Len(ns) = n /\ DOMAIN ns = 1 .. n
    BY <1>3, <2>6
  <2>8. \A id : Changes(es, 1, s, id) <=> id = e.id
    BY <1>9 DEF Changes
  <2>9. \A id \in DOMAIN st :
           Shows(ns, id) = IF Changes(es, 1, s, id) THEN e.version ELSE Shows(messages, id)
    BY <1>3, <2>2, <2>5, <2>7, <2>8 DEF Shows
  <2>10. \A id \in DOMAIN ns : ns[id].id = id
    BY <2>5, <2>7
  <2>11. n <= Len(ns) /\ Len(ns) <= Len(st)
    BY <1>3, <2>7
  <2>12. Follows(ns, Tail(es), s, st)
    BY <2>1, <2>7, <2>9, <2>10, <2>11, EventTold
  <2> QED BY <2>12 DEF ns
<1>10. e.new \/ ~e.new
  OBVIOUS
<1> QED BY <1>6, <1>7, <1>8, <1>9, <1>10

-----------------------------------------------------------------------------
(* The messages on their way.                                              *)

\* What is returned leaves the bag, once; what is started enters it.
LEMMA BagMoves ==
    ASSUME NEW B, IsABag(B), NEW done, NEW out
    PROVE  /\ IsABag((B (-) SetToBag(done)) (+) SetToBag(out))
           /\ DOMAIN ((B (-) SetToBag(done)) (+) SetToBag(out)) \subseteq DOMAIN B \cup out
           /\ (DOMAIN B \ done) \cup out \subseteq DOMAIN ((B (-) SetToBag(done)) (+) SetToBag(out))
           /\ IsABag(B (-) SetToBag(done))
           /\ DOMAIN (B (-) SetToBag(done)) \subseteq DOMAIN B
           /\ DOMAIN B \ done \subseteq DOMAIN (B (-) SetToBag(done))
<1> DEFINE A == [e \in DOMAIN B |-> IF e \in DOMAIN SetToBag(done) THEN B[e] - SetToBag(done)[e]
                                                                   ELSE B[e]]
           C == [e \in {d \in DOMAIN A : A[d] > 0} |-> A[e]]
           D == C (+) SetToBag(out)
<1>1. \A e \in DOMAIN B : B[e] \in Nat /\ B[e] > 0
  BY DEF IsABag
<1>2. B (-) SetToBag(done) = C
  BY DEF (-)
<1>3. DOMAIN SetToBag(done) = done /\ \A e \in done : SetToBag(done)[e] = 1
  BY DEF SetToBag
<1>4. DOMAIN A = DOMAIN B /\ \A e \in DOMAIN B : A[e] = IF e \in done THEN B[e] - 1 ELSE B[e]
  BY <1>3
<1> HIDE DEF A
<1>5. \A e \in DOMAIN B : A[e] \in Nat /\ (e \notin done => A[e] > 0)
  BY <1>1, <1>4
<1>6. DOMAIN C \subseteq DOMAIN B /\ DOMAIN B \ done \subseteq DOMAIN C
  BY <1>4, <1>5
<1>7. \A e \in DOMAIN C : C[e] \in Nat /\ C[e] > 0
  BY <1>4, <1>5
<1>8. C = [e \in DOMAIN C |-> C[e]]
  OBVIOUS
<1> HIDE DEF C
<1>9. IsABag(C)
  BY <1>7, <1>8 DEF IsABag
<1>10. DOMAIN SetToBag(out) = out /\ \A e \in out : SetToBag(out)[e] = 1
  BY DEF SetToBag
<1>11. D = [e \in DOMAIN C \cup out |-> (IF e \in DOMAIN C THEN C[e] ELSE 0)
                                         + (IF e \in out THEN SetToBag(out)[e] ELSE 0)]
  BY <1>10 DEF (+)
<1>12. DOMAIN D = DOMAIN C \cup out
  BY <1>11
<1>13. \A e \in DOMAIN D : D[e] \in Nat /\ D[e] > 0
  BY <1>7, <1>10, <1>11
<1>14. D = [e \in DOMAIN D |-> D[e]]
  BY <1>11, <1>12
<1>15. IsABag(D)
  <2> HIDE DEF D
  <2> QED BY <1>13, <1>14 DEF IsABag
<1> QED BY <1>2, <1>6, <1>9, <1>12, <1>15

LEMMA CommandedMoves ==
    ASSUME IsABag(inbox), NEW done, NEW out, Commanded(done, out)
    PROVE  /\ IsABag(inbox')
           /\ DOMAIN inbox' \subseteq DOMAIN inbox \cup out
           /\ (DOMAIN inbox \ done) \cup out \subseteq DOMAIN inbox'
  BY BagMoves DEF Commanded

\* A step that leaves the list alone and lost nothing new that it shows keeps
\* it up with the events.
LEMMA ListRests ==
    ASSUME ListKeepsUp, UNCHANGED <<listed, messages, events, store>>, missed => missed'
    PROVE  ListKeepsUp'
  BY DEF ListKeepsUp

\* Nothing is said about the sessions but on the keyboard.
LEMMA StillKeeps ==
    ASSUME ScreenInv, UNCHANGED <<chatVars, selected, inbox, events, created, store, missed>>,
           choices' \subseteq Sessions
    PROVE  ScreenInv'
<1> USE DEF chatVars
<1>1. ScreenTypes'
  BY DEF ScreenInv, ScreenTypes, EventsFit
<1>2. SessionsAgree'
  BY DEF ScreenInv, SessionsAgree, Waits, Crossed
<1>3. ListKeepsUp'
  BY ListRests DEF ScreenInv
<1> QED BY <1>1, <1>2, <1>3 DEF ScreenInv

\* Commands return and are started; the page takes another session only as it
\* tells the list and the editor (page/chat.go 116-139, 185-209).
LEMMA CommandsKeep ==
    ASSUME ScreenInv, NEW done, NEW out, Commanded(done, out),
           UNCHANGED <<listed, messages, editorSession, selected, events, store>>,
           \A m \in out : Known(m),
           \A m \in done : m.kind \notin ToList,
           \A m \in out : m.kind = "Cleared" => session' = None,
           \/ session' = session
           \/ session' = None /\ \E m \in out : m.kind = "Cleared"
           \/ session' \in Sessions /\ \E m \in out : m.kind = "Selected",
           choices' \subseteq Sessions, rows' \subseteq Sessions, created' \subseteq Sessions
    PROVE  ScreenInv'
<1>1. /\ IsABag(inbox')
      /\ DOMAIN inbox' \subseteq DOMAIN inbox \cup out
      /\ (DOMAIN inbox \ done) \cup out \subseteq DOMAIN inbox'
  BY CommandedMoves DEF ScreenInv, ScreenTypes
<1>2. /\ missed' \in BOOLEAN /\ (missed => missed')
      /\ ((Waits("Cleared")' /\ Waits("Selected")') => missed')
  BY DEF Commanded, Crossed, ScreenInv, ScreenTypes
<1>3. ScreenTypes'
  <2>1. \A m \in DOMAIN inbox' : Known(m)
    BY <1>1 DEF ScreenInv, ScreenTypes
  <2>2. session' \in Sessions \cup {None}
    BY DEF ScreenInv, ScreenTypes
  <2> QED BY <1>1, <1>2, <2>1, <2>2 DEF ScreenInv, ScreenTypes, EventsFit
<1>4. SessionsAgree'
  <2>1. \A m \in done : m.kind # "Selected" /\ m.kind # "Cleared"
    BY DEF ToList
  <2>2. Waits("Selected") => Waits("Selected")'
    BY <1>1, <2>1 DEF Waits, BagToSet
  <2>3. Waits("Cleared") => Waits("Cleared")'
    BY <1>1, <2>1 DEF Waits, BagToSet
  <2>4. CASE session' = session
    <3>1. (Waits("Cleared")' /\ session # None) => Waits("Cleared")
      BY <1>1, <2>4 DEF Waits, BagToSet
    <3> QED BY <1>2, <2>2, <2>3, <2>4, <3>1 DEF ScreenInv, SessionsAgree, Crossed
  <2>5. CASE session' = None /\ \E m \in out : m.kind = "Cleared"
    <3>1. Waits("Cleared")'
      BY <1>1, <2>5 DEF Waits, BagToSet
    <3> QED BY <1>2, <2>5, <3>1 DEF ScreenInv, SessionsAgree, Crossed
  <2>6. CASE session' \in Sessions /\ \E m \in out : m.kind = "Selected"
    <3>1. Waits("Selected")'
      BY <1>1, <2>6 DEF Waits, BagToSet
    <3>2. session' # None
      BY <2>6, ScreenAssumption
    <3> QED BY <1>2, <3>1, <3>2 DEF ScreenInv, SessionsAgree, Crossed
  <2> QED BY <2>4, <2>5, <2>6
<1>5. ListKeepsUp'
  BY <1>2, ListRests DEF ScreenInv
<1> QED BY <1>3, <1>4, <1>5 DEF ScreenInv

-----------------------------------------------------------------------------
(* The steps that change what the list shows, or what is stored.           *)

\* The list, the page and the editor take a session (list.go 78-83, 441-460).
LEMMA SessionSelectedKeeps ==
    ASSUME ScreenInv, NEW m, SessionSelected(m)
    PROVE  ScreenInv'
<1> DEFINE s == m.about
<1>1. m \in DOMAIN inbox /\ m.kind = "Selected"
  BY DEF SessionSelected, Arrives, BagToSet
<1>2. s \in Sessions /\ s # None
  BY <1>1, ScreenAssumption DEF ScreenInv, ScreenTypes, Known, Announced
<1>3. inbox' = inbox (-) SetToBag({m})
  BY DEF SessionSelected
<1>4. /\ IsABag(inbox') /\ DOMAIN inbox' \subseteq DOMAIN inbox
      /\ DOMAIN inbox \ {m} \subseteq DOMAIN inbox'
  BY <1>3, BagMoves DEF ScreenInv, ScreenTypes
<1>5. Waits("Selected")
  BY <1>1 DEF Waits, BagToSet
<1>6. Waits("Cleared") <=> Waits("Cleared")'
  BY <1>1, <1>4 DEF Waits, BagToSet
<1>7. /\ selected' = s /\ session' = s /\ editorSession' = s /\ listed' = s
      /\ UNCHANGED <<choices, rows, created, store, events>>
  BY DEF SessionSelected, SetSession, agentVars
<1>8. missed' \in BOOLEAN
  BY DEF SessionSelected, SetSession, ScreenInv, ScreenTypes, Overtaken
<1>9. ScreenTypes'
  BY <1>2, <1>4, <1>7, <1>8 DEF ScreenInv, ScreenTypes, EventsFit
<1>10. Waits("Cleared")' => missed'
  <2>1. CASE s = listed
    BY <1>2, <1>5, <1>6, <2>1 DEF SessionSelected, Crossed, ScreenInv, SessionsAgree
  <2>2. CASE s # listed
    BY <2>2 DEF SessionSelected, SetSession
  <2> QED BY <2>1, <2>2
<1>11. SessionsAgree'
  BY <1>2, <1>7, <1>10 DEF SessionsAgree, Crossed
<1>12. ListKeepsUp'
  <2>1. CASE s = listed
    <3>1. UNCHANGED <<listed, messages, events, store>> /\ (missed => missed')
      BY <1>7, <2>1 DEF SessionSelected
    <3> QED BY <3>1, ListRests DEF ScreenInv
  <2>2. CASE s # listed
    <3>1. missed' \/ (messages' = Loaded(s) /\ ~Overtaken(s))
      BY <2>2 DEF SessionSelected, SetSession
    <3>2. ASSUME messages' = Loaded(s), ~Overtaken(s) PROVE ListKeepsUp'
      <4>1. Follows(Loaded(s), events, s, store[s])
        BY <1>2, <3>2, LoadedFollows DEF ScreenInv
      <4> QED BY <1>7, <3>2, <4>1 DEF ListKeepsUp
    <3>3. ASSUME missed' PROVE ListKeepsUp'
      BY <3>3 DEF ListKeepsUp
    <3> QED BY <3>1, <3>2, <3>3
  <2> QED BY <2>1, <2>2
<1> QED BY <1>9, <1>11, <1>12 DEF ScreenInv

\* The list is cleared (list.go 84-89).
LEMMA SessionClearedKeeps ==
    ASSUME ScreenInv, NEW m, SessionCleared(m)
    PROVE  ScreenInv'
<1>1. m \in DOMAIN inbox /\ m.kind = "Cleared"
  BY DEF SessionCleared, Arrives, BagToSet
<1>2. inbox' = inbox (-) SetToBag({m})
  BY DEF SessionCleared
<1>3. /\ IsABag(inbox') /\ DOMAIN inbox' \subseteq DOMAIN inbox
      /\ DOMAIN inbox \ {m} \subseteq DOMAIN inbox'
  BY <1>2, BagMoves DEF ScreenInv, ScreenTypes
<1>4. Waits("Cleared")
  BY <1>1 DEF Waits, BagToSet
<1>5. /\ listed' = None /\ messages' = <<>>
      /\ UNCHANGED <<session, selected, editorSession, choices, rows, created, store, events>>
  BY DEF SessionCleared, agentVars
<1>6. missed' \in BOOLEAN
  BY DEF SessionCleared, ScreenInv, ScreenTypes
<1>7. session # None => missed'
  BY <1>4 DEF SessionCleared, ScreenInv, SessionsAgree
<1>8. ScreenTypes'
  BY <1>3, <1>5, <1>6 DEF ScreenInv, ScreenTypes, EventsFit
<1>9. SessionsAgree'
  BY <1>5, <1>7 DEF SessionsAgree
<1>10. ListKeepsUp'
  BY <1>5 DEF ListKeepsUp
<1> QED BY <1>8, <1>9, <1>10 DEF ScreenInv

\* What is left alone where a message is written or an event told.
LEMMA SessionsRest ==
    ASSUME SessionsAgree, UNCHANGED <<session, selected, editorSession, listed, inbox>>,
           missed => missed', listed = None => messages' = messages
    PROVE  SessionsAgree'
  BY DEF SessionsAgree, Waits, Crossed

\* A message is stored, and its event added unless it is dropped
\* (message.go 57-122).
LEMMA WrittenKeeps ==
    ASSUME ScreenInv, NEW s \in Sessions, NEW id \in Nat, NEW v \in Nat, NEW new \in BOOLEAN,
           Written(s, id, v, new),
           new => id = Len(store[s]) + 1 /\ v = 0,
           ~new => id \in DOMAIN store[s]
    PROVE  ScreenInv'
<1> DEFINE st == store[s]
           stored == IF new THEN Append(st, v) ELSE [st EXCEPT ![id] = v]
           e == [session |-> s, id |-> id, version |-> v, new |-> new]
<1>1. /\ store \in [Sessions -> Seq(Nat)] /\ events \in Seq(EventStates)
      /\ st \in Seq(Nat) /\ Len(st) \in Nat /\ DOMAIN st = 1 .. Len(st)
  BY DEF ScreenInv, ScreenTypes
<1>2. e \in EventStates /\ e.session = s /\ e.id = id /\ e.version = v /\ e.new = new
  BY DEF EventStates
<1>3. /\ stored \in Seq(Nat) /\ Len(stored) \in Nat /\ DOMAIN stored = 1 .. Len(stored)
      /\ Len(st) <= Len(stored) /\ id \in DOMAIN stored /\ stored[id] = v
      /\ \A k \in DOMAIN st : k # id => stored[k] = st[k]
      /\ \A k \in DOMAIN stored \ DOMAIN st : new /\ k = id
      /\ new => id \notin DOMAIN st
  <2>1. CASE new
    BY <1>1, <2>1
  <2>2. CASE ~new
    BY <1>1, <2>2
  <2> QED BY <2>1, <2>2
<1>4. store' = [store EXCEPT ![s] = stored]
  BY <1>1 DEF Written
<1>5. UNCHANGED <<choices, rows, created, session, listed, inbox, selected, editorSession, messages>>
  BY DEF Written, chatVars
<1> HIDE DEF stored
<1>6. /\ store' \in [Sessions -> Seq(Nat)] /\ store'[s] = stored
      /\ \A r \in Sessions : r # s => store'[r] = store[r]
  BY <1>1, <1>3, <1>4
<1>7. \A i \in DOMAIN events : /\ events[i] \in EventStates
                               /\ events[i].id \in DOMAIN store[events[i].session]
                               /\ events[i].new => events[i].version = 0
  BY <1>1 DEF ScreenInv, ScreenTypes, EventsFit
<1>8. EventsFit(events, store')
  <2>1. \A r \in Sessions : DOMAIN store[r] \subseteq DOMAIN store'[r]
    <3> TAKE r \in Sessions
    <3>1. DOMAIN st \subseteq DOMAIN stored
      BY <1>1, <1>3
    <3>2. CASE r = s
      BY <1>6, <3>1, <3>2
    <3>3. CASE r # s
      BY <1>6, <3>3
    <3> QED BY <3>2, <3>3
  <2> QED BY <1>7, <2>1 DEF EventsFit, EventStates
<1> HIDE DEF e
<1>9. CASE events' = Append(events, e) /\ missed' = missed
  <2>1. /\ events' \in Seq(EventStates) /\ Len(events') = Len(events) + 1
        /\ \A i \in DOMAIN events' : events'[i] = e \/ (i \in DOMAIN events /\ events'[i] = events[i])
    BY <1>1, <1>2, <1>9
  <2>2. EventsFit(events', store')
    BY <1>2, <1>3, <1>6, <1>8, <2>1 DEF EventsFit
  <2>3. ScreenTypes'
    BY <1>5, <1>6, <1>9, <2>1, <2>2 DEF ScreenInv, ScreenTypes
  <2>4. SessionsAgree'
    BY <1>5, <1>9, SessionsRest DEF ScreenInv
  <2>5. ASSUME listed # None, ~missed PROVE Follows(messages, events', listed, store'[listed])
    <3>1. listed \in Sessions /\ Follows(messages, events, listed, store[listed])
      BY <2>5 DEF ScreenInv, ScreenTypes, ListKeepsUp
    <3> DEFINE old == store[listed] kept == store'[listed]
    <3>2. old \in Seq(Nat) /\ kept \in Seq(Nat) /\ <<e>>[1] = e
      BY <1>1, <1>6, <3>1
    <3>3. \A i \in DOMAIN events : events[i].session = listed => events[i].id \in DOMAIN old
      BY <1>7
    <3>4. CASE listed = s
      <4>1. old = st /\ kept = stored
        BY <1>6, <3>4
      <4>2. \A k : Changes(<<e>>, 1, s, k) <=> (k = id /\ ~new)
        BY <1>2, <3>2 DEF Changes
      <4>3. \A k : Creates(<<e>>, 1, s, k) <=> (k = id /\ new)
        BY <1>2, <3>2 DEF Creates
      <4>4. \A k \in DOMAIN st : Changes(<<e>>, 1, s, k) \/ stored[k] = st[k]
        BY <1>3, <4>2
      <4>5. \A k \in DOMAIN stored : Changes(<<e>>, 1, s, k) => stored[k] = e.version
        BY <1>2, <1>3, <4>2
      <4>6. \A k \in DOMAIN stored \ DOMAIN st : stored[k] = 0 /\ Creates(<<e>>, 1, s, k)
        BY <1>3, <4>3
      <4>7. e.session = s => e.id \in DOMAIN stored
        BY <1>2, <1>3
      <4>8. \A i \in DOMAIN events : events[i].session = s => events[i].id \in DOMAIN st
        BY <3>3, <3>4, <4>1
      <4>9. Follows(messages, events, s, st)
        BY <3>1, <3>4, <4>1
      <4> HIDE DEF st
      <4>10. Follows(messages, Append(events, e), s, stored)
        BY <1>1, <1>2, <1>3, <4>4, <4>5, <4>6, <4>7, <4>8, <4>9, EventComes
      <4> QED BY <1>9, <3>4, <4>1, <4>10
    <3>5. CASE listed # s
      <4>1. kept = old
        BY <1>6, <3>1, <3>5
      <4>2. e.session # listed
        BY <1>2, <3>5
      <4>3. \A k : ~Changes(<<e>>, 1, listed, k)
        BY <3>2, <4>2 DEF Changes
      <4> HIDE DEF old, kept
      <4>4. \A k \in DOMAIN old : Changes(<<e>>, 1, listed, k) \/ old[k] = old[k]
        OBVIOUS
      <4>5. \A k \in DOMAIN old : Changes(<<e>>, 1, listed, k) => old[k] = e.version
        BY <4>3
      <4>6. \A k \in DOMAIN old \ DOMAIN old : old[k] = 0 /\ Creates(<<e>>, 1, listed, k)
        OBVIOUS
      <4>7. e.session = listed => e.id \in DOMAIN old
        BY <4>2
      <4>8. Len(old) <= Len(old)
        BY <3>2
      <4>9. Follows(messages, events, listed, old)
        BY <3>1 DEF old
      <4>10. Follows(messages, Append(events, e), listed, old)
        BY <1>1, <1>2, <3>1, <3>2, <3>3, <4>4, <4>5, <4>6, <4>7, <4>8, <4>9, EventComes
      <4> QED BY <1>9, <4>1, <4>10 DEF kept
    <3> QED BY <3>4, <3>5
  <2>6. ListKeepsUp'
    BY <1>5, <1>9, <2>5 DEF ListKeepsUp
  <2> QED BY <2>3, <2>4, <2>6 DEF ScreenInv
<1>10. CASE events' = events /\ missed' = (missed \/ listed = s)
  <2>1. missed' \in BOOLEAN /\ (missed => missed') /\ (listed = s => missed')
    BY <1>10 DEF ScreenInv, ScreenTypes
  <2>2. ScreenTypes'
    BY <1>5, <1>6, <1>8, <1>10, <2>1 DEF ScreenInv, ScreenTypes
  <2>3. SessionsAgree'
    BY <1>5, <2>1, SessionsRest DEF ScreenInv
  <2>4. CASE listed = s
    BY <2>1, <2>2, <2>3, <2>4 DEF ScreenInv, ListKeepsUp
  <2>5. CASE listed # s
    <3>1. listed # None => store'[listed] = store[listed]
      BY <1>6, <2>5 DEF ScreenInv, ScreenTypes
    <3>2. ListKeepsUp'
      BY <1>5, <1>10, <2>1, <3>1 DEF ScreenInv, ListKeepsUp
    <3> QED BY <2>2, <2>3, <3>2 DEF ScreenInv
  <2> QED BY <2>4, <2>5
<1> QED BY <1>9, <1>10 DEF Written, e

\* An event is told to the list of its session, unless the page is not shown
\* (list.go 110-155).
LEMMA EventArrivesKeeps ==
    ASSUME ScreenInv, EventArrives
    PROVE  ScreenInv'
<1>1. /\ events \in Seq(EventStates) /\ events # <<>> /\ events' = Tail(events)
      /\ Head(events) = events[1] /\ missed \in BOOLEAN
  BY DEF EventArrives, ScreenInv, ScreenTypes
<1>2. /\ UNCHANGED <<choices, rows, created, session, listed, inbox, selected, editorSession, store>>
      /\ store \in [Sessions -> Seq(Nat)]
  BY DEF EventArrives, agentVars, ScreenInv, ScreenTypes
<1>3. \A i \in DOMAIN events : /\ events[i] \in EventStates
                               /\ events[i].id \in DOMAIN store[events[i].session]
                               /\ events[i].new => events[i].version = 0
  BY <1>1 DEF ScreenInv, ScreenTypes, EventsFit
<1>4. /\ events' \in Seq(EventStates)
      /\ \A i \in DOMAIN events' : i + 1 \in DOMAIN events /\ events'[i] = events[i + 1]
  BY <1>1
<1>5. EventsFit(events', store')
  BY <1>2, <1>3, <1>4 DEF EventsFit
<1>6. missed' \in BOOLEAN /\ (missed => missed')
  BY <1>1 DEF EventArrives
<1>7. ScreenTypes'
  BY <1>2, <1>4, <1>5, <1>6 DEF ScreenInv, ScreenTypes
<1>8. events[1] \in EventStates
  BY <1>1
<1>9. listed = None => messages' = messages
  BY <1>1, <1>8, ScreenAssumption DEF EventArrives, EventStates
<1>10. SessionsAgree'
  BY <1>2, <1>6, <1>9, SessionsRest DEF ScreenInv
<1>11. ASSUME listed # None, ~missed' PROVE Follows(messages', events', listed, store[listed])
  <2>1. ~missed
    BY <1>6, <1>11
  <2>2. listed \in Sessions /\ Follows(messages, events, listed, store[listed])
    BY <1>11, <2>1 DEF ScreenInv, ScreenTypes, ListKeepsUp
  <2>3. store[listed] \in Seq(Nat)
    BY <1>2, <2>2
  <2>4. \A i \in DOMAIN events : events[i].session = listed => events[i].id \in DOMAIN store[listed]
    BY <1>3
  <2>5. \A i \in DOMAIN events : events[i].new => events[i].version = 0
    BY <1>3
  <2>6. /\ events[1].session = listed => Follows(WithEvent(events[1]), Tail(events), listed, store[listed])
        /\ events[1].session # listed => Follows(messages, Tail(events), listed, store[listed])
    BY <1>1, <2>2, <2>3, <2>4, <2>5, EventGoes
  <2>7. \/ events[1].session = listed /\ messages' = WithEvent(events[1])
        \/ events[1].session # listed /\ messages' = messages
    BY <1>1, <1>11 DEF EventArrives
  <2> QED BY <1>1, <2>6, <2>7
<1>12. ListKeepsUp'
  BY <1>2, <1>11 DEF ListKeepsUp
<1> QED BY <1>7, <1>10, <1>12 DEF ScreenInv

-----------------------------------------------------------------------------
(* The other steps, the initial states, and the theorem.                   *)

\* A message that is no clearing, and announces a session if any.
Ordinary(m) == m.kind # "Cleared" /\ Known(m)

SessionsStay ==
    UNCHANGED <<session, listed, messages, editorSession, selected, events, store, rows, created,
                choices>>

LEMMA OrdinaryKeeps ==
    ASSUME ScreenInv, SessionsStay, NEW done, NEW out, Commanded(done, out),
           \A m \in done : m.kind \notin ToList,
           \A m \in out : Ordinary(m)
    PROVE  ScreenInv'
<1>1. choices' \subseteq Sessions /\ rows' \subseteq Sessions /\ created' \subseteq Sessions
  BY DEF ScreenInv, ScreenTypes, SessionsStay
<1>3. \A m \in out : Known(m)
  BY DEF Ordinary
<1>4. \A m \in out : m.kind = "Cleared" => session' = None
  BY DEF Ordinary
<1> QED BY <1>1, <1>3, <1>4, CommandsKeep DEF SessionsStay

\* A message is returned that starts nothing, or one ordinary command.
LEMMA ReturnKeeps ==
    ASSUME ScreenInv, SessionsStay, NEW m, m.kind \notin ToList,
           NEW kind, NEW about, kind \notin {"Cleared", "Command"},
           kind \in Announced => about \in Sessions,
           Commanded({m}, {}) \/ Commanded({m}, {M(kind, about)})
    PROVE  ScreenInv'
<1>1. \A k \in {m} : k.kind \notin ToList
  OBVIOUS
<1>2. \A k \in {M(kind, about)} : Ordinary(k)
  BY DEF M, Ordinary, Known
<1>3. \A k \in {} : Ordinary(k)
  OBVIOUS
<1>4. CASE Commanded({m}, {})
  BY <1>1, <1>3, <1>4, OrdinaryKeeps
<1>5. CASE Commanded({m}, {M(kind, about)})
  BY <1>1, <1>2, <1>5, OrdinaryKeeps
<1> QED BY <1>4, <1>5

\* Keys change no session but with a message to the list (tui.go 445-657,
\* page/chat.go 130-171).
LEMMA KeysKeep ==
    ASSUME ScreenInv,
           \/ GlobalKey \/ DialogKey \/ QuitConfirmed \/ FilepickerKey
           \/ NewSessionKey \/ CancelKey \/ EnterKey \/ TextKey \/ ExternalEditorKey
    PROVE  ScreenInv'
<1>1. choices \subseteq Sessions /\ rows \subseteq Sessions /\ created \subseteq Sessions
  BY DEF ScreenInv, ScreenTypes
<1>2. CASE GlobalKey
  <2>1. choices' \subseteq Sessions
    BY <1>1, <1>2 DEF GlobalKey, QuitKey, SessionsKey, CommandsKey, ModelsKey, ThemesKey,
                      EscapeKey, LogsKey, HelpKey, FilesKey
  <2> QED BY <1>2, <2>1, StillKeeps DEF GlobalKey, agentVars
<1>3. ASSUME SessionsStay, NEW out, Commanded({}, out), \A m \in out : Ordinary(m)
      PROVE  ScreenInv'
  <2>1. \A m \in {} : m.kind \notin ToList
    OBVIOUS
  <2> QED BY <1>3, <2>1, OrdinaryKeeps
<1>4. CASE QuitConfirmed \/ FilepickerKey \/ CancelKey
  BY <1>1, <1>4, StillKeeps DEF QuitConfirmed, FilepickerKey, CancelKey, agentVars
<1>5. CASE DialogKey
  <2> DEFINE Keys == ArgumentsReturn \cup SessionReturns \cup CommandReturns \cup InitReturns
                     \cup QuitReturns \cup PermissionReturns \cup ModelReturns \cup ThemeReturns
  <2>1. PICK m \in Keys : Commanded({}, {m})
    BY <1>5 DEF DialogKey, Chosen
  <2>2. Ordinary(m)
    BY <1>1 DEF ArgumentsReturn, SessionReturns, CommandReturns, InitReturns, QuitReturns,
                PermissionReturns, ModelReturns, ThemeReturns, M, Announced, Ordinary, Known
  <2>3. SessionsStay
    BY <1>5 DEF DialogKey, agentVars, chatVars, SessionsStay
  <2>4. \A k \in {m} : Ordinary(k)
    BY <2>2
  <2> QED BY <1>3, <2>1, <2>3, <2>4
<1>6. CASE NewSessionKey
  <2>1. /\ session' = None /\ Commanded({}, {M("Cleared", None)})
        /\ UNCHANGED <<listed, messages, editorSession, events, store, selected, choices, rows, created>>
    BY <1>6 DEF NewSessionKey, agentVars
  <2>2. \A m \in {M("Cleared", None)} : m.kind = "Cleared" /\ Known(m)
    BY DEF M, Announced, Known
  <2>3. \E m \in {M("Cleared", None)} : m.kind = "Cleared"
    BY DEF M
  <2>4. \A m \in {} : m.kind \notin ToList
    OBVIOUS
  <2> QED BY <1>1, <2>1, <2>2, <2>3, <2>4, CommandsKeep
<1>7. CASE EnterKey
  <2>1. SessionsStay
    BY <1>7 DEF EnterKey, agentVars, SessionsStay
  <2> DEFINE Returns == {{}, {M("Close", "completion")}, {M("Send", None)}}
  <2>2. PICK end \in Returns : \/ Commanded({}, end)
                               \/ \E s \in rows : Commanded({}, end \cup {M("SidebarSelected", s)})
    BY <1>7 DEF EnterKey
  <2>3. \A m \in end : Ordinary(m)
    BY DEF M, Ordinary, Known, Announced
  <2>4. CASE Commanded({}, end)
    BY <1>3, <2>1, <2>3, <2>4
  <2>5. CASE \E s \in rows : Commanded({}, end \cup {M("SidebarSelected", s)})
    <3>1. PICK s \in Sessions : Commanded({}, end \cup {M("SidebarSelected", s)})
      BY <1>1, <2>5
    <3>2. Ordinary(M("SidebarSelected", s))
      BY DEF M, Ordinary, Known, Announced
    <3>3. \A m \in end \cup {M("SidebarSelected", s)} : Ordinary(m)
      BY <2>3, <3>2
    <3> QED BY <1>3, <2>1, <3>1, <3>3
  <2> QED BY <2>2, <2>4, <2>5
<1>8. CASE TextKey
  <2>1. SessionsStay
    BY <1>8 DEF TextKey, agentVars, SessionsStay
  <2>2. PICK out \in {{}, {M("SidebarNew", None)}, {M("Close", "completion")}} :
           Commanded({}, out)
    BY <1>8 DEF TextKey
  <2>3. \A m \in out : Ordinary(m)
    BY DEF M, Ordinary, Known, Announced
  <2> QED BY <1>3, <2>1, <2>2, <2>3
<1>9. CASE ExternalEditorKey
  <2>1. SessionsStay /\ Commanded({}, {M("Send", None)})
    BY <1>9 DEF ExternalEditorKey, agentVars, chatVars, SessionsStay
  <2>2. \A m \in {M("Send", None)} : Ordinary(m)
    BY DEF M, Ordinary, Known, Announced
  <2> QED BY <1>3, <2>1, <2>2
<1> QED BY <1>2, <1>4, <1>5, <1>6, <1>7, <1>8, <1>9

\* A message that comes tells nobody of a session that is not announced to all
\* (tui.go 275-443, page/chat.go 89-129).
LEMMA MessagesKeep ==
    ASSUME ScreenInv, NEW m, MessageArrives(m)
    PROVE  ScreenInv'
<1>1. choices \subseteq Sessions /\ rows \subseteq Sessions /\ created \subseteq Sessions
  BY DEF ScreenInv, ScreenTypes
<1>2. ASSUME m \in DOMAIN inbox, m.kind \in Announced PROVE m.about \in Sessions
  BY <1>2 DEF ScreenInv, ScreenTypes, Known
<1>3. CASE Closes(m)
  <2>1. /\ SessionsStay /\ m.kind \notin ToList
        /\ Commanded({m}, {}) \/ Commanded({m}, {M("Send", None)})
    BY <1>3 DEF Closes, agentVars, chatVars, SessionsStay, ToList
  <2>2. "Send" \notin {"Cleared", "Command"} /\ "Send" \notin Announced
    BY DEF Announced
  <2> QED BY <2>1, <2>2, ReturnKeeps
<1>4. CASE InitDialog(m)
  <2>1. /\ SessionsStay /\ m.kind \notin ToList
        /\ Commanded({m}, {}) \/ Commanded({m}, {M("Send", None)})
    BY <1>4 DEF InitDialog, agentVars, chatVars, SessionsStay, ToList
  <2>2. "Send" \notin {"Cleared", "Command"} /\ "Send" \notin Announced
    BY DEF Announced
  <2> QED BY <2>1, <2>2, ReturnKeeps
<1>5. CASE SessionPicked(m)
  <2>1. m.about \in Sessions
    BY <1>2, <1>5 DEF SessionPicked, Arrives, BagToSet, Announced
  <2>2. /\ SessionsStay /\ m.kind \notin ToList
        /\ Commanded({m}, {}) \/ Commanded({m}, {M("Selected", m.about)})
    BY <1>5 DEF SessionPicked, agentVars, chatVars, SessionsStay, ToList
  <2>3. "Selected" \notin {"Cleared", "Command"}
    OBVIOUS
  <2> QED BY <2>1, <2>2, <2>3, ReturnKeeps
<1>6. CASE CommandPicked(m)
  <2>1. SessionsStay /\ m.kind \notin ToList /\ Commanded({m}, {Started(m.about)})
    BY <1>6 DEF CommandPicked, agentVars, chatVars, SessionsStay, ToList
  <2>2. m.about \in Commands
    BY <1>6 DEF CommandPicked, Arrives, BagToSet, ScreenInv, ScreenTypes, Known
  <2>3. \A k \in {Started(m.about)} : Ordinary(k)
    BY <2>2 DEF Commands, Started, Handlers, M, Announced, Ordinary, Known
  <2>4. \A k \in {m} : k.kind \notin ToList
    BY <2>1
  <2> QED BY <2>1, <2>3, <2>4, OrdinaryKeeps
<1>7. CASE ArgumentsDialog(m)
  <2>1. /\ SessionsStay /\ m.kind \notin ToList
        /\ Commanded({m}, {}) \/ Commanded({m}, {M("RunCustom", None)})
    BY <1>7 DEF ArgumentsDialog, agentVars, chatVars, SessionsStay, ToList
  <2>2. "RunCustom" \notin {"Cleared", "Command"} /\ "RunCustom" \notin Announced
    BY DEF Announced
  <2> QED BY <2>1, <2>2, ReturnKeeps
<1>8. CASE Compacts(m)
  <2>1. /\ SessionsStay /\ m.kind \notin ToList
        /\ Commanded({m}, {}) \/ Commanded({m}, {M("Summarize", selected)})
    BY <1>8 DEF Compacts, agentVars, chatVars, SessionsStay, ToList
  <2>2. "Summarize" \notin {"Cleared", "Command"} /\ "Summarize" \notin Announced
    BY DEF Announced
  <2> QED BY <2>1, <2>2, ReturnKeeps
<1>9. CASE Summarizes(m)
  <2>1. /\ SessionsStay /\ m.kind \notin ToList
        /\ Commanded({m}, {}) \/ Commanded({m}, {M("Send", None)})
    BY <1>9 DEF Summarizes, chatVars, SessionsStay, ToList
  <2>2. "Send" \notin {"Cleared", "Command"} /\ "Send" \notin Announced
    BY DEF Announced
  <2> QED BY <2>1, <2>2, ReturnKeeps
<1>10. CASE AgentResponded(m)
  <2>1. /\ SessionsStay /\ m.kind \notin ToList
        /\ Commanded({m}, {}) \/ Commanded({m}, {M("Compact", None)})
    BY <1>10 DEF AgentResponded, agentVars, chatVars, SessionsStay, ToList
  <2>2. "Compact" \notin {"Cleared", "Command"} /\ "Compact" \notin Announced
    BY DEF Announced
  <2> QED BY <2>1, <2>2, ReturnKeeps
<1>11. CASE NotTold(m)
  <2>1. UNCHANGED <<session, listed, messages, editorSession, events, store, rows, created, choices>>
    BY <1>11 DEF NotTold, chatVars, agentVars
  <2>2. CASE m.kind \in ToList /\ inbox' = inbox (-) SetToBag({m}) /\ missed' = TRUE
    <3>1. IsABag(inbox') /\ DOMAIN inbox' \subseteq DOMAIN inbox
      BY <2>2, BagMoves DEF ScreenInv, ScreenTypes
    <3>2. ScreenTypes'
      BY <2>1, <2>2, <3>1 DEF ScreenInv, ScreenTypes, EventsFit
    <3>3. SessionsAgree'
      BY <2>1, <2>2 DEF ScreenInv, SessionsAgree
    <3>4. ListKeepsUp'
      BY <2>2 DEF ListKeepsUp
    <3> QED BY <3>2, <3>3, <3>4 DEF ScreenInv
  <2>3. CASE m.kind \in ToPage \cup {"Close"} /\ Commanded({m}, {})
    <3>1. SessionsStay /\ m.kind \notin ToList
      BY <1>11, <2>1, <2>3 DEF NotTold, SessionsStay, ToPage, ToList
    <3>2. "Send" \notin {"Cleared", "Command"} /\ "Send" \notin Announced
      BY DEF Announced
    <3> QED BY <2>3, <3>1, <3>2, ReturnKeeps
  <2>4. M("Close", "completion").kind = "Close"
    BY DEF M
  <2> QED BY <1>11, <2>2, <2>3, <2>4 DEF NotTold
<1>12. CASE SendMessage(m)
  <2>1. m.kind \notin ToList
    BY <1>12 DEF SendMessage, ToList
  <2>2. CASE session = None /\ \E new \in Sessions \ created :
                /\ session' = new /\ created' = created \cup {new} /\ rows' \in {created', {}}
                /\ Commanded({m}, {M("Selected", new)})
    <3>1. PICK new \in Sessions :
                /\ session' = new /\ created' = created \cup {new} /\ rows' \in {created', {}}
                /\ Commanded({m}, {M("Selected", new)})
      BY <2>2
    <3>2. M("Selected", new).kind = "Selected" /\ M("Selected", new).about = new
      BY DEF M
    <3>3. created' \subseteq Sessions /\ rows' \subseteq Sessions
      BY <1>1, <3>1
    <3>4. UNCHANGED <<listed, messages, editorSession, events, store, selected, choices>>
      BY <1>12 DEF SendMessage
    <3>5. \A k \in {M("Selected", new)} : k.kind = "Selected" /\ Known(k)
      BY <3>2 DEF Known
    <3>6. \E k \in {M("Selected", new)} : k.kind = "Selected"
      BY <3>2
    <3>7. \A k \in {m} : k.kind \notin ToList
      BY <2>1
    <3> QED BY <1>1, <3>1, <3>3, <3>4, <3>5, <3>6, <3>7, CommandsKeep
  <2>3. CASE Commanded({m}, {}) /\ UNCHANGED <<session, created, rows>>
    <3>1. SessionsStay
      BY <1>12, <2>3 DEF SendMessage, SessionsStay
    <3>2. "Send" \notin {"Cleared", "Command"} /\ "Send" \notin Announced
      BY DEF Announced
    <3> QED BY <2>1, <2>3, <3>1, <3>2, ReturnKeeps
  <2> QED BY <1>12, <2>2, <2>3 DEF SendMessage
<1>13. CASE SendRefused(m)
  <2>1. m.kind \notin ToList
    BY <1>13 DEF SendRefused, ToList
  <2>2. SessionsStay /\ Commanded({m}, {})
    BY <1>13 DEF SendRefused, SessionsStay, agentVars, chatVars
  <2>3. "Send" \notin {"Cleared", "Command"} /\ "Send" \notin Announced
    BY DEF Announced
  <2> QED BY <2>1, <2>2, <2>3, ReturnKeeps
<1>14. CASE SessionSelected(m)
  BY <1>14, SessionSelectedKeeps
<1>15. CASE SidebarMessage(m)
  <2>1. UNCHANGED <<listed, messages, editorSession, events, store, selected, choices, rows, created>>
    BY <1>15 DEF SidebarMessage, agentVars
  <2>2. \A k \in {m} : k.kind \notin ToList
    BY <1>15 DEF SidebarMessage, ToList
  <2>3. CASE /\ m.kind = "SidebarSelected" /\ session' = m.about
             /\ Commanded({m}, {M("Selected", m.about)})
    <3>1. m.about \in Sessions
      BY <1>2, <1>15, <2>3 DEF SidebarMessage, Arrives, BagToSet, Announced
    <3>2. \A k \in {M("Selected", m.about)} : k.kind = "Selected" /\ Known(k)
      BY <3>1 DEF M, Known, Announced
    <3>3. \E k \in {M("Selected", m.about)} : k.kind = "Selected"
      BY DEF M
    <3>4. \A k \in {M("Selected", m.about)} : k.kind = "Cleared" => session' = None
      BY <3>2
    <3>5. session' \in Sessions /\ Commanded({m}, {M("Selected", m.about)})
      BY <2>3, <3>1
    <3> QED BY <1>1, <2>1, <2>2, <3>2, <3>3, <3>4, <3>5, CommandsKeep
  <2>4. CASE /\ m.kind = "SidebarNew" /\ session' = None
             /\ Commanded({m}, {M("Cleared", None)})
    <3>1. \A k \in {M("Cleared", None)} : k.kind = "Cleared" /\ Known(k)
      BY DEF M, Known, Announced
    <3>2. \E k \in {M("Cleared", None)} : k.kind = "Cleared"
      BY DEF M
    <3>3. session' = None /\ Commanded({m}, {M("Cleared", None)})
      BY <2>4
    <3> QED BY <1>1, <2>1, <2>2, <3>1, <3>2, <3>3, CommandsKeep
  <2> QED BY <1>15, <2>3, <2>4 DEF SidebarMessage
<1>16. CASE SessionCleared(m)
  BY <1>16, SessionClearedKeeps
<1> QED BY <1>3, <1>4, <1>5, <1>6, <1>7, <1>8, <1>9, <1>10, <1>11, <1>12, <1>13, <1>14, <1>15,
           <1>16 DEF MessageArrives

LEMMA AgentKeeps ==
    ASSUME ScreenInv,
           \/ \E s \in Sessions : MessageCreated(s) \/ MessageUpdated(s)
           \/ \E entry \in work : RequestEnds(entry)
           \/ PermissionAsked
    PROVE  ScreenInv'
<1>1. choices \subseteq Sessions /\ rows \subseteq Sessions /\ created \subseteq Sessions
  BY DEF ScreenInv, ScreenTypes
<1>2. ASSUME NEW s \in Sessions, MessageCreated(s) PROVE ScreenInv'
  <2>1. store[s] \in Seq(Nat)
    BY DEF ScreenInv, ScreenTypes
  <2>2. Len(store[s]) + 1 \in Nat /\ 0 \in Nat /\ TRUE \in BOOLEAN
    BY <2>1
  <2> QED BY <1>2, <2>2, WrittenKeeps DEF MessageCreated
<1>3. ASSUME NEW s \in Sessions, MessageUpdated(s) PROVE ScreenInv'
  <2> DEFINE id == Len(store[s])
  <2>1. store[s] \in Seq(Nat)
    BY DEF ScreenInv, ScreenTypes
  <2>2. id \in Nat /\ id \in DOMAIN store[s] /\ store[s][id] + 1 \in Nat /\ FALSE \in BOOLEAN
    BY <1>3, <2>1 DEF MessageUpdated
  <2>3. Written(s, id, store[s][id] + 1, FALSE)
    BY <1>3 DEF MessageUpdated
  <2> HIDE DEF id
  <2> QED BY <2>2, <2>3, WrittenKeeps
<1>4. ASSUME NEW entry \in work, RequestEnds(entry) PROVE ScreenInv'
  <2>1. CASE Commanded({}, {M("Responded", None)})
    <3>1. \A m \in {M("Responded", None)} : Ordinary(m)
      BY DEF M, Ordinary, Known, Announced
    <3>2. \A m \in {} : m.kind \notin ToList
      OBVIOUS
    <3>3. SessionsStay
      BY <1>4 DEF RequestEnds, SessionsStay, chatVars
    <3> QED BY <2>1, <3>1, <3>2, <3>3, OrdinaryKeeps
  <2>2. CASE UNCHANGED <<inbox, missed>>
    BY <1>1, <1>4, <2>2, StillKeeps DEF RequestEnds
  <2> QED BY <1>4, <2>1, <2>2 DEF RequestEnds
<1>5. CASE PermissionAsked
  BY <1>1, <1>5, StillKeeps DEF PermissionAsked, agentVars
<1> QED BY <1>2, <1>3, <1>4, <1>5

LEMMA ScreenStarts == ASSUME ScreenInit PROVE ScreenInv
<1>1. PICK S \in SUBSET {M("ShowInit", None)} : inbox = SetToBag(S)
  BY DEF ScreenInit
<1>2. DOMAIN inbox = S /\ IsABag(inbox)
  BY <1>1 DEF SetToBag, IsABag
<1>3. \A m \in S : m.kind = "ShowInit"
  BY DEF M
<1>4. store \in [Sessions -> Seq(Nat)]
  <2>1. <<0>> \in Seq(Nat) /\ <<>> \in Seq(Nat)
    OBVIOUS
  <2> QED BY <2>1 DEF ScreenInit
<1>5. events \in Seq(EventStates) /\ EventsFit(events, store)
  BY DEF ScreenInit, EventsFit
<1>6. ScreenTypes
  BY <1>2, <1>3, <1>4, <1>5 DEF ScreenInit, ScreenTypes, Known, Announced
<1>7. SessionsAgree
  BY <1>2, <1>3 DEF ScreenInit, SessionsAgree, Waits, Crossed, BagToSet
<1>8. ListKeepsUp
  BY DEF ScreenInit, ListKeepsUp
<1> QED BY <1>6, <1>7, <1>8 DEF ScreenInv

LEMMA ScreenSteps == ASSUME ScreenInv, [ScreenNext]_screenVars PROVE ScreenInv'
<1>1. CASE UNCHANGED screenVars
  BY <1>1, StillKeeps DEF screenVars, agentVars, ScreenInv, ScreenTypes
<1>2. CASE ScreenNext
  BY <1>2, KeysKeep, MessagesKeep, AgentKeeps, EventArrivesKeeps DEF ScreenNext
<1> QED BY <1>1, <1>2

\* Whatever is typed, told or written, in whatever order: what the screen has of
\* its sessions and messages is what it was told, and what it was not told of
\* them is on its way (tui.go 275-657, page/chat.go 80-209, list.go 71-155).
THEOREM ScreenCorrect == ScreenSpec => []ScreenInv
<1>1. ScreenInit => ScreenInv
  BY ScreenStarts
<1>2. ScreenInv /\ [ScreenNext]_screenVars => ScreenInv'
  BY ScreenSteps
<1> QED BY <1>1, <1>2, PTL DEF ScreenSpec

\* The page, the list and the editor have the same session once nothing is on
\* its way, and the list shows what is stored of it (list.go 71-155, 415-460).
THEOREM ShownIsStored == ScreenSpec => []ShownIsCurrent
<1>1. ScreenInv => ShownIsCurrent
  <2> SUFFICES ASSUME ScreenInv, inbox = EmptyBag, events = <<>>, ~missed
               PROVE  /\ listed = session
                      /\ messages = IF session = None THEN <<>> ELSE Loaded(session)
                      /\ session # None => selected = session /\ editorSession = session
    BY DEF ShownIsCurrent
  <2>1. ~Waits("Selected") /\ ~Waits("Cleared")
    BY DEF Waits, BagToSet, EmptyBag, SetToBag
  <2>2. listed = session /\ (session # None => selected = session /\ editorSession = session)
    BY <2>1 DEF ScreenInv, SessionsAgree
  <2>3. CASE session = None
    BY <2>2, <2>3 DEF ScreenInv, SessionsAgree
  <2>4. CASE session # None
    <3>1. session \in Sessions
      BY <2>4 DEF ScreenInv, ScreenTypes
    <3>2. Follows(messages, events, session, store[session])
      BY <2>2, <2>4 DEF ScreenInv, ListKeepsUp
    <3>3. messages = Loaded(session)
      BY <3>1, <3>2, NoneToFollow DEF ScreenInv
    <3> QED BY <2>2, <2>4, <3>3
  <2> QED BY <2>3, <2>4
<1> QED BY <1>1, ScreenCorrect, PTL

-----------------------------------------------------------------------------
(* The patch of the patch tool. A file is its chunks, each with the place    *)
(* where its lines land, and its hunks: the chunks are a chain, in which     *)
(* every chunk lands where the ones before it have moved it, and every line  *)
(* of a hunk is a line of one of its chunks or of the file between them. So  *)
(* what getUpdatedFile writes can be said chunk by chunk, and is what the    *)
(* hunks say.                                                                *)

ChunkSet == [orig : Nat, del : Seq(Texts), ins : Seq(Texts), to : Int]
HunkSet == [at : Nat, old : Seq(Texts), new : Seq(Texts), shift : Int, first : Nat, last : Nat]

\* By how much the lines after chunk c are moved, and where they begin.
After(cs, c) == IF c = 0 THEN 0 ELSE cs[c].to + Len(cs[c].ins) - EndOf(cs[c])
EndAfter(cs, c) == IF c = 0 THEN 0 ELSE EndOf(cs[c])

Chained(cs) ==
    /\ cs \in Seq(ChunkSet)
    /\ \A c \in DOMAIN cs : cs[c].to - cs[c].orig = After(cs, c - 1)

FromChunk(cs, f, l, x, t) ==
    \E c \in f .. l : \E i \in DOMAIN cs[c].ins : x = cs[c].to + i /\ t = cs[c].ins[i]

FromFile(cs, f, l, old, m, here, x, t) ==
    \E c \in f - 1 .. l : \E i \in 1 .. m :
        /\ t = old[i] /\ x = here + i + After(cs, c)
        /\ c >= f => EndOf(cs[c]) < here + i
        /\ c < l => here + i <= cs[c + 1].orig

PartsFit(old, new, del, ins, cs) ==
    LET begin == Len(old) - Len(del)
        lands == Len(new) - Len(ins)
        last  == Len(cs)
    IN  /\ begin \in Nat /\ lands \in Nat
        /\ Chained(cs) /\ lands - begin = After(cs, last)
        /\ \A c \in 1 .. last : EndOf(cs[c]) <= begin
        /\ \A n \in 1 .. lands : FromChunk(cs, 1, last, n, new[n])
                              \/ FromFile(cs, 1, last, old, begin, 0, n, new[n])
        /\ \A i \in DOMAIN ins : new[lands + i] = ins[i]
        /\ old = <<>> /\ new = <<>> => cs = <<>>

SectionSet == [old : Seq(Texts), new : Seq(Texts), del : Seq(Texts), ins : Seq(Texts),
               chunks : Seq(ChunkSet)]
SectionFits(s) == s \in SectionSet /\ PartsFit(s.old, s.new, s.del, s.ins, s.chunks)

HunkFits(h, cs) ==
    /\ h.first >= 1 /\ h.first <= h.last + 1 /\ h.last <= Len(cs)
    /\ h.shift = After(cs, h.first - 1)
    /\ h.shift + Len(h.new) - Len(h.old) = After(cs, h.last)
    /\ \A c \in h.first .. h.last : h.at <= cs[c].orig /\ EndOf(cs[c]) <= HunkEnd(h)
    /\ \A n \in DOMAIN h.new :
          \/ FromChunk(cs, h.first, h.last, h.at + h.shift + n, h.new[n])
          \/ FromFile(cs, h.first, h.last, h.old, Len(h.old), h.at, h.at + h.shift + n, h.new[n])

LastOf(hs, k) == IF k = 0 THEN 0 ELSE hs[k].last

FileFits(file, cs, hs, fz) ==
    /\ Chained(cs) /\ hs \in Seq(HunkSet)
    /\ \A k \in DOMAIN hs : HunkFits(hs[k], cs) /\ hs[k].first = LastOf(hs, k - 1) + 1
    /\ \A k \in DOMAIN hs : \A j \in 1 .. k - 1 : hs[j].last < hs[k].first
    /\ LastOf(hs, Len(hs)) = Len(cs)
    /\ \A c \in DOMAIN cs : \E k \in DOMAIN hs : c \in hs[k].first .. hs[k].last
    /\ fz = 0 => \A k \in DOMAIN hs : Stands(hs[k].old, file, hs[k].at)

Has(text, x, t) == x \in DOMAIN text /\ text[x] = t

\* The chunks before next are applied: dest has what they put there, and the
\* lines of the file between them.
Applied(file, cs, next, done, dest) ==
    /\ done = EndAfter(cs, next - 1)
    /\ Len(dest) = done + After(cs, next - 1)
    /\ \A c \in 1 .. next - 1 : \A i \in DOMAIN cs[c].ins : Has(dest, cs[c].to + i, cs[c].ins[i])
    /\ \A c \in 0 .. next - 2 : \A i \in EndAfter(cs, c) + 1 .. cs[c + 1].orig :
          Has(dest, i + After(cs, c), file[i])

OutputFits(file, cs, o) ==
    /\ o.next \in 1 .. Len(cs) + 1 /\ o.index \in Nat /\ o.dest \in Seq(Texts)
    /\ Applied(file, cs, o.next, o.index, o.dest)

Upto(file, cs, c) == IF c = Len(cs) THEN Len(file) ELSE cs[c + 1].orig

NewFits(file, cs, new) ==
    /\ new \in Seq(Texts)
    /\ Len(new) = Len(file) + After(cs, Len(cs))
    /\ \A c \in DOMAIN cs : \A i \in DOMAIN cs[c].ins : Has(new, cs[c].to + i, cs[c].ins[i])
    /\ \A c \in 0 .. Len(cs) : \A i \in EndAfter(cs, c) + 1 .. Upto(file, cs, c) :
          Has(new, i + After(cs, c), file[i])

PatchTypes ==
    /\ mode \in {"check", "parse", "update", "section", "parsed", "commit", "apply"} \cup Ended
    /\ lines \in Seq(PatchLines) /\ lines # <<>> /\ lines[Len(lines)].kind = "end"
    /\ \A p \in DOMAIN orig : orig[p] \in Seq(Texts)
    /\ at \in DOMAIN lines /\ index \in Nat /\ fuzz \in Nat
    /\ mode \in {"parse", "update", "section"} => NeededFiles \subseteq DOMAIN orig

FileAtWork ==
    /\ mode \in {"update", "section"} => path \in DOMAIN orig /\ FileFits(orig[path], chunks, hunks, fuzz)
    /\ mode = "section" => SectionFits(section)

ActionsFit ==
    \A p \in DOMAIN actions :
        actions[p].type = "update" =>
            p \in DOMAIN orig /\ FileFits(orig[p], actions[p].chunks, actions[p].hunks, fuzz)

CommitFits ==
    /\ mode \in {"check", "parse", "update", "section", "parsed"} => DOMAIN commit = {}
    /\ mode = "apply" => /\ path \in DOMAIN actions /\ actions[path].type = "update"
                         /\ OutputFits(orig[path], actions[path].chunks, output)
    /\ \A p \in DOMAIN commit :
          /\ p \in DOMAIN actions /\ commit[p].type = actions[p].type
          /\ commit[p].type = "update" => NewFits(orig[p], actions[p].chunks, commit[p].new)

PatchInv == PatchTypes /\ FileAtWork /\ ActionsFit /\ CommitFits

-----------------------------------------------------------------------------
(* Sequences, and the least of some numbers. *)

LEMMA MinIsIn ==
    ASSUME NEW S, S \subseteq Nat, S # {}
    PROVE  Min(S) \in S
  <1>1. PICK x \in S : \A y \in S : ~ (<<y, x>> \in OpToRel(<, Nat))
    BY NatLessThanWellFounded, WFMin
  <1>2. \A y \in S : x <= y
    <2> SUFFICES ASSUME NEW y \in S PROVE x <= y
      OBVIOUS
    <2>1. ~ (<<y, x>> \in OpToRel(<, Nat))
      BY <1>1
    <2>2. <<y, x>> \in Nat \X Nat
      OBVIOUS
    <2>3. ~ (y < x)
      BY <2>1, <2>2 DEF OpToRel
    <2>4. QED
      BY <2>3
  <1>3. QED
    BY <1>2 DEF Min

LEMMA Joined ==
    ASSUME NEW S, NEW s \in Seq(S), NEW t \in Seq(S)
    PROVE  /\ s \o t \in Seq(S)
           /\ Len(s) \in Nat /\ Len(t) \in Nat /\ Len(s \o t) = Len(s) + Len(t)
           /\ DOMAIN s = 1 .. Len(s) /\ DOMAIN t = 1 .. Len(t)
           /\ DOMAIN (s \o t) = 1 .. Len(s) + Len(t)
           /\ \A i \in DOMAIN s : (s \o t)[i] = s[i]
           /\ \A i \in DOMAIN t : (s \o t)[Len(s) + i] = t[i]
  OBVIOUS

LEMMA PartOf ==
    ASSUME NEW S, NEW s \in Seq(S), NEW i \in Nat, NEW j \in Nat, i <= j, j <= Len(s)
    PROVE  /\ SubSeq(s, i + 1, j) \in Seq(S)
           /\ Len(SubSeq(s, i + 1, j)) = j - i
           /\ DOMAIN SubSeq(s, i + 1, j) = 1 .. j - i
           /\ \A n \in 1 .. j - i : SubSeq(s, i + 1, j)[n] = s[i + n]
  OBVIOUS

LEMMA LinesPart ==
    ASSUME NEW s \in Seq(Texts), NEW i \in Nat, NEW j \in Nat, i <= j, j <= Len(s),
           NEW part, part = SubSeq(s, i + 1, j)
    PROVE  /\ part \in Seq(Texts) /\ Len(part) = j - i /\ DOMAIN part = 1 .. j - i
           /\ \A n \in 1 .. j - i : part[n] = s[i + n]
  BY PartOf

LEMMA Appended ==
    ASSUME NEW S, NEW s \in Seq(S), NEW x \in S
    PROVE  /\ Append(s, x) \in Seq(S)
           /\ Len(s) \in Nat /\ Len(Append(s, x)) = Len(s) + 1
           /\ DOMAIN s = 1 .. Len(s)
           /\ DOMAIN Append(s, x) = 1 .. Len(s) + 1
           /\ \A i \in DOMAIN s : Append(s, x)[i] = s[i]
           /\ Append(s, x)[Len(s) + 1] = x
           /\ Append(s, x) # <<>>
  OBVIOUS

LEMMA AppendedNotEmpty ==
    ASSUME NEW s \in Seq(Texts), NEW x \in Texts
    PROVE  Append(s, x) # <<>>
  BY Appended

LEMMA TrimmedType ==
    ASSUME NEW S, NEW s \in Seq(S)
    PROVE  Len(TrimRight(s)) = Len(s) /\ Len(TrimSpace(s)) = Len(s)
  <1>1. DOMAIN s = 1 .. Len(s) /\ Len(s) \in Nat
    OBVIOUS
  <1>2. TrimRight(s) \in Seq({NoBlankAfter(x) : x \in S})
    BY <1>1 DEF TrimRight
  <1>3. TrimSpace(s) \in Seq({NoBlank(x) : x \in S})
    BY <1>1 DEF TrimSpace
  <1>4. DOMAIN TrimRight(s) = 1 .. Len(s) /\ DOMAIN TrimSpace(s) = 1 .. Len(s)
    BY <1>1 DEF TrimRight, TrimSpace
  <1>5. QED
    BY <1>1, <1>2, <1>3, <1>4

LEMMA MatchType ==
    ASSUME NEW file, NEW context, NEW start \in Nat, Len(file) \in Nat, Len(context) \in Nat
    PROVE  TryFindMatch(file, context, start) \in Nat \cup {-1}
  <1> DEFINE fits == {i \in start .. Len(file) - Len(context) :
                         \A j \in DOMAIN context : file[i + j] = context[j]}
  <1>1. fits \subseteq Nat
    OBVIOUS
  <1>2. TryFindMatch(file, context, start) = IF fits = {} THEN -1 ELSE Min(fits)
    BY DEF TryFindMatch
  <1>3. fits # {} => Min(fits) \in fits
    <2> HIDE DEF fits
    <2>1. QED
      BY <1>1, MinIsIn
  <1> HIDE DEF fits
  <1>4. QED
    BY <1>1, <1>2, <1>3

LEMMA MatchFits ==
    ASSUME NEW S, NEW file \in Seq(S), NEW context \in Seq(S), NEW start \in Nat,
           TryFindMatch(file, context, start) >= 0
    PROVE  Stands(context, file, TryFindMatch(file, context, start))
  <1> DEFINE fits == {i \in start .. Len(file) - Len(context) :
                         \A j \in DOMAIN context : file[i + j] = context[j]}
             found == TryFindMatch(file, context, start)
  <1>1. found = IF fits = {} THEN -1 ELSE Min(fits)
    BY DEF TryFindMatch
  <1>2. fits # {}
    BY <1>1
  <1>3. fits \subseteq Nat
    OBVIOUS
  <1>4. found \in fits
    <2> HIDE DEF fits
    <2>1. QED
      BY <1>1, <1>2, <1>3, MinIsIn
  <1>5. /\ found \in start .. Len(file) - Len(context)
        /\ \A j \in DOMAIN context : file[found + j] = context[j]
    BY <1>4
  <1> HIDE DEF found, fits
  <1>6. \A j \in DOMAIN context : found + j \in DOMAIN file
    BY <1>5
  <1>7. QED
    BY <1>5, <1>6 DEF Stands, found

\* What a search finds: a place in the file or none, exact if there is no fuzz.
Found(file, context, r) ==
    /\ r.i \in Nat \cup {-1} /\ r.fuzz \in Nat
    /\ r.i # -1 /\ r.fuzz = 0 => Stands(context, file, r.i)

LEMMA CoreFinds ==
    ASSUME NEW file \in Seq(Texts), NEW context \in Seq(Texts), NEW start \in Nat
    PROVE  Found(file, context, FindContextCore(file, context, start))
  <1> DEFINE exact == TryFindMatch(file, context, start)
             right == TryFindMatch(TrimRight(file), TrimRight(context), start)
             both  == TryFindMatch(TrimSpace(file), TrimSpace(context), start)
             r     == FindContextCore(file, context, start)
  <1>1. Len(file) \in Nat /\ Len(context) \in Nat
    OBVIOUS
  <1>2. exact \in Nat \cup {-1} /\ right \in Nat \cup {-1} /\ both \in Nat \cup {-1}
    BY <1>1, MatchType, TrimmedType
  <1>3. exact >= 0 => Stands(context, file, exact)
    BY MatchFits
  <1>4. CASE context = <<>>
    <2>1. r = [i |-> start, fuzz |-> 0]
      BY <1>4 DEF FindContextCore
    <2>2. Stands(context, file, start)
      BY <1>4 DEF Stands
    <2>3. QED
      BY <2>1, <2>2 DEF Found
  <1>5. CASE context # <<>> /\ exact >= 0
    <2>0. r = CASE context = <<>> -> [i |-> start, fuzz |-> 0]
                [] context # <<>> /\ exact >= 0 -> [i |-> exact, fuzz |-> 0]
                [] context # <<>> /\ exact < 0 /\ right >= 0 -> [i |-> right, fuzz |-> 1]
                [] OTHER -> [i |-> both, fuzz |-> IF both >= 0 THEN 1 ELSE 0]
      BY DEF FindContextCore
    <2> HIDE DEF exact, right, both, r
    <2>1. r = [i |-> exact, fuzz |-> 0]
      BY <1>2, <1>5, <2>0
    <2>2. QED
      BY <1>2, <1>3, <1>5, <2>1 DEF Found, r
  <1>6. CASE context # <<>> /\ ~ (exact >= 0)
    <2>1. exact < 0 /\ ~ (exact >= 0)
      BY <1>2, <1>6
    <2>2. r = IF right >= 0 THEN [i |-> right, fuzz |-> 1]
              ELSE [i |-> both, fuzz |-> IF both >= 0 THEN 1 ELSE 0]
      BY <1>6, <2>1 DEF FindContextCore
    <2> HIDE DEF exact, right, both, r
    <2>3. QED
      BY <1>2, <2>2 DEF Found, r
  <1>7. QED
    BY <1>4, <1>5, <1>6

LEMMA ContextFinds ==
    ASSUME NEW file \in Seq(Texts), NEW context \in Seq(Texts), NEW start \in Nat,
           NEW eof \in BOOLEAN, eof => Len(context) <= Len(file)
    PROVE  Found(file, context, FindContext(file, context, start, eof))
  <1> DEFINE end == FindContextCore(file, context, Len(file) - Len(context))
             any == FindContextCore(file, context, start)
  <1>1. Found(file, context, any)
    BY CoreFinds
  <1>2. CASE ~eof
    BY <1>1, <1>2 DEF FindContext
  <1>3. CASE eof
    <2>1. Len(file) - Len(context) \in Nat
      BY <1>3
    <2>2. Found(file, context, end)
      BY <2>1, CoreFinds
    <2>3. FindContext(file, context, start, eof)
             = IF end.i # -1 THEN end ELSE [any EXCEPT !.fuzz = @ + 10000]
      BY <1>3 DEF FindContext
    <2>4. \E i, f : any = [i |-> i, fuzz |-> f]
      BY DEF FindContextCore
    <2> HIDE DEF end, any
    <2>5. PICK i, f : any = [i |-> i, fuzz |-> f]
      BY <2>4
    <2>6. [any EXCEPT !.fuzz = @ + 10000] = [i |-> i, fuzz |-> f + 10000]
      BY <2>5
    <2>7. i \in Nat \cup {-1} /\ f \in Nat
      BY <1>1, <2>5 DEF Found
    <2>8. Found(file, context, [i |-> i, fuzz |-> f + 10000])
      BY <2>7 DEF Found
    <2>9. QED
      BY <2>2, <2>3, <2>6, <2>8
  <1>4. QED
    BY <1>2, <1>3

LEMMA HeadingType ==
    ASSUME NEW file \in Seq(Texts), NEW from \in Nat, NEW text \in Texts
    PROVE  AfterHeading(file, from, text).i \in Nat /\ AfterHeading(file, from, text).fuzz \in Nat
  <1> DEFINE loose  == TrimSpace(file)
             bare   == TrimSpace(<<text>>)
             next   == TryFindMatch(file, <<text>>, from)
             near   == TryFindMatch(loose, bare, from)
             passed == text \in {file[i] : i \in 1 .. from}
             nearly == bare[1] \in {loose[i] : i \in 1 .. from}
             r == AfterHeading(file, from, text)
  <1>1. <<text>> \in Seq(Texts) /\ Len(file) \in Nat /\ Len(<<text>>) \in Nat
    OBVIOUS
  <1>2. next \in Nat \cup {-1} /\ near \in Nat \cup {-1}
    BY <1>1, MatchType, TrimmedType
  <1>3. \/ next >= 0 /\ r = [i |-> next + 1, fuzz |-> 0]
        \/ near >= 0 /\ r = [i |-> near + 1, fuzz |-> 1]
        \/ r = [i |-> from, fuzz |-> 0]
    <2>1. r = CASE ~passed /\ next >= 0                       -> [i |-> next + 1, fuzz |-> 0]
                [] ~passed /\ next < 0 /\ ~nearly /\ near >= 0 -> [i |-> near + 1, fuzz |-> 1]
                [] OTHER                                       -> [i |-> from, fuzz |-> 0]
      BY DEF AfterHeading
    <2> HIDE DEF r, passed, next, near, nearly
    <2>2. QED
      BY <1>2, <2>1
  <1> HIDE DEF r, next, near
  <1>4. QED
    BY <1>2, <1>3 DEF r

-----------------------------------------------------------------------------
(* Chunks, and the lines that come from them and from the file. *)

LEMMA ChunkTypes ==
    ASSUME NEW cs \in Seq(ChunkSet)
    PROVE  /\ Len(cs) \in Nat /\ DOMAIN cs = 1 .. Len(cs)
           /\ \A c \in 1 .. Len(cs) :
                 /\ cs[c].orig \in Nat /\ cs[c].to \in Int
                 /\ cs[c].del \in Seq(Texts) /\ cs[c].ins \in Seq(Texts)
                 /\ Len(cs[c].del) \in Nat /\ Len(cs[c].ins) \in Nat
                 /\ DOMAIN cs[c].ins = 1 .. Len(cs[c].ins)
                 /\ EndOf(cs[c]) \in Nat /\ EndOf(cs[c]) = cs[c].orig + Len(cs[c].del)
           /\ \A c \in 0 .. Len(cs) : After(cs, c) \in Int /\ EndAfter(cs, c) \in Nat
  <1>1. Len(cs) \in Nat /\ DOMAIN cs = 1 .. Len(cs)
    OBVIOUS
  <1>2. ASSUME NEW c \in 1 .. Len(cs)
        PROVE  /\ cs[c].orig \in Nat /\ cs[c].to \in Int
               /\ cs[c].del \in Seq(Texts) /\ cs[c].ins \in Seq(Texts)
               /\ Len(cs[c].del) \in Nat /\ Len(cs[c].ins) \in Nat
               /\ DOMAIN cs[c].ins = 1 .. Len(cs[c].ins)
               /\ EndOf(cs[c]) \in Nat /\ EndOf(cs[c]) = cs[c].orig + Len(cs[c].del)
    <2>1. cs[c] \in ChunkSet
      OBVIOUS
    <2>2. /\ cs[c].orig \in Nat /\ cs[c].to \in Int
          /\ cs[c].del \in Seq(Texts) /\ cs[c].ins \in Seq(Texts)
      BY <2>1 DEF ChunkSet
    <2>3. QED
      BY <2>2 DEF EndOf
  <1>3. \A c \in 0 .. Len(cs) : After(cs, c) \in Int /\ EndAfter(cs, c) \in Nat
    BY <1>1, <1>2 DEF After, EndAfter
  <1>4. QED
    BY <1>1, <1>2, <1>3

\* More chunks follow: what was said of the first ones stays true.
LEMMA ChunksFollow ==
    ASSUME NEW cs \in Seq(ChunkSet), NEW ds \in Seq(ChunkSet),
           Len(cs) <= Len(ds), \A c \in DOMAIN cs : ds[c] = cs[c]
    PROVE  /\ \A c \in 0 .. Len(cs) : After(ds, c) = After(cs, c) /\ EndAfter(ds, c) = EndAfter(cs, c)
           /\ \A f \in Nat \ {0}, l \in 0 .. Len(cs) : \A x, t :
                 FromChunk(cs, f, l, x, t) => FromChunk(ds, f, l, x, t)
           /\ \A f \in Nat \ {0}, l \in 0 .. Len(cs) : \A old, m, here, x, t :
                 FromFile(cs, f, l, old, m, here, x, t) => FromFile(ds, f, l, old, m, here, x, t)
  <1>1. Len(cs) \in Nat /\ DOMAIN cs = 1 .. Len(cs)
    OBVIOUS
  <1>2. \A c \in 0 .. Len(cs) : After(ds, c) = After(cs, c) /\ EndAfter(ds, c) = EndAfter(cs, c)
    BY <1>1 DEF After, EndAfter
  <1>3. ASSUME NEW f \in Nat \ {0}, NEW l \in 0 .. Len(cs), NEW x, NEW t, FromChunk(cs, f, l, x, t)
        PROVE  FromChunk(ds, f, l, x, t)
    <2>1. PICK c \in f .. l : \E i \in DOMAIN cs[c].ins : x = cs[c].to + i /\ t = cs[c].ins[i]
      BY <1>3 DEF FromChunk
    <2>2. ds[c] = cs[c]
      BY <1>1
    <2>3. QED
      BY <2>1, <2>2 DEF FromChunk
  <1>4. ASSUME NEW f \in Nat \ {0}, NEW l \in 0 .. Len(cs), NEW old, NEW m, NEW here, NEW x, NEW t,
               FromFile(cs, f, l, old, m, here, x, t)
        PROVE  FromFile(ds, f, l, old, m, here, x, t)
    <2>1. PICK c \in f - 1 .. l, i \in 1 .. m :
              /\ t = old[i] /\ x = here + i + After(cs, c)
              /\ c >= f => EndOf(cs[c]) < here + i
              /\ c < l => here + i <= cs[c + 1].orig
      BY <1>4 DEF FromFile
    <2>2. After(ds, c) = After(cs, c)
      BY <1>2
    <2>3. c >= f => ds[c] = cs[c]
      BY <1>1
    <2>4. c < l => ds[c + 1] = cs[c + 1]
      BY <1>1
    <2>5. QED
      BY <2>1, <2>2, <2>3, <2>4 DEF FromFile
  <1>5. QED
    BY <1>2, <1>3, <1>4

LEMMA ChainGrows ==
    ASSUME NEW cs, Chained(cs), NEW c \in ChunkSet, c.to - c.orig = After(cs, Len(cs))
    PROVE  Chained(Append(cs, c))
  <1> DEFINE ds == Append(cs, c)
  <1>1. cs \in Seq(ChunkSet)
    BY DEF Chained
  <1>2. /\ ds \in Seq(ChunkSet) /\ Len(cs) \in Nat /\ Len(ds) = Len(cs) + 1
        /\ DOMAIN cs = 1 .. Len(cs) /\ DOMAIN ds = 1 .. Len(cs) + 1
        /\ \A i \in DOMAIN cs : ds[i] = cs[i]
        /\ ds[Len(cs) + 1] = c
    BY <1>1, Appended
  <1> HIDE DEF ds
  <1>3. \A i \in 0 .. Len(cs) : After(ds, i) = After(cs, i)
    BY <1>1, <1>2, ChunksFollow
  <1>4. ASSUME NEW i \in DOMAIN ds PROVE ds[i].to - ds[i].orig = After(ds, i - 1)
    <2>1. CASE i \in 1 .. Len(cs)
      <3>1. cs[i].to - cs[i].orig = After(cs, i - 1)
        BY <1>2, <2>1 DEF Chained
      <3>2. i - 1 \in 0 .. Len(cs)
        BY <1>2, <2>1
      <3>3. QED
        BY <1>2, <1>3, <2>1, <3>1, <3>2
    <2>2. CASE i = Len(cs) + 1
      BY <1>2, <1>3, <2>2
    <2>3. QED
      BY <1>2, <2>1, <2>2
  <1>5. QED
    BY <1>2, <1>4 DEF Chained, ds

-----------------------------------------------------------------------------
(* The section that is read. *)

LEMMA SectionTypes ==
    ASSUME NEW s \in SectionSet
    PROVE  /\ s.old \in Seq(Texts) /\ s.new \in Seq(Texts) /\ s.del \in Seq(Texts)
           /\ s.ins \in Seq(Texts) /\ s.chunks \in Seq(ChunkSet)
           /\ Len(s.old) \in Nat /\ Len(s.new) \in Nat /\ Len(s.del) \in Nat
           /\ Len(s.ins) \in Nat /\ Len(s.chunks) \in Nat
           /\ DOMAIN s.ins = 1 .. Len(s.ins) /\ DOMAIN s.old = 1 .. Len(s.old)
           /\ DOMAIN s.new = 1 .. Len(s.new)
  <1>1. /\ s.old \in Seq(Texts) /\ s.new \in Seq(Texts) /\ s.del \in Seq(Texts)
        /\ s.ins \in Seq(Texts) /\ s.chunks \in Seq(ChunkSet)
    BY DEF SectionSet
  <1>2. QED
    BY <1>1

LEMMA SectionIs ==
    ASSUME NEW old \in Seq(Texts), NEW new \in Seq(Texts), NEW del \in Seq(Texts), NEW ins \in Seq(Texts),
           NEW cs \in Seq(ChunkSet), PartsFit(old, new, del, ins, cs)
    PROVE  SectionFits(Section(old, new, del, ins, cs))
  <1> DEFINE s == Section(old, new, del, ins, cs)
  <1>1. s \in SectionSet
    BY DEF Section, SectionSet
  <1>2. s.old = old /\ s.new = new /\ s.del = del /\ s.ins = ins /\ s.chunks = cs
    BY DEF Section
  <1> HIDE DEF s
  <1>3. SectionFits(s)
    BY <1>1, <1>2 DEF SectionFits
  <1>4. QED
    BY <1>3 DEF s

\* What comes from the file stays there when the old side grows.
LEMMA OldSideGrows ==
    ASSUME NEW cs, NEW f, NEW l, NEW old, NEW m \in Nat, NEW more, NEW n \in Nat, NEW here, NEW x, NEW t,
           m <= n, \A i \in 1 .. m : more[i] = old[i],
           FromFile(cs, f, l, old, m, here, x, t)
    PROVE  FromFile(cs, f, l, more, n, here, x, t)
  <1>1. PICK c \in f - 1 .. l, i \in 1 .. m :
            /\ t = old[i] /\ x = here + i + After(cs, c)
            /\ c >= f => EndOf(cs[c]) < here + i
            /\ c < l => here + i <= cs[c + 1].orig
    BY DEF FromFile
  <1>2. i \in 1 .. n /\ more[i] = old[i]
    OBVIOUS
  <1>3. QED
    BY <1>1, <1>2 DEF FromFile

\* A run of added and deleted lines becomes a chunk.
LEMMA RunEnds ==
    ASSUME NEW old \in Seq(Texts), NEW new \in Seq(Texts), NEW del \in Seq(Texts), NEW ins \in Seq(Texts),
           NEW cs \in Seq(ChunkSet), PartsFit(old, new, del, ins, cs), ~ (del = <<>> /\ ins = <<>>),
           NEW k, k = [orig |-> Len(old) - Len(del), del |-> del, ins |-> ins, to |-> Len(new) - Len(ins)]
    PROVE  Append(cs, k) \in Seq(ChunkSet) /\ PartsFit(old, new, <<>>, <<>>, Append(cs, k))
  <1> DEFINE begin == Len(old) - Len(del)
             lands == Len(new) - Len(ins)
             last  == Len(cs)
             ds    == Append(cs, k)
  <1>1. /\ begin \in Nat /\ lands \in Nat /\ Chained(cs)
        /\ lands - begin = After(cs, last)
        /\ \A c \in 1 .. last : EndOf(cs[c]) <= begin
        /\ \A n \in 1 .. lands : FromChunk(cs, 1, last, n, new[n])
                              \/ FromFile(cs, 1, last, old, begin, 0, n, new[n])
        /\ \A i \in DOMAIN ins : new[lands + i] = ins[i]
    BY DEF PartsFit
  <1>2. /\ Len(old) \in Nat /\ Len(new) \in Nat /\ Len(del) \in Nat /\ Len(ins) \in Nat
        /\ last \in Nat /\ DOMAIN ins = 1 .. Len(ins)
    OBVIOUS
  <1>3. k.orig = begin /\ k.to = lands /\ k.ins = ins /\ k.del = del
    OBVIOUS
  <1>4. k \in ChunkSet
    BY <1>1 DEF ChunkSet
  <1>5. Chained(ds)
    BY <1>1, <1>3, <1>4, ChainGrows
  <1>6. /\ ds \in Seq(ChunkSet) /\ Len(ds) = last + 1
        /\ DOMAIN cs = 1 .. last
        /\ \A c \in 1 .. last : ds[c] = cs[c]
        /\ ds[last + 1] = k
    BY <1>4, Appended
  <1>7. begin + Len(del) = Len(old) /\ lands + Len(ins) = Len(new)
    BY <1>2
  <1>8. lands + Len(ins) - (begin + Len(del)) = Len(new) - Len(old)
    BY <1>2
  <1> HIDE DEF ds
  <1>9. /\ \A c \in 0 .. last : After(ds, c) = After(cs, c)
        /\ \A n, t : FromChunk(cs, 1, last, n, t) => FromChunk(ds, 1, last, n, t)
        /\ \A n, t : FromFile(cs, 1, last, old, begin, 0, n, t) => FromFile(ds, 1, last, old, begin, 0, n, t)
    <2>1. last \in 0 .. last /\ 1 \in Nat \ {0} /\ last <= last + 1
      BY <1>2
    <2> HIDE DEF begin
    <2>2. QED
      BY <1>6, <2>1, ChunksFollow
  <1> HIDE DEF begin, lands, last
  <1>10. After(ds, last + 1) = Len(new) - Len(old)
    <2>1. last + 1 # 0
      BY <1>2
    <2>2. After(ds, last + 1) = lands + Len(ins) - (begin + Len(del))
      BY <1>3, <1>6, <2>1 DEF After, EndOf
    <2>3. QED
      BY <1>8, <2>2
  <1>11. \A c \in 1 .. last + 1 : EndOf(ds[c]) <= Len(old)
    <2>1. \A c \in 1 .. last : EndOf(cs[c]) \in Nat
      BY ChunkTypes DEF last
    <2>2. ASSUME NEW c \in 1 .. last PROVE EndOf(ds[c]) <= Len(old)
      BY <1>1, <1>2, <1>6, <1>7, <2>1
    <2>3. EndOf(ds[last + 1]) = Len(old)
      BY <1>3, <1>6, <1>7 DEF EndOf
    <2>4. \A c \in 1 .. last + 1 : c \in 1 .. last \/ c = last + 1
      BY <1>2
    <2>5. QED
      BY <2>2, <2>3, <2>4
  <1>12. ASSUME NEW n \in 1 .. Len(new)
         PROVE  FromChunk(ds, 1, last + 1, n, new[n])
                \/ FromFile(ds, 1, last + 1, old, Len(old), 0, n, new[n])
    <2>1. CASE n > lands
      <3>1. n - lands \in DOMAIN ins
        BY <1>1, <1>2, <1>7, <2>1
      <3>2. n = lands + (n - lands)
        BY <1>1
      <3>9. n = k.to + (n - lands) /\ new[n] = k.ins[n - lands]
        BY <1>1, <1>3, <3>1, <3>2
      <3>3. last + 1 \in 1 .. last + 1
        BY <1>2
      <3>4. QED
        BY <1>3, <1>6, <3>1, <3>9, <3>3 DEF FromChunk
    <2>2. CASE n \in 1 .. lands /\ FromChunk(cs, 1, last, n, new[n])
      <3>1. FromChunk(ds, 1, last, n, new[n])
        BY <1>9, <2>2
      <3>2. QED
        BY <1>2, <3>1 DEF FromChunk
    <2>3. CASE n \in 1 .. lands /\ FromFile(cs, 1, last, old, begin, 0, n, new[n])
      <3>1. FromFile(ds, 1, last, old, begin, 0, n, new[n])
        BY <1>9, <2>3
      <3>2. PICK c \in 1 - 1 .. last, i \in 1 .. begin :
                /\ new[n] = old[i] /\ n = 0 + i + After(ds, c)
                /\ c >= 1 => EndOf(ds[c]) < 0 + i
                /\ c < last => 0 + i <= ds[c + 1].orig
        BY <3>1 DEF FromFile
      <3>3. c < last + 1 => 0 + i <= ds[c + 1].orig
        BY <1>1, <1>2, <1>3, <1>6, <3>2
      <3>4. c \in 1 - 1 .. last + 1 /\ i \in 1 .. Len(old)
        BY <1>1, <1>2, <1>7
      <3>5. QED
        BY <3>2, <3>3, <3>4 DEF FromFile
    <2>4. QED
      BY <1>1, <1>2, <2>1, <2>2, <2>3
  <1>13. <<>> \in Seq(Texts) /\ Len(<<>>) = 0 /\ \A i \in DOMAIN <<>> : FALSE
    OBVIOUS
  <1>14. PartsFit(old, new, <<>>, <<>>, ds)
    <2>1. Len(old) - Len(<<>>) = Len(old) /\ Len(new) - Len(<<>>) = Len(new)
      BY <1>2, <1>13
    <2>2. ~ (old = <<>> /\ new = <<>>)
      <3>1. Len(del) > 0 \/ Len(ins) > 0
        OBVIOUS
      <3>2. Len(old) > 0 \/ Len(new) > 0
        BY <1>1, <1>2, <1>7, <3>1
      <3>3. QED
        BY <1>13, <3>2
    <2>3. QED
      BY <1>2, <1>5, <1>6, <1>10, <1>11, <1>12, <1>13, <2>1, <2>2 DEF PartsFit
  <1>15. QED
    BY <1>6, <1>14 DEF ds

LEMMA LineDeleted ==
    ASSUME NEW old \in Seq(Texts), NEW new \in Seq(Texts), NEW del \in Seq(Texts), NEW ins \in Seq(Texts),
           NEW cs \in Seq(ChunkSet), PartsFit(old, new, del, ins, cs), NEW text \in Texts
    PROVE  PartsFit(Append(old, text), new, Append(del, text), ins, cs)
  <1> DEFINE begin == Len(old) - Len(del)
             more  == Append(old, text)
             gone  == Append(del, text)
  <1>1. /\ Len(old) \in Nat /\ Len(del) \in Nat
        /\ Len(more) = Len(old) + 1 /\ Len(gone) = Len(del) + 1
        /\ \A i \in 1 .. Len(old) : more[i] = old[i]
    BY Appended
  <1>2. begin \in Nat
    BY DEF PartsFit
  <1>0. Append(old, text) # <<>>
    BY AppendedNotEmpty
  <1> HIDE DEF more, gone
  <1>3. Len(more) - Len(gone) = begin
    BY <1>1
  <1>4. \A i \in 1 .. begin : more[i] = old[i]
    BY <1>1, <1>2
  <1> HIDE DEF begin
  <1>5. \A n, t : FromFile(cs, 1, Len(cs), old, begin, 0, n, t)
                    => FromFile(cs, 1, Len(cs), more, begin, 0, n, t)
    BY <1>2, <1>4, OldSideGrows
  <1>6. PartsFit(more, new, gone, ins, cs)
    BY <1>0, <1>3, <1>5 DEF PartsFit, begin, more
  <1>7. QED
    BY <1>6 DEF more, gone

LEMMA LineAdded ==
    ASSUME NEW old \in Seq(Texts), NEW new \in Seq(Texts), NEW del \in Seq(Texts), NEW ins \in Seq(Texts),
           NEW cs \in Seq(ChunkSet), PartsFit(old, new, del, ins, cs), NEW text \in Texts
    PROVE  PartsFit(old, Append(new, text), del, Append(ins, text), cs)
  <1> DEFINE lands == Len(new) - Len(ins)
             more  == Append(new, text)
             put   == Append(ins, text)
  <1>1. /\ Len(new) \in Nat /\ Len(ins) \in Nat /\ DOMAIN ins = 1 .. Len(ins)
        /\ Len(more) = Len(new) + 1 /\ Len(put) = Len(ins) + 1
        /\ \A i \in 1 .. Len(new) : more[i] = new[i]
        /\ more[Len(new) + 1] = text
        /\ DOMAIN put = 1 .. Len(ins) + 1
        /\ \A i \in 1 .. Len(ins) : put[i] = ins[i]
        /\ put[Len(ins) + 1] = text
    BY Appended
  <1>2. /\ lands \in Nat
        /\ \A i \in DOMAIN ins : new[lands + i] = ins[i]
    BY DEF PartsFit
  <1>0. Append(new, text) # <<>>
    BY AppendedNotEmpty
  <1> HIDE DEF more, put
  <1>3. Len(more) - Len(put) = lands
    BY <1>1
  <1>4. \A n \in 1 .. lands : more[n] = new[n]
    <2>1. lands <= Len(new)
      BY <1>1
    <2> HIDE DEF lands
    <2>2. 1 .. lands \subseteq 1 .. Len(new)
      BY <1>1, <1>2, <2>1
    <2>3. QED
      BY <1>1, <2>2
  <1>5. \A i \in DOMAIN put : more[lands + i] = put[i]
    <2>1. ASSUME NEW i \in 1 .. Len(ins) PROVE more[lands + i] = put[i]
      <3>1. lands + i \in 1 .. Len(new)
        BY <1>1, <1>2
      <3>2. QED
        BY <1>1, <1>2, <3>1
    <2>2. lands + (Len(ins) + 1) = Len(new) + 1
      BY <1>1
    <2>3. more[lands + (Len(ins) + 1)] = put[Len(ins) + 1]
      BY <1>1, <2>2
    <2>4. \A i \in 1 .. Len(ins) + 1 : i \in 1 .. Len(ins) \/ i = Len(ins) + 1
      BY <1>1
    <2>5. QED
      BY <1>1, <2>1, <2>3, <2>4
  <1> HIDE DEF lands
  <1>6. PartsFit(old, more, del, put, cs)
    BY <1>0, <1>3, <1>4, <1>5 DEF PartsFit, lands, more
  <1>7. QED
    BY <1>6 DEF more, put

LEMMA LineKept ==
    ASSUME NEW old \in Seq(Texts), NEW new \in Seq(Texts), NEW cs \in Seq(ChunkSet),
           PartsFit(old, new, <<>>, <<>>, cs), NEW text \in Texts
    PROVE  PartsFit(Append(old, text), Append(new, text), <<>>, <<>>, cs)
  <1> DEFINE last  == Len(cs)
             begin == Len(old)
             lands == Len(new)
             more  == Append(old, text)
             now   == Append(new, text)
  <1>1. /\ begin \in Nat /\ lands \in Nat /\ last \in Nat
        /\ Len(more) = begin + 1 /\ Len(now) = lands + 1
        /\ \A i \in 1 .. begin : more[i] = old[i]
        /\ more[begin + 1] = text
        /\ \A i \in 1 .. lands : now[i] = new[i]
        /\ now[lands + 1] = text
    BY Appended
  <1>2. Len(<<>>) = 0 /\ \A i \in DOMAIN <<>> : FALSE
    OBVIOUS
  <1>3. begin - Len(<<>>) = begin /\ lands - Len(<<>>) = lands
    BY <1>1, <1>2
  <1>4. /\ Chained(cs) /\ lands - begin = After(cs, last)
        /\ \A c \in 1 .. last : EndOf(cs[c]) <= begin
        /\ \A n \in 1 .. lands : FromChunk(cs, 1, last, n, new[n])
                              \/ FromFile(cs, 1, last, old, begin, 0, n, new[n])
    BY <1>3 DEF PartsFit
  <1>5. (\A c \in 1 .. last : EndOf(cs[c]) \in Nat) /\ After(cs, last) \in Int
    BY <1>1, ChunkTypes
  <1>0. more # <<>>
    BY Appended
  <1> HIDE DEF begin, lands, last, more, now
  <1>6. (lands + 1) - (begin + 1) = After(cs, last)
    BY <1>1, <1>4
  <1>7. \A c \in 1 .. last : EndOf(cs[c]) <= begin + 1
    BY <1>1, <1>4, <1>5
  <1>8. ASSUME NEW n \in 1 .. lands + 1
        PROVE  FromChunk(cs, 1, last, n, now[n]) \/ FromFile(cs, 1, last, more, begin + 1, 0, n, now[n])
    <2>1. CASE n \in 1 .. lands
      <3>1. FromFile(cs, 1, last, old, begin, 0, n, new[n])
              => FromFile(cs, 1, last, more, begin + 1, 0, n, new[n])
        <4>1. begin + 1 \in Nat /\ begin <= begin + 1
          BY <1>1
        <4>2. QED
          BY <1>1, <4>1, OldSideGrows
      <3>2. QED
        BY <1>1, <1>4, <2>1, <3>1
    <2>2. CASE n = lands + 1
      <3>1. now[n] = more[begin + 1]
        BY <1>1, <2>2
      <3>2. last \in 1 - 1 .. last /\ begin + 1 \in 1 .. begin + 1
        BY <1>1
      <3>3. n = 0 + (begin + 1) + After(cs, last)
        BY <1>1, <1>4, <1>5, <2>2
      <3>4. last >= 1 => EndOf(cs[last]) < 0 + (begin + 1)
        BY <1>1, <1>4, <1>5
      <3>5. ~ (last < last)
        BY <1>1
      <3>6. FromFile(cs, 1, last, more, begin + 1, 0, n, now[n])
        BY <3>1, <3>2, <3>3, <3>4, <3>5 DEF FromFile
      <3>7. QED
        BY <3>6
    <2>3. QED
      BY <1>1, <2>1, <2>2
  <1>9. Len(more) - Len(<<>>) = begin + 1 /\ Len(now) - Len(<<>>) = lands + 1
    BY <1>1, <1>2
  <1>10. begin + 1 \in Nat /\ lands + 1 \in Nat
    BY <1>1
  <1>11. PartsFit(more, now, <<>>, <<>>, cs)
    BY <1>0, <1>2, <1>4, <1>6, <1>7, <1>8, <1>9, <1>10 DEF PartsFit, last
  <1>12. QED
    BY <1>11 DEF more, now

LEMMA RunCloses ==
    ASSUME NEW s, SectionFits(s)
    PROVE  SectionFits(EndRun(s)) /\ EndRun(s).del = <<>> /\ EndRun(s).ins = <<>>
  <1>1. s \in SectionSet /\ PartsFit(s.old, s.new, s.del, s.ins, s.chunks)
    BY DEF SectionFits
  <1>2. /\ s.old \in Seq(Texts) /\ s.new \in Seq(Texts) /\ s.del \in Seq(Texts)
        /\ s.ins \in Seq(Texts) /\ s.chunks \in Seq(ChunkSet) /\ <<>> \in Seq(Texts)
    BY <1>1, SectionTypes
  <1>3. SectionFits(EndRun(s)) /\ EndRun(s).del = <<>> /\ EndRun(s).ins = <<>>
    <2>1. CASE s.del = <<>> /\ s.ins = <<>>
      BY <2>1 DEF EndRun
    <2>2. CASE ~ (s.del = <<>> /\ s.ins = <<>>)
      <3> DEFINE k == [orig |-> Len(s.old) - Len(s.del), del |-> s.del, ins |-> s.ins,
                       to |-> Len(s.new) - Len(s.ins)]
                 ds == Append(s.chunks, k)
      <3>1. EndRun(s) = Section(s.old, s.new, <<>>, <<>>, ds)
        BY <2>2 DEF EndRun
      <3>2. ds \in Seq(ChunkSet) /\ PartsFit(s.old, s.new, <<>>, <<>>, ds)
        BY <1>1, <1>2, <2>2, RunEnds
      <3> HIDE DEF ds
      <3>3. SectionFits(EndRun(s))
        BY <1>2, <3>1, <3>2, SectionIs
      <3>4. EndRun(s).del = <<>> /\ EndRun(s).ins = <<>>
        BY <3>1 DEF Section
      <3>5. QED
        BY <3>3, <3>4
    <2>3. QED
      BY <2>1, <2>2
  <1>4. QED
    BY <1>3

LEMMA SectionSteps ==
    ASSUME NEW s, SectionFits(s), NEW text \in Texts
    PROVE  SectionFits(Delete(s, text)) /\ SectionFits(Add(s, text)) /\ SectionFits(Keep(s, text))
  <1>1. s \in SectionSet /\ PartsFit(s.old, s.new, s.del, s.ins, s.chunks)
    BY DEF SectionFits
  <1>2. /\ s.old \in Seq(Texts) /\ s.new \in Seq(Texts) /\ s.del \in Seq(Texts)
        /\ s.ins \in Seq(Texts) /\ s.chunks \in Seq(ChunkSet) /\ <<>> \in Seq(Texts)
    BY <1>1, SectionTypes
  <1>3. SectionFits(EndRun(s)) /\ EndRun(s).del = <<>> /\ EndRun(s).ins = <<>>
    BY RunCloses
  <1>4. SectionFits(Delete(s, text))
    <2>1. PartsFit(Append(s.old, text), s.new, Append(s.del, text), s.ins, s.chunks)
      BY <1>1, <1>2, LineDeleted
    <2>2. Append(s.old, text) \in Seq(Texts) /\ Append(s.del, text) \in Seq(Texts)
      BY <1>2
    <2>3. QED
      BY <1>2, <2>1, <2>2, SectionIs DEF Delete
  <1>5. SectionFits(Add(s, text))
    <2>1. PartsFit(s.old, Append(s.new, text), s.del, Append(s.ins, text), s.chunks)
      BY <1>1, <1>2, LineAdded
    <2>2. Append(s.new, text) \in Seq(Texts) /\ Append(s.ins, text) \in Seq(Texts)
      BY <1>2
    <2>3. QED
      BY <1>2, <2>1, <2>2, SectionIs DEF Add
  <1>6. SectionFits(Keep(s, text))
    <2> DEFINE q == EndRun(s)
    <2>1. q \in SectionSet /\ PartsFit(q.old, q.new, <<>>, <<>>, q.chunks) /\ q.del = <<>> /\ q.ins = <<>>
      BY <1>3 DEF SectionFits
    <2>2. Keep(s, text) = Section(Append(q.old, text), Append(q.new, text), <<>>, <<>>, q.chunks)
      BY <2>1 DEF Keep
    <2> HIDE DEF q
    <2>3. q.old \in Seq(Texts) /\ q.new \in Seq(Texts) /\ q.chunks \in Seq(ChunkSet)
      BY <2>1, SectionTypes
    <2>4. PartsFit(Append(q.old, text), Append(q.new, text), <<>>, <<>>, q.chunks)
      BY <2>1, <2>3, LineKept
    <2>5. Append(q.old, text) \in Seq(Texts) /\ Append(q.new, text) \in Seq(Texts)
      BY <2>3
    <2>6. SectionFits(Section(Append(q.old, text), Append(q.new, text), <<>>, <<>>, q.chunks))
      BY <1>2, <2>3, <2>4, <2>5, SectionIs
    <2>7. QED
      BY <2>2, <2>6
  <1>7. QED
    BY <1>4, <1>5, <1>6

\* The section is empty.
LEMMA NothingRead == SectionFits(NoSection)
  <1>1. <<>> \in Seq(Texts) /\ <<>> \in Seq(ChunkSet) /\ Len(<<>>) = 0
    OBVIOUS
  <1>2. Chained(<<>>) /\ After(<<>>, 0) = 0
    BY <1>1 DEF Chained, After
  <1>3. PartsFit(<<>>, <<>>, <<>>, <<>>, <<>>)
    BY <1>1, <1>2 DEF PartsFit
  <1>4. QED
    BY <1>1, <1>3, SectionIs DEF NoSection

-----------------------------------------------------------------------------
(* The section gets its place in the file. *)

LEMMA ChunkMoves ==
    ASSUME NEW k \in ChunkSet, NEW here \in Nat, NEW g \in Int
    PROVE  /\ ChunkAt(k, here, g) \in ChunkSet
           /\ ChunkAt(k, here, g).orig = k.orig + here
           /\ ChunkAt(k, here, g).to = k.to + here + g
           /\ ChunkAt(k, here, g).ins = k.ins
           /\ EndOf(ChunkAt(k, here, g)) = EndOf(k) + here
           /\ ChunkAt(k, here, g).to + Len(ChunkAt(k, here, g).ins) - EndOf(ChunkAt(k, here, g))
                = (k.to + Len(k.ins) - EndOf(k)) + g
           /\ ChunkAt(k, here, g).to - ChunkAt(k, here, g).orig = (k.to - k.orig) + g
           /\ k.orig \in Nat /\ k.to \in Int /\ Len(k.ins) \in Nat /\ EndOf(k) \in Nat
           /\ DOMAIN k.ins = 1 .. Len(k.ins)
  <1> DEFINE q == ChunkAt(k, here, g)
  <1>1. /\ k.orig \in Nat /\ k.to \in Int /\ k.del \in Seq(Texts) /\ k.ins \in Seq(Texts)
    BY DEF ChunkSet
  <1>2. /\ Len(k.ins) \in Nat /\ Len(k.del) \in Nat /\ DOMAIN k.ins = 1 .. Len(k.ins)
    BY <1>1
  <1>3. q.orig = k.orig + here /\ q.to = k.to + here + g /\ q.ins = k.ins /\ q.del = k.del
    BY DEF ChunkAt
  <1>4. q \in ChunkSet
    BY <1>1 DEF ChunkAt, ChunkSet
  <1> HIDE DEF q
  <1>5. EndOf(k) = k.orig + Len(k.del) /\ EndOf(q) = q.orig + Len(q.del)
    BY DEF EndOf
  <1>6. Len(q.del) = Len(k.del) /\ Len(q.ins) = Len(k.ins)
    BY <1>3
  <1>7. EndOf(q) = EndOf(k) + here /\ EndOf(k) \in Nat
    BY <1>1, <1>2, <1>3, <1>5, <1>6
  <1>8. q.to + Len(q.ins) - EndOf(q) = (k.to + Len(k.ins) - EndOf(k)) + g
    BY <1>1, <1>2, <1>3, <1>6, <1>7
  <1>9. q.to - q.orig = (k.to - k.orig) + g
    BY <1>1, <1>3
  <1>10. QED
    BY <1>1, <1>2, <1>3, <1>4, <1>7, <1>8, <1>9 DEF q

\* The chunks es are those of cs, and after them those of a section at here.
Follow(es, cs, ds, here, g) ==
    /\ es \in Seq(ChunkSet) /\ Len(es) = Len(cs) + Len(ds)
    /\ \A c \in 1 .. Len(cs) : es[c] = cs[c]
    /\ \A c \in 1 .. Len(ds) : es[Len(cs) + c] = ChunkAt(ds[c], here, g)
    /\ \A c \in 0 .. Len(ds) : After(es, Len(cs) + c) = After(ds, c) + g
    /\ Chained(es)

LEMMA ChunksPlaced ==
    ASSUME NEW cs, Chained(cs), NEW ds, Chained(ds), NEW here \in Nat, NEW g \in Int, g = After(cs, Len(cs)),
           NEW es, es = cs \o ChunksAt(ds, here, g)
    PROVE  Follow(es, cs, ds, here, g)
  <1> DEFINE fs == ChunksAt(ds, here, g)
  <1>1. /\ cs \in Seq(ChunkSet) /\ ds \in Seq(ChunkSet)
        /\ Len(cs) \in Nat /\ Len(ds) \in Nat
        /\ DOMAIN cs = 1 .. Len(cs) /\ DOMAIN ds = 1 .. Len(ds)
    BY DEF Chained
  <1>2. \A c \in 1 .. Len(ds) : ds[c] \in ChunkSet
    BY <1>1
  <1>3. ASSUME NEW c \in 1 .. Len(ds) PROVE fs[c] = ChunkAt(ds[c], here, g) /\ fs[c] \in ChunkSet
    <2>1. fs[c] = ChunkAt(ds[c], here, g)
      BY <1>1 DEF ChunksAt
    <2> HIDE DEF fs
    <2>2. QED
      BY <1>2, <2>1, ChunkMoves
  <1>4. fs \in Seq(ChunkSet) /\ Len(fs) = Len(ds) /\ DOMAIN fs = 1 .. Len(ds)
    BY <1>1, <1>3 DEF ChunksAt
  <1> HIDE DEF fs
  <1>5. es = cs \o fs
    BY DEF fs
  <1>6. /\ es \in Seq(ChunkSet) /\ Len(es) = Len(cs) + Len(ds)
        /\ DOMAIN es = 1 .. Len(cs) + Len(ds)
        /\ \A c \in 1 .. Len(cs) : es[c] = cs[c]
        /\ \A c \in 1 .. Len(ds) : es[Len(cs) + c] = fs[c]
    BY <1>1, <1>4, <1>5, Joined
  <1>7. \A c \in 1 .. Len(ds) : es[Len(cs) + c] = ChunkAt(ds[c], here, g)
    BY <1>3, <1>6
  <1>10. \A c \in 0 .. Len(cs) : After(es, c) = After(cs, c)
    <2>1. Len(cs) <= Len(es) /\ \A c \in DOMAIN cs : es[c] = cs[c]
      BY <1>1, <1>6
    <2>2. QED
      BY <1>1, <1>6, <2>1, ChunksFollow
  <1>11. ASSUME NEW c \in 0 .. Len(ds) PROVE After(es, Len(cs) + c) = After(ds, c) + g
    <2>1. CASE c = 0
      <3>1. After(ds, 0) = 0
        BY DEF After
      <3>2. Len(cs) + 0 = Len(cs) /\ Len(cs) \in 0 .. Len(cs)
        BY <1>1
      <3>3. After(es, Len(cs) + 0) = g
        BY <1>10, <3>2
      <3>4. QED
        BY <2>1, <3>1, <3>3
    <2>2. CASE c \in 1 .. Len(ds)
      <3>1. Len(cs) + c # 0 /\ c # 0
        BY <1>1, <2>2
      <3> DEFINE q == es[Len(cs) + c]
                 k == ds[c]
      <3>2. After(es, Len(cs) + c) = q.to + Len(q.ins) - EndOf(q)
        BY <3>1 DEF After
      <3>3. After(ds, c) = k.to + Len(k.ins) - EndOf(k)
        BY <3>1 DEF After
      <3>4. q = ChunkAt(k, here, g) /\ k \in ChunkSet
        BY <1>2, <1>7, <2>2
      <3> HIDE DEF q, k
      <3>5. q.to + Len(q.ins) - EndOf(q) = (k.to + Len(k.ins) - EndOf(k)) + g
        BY <3>4, ChunkMoves
      <3>6. QED
        BY <3>2, <3>3, <3>5
    <2>3. QED
      BY <1>1, <2>1, <2>2
  <1>12. ASSUME NEW c \in DOMAIN es PROVE es[c].to - es[c].orig = After(es, c - 1)
    <2>1. CASE c \in 1 .. Len(cs)
      <3>1. cs[c].to - cs[c].orig = After(cs, c - 1)
        BY <1>1, <2>1 DEF Chained
      <3>2. c - 1 \in 0 .. Len(cs)
        BY <1>1, <2>1
      <3>3. QED
        BY <1>6, <1>10, <2>1, <3>1, <3>2
    <2>2. CASE c \notin 1 .. Len(cs)
      <3> DEFINE d == c - Len(cs)
      <3>1. d \in 1 .. Len(ds) /\ c = Len(cs) + d /\ d - 1 \in 0 .. Len(ds) /\ Len(cs) + (d - 1) = c - 1
        BY <1>1, <1>6, <2>2
      <3> HIDE DEF d
      <3>2. ds[d].to - ds[d].orig = After(ds, d - 1)
        BY <1>1, <3>1 DEF Chained
      <3>3. es[c].to - es[c].orig = (ds[d].to - ds[d].orig) + g
        <4>1. PICK k \in ChunkSet : k = ds[d]
          BY <1>2, <3>1
        <4>2. es[c] = ChunkAt(k, here, g)
          BY <1>7, <3>1, <4>1
        <4>3. ChunkAt(k, here, g).to - ChunkAt(k, here, g).orig = (k.to - k.orig) + g
          BY ChunkMoves
        <4>4. QED
          BY <4>1, <4>2, <4>3
      <3>4. QED
        BY <1>11, <3>1, <3>2, <3>3
    <2>3. QED
      BY <2>1, <2>2
  <1>13. QED
    BY <1>6, <1>7, <1>11, <1>12 DEF Chained, Follow

LEMMA HunkPlaced ==
    ASSUME NEW cs \in Seq(ChunkSet), NEW ds \in Seq(ChunkSet), NEW es, NEW here \in Nat, NEW g \in Int,
           Follow(es, cs, ds, here, g),
           NEW old \in Seq(Texts), NEW new \in Seq(Texts), PartsFit(old, new, <<>>, <<>>, ds),
           NEW base \in Nat, NEW all \in Nat, base = Len(cs), all = Len(es)
    PROVE  HunkFits(Hunk(here, old, new, g, base + 1, all), es)
  <1> DEFINE h == Hunk(here, old, new, g, base + 1, all)
  <1>a. h.at = here /\ h.old = old /\ h.new = new /\ h.shift = g /\ h.first = base + 1 /\ h.last = all
    BY DEF Hunk
  <1> HIDE DEF h
  <1>b. PICK more \in Nat : more = Len(ds)
    OBVIOUS
  <1>c. /\ es \in Seq(ChunkSet) /\ all = base + more
        /\ \A c \in 1 .. more : es[base + c] = ChunkAt(ds[c], here, g)
        /\ \A c \in 0 .. more : After(es, base + c) = After(ds, c) + g
    BY <1>b DEF Follow
  <1>1. Len(<<>>) = 0 /\ Len(old) \in Nat /\ Len(new) \in Nat /\ DOMAIN new = 1 .. Len(new)
    OBVIOUS
  <1>2. Len(old) - Len(<<>>) = Len(old) /\ Len(new) - Len(<<>>) = Len(new)
    BY <1>1
  <1>3. /\ Chained(ds) /\ Len(new) - Len(old) = After(ds, more)
        /\ \A c \in 1 .. more : EndOf(ds[c]) <= Len(old)
        /\ \A n \in 1 .. Len(new) : FromChunk(ds, 1, more, n, new[n])
                                 \/ FromFile(ds, 1, more, old, Len(old), 0, n, new[n])
    BY <1>2, <1>b DEF PartsFit
  <1>4. \A c \in 1 .. more : EndOf(es[base + c]) = EndOf(ds[c]) + here
    BY <1>b, <1>c, ChunkMoves
  <1>6. /\ \A c \in 1 .. more : /\ ds[c].orig \in Nat /\ ds[c].to \in Int /\ EndOf(ds[c]) \in Nat
                                /\ DOMAIN ds[c].ins = 1 .. Len(ds[c].ins) /\ Len(ds[c].ins) \in Nat
        /\ \A c \in 0 .. more : After(ds, c) \in Int
    BY <1>b, ChunkTypes
  <1>10. h.first >= 1 /\ h.first <= h.last + 1 /\ h.last <= Len(es)
    BY <1>a, <1>c, <1>4
  <1>11. h.shift = After(es, h.first - 1)
    <2>1. After(es, base + 0) = After(ds, 0) + g
      BY <1>c, <1>4
    <2>2. After(ds, 0) = 0 /\ base + 0 = base /\ (base + 1) - 1 = base
      BY <1>4 DEF After
    <2>3. QED
      BY <1>a, <2>1, <2>2
  <1>12. h.shift + Len(h.new) - Len(h.old) = After(es, h.last)
    <2>1. After(es, base + more) = After(ds, more) + g
      BY <1>c, <1>4
    <2>2. g + Len(new) - Len(old) = After(ds, more) + g
      BY <1>1, <1>3
    <2>3. QED
      BY <1>a, <1>c, <2>1, <2>2
  <1>13. ASSUME NEW c \in h.first .. h.last PROVE h.at <= es[c].orig /\ EndOf(es[c]) <= HunkEnd(h)
    <2> DEFINE d == c - base
    <2>1. d \in 1 .. more /\ c = base + d
      BY <1>a, <1>c, <1>4
    <2> HIDE DEF d
    <2>2. PICK k \in ChunkSet : k = ds[d]
      BY <1>b, <2>1
    <2> DEFINE q == ChunkAt(k, here, g)
    <2>3. /\ q.orig = k.orig + here /\ EndOf(q) = EndOf(k) + here
          /\ k.orig \in Nat /\ EndOf(k) \in Nat
      BY ChunkMoves
    <2>4. es[c] = q /\ EndOf(k) <= Len(old)
      BY <1>c, <1>3, <2>1, <2>2
    <2> HIDE DEF q
    <2>5. here <= q.orig /\ EndOf(q) <= here + Len(old)
      BY <1>1, <2>3, <2>4
    <2>6. QED
      BY <1>a, <2>4, <2>5 DEF HunkEnd
  <1>14. ASSUME NEW n \in 1 .. Len(new), FromChunk(ds, 1, more, n, new[n])
         PROVE  FromChunk(es, base + 1, all, here + g + n, new[n])
    <2>0. PICK c \in 1 .. more : \E i \in DOMAIN ds[c].ins : n = ds[c].to + i /\ new[n] = ds[c].ins[i]
      BY <1>14 DEF FromChunk
    <2>1. PICK k \in ChunkSet : k = ds[c]
      BY <1>b
    <2> DEFINE q == ChunkAt(k, here, g)
    <2>3. /\ q.to = k.to + here + g /\ q.ins = k.ins
          /\ k.to \in Int /\ DOMAIN k.ins = 1 .. Len(k.ins)
      <3>1. q.to = k.to + here + g
        BY ChunkMoves
      <3>2. q.ins = k.ins
        BY ChunkMoves
      <3>3. k.to \in Int
        BY ChunkMoves
      <3>4. DOMAIN k.ins = 1 .. Len(k.ins)
        BY ChunkMoves
      <3>5. QED
        BY <3>1, <3>2, <3>3, <3>4
    <2>4. es[base + c] = q /\ base + c \in base + 1 .. all
      BY <1>c, <2>1
    <2> HIDE DEF q
    <2>2. PICK i \in DOMAIN k.ins : n = k.to + i /\ new[n] = k.ins[i]
      BY <2>0, <2>1
    <2>5. here + g + n = q.to + i
      <3>1. i \in Int
        BY <2>3
      <3>2. PICK t \in Int : t = k.to
        BY <2>3
      <3>3. n = t + i /\ q.to = t + here + g
        BY <2>2, <2>3, <3>2
      <3>4. here + g + n = (t + here + g) + i
        BY <3>1, <3>3
      <3>5. QED
        BY <3>3, <3>4
    <2>6. i \in DOMAIN q.ins /\ new[n] = q.ins[i]
      BY <2>2, <2>3
    <2>7. QED
      BY <2>4, <2>5, <2>6 DEF FromChunk
  <1>15. ASSUME NEW n \in 1 .. Len(new), FromFile(ds, 1, more, old, Len(old), 0, n, new[n])
         PROVE  FromFile(es, base + 1, all, old, Len(old), here, here + g + n, new[n])
    <2>1. PICK c \in 1 - 1 .. more, i \in 1 .. Len(old) :
              /\ new[n] = old[i] /\ n = 0 + i + After(ds, c)
              /\ c >= 1 => EndOf(ds[c]) < 0 + i
              /\ c < more => 0 + i <= ds[c + 1].orig
      BY <1>15 DEF FromFile
    <2>2. c \in 0 .. more /\ i \in Int /\ After(ds, c) \in Int
      BY <1>4, <1>6
    <2>3. base + c \in (base + 1) - 1 .. all
      BY <1>c, <1>4, <2>2
    <2>4. here + g + n = here + i + After(es, base + c)
      <3>1. PICK a \in Int : a = After(ds, c)
        BY <2>2
      <3>2. n = 0 + i + a
        BY <2>1, <3>1
      <3>3. After(es, base + c) = a + g
        BY <1>c, <2>2, <3>1
      <3>4. here + g + n = here + i + (a + g)
        BY <2>2, <3>2
      <3>5. QED
        BY <3>3, <3>4
    <2>5. base + c >= base + 1 => EndOf(es[base + c]) < here + i
      <3>1. SUFFICES ASSUME base + c >= base + 1 PROVE EndOf(es[base + c]) < here + i
        OBVIOUS
      <3>2. c \in 1 .. more /\ c >= 1
        BY <1>4, <2>2, <3>1
      <3>3. PICK e \in Nat : e = EndOf(ds[c])
        BY <1>6, <3>2
      <3>4. e < 0 + i
        BY <2>1, <3>2, <3>3
      <3>5. e + here < here + i
        BY <2>2, <3>4
      <3>6. QED
        BY <1>4, <3>2, <3>3, <3>5
    <2>6. base + c < all => here + i <= es[(base + c) + 1].orig
      <3>1. SUFFICES ASSUME base + c < all PROVE here + i <= es[(base + c) + 1].orig
        OBVIOUS
      <3>2. c < more /\ c + 1 \in 1 .. more /\ (base + c) + 1 = base + (c + 1)
        BY <1>c, <1>4, <2>2, <3>1
      <3>3. PICK k \in ChunkSet : k = ds[c + 1]
        BY <1>b, <3>2
      <3> DEFINE q == ChunkAt(k, here, g)
      <3>4. q.orig = k.orig + here /\ k.orig \in Nat
        BY ChunkMoves
      <3>5. es[base + (c + 1)] = q
        BY <1>c, <3>2, <3>3
      <3>6. 0 + i <= ds[c + 1].orig
        BY <2>1, <3>2
      <3> HIDE DEF q
      <3>7. PICK t \in Nat : t = k.orig
        BY <3>4
      <3>8. 0 + i <= t /\ q.orig = t + here
        BY <3>3, <3>4, <3>6, <3>7
      <3>9. here + i <= t + here
        BY <2>2, <3>8
      <3>10. QED
        BY <3>2, <3>5, <3>8, <3>9
    <2>7. QED
      BY <2>1, <2>3, <2>4, <2>5, <2>6 DEF FromFile
  <1>16. ASSUME NEW n \in DOMAIN h.new
         PROVE  \/ FromChunk(es, h.first, h.last, h.at + h.shift + n, h.new[n])
                \/ FromFile(es, h.first, h.last, h.old, Len(h.old), h.at, h.at + h.shift + n, h.new[n])
    BY <1>a, <1>1, <1>3, <1>14, <1>15
  <1>17. QED
    BY <1>a, <1>10, <1>11, <1>12, <1>13, <1>16 DEF HunkFits, h

LEMMA HunkStays ==
    ASSUME NEW cs \in Seq(ChunkSet), NEW es \in Seq(ChunkSet), Len(cs) <= Len(es),
           \A c \in DOMAIN cs : es[c] = cs[c], NEW h \in HunkSet, HunkFits(h, cs)
    PROVE  HunkFits(h, es)
  <1>1. PICK f \in Nat, l \in Nat : f = h.first /\ l = h.last
    BY DEF HunkSet
  <1>2. /\ f >= 1 /\ f <= l + 1 /\ l <= Len(cs)
        /\ h.shift = After(cs, f - 1)
        /\ h.shift + Len(h.new) - Len(h.old) = After(cs, l)
        /\ \A c \in f .. l : h.at <= cs[c].orig /\ EndOf(cs[c]) <= HunkEnd(h)
        /\ \A n \in DOMAIN h.new :
              \/ FromChunk(cs, f, l, h.at + h.shift + n, h.new[n])
              \/ FromFile(cs, f, l, h.old, Len(h.old), h.at, h.at + h.shift + n, h.new[n])
    BY <1>1 DEF HunkFits
  <1>3. Len(cs) \in Nat /\ Len(es) \in Nat /\ DOMAIN cs = 1 .. Len(cs)
    OBVIOUS
  <1>4. f \in Nat \ {0} /\ l \in 0 .. Len(cs) /\ f - 1 \in 0 .. Len(cs) /\ l <= Len(es)
    BY <1>2, <1>3
  <1>5. /\ \A c \in 0 .. Len(cs) : After(es, c) = After(cs, c)
        /\ \A x, t : FromChunk(cs, f, l, x, t) => FromChunk(es, f, l, x, t)
        /\ \A old, m, at0, x, t : FromFile(cs, f, l, old, m, at0, x, t) => FromFile(es, f, l, old, m, at0, x, t)
    BY <1>4, ChunksFollow
  <1>6. \A c \in f .. l : es[c] = cs[c]
    BY <1>3, <1>4
  <1>7. /\ h.shift = After(es, f - 1)
        /\ h.shift + Len(h.new) - Len(h.old) = After(es, l)
    BY <1>2, <1>4, <1>5
  <1>8. \A c \in f .. l : h.at <= es[c].orig /\ EndOf(es[c]) <= HunkEnd(h)
    BY <1>2, <1>6
  <1>9. \A n \in DOMAIN h.new :
              \/ FromChunk(es, f, l, h.at + h.shift + n, h.new[n])
              \/ FromFile(es, f, l, h.old, Len(h.old), h.at, h.at + h.shift + n, h.new[n])
    BY <1>2, <1>5
  <1>10. QED
    BY <1>1, <1>2, <1>4, <1>7, <1>8, <1>9 DEF HunkFits

LEMMA HunkAppended ==
    ASSUME NEW file, NEW cs \in Seq(ChunkSet), NEW hs, NEW fz \in Nat, FileFits(file, cs, hs, fz),
           NEW es, Chained(es), NEW base \in Nat, base = Len(cs), NEW all \in Nat, Len(es) = all, base <= all,
           \A c \in 1 .. base : es[c] = cs[c],
           NEW h \in HunkSet, HunkFits(h, es), h.first = base + 1, h.last = all,
           NEW sum \in Nat, sum = 0 => fz = 0 /\ Stands(h.old, file, h.at)
    PROVE  FileFits(file, es, Append(hs, h), sum)
  <1> DEFINE gs == Append(hs, h)
  <1>1. /\ hs \in Seq(HunkSet)
        /\ \A k \in DOMAIN hs : HunkFits(hs[k], cs) /\ hs[k].first = LastOf(hs, k - 1) + 1
        /\ \A k \in DOMAIN hs : \A j \in 1 .. k - 1 : hs[j].last < hs[k].first
        /\ LastOf(hs, Len(hs)) = Len(cs)
        /\ \A c \in DOMAIN cs : \E k \in DOMAIN hs : c \in hs[k].first .. hs[k].last
        /\ fz = 0 => \A k \in DOMAIN hs : Stands(hs[k].old, file, hs[k].at)
    BY DEF FileFits
  <1>2. PICK len \in Nat : len = Len(hs)
    BY <1>1
  <1>3. /\ gs \in Seq(HunkSet)
        /\ DOMAIN hs = 1 .. len /\ DOMAIN gs = 1 .. len + 1 /\ Len(gs) = len + 1
        /\ \A k \in 1 .. len : gs[k] = hs[k]
        /\ gs[len + 1] = h
    BY <1>1, <1>2, Appended
  <1> HIDE DEF gs
  <1>4. \A k \in 1 .. len + 1 : k \in 1 .. len \/ k = len + 1
    BY <1>2
  <1>5. es \in Seq(ChunkSet) /\ DOMAIN cs = 1 .. base /\ DOMAIN es = 1 .. all
    BY DEF Chained
  <1>6. \A k \in 0 .. len : LastOf(gs, k) = LastOf(hs, k)
    BY <1>2, <1>3 DEF LastOf
  <1>7. \A k \in 1 .. len : hs[k] \in HunkSet /\ HunkFits(hs[k], cs)
    <2>1. \A k \in 1 .. len : hs[k] \in HunkSet
      BY <1>1, <1>3
    <2>2. \A k \in 1 .. len : HunkFits(hs[k], cs)
      BY <1>1, <1>3
    <2>3. QED
      BY <2>1, <2>2
  <1>8. ASSUME NEW k \in 1 .. len + 1
        PROVE  HunkFits(gs[k], es) /\ gs[k].first = LastOf(gs, k - 1) + 1
    <2>1. CASE k \in 1 .. len
      <3>1. HunkFits(hs[k], es)
        BY <1>5, <1>7, <2>1, HunkStays
      <3>2. k - 1 \in 0 .. len
        BY <1>2, <2>1
      <3>3. hs[k].first = LastOf(hs, k - 1) + 1
        BY <1>1, <1>3, <2>1
      <3>4. QED
        BY <1>3, <1>6, <2>1, <3>1, <3>2, <3>3
    <2>2. CASE k = len + 1
      <3>1. k - 1 = len /\ len \in 0 .. len
        BY <1>2, <2>2
      <3>2. LastOf(gs, k - 1) = base
        BY <1>1, <1>2, <1>6, <3>1
      <3>3. QED
        BY <1>3, <2>2, <3>2
    <2>3. QED
      BY <1>4, <2>1, <2>2
  <1>9. ASSUME NEW k \in 1 .. len + 1, NEW j \in 1 .. k - 1 PROVE gs[j].last < gs[k].first
    <2>0. j \in 1 .. len
      BY <1>2
    <2>1. CASE k \in 1 .. len
      BY <1>1, <1>3, <2>0, <2>1
    <2>2. CASE k = len + 1
      <3>1. PICK l \in Nat : l = hs[j].last
        BY <1>7, <2>0 DEF HunkSet
      <3>2. l <= base
        BY <1>7, <2>0, <3>1 DEF HunkFits
      <3>3. l < base + 1
        BY <3>2
      <3>4. QED
        BY <1>3, <2>0, <2>2, <3>1, <3>3
    <2>3. QED
      BY <1>4, <2>1, <2>2
  <1>10. LastOf(gs, Len(gs)) = Len(es)
    <2>1. len + 1 # 0
      BY <1>2
    <2>2. QED
      BY <1>3, <2>1 DEF LastOf
  <1>11. ASSUME NEW c \in 1 .. all PROVE \E k \in 1 .. len + 1 : c \in gs[k].first .. gs[k].last
    <2>1. CASE c \in 1 .. base
      <3>1. PICK k \in 1 .. len : c \in hs[k].first .. hs[k].last
        BY <1>1, <1>3, <1>5, <2>1
      <3>2. k \in 1 .. len + 1
        BY <1>2
      <3>3. QED
        BY <1>3, <3>1, <3>2
    <2>2. CASE c \notin 1 .. base
      <3>1. c \in base + 1 .. all
        BY <2>2
      <3>2. len + 1 \in 1 .. len + 1
        BY <1>2
      <3>3. QED
        BY <1>3, <3>1, <3>2
    <2>3. QED
      BY <2>1, <2>2
  <1>12. sum = 0 => \A k \in 1 .. len + 1 : Stands(gs[k].old, file, gs[k].at)
    BY <1>1, <1>3, <1>4
  <1>13. FileFits(file, es, gs, sum)
    BY <1>3, <1>5, <1>8, <1>9, <1>10, <1>11, <1>12 DEF FileFits
  <1>14. QED
    BY <1>13 DEF gs

LEMMA MoreFuzz ==
    ASSUME NEW file, NEW cs, NEW hs, NEW fz, NEW sum, FileFits(file, cs, hs, fz), sum = 0 => fz = 0
    PROVE  FileFits(file, cs, hs, sum)
  BY DEF FileFits

\* The round of parseUpdateFile that is at its end keeps what holds of the file.
LEMMA SectionPlaced ==
    ASSUME NEW file, NEW cs, NEW hs, NEW fz \in Nat, FileFits(file, cs, hs, fz),
           NEW old \in Seq(Texts), NEW new \in Seq(Texts), NEW ds \in Seq(ChunkSet),
           PartsFit(old, new, <<>>, <<>>, ds),
           NEW here \in Nat, NEW f \in Nat, f = 0 => Stands(old, file, here),
           NEW g, g = After(cs, Len(cs))
    PROVE  FileFits(file, cs \o ChunksAt(ds, here, g),
                    IF old = <<>> /\ new = <<>> THEN hs
                    ELSE Append(hs, Hunk(here, old, new, g, Len(cs) + 1, Len(cs) + Len(ds))),
                    fz + f)
  <1> DEFINE es == cs \o ChunksAt(ds, here, g)
             h  == Hunk(here, old, new, g, Len(cs) + 1, Len(cs) + Len(ds))
  <1>1. Chained(cs) /\ cs \in Seq(ChunkSet)
    BY DEF FileFits, Chained
  <1>2. Chained(ds)
    BY DEF PartsFit
  <1>3. PICK base \in Nat, more \in Nat, all \in Nat :
            base = Len(cs) /\ more = Len(ds) /\ all = base + more
    <2>1. Len(cs) \in Nat /\ Len(ds) \in Nat /\ Len(cs) + Len(ds) \in Nat
      BY <1>1
    <2>2. QED
      BY <2>1
  <1>4. g \in Int
    <2>1. Len(cs) \in 0 .. Len(cs)
      BY <1>1
    <2>2. QED
      BY <1>1, <2>1, ChunkTypes
  <1>5. h \in HunkSet
    BY <1>3, <1>4 DEF Hunk, HunkSet
  <1>6. /\ h.at = here /\ h.old = old /\ h.new = new /\ h.shift = g
        /\ h.first = base + 1 /\ h.last = all
    BY <1>3 DEF Hunk
  <1>7. Follow(es, cs, ds, here, g)
    <2>1. es = cs \o ChunksAt(ds, here, g)
      OBVIOUS
    <2> HIDE DEF es
    <2>2. QED
      BY <1>1, <1>2, <1>4, <2>1, ChunksPlaced
  <1>8. h = Hunk(here, old, new, g, base + 1, all)
    BY <1>3
  <1> HIDE DEF es, h
  <1>9. /\ es \in Seq(ChunkSet) /\ Len(es) = all /\ Chained(es)
        /\ \A c \in 1 .. base : es[c] = cs[c]
    BY <1>3, <1>7 DEF Follow
  <1>10. fz + f \in Nat /\ (fz + f = 0 => fz = 0 /\ f = 0)
    OBVIOUS
  <1>11. CASE old = <<>> /\ new = <<>>
    <2>1. ds = <<>>
      BY <1>11 DEF PartsFit
    <2>2. all = base
      BY <1>3, <2>1
    <2>3. es = cs
      <3>1. Len(es) = Len(cs) /\ \A c \in 1 .. Len(es) : es[c] = cs[c]
        BY <1>3, <1>9, <2>2
      <3>2. QED
        BY <1>1, <1>9, <3>1, SeqEqual
    <2>4. FileFits(file, es, hs, fz + f)
      BY <1>10, <2>3, MoreFuzz
    <2>5. QED
      BY <1>11, <2>4 DEF es
  <1>12. CASE ~ (old = <<>> /\ new = <<>>)
    <2>1. HunkFits(h, es)
      <3>1. all = Len(es)
        BY <1>9
      <3>2. QED
        BY <1>1, <1>3, <1>4, <1>7, <1>8, <3>1, HunkPlaced
    <2>2. base <= all /\ (fz + f = 0 => fz = 0 /\ Stands(h.old, file, h.at))
      BY <1>3, <1>6, <1>10
    <2>3. FileFits(file, es, Append(hs, h), fz + f)
      BY <1>1, <1>3, <1>5, <1>6, <1>9, <1>10, <2>1, <2>2, HunkAppended
    <2>4. QED
      BY <1>12, <2>3 DEF es, h
  <1>13. QED
    BY <1>11, <1>12

\* Nothing is known of a file before its first hunk.
LEMMA NoHunks ==
    ASSUME NEW file, NEW fz
    PROVE  FileFits(file, <<>>, <<>>, fz)
  <1>1. <<>> \in Seq(ChunkSet) /\ <<>> \in Seq(HunkSet) /\ Len(<<>>) = 0 /\ DOMAIN <<>> = {}
    OBVIOUS
  <1>2. QED
    BY <1>1 DEF FileFits, Chained, LastOf

\* How much longer the hunks make the file is what the chunks say.
LEMMA GrownIsAfter ==
    ASSUME NEW file, NEW cs, NEW hs, NEW fz, FileFits(file, cs, hs, fz), NEW k \in 0 .. Len(hs)
    PROVE  GrownBy(hs, k) = After(cs, LastOf(hs, k))
  <1>1. hs \in Seq(HunkSet) /\ \A j \in DOMAIN hs : HunkFits(hs[j], cs)
    BY DEF FileFits
  <1>2. CASE k = 0
    BY <1>2 DEF GrownBy, LastOf, After
  <1>3. CASE k # 0
    <2>1. k \in DOMAIN hs
      BY <1>1, <1>3
    <2>2. QED
      BY <1>1, <1>3, <2>1 DEF HunkFits, GrownBy, LastOf
  <1>4. QED
    BY <1>2, <1>3

-----------------------------------------------------------------------------
(* The new content. *)

LEMMA JoinedHas ==
    ASSUME NEW S, NEW s \in Seq(S), NEW t \in Seq(S)
    PROVE  /\ \A x, y : Has(s, x, y) => Has(s \o t, x, y)
           /\ \A i \in DOMAIN t : Has(s \o t, Len(s) + i, t[i])
  <1>1. /\ Len(s) \in Nat /\ Len(t) \in Nat
        /\ DOMAIN s = 1 .. Len(s) /\ DOMAIN t = 1 .. Len(t)
        /\ DOMAIN (s \o t) = 1 .. Len(s) + Len(t)
        /\ \A i \in DOMAIN s : (s \o t)[i] = s[i]
        /\ \A i \in DOMAIN t : (s \o t)[Len(s) + i] = t[i]
    BY Joined
  <1> DEFINE st == s \o t
  <1> HIDE DEF st
  <1>2. /\ DOMAIN st = 1 .. Len(s) + Len(t)
        /\ \A i \in DOMAIN s : st[i] = s[i]
        /\ \A i \in DOMAIN t : st[Len(s) + i] = t[i]
    BY <1>1 DEF st
  <1>3. ASSUME NEW x, NEW y, Has(s, x, y) PROVE Has(st, x, y)
    <2>1. x \in 1 .. Len(s) /\ s[x] = y
      BY <1>1, <1>3 DEF Has
    <2>2. x \in 1 .. Len(s) + Len(t)
      BY <1>1, <2>1
    <2>3. QED
      BY <1>1, <1>2, <2>1, <2>2 DEF Has
  <1>4. ASSUME NEW i \in DOMAIN t PROVE Has(st, Len(s) + i, t[i])
    <2>1. Len(s) + i \in 1 .. Len(s) + Len(t)
      BY <1>1
    <2>2. QED
      BY <1>2, <2>1 DEF Has
  <1>5. QED
    BY <1>3, <1>4 DEF st

\* A text has all lines of dest and, moved by a, the lines i + 1 to j of a file.
Copied(text, dest, file, i, j, a) ==
    /\ text \in Seq(Texts) /\ Len(text) = j + a
    /\ \A x, y : Has(dest, x, y) => Has(text, x, y)
    /\ \A k \in i + 1 .. j : Has(text, k + a, file[k])

LEMMA LinesCopied ==
    ASSUME NEW dest \in Seq(Texts), NEW file \in Seq(Texts), NEW i \in Nat, NEW j \in Nat,
           i <= j, j <= Len(file), NEW a \in Int, Len(dest) = i + a
    PROVE  Copied(dest \o SubSeq(file, i + 1, j), dest, file, i, j, a)
  <1> DEFINE part == SubSeq(file, i + 1, j)
             both == dest \o part
  <1>1. /\ part \in Seq(Texts) /\ Len(part) = j - i /\ DOMAIN part = 1 .. j - i
        /\ \A n \in 1 .. j - i : part[n] = file[i + n]
    BY LinesPart
  <1> HIDE DEF part
  <1>2. PICK len \in Nat : len = Len(dest)
    <2>1. Len(dest) \in Nat
      OBVIOUS
    <2>2. QED
      BY <2>1
  <1>3. /\ both \in Seq(Texts) /\ Len(both) = len + (j - i)
        /\ \A x, y : Has(dest, x, y) => Has(both, x, y)
        /\ \A n \in 1 .. j - i : Has(both, len + n, part[n])
    BY <1>1, <1>2, Joined, JoinedHas
  <1> HIDE DEF both
  <1>4. Len(both) = j + a
    BY <1>2, <1>3
  <1>5. ASSUME NEW k \in i + 1 .. j PROVE Has(both, k + a, file[k])
    <2>1. k - i \in 1 .. j - i /\ len + (k - i) = k + a /\ i + (k - i) = k
      BY <1>2
    <2>2. QED
      BY <1>1, <1>3, <2>1
  <1>6. QED
    BY <1>3, <1>4, <1>5 DEF both, part, Copied

LEMMA NothingApplied ==
    ASSUME NEW file, NEW cs, Chained(cs)
    PROVE  OutputFits(file, cs, NoOutput)
  <1>1. cs \in Seq(ChunkSet) /\ Len(cs) \in Nat
    BY DEF Chained
  <1>2. NoOutput.next = 1 /\ NoOutput.index = 0 /\ NoOutput.dest = <<>>
    BY DEF NoOutput
  <1>3. <<>> \in Seq(Texts) /\ Len(<<>>) = 0 /\ 1 \in 1 .. Len(cs) + 1
    BY <1>1
  <1>4. 1 - 1 = 0 /\ 1 .. 1 - 1 = {} /\ 0 .. 1 - 2 = {}
    OBVIOUS
  <1>5. Applied(file, cs, 1, 0, <<>>)
    BY <1>3, <1>4 DEF Applied, After, EndAfter
  <1>6. QED
    BY <1>2, <1>3, <1>5 DEF OutputFits

LEMMA ChunkApplied ==
    ASSUME NEW file \in Seq(Texts), NEW cs, Chained(cs), NEW next \in 1 .. Len(cs), NEW done \in Nat,
           NEW dest \in Seq(Texts), Applied(file, cs, next, done, dest),
           NEW c \in ChunkSet, c = cs[next], c.orig <= Len(file), done <= c.orig
    PROVE  /\ dest \o SubSeq(file, done + 1, c.orig) \o c.ins \in Seq(Texts)
           /\ Applied(file, cs, next + 1, EndOf(c), dest \o SubSeq(file, done + 1, c.orig) \o c.ins)
  <1>1. /\ c.orig \in Nat /\ c.to \in Int /\ c.ins \in Seq(Texts) /\ Len(c.ins) \in Nat
        /\ EndOf(c) \in Nat
    BY DEF ChunkSet, EndOf
  <1>2. PICK o \in Nat, t \in Int, n \in Nat, e \in Nat, ins \in Seq(Texts) :
            o = c.orig /\ t = c.to /\ n = Len(c.ins) /\ e = EndOf(c) /\ ins = c.ins
    BY <1>1
  <1>3. cs \in Seq(ChunkSet) /\ Len(cs) \in Nat /\ DOMAIN cs = 1 .. Len(cs)
    BY DEF Chained
  <1>4. next \in Nat /\ next - 1 \in 0 .. Len(cs) /\ next # 0
    BY <1>3
  <1>5. PICK a \in Int : a = After(cs, next - 1)
    BY <1>3, <1>4, ChunkTypes
  <1>6. t = o + a
    <2>1. cs[next].to - cs[next].orig = After(cs, next - 1)
      BY <1>3 DEF Chained
    <2>2. t - o = a
      BY <1>2, <1>5, <2>1
    <2>3. QED
      BY <2>2
  <1>7. After(cs, next) = t + n - e
    BY <1>2, <1>4 DEF After
  <1>8. /\ done = EndAfter(cs, next - 1) /\ Len(dest) = done + a
        /\ \A d \in 1 .. next - 1 : \A i \in DOMAIN cs[d].ins : Has(dest, cs[d].to + i, cs[d].ins[i])
        /\ \A d \in 0 .. next - 2 : \A i \in EndAfter(cs, d) + 1 .. cs[d + 1].orig :
              Has(dest, i + After(cs, d), file[i])
    BY <1>5 DEF Applied
  <1> DEFINE most == dest \o SubSeq(file, done + 1, o)
             all  == most \o ins
  <1>9. /\ most \in Seq(Texts) /\ Len(most) = t
        /\ \A x, y : Has(dest, x, y) => Has(most, x, y)
        /\ \A i \in done + 1 .. o : Has(most, i + a, file[i])
    <2>1. done <= o /\ o <= Len(file) /\ Len(dest) = done + a
      BY <1>2, <1>8
    <2>2. Copied(most, dest, file, done, o, a)
      BY <2>1, LinesCopied
    <2> HIDE DEF most
    <2>3. QED
      BY <1>6, <2>2 DEF Copied
  <1> HIDE DEF most
  <1>10. /\ all \in Seq(Texts) /\ Len(all) = t + n
         /\ \A x, y : Has(most, x, y) => Has(all, x, y)
         /\ \A i \in DOMAIN ins : Has(all, t + i, ins[i])
    <2>1. n = Len(ins)
      BY <1>2
    <2>2. QED
      BY <1>9, <2>1, Joined, JoinedHas
  <1> HIDE DEF all
  <1>11. EndAfter(cs, next) = e
    BY <1>2, <1>4 DEF EndAfter
  <1>12. Len(all) = e + After(cs, next)
    BY <1>7, <1>10
  <1>13. ASSUME NEW d \in 1 .. next, NEW i \in DOMAIN cs[d].ins PROVE Has(all, cs[d].to + i, cs[d].ins[i])
    <2>1. CASE d = next
      BY <1>2, <1>10, <2>1
    <2>2. CASE d # next
      <3>1. d \in 1 .. next - 1
        BY <1>4, <2>2
      <3>2. QED
        BY <1>8, <1>9, <1>10, <3>1
    <2>3. QED
      BY <2>1, <2>2
  <1>14. ASSUME NEW d \in 0 .. next - 1, NEW i \in EndAfter(cs, d) + 1 .. cs[d + 1].orig
         PROVE  Has(all, i + After(cs, d), file[i])
    <2>1. CASE d = next - 1
      <3>1. d + 1 = next
        BY <1>4, <2>1
      <3>2. i \in done + 1 .. o
        BY <1>2, <1>8, <2>1, <3>1
      <3>3. QED
        BY <1>5, <1>9, <1>10, <2>1, <3>2
    <2>2. CASE d # next - 1
      <3>1. d \in 0 .. next - 2
        BY <1>4, <2>2
      <3>2. QED
        BY <1>8, <1>9, <1>10, <3>1
    <2>3. QED
      BY <2>1, <2>2
  <1>15. (next + 1) - 1 = next /\ (next + 1) - 2 = next - 1
    BY <1>4
  <1>16. Applied(file, cs, next + 1, e, all)
    BY <1>11, <1>12, <1>13, <1>14, <1>15 DEF Applied
  <1>17. all = dest \o SubSeq(file, done + 1, c.orig) \o c.ins
    BY <1>2 DEF all, most
  <1>18. QED
    BY <1>2, <1>10, <1>16, <1>17

LEMMA RestApplied ==
    ASSUME NEW file \in Seq(Texts), NEW cs, Chained(cs), NEW next \in Nat, next = Len(cs) + 1, NEW done \in Nat,
           NEW dest \in Seq(Texts), Applied(file, cs, next, done, dest), done <= Len(file)
    PROVE  NewFits(file, cs, dest \o SubSeq(file, done + 1, Len(file)))
  <1>1. cs \in Seq(ChunkSet) /\ Len(cs) \in Nat /\ DOMAIN cs = 1 .. Len(cs)
    BY DEF Chained
  <1>2. PICK n \in Nat, m \in Nat : n = Len(cs) /\ m = Len(file)
    <2>1. Len(file) \in Nat
      OBVIOUS
    <2>2. QED
      BY <1>1, <2>1
  <1>3. next - 1 = n /\ next - 2 = n - 1
    BY <1>2
  <1>4. PICK a \in Int : a = After(cs, n)
    BY <1>1, <1>2, ChunkTypes
  <1>5. /\ done = EndAfter(cs, n) /\ Len(dest) = done + a
        /\ \A d \in 1 .. n : \A i \in DOMAIN cs[d].ins : Has(dest, cs[d].to + i, cs[d].ins[i])
        /\ \A d \in 0 .. n - 1 : \A i \in EndAfter(cs, d) + 1 .. cs[d + 1].orig :
              Has(dest, i + After(cs, d), file[i])
    BY <1>3, <1>4 DEF Applied
  <1> DEFINE all == dest \o SubSeq(file, done + 1, m)
  <1>6. /\ all \in Seq(Texts) /\ Len(all) = m + a
        /\ \A x, y : Has(dest, x, y) => Has(all, x, y)
        /\ \A i \in done + 1 .. m : Has(all, i + a, file[i])
    <2>1. done <= m /\ m <= Len(file)
      BY <1>2
    <2>2. Copied(all, dest, file, done, m, a)
      BY <1>5, <2>1, LinesCopied
    <2> HIDE DEF all
    <2>3. QED
      BY <2>2 DEF Copied
  <1> HIDE DEF all
  <1>7. ASSUME NEW d \in 0 .. n, NEW i \in EndAfter(cs, d) + 1 .. Upto(file, cs, d)
        PROVE  Has(all, i + After(cs, d), file[i])
    <2>1. CASE d = n
      BY <1>2, <1>4, <1>5, <1>6, <2>1 DEF Upto
    <2>2. CASE d # n
      <3>1. d \in 0 .. n - 1
        BY <1>2, <2>2
      <3>2. Upto(file, cs, d) = cs[d + 1].orig
        BY <1>2, <2>2 DEF Upto
      <3>3. QED
        BY <1>5, <1>6, <3>1, <3>2
    <2>3. QED
      BY <2>1, <2>2
  <1>8. NewFits(file, cs, all)
    BY <1>1, <1>2, <1>4, <1>5, <1>6, <1>7 DEF NewFits
  <1>9. QED
    BY <1>2, <1>8 DEF all

-----------------------------------------------------------------------------
(* What the new content says. *)

LEMMA HunkTypes ==
    ASSUME NEW h \in HunkSet
    PROVE  /\ h.at \in Nat /\ h.old \in Seq(Texts) /\ h.new \in Seq(Texts) /\ h.shift \in Int
           /\ h.first \in Nat /\ h.last \in Nat
           /\ Len(h.old) \in Nat /\ HunkEnd(h) = h.at + Len(h.old)
           /\ HunkEnd(h) \in Nat /\ h.at <= HunkEnd(h)
           /\ DOMAIN h.old = 1 .. Len(h.old)
  <1>1. /\ h.at \in Nat /\ h.old \in Seq(Texts) /\ h.new \in Seq(Texts) /\ h.shift \in Int
        /\ h.first \in Nat /\ h.last \in Nat
    BY DEF HunkSet
  <1>2. Len(h.old) \in Nat /\ DOMAIN h.old = 1 .. Len(h.old)
    BY <1>1
  <1>3. PICK a \in Nat, n \in Nat : a = h.at /\ n = Len(h.old)
    BY <1>1, <1>2
  <1>4. HunkEnd(h) = a + n /\ a + n \in Nat /\ a <= a + n
    BY <1>3 DEF HunkEnd
  <1>5. QED
    BY <1>1, <1>2, <1>3, <1>4

\* A line between two chunks is in the new content, moved by the chunks before.
LEMMA LineMoved ==
    ASSUME NEW file \in Seq(Texts), NEW cs \in Seq(ChunkSet), NEW new, NewFits(file, cs, new),
           NEW x \in DOMAIN file, NEW c \in 0 .. Len(cs),
           c >= 1 => EndOf(cs[c]) < x, c < Len(cs) => x <= cs[c + 1].orig
    PROVE  Has(new, x + After(cs, c), file[x])
  <1>1. PICK n \in Nat, m \in Nat : n = Len(cs) /\ m = Len(file)
    <2>1. Len(cs) \in Nat /\ Len(file) \in Nat
      OBVIOUS
    <2>2. QED
      BY <2>1
  <1>2. c \in 0 .. n /\ x \in 1 .. m
    BY <1>1
  <1>3. PICK e \in Nat : e = EndAfter(cs, c)
    BY ChunkTypes
  <1>4. e < x
    <2>1. CASE c = 0
      BY <1>2, <1>3, <2>1 DEF EndAfter
    <2>2. CASE c # 0
      <3>1. c >= 1
        BY <1>2, <2>2
      <3>2. QED
        BY <1>3, <2>2, <3>1 DEF EndAfter
    <2>3. QED
      BY <2>1, <2>2
  <1>5. x <= Upto(file, cs, c) /\ Upto(file, cs, c) \in Nat
    <2>1. CASE c = n
      BY <1>1, <1>2, <2>1 DEF Upto
    <2>2. CASE c # n
      <3>1. c < n /\ c + 1 \in 1 .. n
        BY <1>2, <2>2
      <3>2. cs[c + 1].orig \in Nat
        BY <1>1, <3>1, ChunkTypes
      <3>3. QED
        BY <1>1, <2>2, <3>1, <3>2 DEF Upto
    <2>3. QED
      BY <2>1, <2>2
  <1>6. x \in e + 1 .. Upto(file, cs, c)
    BY <1>2, <1>4, <1>5
  <1>7. QED
    BY <1>3, <1>6 DEF NewFits

\* The chunks up to the last one of a hunk belong to this hunk and to those
\* before it, and the others to those after it.
LEMMA ChunkOwners ==
    ASSUME NEW file, NEW cs, NEW hs, NEW fz, FileFits(file, cs, hs, fz), NEW k \in 0 .. Len(hs)
    PROVE  /\ hs \in Seq(HunkSet) /\ cs \in Seq(ChunkSet) /\ LastOf(hs, k) \in 0 .. Len(cs)
           /\ \A c \in 1 .. LastOf(hs, k) : \E j \in 1 .. k : c \in hs[j].first .. hs[j].last
           /\ \A c \in LastOf(hs, k) + 1 .. Len(cs) :
                 \E j \in k + 1 .. Len(hs) : c \in hs[j].first .. hs[j].last
  <1>1. /\ hs \in Seq(HunkSet) /\ cs \in Seq(ChunkSet)
        /\ \A i \in DOMAIN hs : HunkFits(hs[i], cs)
        /\ \A i \in DOMAIN hs : \A j \in 1 .. i - 1 : hs[j].last < hs[i].first
        /\ \A c \in DOMAIN cs : \E i \in DOMAIN hs : c \in hs[i].first .. hs[i].last
    BY DEF FileFits, Chained
  <1>2. PICK n \in Nat, m \in Nat : n = Len(hs) /\ m = Len(cs)
    <2>1. Len(cs) \in Nat /\ Len(hs) \in Nat
      BY <1>1
    <2>2. QED
      BY <2>1
  <1>3. DOMAIN hs = 1 .. n /\ DOMAIN cs = 1 .. m
    BY <1>1, <1>2
  <1>4. \A i \in 1 .. n : hs[i] \in HunkSet
    BY <1>1, <1>3
  <1>5. \A i \in 1 .. n : hs[i].first \in Nat /\ hs[i].last \in Nat
    BY <1>4, HunkTypes
  <1>6. \A i \in 1 .. n : hs[i].first >= 1 /\ hs[i].first <= hs[i].last + 1 /\ hs[i].last <= m
    BY <1>1, <1>2, <1>3 DEF HunkFits
  <1>7. PICK l \in Nat : l = LastOf(hs, k) /\ l <= m
    <2>1. CASE k = 0
      <3>1. LastOf(hs, k) = 0
        BY <2>1 DEF LastOf
      <3>2. QED
        BY <1>2, <3>1
    <2>2. CASE k # 0
      <3>1. k \in 1 .. n /\ LastOf(hs, k) = hs[k].last
        BY <1>2, <2>2 DEF LastOf
      <3>2. QED
        BY <1>5, <1>6, <3>1
    <2>3. QED
      BY <2>1, <2>2
  <1>8. ASSUME NEW c \in 1 .. l PROVE \E j \in 1 .. k : c \in hs[j].first .. hs[j].last
    <2>1. c \in 1 .. m
      BY <1>7
    <2>2. PICK j \in 1 .. n : c \in hs[j].first .. hs[j].last
      BY <1>1, <1>3, <2>1
    <2>3. j <= k
      <3>1. SUFFICES ASSUME j > k PROVE FALSE
        BY <1>2
      <3>2. CASE k = 0
        <4>1. l = 0
          BY <1>7, <3>2 DEF LastOf
        <4>2. QED
          BY <4>1
      <3>3. CASE k # 0
        <4>1. k \in 1 .. j - 1 /\ l = hs[k].last
          BY <1>2, <1>7, <3>1, <3>3 DEF LastOf
        <4>2. l < hs[j].first
          BY <1>1, <1>3, <4>1
        <4>3. PICK f \in Nat : f = hs[j].first
          BY <1>5
        <4>4. l < f /\ f <= c
          BY <2>2, <4>2, <4>3
        <4>5. QED
          BY <4>4
      <3>4. QED
        BY <3>2, <3>3
    <2>4. j \in 1 .. k
      BY <1>2, <2>3
    <2>5. QED
      BY <2>2, <2>4
  <1>9. ASSUME NEW c \in l + 1 .. m PROVE \E j \in k + 1 .. n : c \in hs[j].first .. hs[j].last
    <2>1. c \in 1 .. m
      BY <1>7
    <2>2. PICK j \in 1 .. n : c \in hs[j].first .. hs[j].last
      BY <1>1, <1>3, <2>1
    <2>3. j > k
      <3>1. SUFFICES ASSUME j <= k PROVE FALSE
        BY <1>2
      <3>2. k \in 1 .. n /\ l = hs[k].last
        BY <1>2, <1>7, <3>1 DEF LastOf
      <3>3. PICK g \in Nat : g = hs[j].last
        BY <1>5
      <3>4. c <= g
        BY <2>2, <3>3
      <3>5. CASE j = k
        BY <3>2, <3>3, <3>4, <3>5
      <3>6. CASE j # k
        <4>1. j \in 1 .. k - 1
          BY <1>2, <3>1, <3>6
        <4>2. PICK f \in Nat : f = hs[k].first
          BY <1>5, <3>2
        <4>3. g < f
          BY <1>1, <1>3, <3>2, <3>3, <4>1, <4>2
        <4>4. f <= l + 1
          BY <1>6, <3>2, <4>2
        <4>5. QED
          BY <3>4, <4>3, <4>4
      <3>7. QED
        BY <3>5, <3>6
    <2>4. j \in k + 1 .. n
      BY <1>2, <2>3
    <2>5. QED
      BY <2>2, <2>4
  <1>10. QED
    BY <1>1, <1>2, <1>7, <1>8, <1>9

LEMMA LinesBetween ==
    ASSUME NEW file \in Seq(Texts), NEW cs, NEW hs, NEW fz, FileFits(file, cs, hs, fz),
           NEW new, NewFits(file, cs, new), InOrder(hs),
           NEW k \in 0 .. Len(hs), NEW x \in DOMAIN file, Between(hs, k, x)
    PROVE  new[x + GrownBy(hs, k)] = file[x]
  <1>1. /\ hs \in Seq(HunkSet) /\ cs \in Seq(ChunkSet)
        /\ \A i \in DOMAIN hs : HunkFits(hs[i], cs)
    BY DEF FileFits, Chained
  <1>2. PICK n \in Nat, m \in Nat : n = Len(hs) /\ m = Len(cs)
    <2>1. Len(cs) \in Nat /\ Len(hs) \in Nat
      BY <1>1
    <2>2. QED
      BY <2>1
  <1>3. DOMAIN hs = 1 .. n /\ \A i \in 1 .. n : hs[i] \in HunkSet
    BY <1>1, <1>2
  <1>4. PICK c \in 0 .. m : c = LastOf(hs, k)
    BY <1>2, ChunkOwners
  <1>5. \A d \in 1 .. m : EndOf(cs[d]) \in Nat /\ cs[d].orig \in Nat
    BY <1>1, <1>2, ChunkTypes
  <1>6. c >= 1 => EndOf(cs[c]) < x
    <2>1. SUFFICES ASSUME c >= 1 PROVE EndOf(cs[c]) < x
      OBVIOUS
    <2>2. c \in 1 .. LastOf(hs, k)
      BY <1>2, <1>4, <2>1
    <2>3. PICK j \in 1 .. k : c \in hs[j].first .. hs[j].last
      BY <2>2, ChunkOwners
    <2>4. j \in 1 .. n /\ k \in 1 .. n
      BY <1>2
    <2>5. PICK e \in Nat : e = EndOf(cs[c])
      BY <1>4, <1>5, <2>1
    <2>6. e <= HunkEnd(hs[j])
      BY <1>1, <1>3, <2>3, <2>4, <2>5 DEF HunkFits
    <2>7. HunkEnd(hs[j]) \in Nat /\ HunkEnd(hs[k]) \in Nat /\ hs[k].at \in Nat /\ hs[k].at <= HunkEnd(hs[k])
      <3>1. \A i \in 1 .. n : HunkEnd(hs[i]) \in Nat /\ hs[i].at \in Nat /\ hs[i].at <= HunkEnd(hs[i])
        BY <1>3, HunkTypes
      <3>2. QED
        BY <2>4, <3>1
    <2>8. HunkEnd(hs[j]) <= HunkEnd(hs[k])
      <3>1. CASE j = k
        BY <2>7, <3>1
      <3>2. CASE j # k
        <4>1. j \in 1 .. k - 1
          BY <2>4, <3>2
        <4>2. HunkEnd(hs[j]) <= hs[k].at
          BY <1>3, <2>4, <4>1 DEF InOrder
        <4>3. QED
          BY <2>7, <4>2
      <3>3. QED
        BY <3>1, <3>2
    <2>9. HunkEnd(hs[k]) < x
      BY <2>4 DEF Between
    <2>10. x \in Nat
      OBVIOUS
    <2>11. e < x
      BY <2>6, <2>7, <2>8, <2>9, <2>10
    <2>12. QED
      BY <2>5, <2>11
  <1>7. c < m => x <= cs[c + 1].orig
    <2>1. SUFFICES ASSUME c < m PROVE x <= cs[c + 1].orig
      OBVIOUS
    <2>2. c + 1 \in LastOf(hs, k) + 1 .. Len(cs) /\ c + 1 \in 1 .. m
      BY <1>2, <1>4, <2>1
    <2>3. PICK j \in k + 1 .. Len(hs) : c + 1 \in hs[j].first .. hs[j].last
      BY <2>2, ChunkOwners
    <2>4. j \in 1 .. n
      BY <1>2
    <2>5. PICK o \in Nat : o = cs[c + 1].orig
      BY <1>5, <2>2
    <2>6. hs[j].at <= o
      BY <1>1, <1>3, <2>3, <2>4, <2>5 DEF HunkFits
    <2>7. x <= hs[j].at
      BY <2>3 DEF Between
    <2>8. hs[j].at \in Nat
      BY <1>3, <2>4, HunkTypes
    <2>9. x \in Nat
      OBVIOUS
    <2>10. x <= o
      BY <2>6, <2>7, <2>8, <2>9
    <2>11. QED
      BY <2>5, <2>10
  <1>8. Has(new, x + After(cs, c), file[x])
    BY <1>1, <1>2, <1>6, <1>7, LineMoved
  <1>9. GrownBy(hs, k) = After(cs, c)
    BY <1>4, GrownIsAfter
  <1>10. QED
    BY <1>8, <1>9 DEF Has

LEMMA NewSideStands ==
    ASSUME NEW file \in Seq(Texts), NEW cs, NEW hs, NEW fz, FileFits(file, cs, hs, fz),
           NEW new, NewFits(file, cs, new), InOrder(hs),
           NEW k \in DOMAIN hs, Stands(hs[k].old, file, hs[k].at)
    PROVE  Stands(hs[k].new, new, hs[k].at + hs[k].shift)
  <1>1. /\ hs \in Seq(HunkSet) /\ cs \in Seq(ChunkSet)
        /\ \A i \in DOMAIN hs : HunkFits(hs[i], cs) /\ hs[i].first = LastOf(hs, i - 1) + 1
    BY DEF FileFits, Chained
  <1>2. PICK n \in Nat, m \in Nat : n = Len(hs) /\ m = Len(cs)
    <2>1. Len(cs) \in Nat /\ Len(hs) \in Nat
      BY <1>1
    <2>2. QED
      BY <2>1
  <1>3. DOMAIN hs = 1 .. n /\ \A i \in 1 .. n : hs[i] \in HunkSet
    BY <1>1, <1>2
  <1>4. PICK h \in HunkSet : h = hs[k]
    BY <1>3
  <1>5. /\ h.at \in Nat /\ h.shift \in Int /\ h.first \in Nat /\ h.last \in Nat
        /\ Len(h.old) \in Nat /\ HunkEnd(h) = h.at + Len(h.old)
        /\ DOMAIN h.old = 1 .. Len(h.old) /\ DOMAIN h.new = 1 .. Len(h.new) /\ Len(h.new) \in Nat
    BY HunkTypes
  <1>6. PICK a \in Nat, s \in Int, f \in Nat, l \in Nat, w \in Nat :
            a = h.at /\ s = h.shift /\ f = h.first /\ l = h.last /\ w = Len(h.old)
    BY <1>5
  <1>7. /\ f >= 1 /\ f <= l + 1 /\ l <= m
        /\ \A i \in DOMAIN h.new :
              \/ FromChunk(cs, f, l, a + s + i, h.new[i])
              \/ FromFile(cs, f, l, h.old, w, a, a + s + i, h.new[i])
    BY <1>1, <1>2, <1>4, <1>6 DEF HunkFits
  <1>8. k \in 1 .. n /\ k - 1 \in 0 .. Len(hs) /\ k \in 0 .. Len(hs)
    BY <1>2, <1>3
  <1>9. LastOf(hs, k) = l /\ LastOf(hs, k - 1) = f - 1
    <2>1. LastOf(hs, k) = l
      BY <1>4, <1>6, <1>8 DEF LastOf
    <2>2. LastOf(hs, k - 1) \in 0 .. m
      BY <1>2, <1>8, ChunkOwners
    <2>3. f = LastOf(hs, k - 1) + 1
      BY <1>1, <1>4, <1>6
    <2>4. QED
      BY <2>1, <2>2, <2>3
  <1>10. \A d \in 1 .. m : EndOf(cs[d]) \in Nat /\ cs[d].orig \in Nat
    BY <1>1, <1>2, ChunkTypes
  <1>11. ASSUME NEW i \in DOMAIN h.new, FromFile(cs, f, l, h.old, w, a, a + s + i, h.new[i])
         PROVE  Has(new, a + s + i, h.new[i])
    <2>1. PICK c \in f - 1 .. l, y \in 1 .. w :
              /\ h.new[i] = h.old[y] /\ a + s + i = a + y + After(cs, c)
              /\ c >= f => EndOf(cs[c]) < a + y
              /\ c < l => a + y <= cs[c + 1].orig
      BY <1>11 DEF FromFile
    <2>2. c \in 0 .. m /\ c \in Int /\ y \in Nat
      BY <1>7
    <2>3. a + y \in DOMAIN file /\ file[a + y] = h.old[y]
      BY <1>4, <1>5, <1>6 DEF Stands
    <2>4. c >= 1 => EndOf(cs[c]) < a + y
      <3>1. SUFFICES ASSUME c >= 1 PROVE EndOf(cs[c]) < a + y
        OBVIOUS
      <3>2. CASE c >= f
        BY <2>1, <3>2
      <3>3. CASE ~ (c >= f)
        <4>1. c \in 1 .. f - 1
          BY <2>2, <3>1, <3>3
        <4>2. PICK j \in 1 .. k - 1 : c \in hs[j].first .. hs[j].last
          BY <1>8, <1>9, <4>1, ChunkOwners
        <4>3. j \in 1 .. n
          BY <1>8
        <4>4. PICK e \in Nat : e = EndOf(cs[c])
          BY <1>10, <2>2, <3>1
        <4>5. e <= HunkEnd(hs[j])
          BY <1>1, <1>3, <4>2, <4>3, <4>4 DEF HunkFits
        <4>6. HunkEnd(hs[j]) <= a
          BY <1>4, <1>6, <4>2 DEF InOrder
        <4>7. HunkEnd(hs[j]) \in Nat
          BY <1>3, <4>3, HunkTypes
        <4>8. e < a + y
          BY <2>2, <4>5, <4>6, <4>7
        <4>9. QED
          BY <4>4, <4>8
      <3>4. QED
        BY <3>2, <3>3
    <2>5. c < m => a + y <= cs[c + 1].orig
      <3>1. SUFFICES ASSUME c < m PROVE a + y <= cs[c + 1].orig
        OBVIOUS
      <3>2. CASE c < l
        BY <2>1, <3>2
      <3>3. CASE ~ (c < l)
        <4>1. c = l /\ c + 1 \in LastOf(hs, k) + 1 .. Len(cs) /\ c + 1 \in 1 .. m
          BY <1>2, <1>7, <1>9, <2>2, <3>1, <3>3
        <4>2. PICK j \in k + 1 .. Len(hs) : c + 1 \in hs[j].first .. hs[j].last
          BY <1>8, <4>1, ChunkOwners
        <4>3. j \in 1 .. n /\ k \in 1 .. j - 1
          BY <1>2, <1>8
        <4>4. PICK o \in Nat : o = cs[c + 1].orig
          BY <1>10, <4>1
        <4>5. hs[j].at <= o
          BY <1>1, <1>3, <4>2, <4>3, <4>4 DEF HunkFits
        <4>6. HunkEnd(h) <= hs[j].at
          BY <1>3, <1>4, <4>3 DEF InOrder
        <4>7. hs[j].at \in Nat /\ HunkEnd(h) = a + w
          BY <1>3, <1>5, <1>6, <4>3, HunkTypes
        <4>8. a + y <= o
          BY <2>2, <4>5, <4>6, <4>7
        <4>9. QED
          BY <4>4, <4>8
      <3>4. QED
        BY <3>2, <3>3
    <2>6. Has(new, (a + y) + After(cs, c), file[a + y])
      BY <1>1, <1>2, <2>2, <2>3, <2>4, <2>5, LineMoved
    <2>7. QED
      BY <2>1, <2>3, <2>6
  <1>12. ASSUME NEW i \in DOMAIN h.new, FromChunk(cs, f, l, a + s + i, h.new[i])
         PROVE  Has(new, a + s + i, h.new[i])
    <2>1. PICK c \in f .. l : \E y \in DOMAIN cs[c].ins : a + s + i = cs[c].to + y /\ h.new[i] = cs[c].ins[y]
      BY <1>12 DEF FromChunk
    <2>2. c \in DOMAIN cs
      BY <1>1, <1>2, <1>7
    <2>3. \A y \in DOMAIN cs[c].ins : Has(new, cs[c].to + y, cs[c].ins[y])
      BY <2>2 DEF NewFits
    <2>4. QED
      BY <2>1, <2>3
  <1>13. \A i \in DOMAIN h.new : Has(new, a + s + i, h.new[i])
    BY <1>7, <1>11, <1>12
  <1>14. QED
    BY <1>4, <1>6, <1>13 DEF Has, Stands

-----------------------------------------------------------------------------
(* The invariant. *)

LEMMA LineTypes ==
    ASSUME NEW x \in PatchLines
    PROVE  x.kind \in InHunk \cup {"at"} => x.text \in Texts
  BY DEF PatchLines, InHunk, Marks

\* The last line is an "end": after every other one there is a line.
LEMMA NextLine ==
    ASSUME PatchTypes, NEW i \in DOMAIN lines, lines[i].kind # "end"
    PROVE  i + 1 \in DOMAIN lines
  <1>1. DOMAIN lines = 1 .. Len(lines) /\ Len(lines) \in Nat
    BY DEF PatchTypes
  <1>2. i # Len(lines)
    BY DEF PatchTypes
  <1>3. QED
    BY <1>1, <1>2

LEMMA PatchBegins == PatchInit => PatchInv
  <1> SUFFICES ASSUME PatchInit PROVE PatchInv
    OBVIOUS
  <1> USE DEF PatchInit
  <1>1. PatchTypes
    <2>1. lines \in Seq(PatchLines) /\ lines # <<>> /\ lines[Len(lines)].kind = "end"
      BY PatchAssumption
    <2>2. 1 \in DOMAIN lines
      BY <2>1
    <2>3. \A p \in DOMAIN orig : orig[p] \in Seq(Texts)
      BY PatchAssumption
    <2>4. QED
      BY <2>1, <2>2, <2>3 DEF PatchTypes
  <1>2. FileAtWork
    BY DEF FileAtWork
  <1>3. ActionsFit
    BY DEF ActionsFit
  <1>4. CommitFits
    BY DEF CommitFits
  <1>5. QED
    BY <1>1, <1>2, <1>3, <1>4 DEF PatchInv

\* What has failed stays as it is.
LEMMA StopsKeepsInv ==
    ASSUME PatchInv, NEW how \in {"failed", "panicked"}, Stops(how)
    PROVE  PatchInv'
  <1> USE DEF Stops, PatchInv
  <1>1. PatchTypes'
    BY DEF PatchTypes, Ended, NeededFiles
  <1>2. FileAtWork'
    BY DEF FileAtWork
  <1>3. ActionsFit'
    BY DEF ActionsFit
  <1>4. CommitFits'
    BY DEF CommitFits
  <1>5. QED
    BY <1>1, <1>2, <1>3, <1>4

LEMMA CheckKeepsInv == ASSUME PatchInv, Check PROVE PatchInv'
  <1> USE DEF Check, PatchInv
  <1>1. PatchTypes'
    BY DEF PatchTypes, Ended, NeededFiles
  <1>2. FileAtWork'
    BY DEF FileAtWork
  <1>3. ActionsFit'
    BY DEF ActionsFit
  <1>4. CommitFits'
    BY DEF CommitFits
  <1>5. QED
    BY <1>1, <1>2, <1>3, <1>4

LEMMA ParseUpdateKeepsInv == ASSUME PatchInv, ParseUpdate PROVE PatchInv'
  <1>1. CASE Line.path \in DOMAIN actions
    BY <1>1, StopsKeepsInv DEF ParseUpdate, Fails
  <1>2. CASE Line.path \notin DOMAIN actions
    <2> DEFINE moves == lines[at + 1].kind = "move"
    <2>1. /\ mode = "parse" /\ mode' = "update" /\ lines[at].kind = "update"
          /\ path' = lines[at].path
          /\ at' = IF moves THEN at + 2 ELSE at + 1
          /\ index' = 0 /\ chunks' = <<>> /\ hunks' = <<>>
          /\ UNCHANGED <<lines, orig, section, fuzz, actions, output, commit>>
      BY <1>2 DEF ParseUpdate, Line
    <2>2. PatchTypes /\ at \in DOMAIN lines /\ DOMAIN lines \subseteq Nat
      BY DEF PatchInv, PatchTypes
    <2>3. at + 1 \in DOMAIN lines
      BY <2>1, <2>2, NextLine
    <2>4. moves => (at + 1) + 1 \in DOMAIN lines
      BY <2>2, <2>3, NextLine
    <2>5. at' \in DOMAIN lines
      BY <2>1, <2>2, <2>3, <2>4
    <2>6. PatchTypes'
      BY <2>1, <2>2, <2>5 DEF PatchTypes, NeededFiles
    <2>7. lines[at].path \in DOMAIN orig
      BY <2>1, <2>2 DEF PatchTypes, NeededFiles
    <2>8. FileAtWork'
      BY <2>1, <2>7, NoHunks DEF FileAtWork
    <2>9. ActionsFit'
      BY <2>1 DEF ActionsFit, PatchInv
    <2>10. CommitFits'
      BY <2>1 DEF CommitFits, PatchInv
    <2>11. QED
      BY <2>6, <2>8, <2>9, <2>10 DEF PatchInv
  <1>3. QED
    BY <1>1, <1>2

LEMMA ParseDeleteKeepsInv == ASSUME PatchInv, ParseDelete PROVE PatchInv'
  <1>1. CASE Line.path \in DOMAIN actions
    BY <1>1, StopsKeepsInv DEF ParseDelete, Fails
  <1>2. CASE Line.path \notin DOMAIN actions
    <2>1. /\ mode = "parse" /\ lines[at].kind = "delete"
          /\ Act(lines[at].path, [type |-> "delete"])
          /\ at' = at + 1
          /\ UNCHANGED <<mode, lines, orig, index, path, moveTo, section, chunks, hunks, fuzz, output,
                         commit>>
      BY <1>2 DEF ParseDelete, Line
    <2>2. PatchTypes /\ at \in DOMAIN lines
      BY DEF PatchInv, PatchTypes
    <2>3. at + 1 \in DOMAIN lines
      BY <2>1, <2>2, NextLine
    <2>4. PatchTypes'
      BY <2>1, <2>2, <2>3 DEF PatchTypes, NeededFiles
    <2>5. FileAtWork'
      BY <2>1 DEF FileAtWork
    <2>6. ActionsFit'
      BY <2>1 DEF ActionsFit, PatchInv, Act
    <2>7. CommitFits'
      BY <2>1 DEF CommitFits, PatchInv
    <2>8. QED
      BY <2>4, <2>5, <2>6, <2>7 DEF PatchInv
  <1>3. QED
    BY <1>1, <1>2

LEMMA ParseAddKeepsInv == ASSUME PatchInv, ParseAdd PROVE PatchInv'
  <1> DEFINE ends == {j \in at + 1 .. Len(lines) : lines[j].kind \in EndsFile}
             end  == Min(ends)
             body == SubSeq(lines, at + 1, end - 1)
             text == [i \in DOMAIN body |-> body[i].text]
  <1>1. \/ Fails
        \/ /\ Act(Line.path, [type |-> "add", new |-> text])
           /\ at' = end
           /\ UNCHANGED <<mode, lines, orig, index, path, moveTo, section, chunks, hunks, fuzz, output,
                          commit>>
    BY DEF ParseAdd
  <1>2. mode = "parse" /\ lines[at].kind = "add"
    BY DEF ParseAdd, Line
  <1>3. CASE Fails
    BY <1>3, StopsKeepsInv DEF Fails
  <1>4. CASE ~ Fails
    <2>1. PatchTypes /\ at \in DOMAIN lines
      BY DEF PatchInv, PatchTypes
    <2>2. at + 1 \in DOMAIN lines
      BY <1>2, <2>1, NextLine
    <2>3. /\ DOMAIN lines = 1 .. Len(lines) /\ Len(lines) \in Nat
          /\ lines[Len(lines)].kind \in EndsFile
      BY <2>1 DEF PatchTypes, EndsFile
    <2>4. Len(lines) \in ends
      BY <2>1, <2>2, <2>3
    <2>5. ends \subseteq DOMAIN lines /\ ends \subseteq Nat
      BY <2>2, <2>3
    <2>6. Min(ends) \in ends
      <3> HIDE DEF ends
      <3>1. QED
        BY <2>4, <2>5, MinIsIn
    <2>7. end \in DOMAIN lines
      BY <2>5, <2>6
    <2> HIDE DEF ends, end, body, text
    <2>8. PatchTypes'
      BY <1>1, <1>4, <2>1, <2>7 DEF PatchTypes, NeededFiles
    <2>9. FileAtWork'
      BY <1>1, <1>2, <1>4 DEF FileAtWork
    <2>10. ActionsFit'
      BY <1>1, <1>4 DEF ActionsFit, PatchInv, Act
    <2>11. CommitFits'
      BY <1>1, <1>2, <1>4 DEF CommitFits, PatchInv
    <2>12. QED
      BY <2>8, <2>9, <2>10, <2>11 DEF PatchInv
  <1>5. QED
    BY <1>3, <1>4

LEMMA ParseEndKeepsInv == ASSUME PatchInv, ParseEnd PROVE PatchInv'
  <1> USE DEF ParseEnd, PatchInv
  <1>1. PatchTypes'
    BY DEF PatchTypes, NeededFiles
  <1>2. FileAtWork'
    BY DEF FileAtWork
  <1>3. ActionsFit'
    BY DEF ActionsFit
  <1>4. CommitFits'
    BY DEF CommitFits
  <1>5. QED
    BY <1>1, <1>2, <1>3, <1>4

LEMMA UpdateEndsKeepsInv == ASSUME PatchInv, UpdateEnds PROVE PatchInv'
  <1> DEFINE action == [type |-> "update", chunks |-> chunks, hunks |-> hunks, to |-> moveTo]
  <1>1. /\ mode = "update" /\ mode' = "parse" /\ Act(path, action)
        /\ UNCHANGED <<lines, orig, at, index, path, moveTo, section, chunks, hunks, fuzz, output, commit>>
    BY DEF UpdateEnds
  <1>2. PatchTypes'
    BY <1>1 DEF PatchTypes, NeededFiles, PatchInv
  <1>3. FileAtWork'
    BY <1>1 DEF FileAtWork
  <1>4. ActionsFit'
    <2>1. path \in DOMAIN orig /\ FileFits(orig[path], action.chunks, action.hunks, fuzz)
      BY <1>1 DEF PatchInv, FileAtWork
    <2> HIDE DEF action
    <2>2. QED
      BY <1>1, <2>1 DEF ActionsFit, PatchInv, Act
  <1>5. CommitFits'
    BY <1>1 DEF CommitFits, PatchInv
  <1>6. QED
    BY <1>2, <1>3, <1>4, <1>5 DEF PatchInv

LEMMA SectionBeginsKeepsInv == ASSUME PatchInv, SectionBegins PROVE PatchInv'
  <1>1. CASE Line.kind \notin {"at", "@@"} /\ index # 0
    BY <1>1, StopsKeepsInv DEF SectionBegins, Fails
  <1>2. CASE ~ (Line.kind \notin {"at", "@@"} /\ index # 0)
    <2>1. PICK head \in {IF lines[at].kind = "at" THEN AfterHeading(orig[path], index, lines[at].text)
                         ELSE [i |-> index, fuzz |-> 0]} :
            /\ mode' = "section" /\ section' = NoSection
            /\ index' = head.i /\ fuzz' = fuzz + head.fuzz
            /\ at' = AfterHead(at)
            /\ UNCHANGED <<lines, orig, path, moveTo, chunks, hunks, actions, output, commit>>
      BY <1>2 DEF SectionBegins, Line
    <2>2. PatchTypes /\ at \in DOMAIN lines /\ index \in Nat /\ fuzz \in Nat /\ mode = "update"
      BY DEF PatchInv, PatchTypes, SectionBegins
    <2>3. path \in DOMAIN orig /\ FileFits(orig[path], chunks, hunks, fuzz)
      BY <2>2 DEF PatchInv, FileAtWork
    <2>4. head.i \in Nat /\ head.fuzz \in Nat
      <3>1. CASE lines[at].kind = "at"
        <4>1. orig[path] \in Seq(Texts) /\ lines[at] \in PatchLines
          BY <2>2, <2>3 DEF PatchTypes
        <4>2. lines[at].text \in Texts
          BY <3>1, <4>1, LineTypes
        <4>3. QED
          BY <2>1, <2>2, <3>1, <4>1, <4>2, HeadingType
      <3>2. CASE lines[at].kind # "at"
        BY <2>1, <2>2, <3>2
      <3>3. QED
        BY <3>1, <3>2
    <2>5. fuzz' \in Nat /\ (fuzz' = 0 => fuzz = 0)
      BY <2>1, <2>2, <2>4
    <2>6. at' \in DOMAIN lines
      BY <2>1, <2>2, NextLine DEF AfterHead
    <2>7. PatchTypes'
      BY <2>1, <2>2, <2>4, <2>5, <2>6 DEF PatchTypes, NeededFiles
    <2>8. FileAtWork'
      <3>1. FileFits(orig[path], chunks, hunks, fuzz')
        BY <2>3, <2>5, MoreFuzz
      <3>2. QED
        BY <2>1, <2>3, <3>1, NothingRead DEF FileAtWork
    <2>9. ActionsFit'
      BY <2>1, <2>5, MoreFuzz DEF ActionsFit, PatchInv
    <2>10. CommitFits'
      BY <2>1, <2>2 DEF CommitFits, PatchInv
    <2>11. QED
      BY <2>7, <2>8, <2>9, <2>10 DEF PatchInv
  <1>3. QED
    BY <1>1, <1>2

LEMMA PeekLineKeepsInv == ASSUME PatchInv, PeekLine PROVE PatchInv'
  <1>1. /\ mode = "section" /\ lines[at].kind \in InHunk
        /\ section' = CASE lines[at].kind = "-" -> Delete(section, lines[at].text)
                        [] lines[at].kind = "+" -> Add(section, lines[at].text)
                        [] lines[at].kind = " " -> Keep(section, lines[at].text)
        /\ at' = at + 1
        /\ UNCHANGED <<mode, lines, orig, index, path, moveTo, chunks, hunks, fuzz, actions, output, commit>>
    BY DEF PeekLine, Line
  <1>2. PatchTypes /\ at \in DOMAIN lines /\ lines[at] \in PatchLines
    BY DEF PatchInv, PatchTypes
  <1>3. at + 1 \in DOMAIN lines
    BY <1>1, <1>2, NextLine DEF InHunk
  <1>4. PatchTypes'
    BY <1>1, <1>2, <1>3 DEF PatchTypes, NeededFiles
  <1>5. SectionFits(section')
    <2>1. SectionFits(section)
      BY <1>1 DEF PatchInv, FileAtWork
    <2>2. PICK text \in Texts : text = lines[at].text
      BY <1>1, <1>2, LineTypes
    <2>3. SectionFits(Delete(section, text)) /\ SectionFits(Add(section, text)) /\ SectionFits(Keep(section, text))
      BY <2>1, SectionSteps
    <2>4. \/ section' = Delete(section, text)
          \/ section' = Add(section, text)
          \/ section' = Keep(section, text)
      BY <1>1, <2>2 DEF InHunk
    <2>5. QED
      BY <2>3, <2>4
  <1>6. FileAtWork'
    BY <1>1, <1>5 DEF FileAtWork, PatchInv
  <1>7. ActionsFit'
    BY <1>1 DEF ActionsFit, PatchInv
  <1>8. CommitFits'
    BY <1>1 DEF CommitFits, PatchInv
  <1>9. QED
    BY <1>4, <1>6, <1>7, <1>8 DEF PatchInv

LEMMA SectionEndsKeepsInv == ASSUME PatchInv, SectionEnds PROVE PatchInv'
  <1> DEFINE eof == lines[at].kind = "eof"
             s   == EndRun(section)
  <1>1. mode = "section"
    BY DEF SectionEnds
  <1>2. CASE eof /\ Len(s.old) > Len(orig[path])
    BY <1>2, StopsKeepsInv DEF SectionEnds, Line
  <1>3. CASE ~ (eof /\ Len(s.old) > Len(orig[path]))
    <2>1. PICK here \in {FindContext(orig[path], s.old, index, eof)} :
                IF here.i = -1 THEN Fails
                ELSE /\ mode' = "update"
                     /\ Placed(s, here)
                     /\ at' = IF eof THEN at + 1 ELSE at
                     /\ UNCHANGED <<lines, orig, path, moveTo, section, actions, output, commit>>
      BY <1>3 DEF SectionEnds, Line
    <2>2. PatchTypes /\ at \in DOMAIN lines /\ index \in Nat /\ fuzz \in Nat
      BY DEF PatchInv, PatchTypes
    <2>3. path \in DOMAIN orig /\ FileFits(orig[path], chunks, hunks, fuzz) /\ SectionFits(section)
      BY <1>1 DEF PatchInv, FileAtWork
    <2>4. PICK file \in Seq(Texts) : file = orig[path]
      BY <2>2, <2>3 DEF PatchTypes
    <2>5. /\ s.old \in Seq(Texts) /\ s.new \in Seq(Texts) /\ s.chunks \in Seq(ChunkSet)
          /\ PartsFit(s.old, s.new, <<>>, <<>>, s.chunks)
      <3>1. SectionFits(s) /\ s.del = <<>> /\ s.ins = <<>>
        BY <2>3, RunCloses
      <3> HIDE DEF s
      <3>2. QED
        BY <3>1, SectionTypes DEF SectionFits
    <2> HIDE DEF s
    <2>6. Found(file, s.old, here)
      <3>1. eof => Len(s.old) <= Len(file)
        <4>1. Len(s.old) \in Nat /\ Len(file) \in Nat
          BY <2>5
        <4>2. QED
          BY <1>3, <2>4, <4>1
      <3>2. eof \in BOOLEAN
        OBVIOUS
      <3> HIDE DEF eof
      <3>3. QED
        BY <2>1, <2>2, <2>4, <2>5, <3>1, <3>2, ContextFinds
    <2>7. CASE here.i = -1
      BY <2>1, <2>7, StopsKeepsInv DEF Fails
    <2>8. CASE here.i # -1
      <3>1. /\ mode' = "update" /\ Placed(s, here)
            /\ at' = IF eof THEN at + 1 ELSE at
            /\ UNCHANGED <<lines, orig, path, moveTo, section, actions, output, commit>>
        BY <2>1, <2>8
      <3>2. here.i \in Nat /\ here.fuzz \in Nat /\ (here.fuzz = 0 => Stands(s.old, file, here.i))
        BY <2>6, <2>8 DEF Found
      <3>3. PICK i \in Nat, f \in Nat : i = here.i /\ f = here.fuzz
        BY <3>2
      <3>4. PICK g : g = Grown(hunks)
        OBVIOUS
      <3>5. /\ chunks' = chunks \o ChunksAt(s.chunks, i, g)
            /\ hunks' = IF s.old = <<>> /\ s.new = <<>> THEN hunks
                        ELSE Append(hunks, Hunk(i, s.old, s.new, g, Len(chunks) + 1,
                                                Len(chunks) + Len(s.chunks)))
            /\ index' = i + Len(s.old)
            /\ fuzz' = fuzz + f
        BY <3>1, <3>3, <3>4 DEF Placed
      <3>6. index' \in Nat /\ fuzz' \in Nat /\ (fuzz' = 0 => fuzz = 0)
        <4>1. Len(s.old) \in Nat
          BY <2>5
        <4>2. QED
          BY <2>2, <3>5, <4>1
      <3>7. at' \in DOMAIN lines
        BY <2>2, <3>1, NextLine
      <3>8. PatchTypes'
        BY <1>1, <2>2, <3>1, <3>6, <3>7 DEF PatchTypes, NeededFiles
      <3>9. g = After(chunks, Len(chunks))
        <4>1. Len(hunks) \in 0 .. Len(hunks) /\ LastOf(hunks, Len(hunks)) = Len(chunks)
          BY <2>3 DEF FileFits
        <4>2. QED
          BY <2>3, <3>4, <4>1, GrownIsAfter DEF Grown
      <3>10. FileFits(file, chunks', hunks', fuzz')
        <4>1. FileFits(file, chunks, hunks, fuzz)
          BY <2>3, <2>4
        <4>2. f = 0 => Stands(s.old, file, i)
          BY <3>2, <3>3
        <4>3. FileFits(file, chunks \o ChunksAt(s.chunks, i, g),
                       IF s.old = <<>> /\ s.new = <<>> THEN hunks
                       ELSE Append(hunks, Hunk(i, s.old, s.new, g, Len(chunks) + 1,
                                               Len(chunks) + Len(s.chunks))),
                       fuzz + f)
          BY <2>2, <2>5, <3>3, <3>9, <4>1, <4>2, SectionPlaced
        <4>4. QED
          BY <3>5, <4>3
      <3>11. FileAtWork'
        BY <2>3, <2>4, <3>1, <3>10 DEF FileAtWork
      <3>12. ActionsFit'
        BY <3>1, <3>6, MoreFuzz DEF ActionsFit, PatchInv
      <3>13. CommitFits'
        BY <1>1, <3>1 DEF CommitFits, PatchInv
      <3>14. QED
        BY <3>8, <3>11, <3>12, <3>13 DEF PatchInv
    <2>9. QED
      BY <2>7, <2>8
  <1>4. QED
    BY <1>2, <1>3

LEMMA CommitBeginsKeepsInv == ASSUME PatchInv, CommitBegins PROVE PatchInv'
  <1>1. CASE fuzz > 3
    BY <1>1, StopsKeepsInv DEF CommitBegins, Fails
  <1>2. CASE ~ (fuzz > 3)
    <2>1. /\ mode = "parsed" /\ mode' = "commit"
          /\ UNCHANGED <<lines, orig, at, index, path, moveTo, section, chunks, hunks, fuzz, actions,
                         output, commit>>
      BY <1>2 DEF CommitBegins
    <2>2. PatchTypes'
      BY <2>1 DEF PatchTypes, NeededFiles, PatchInv
    <2>3. FileAtWork'
      BY <2>1 DEF FileAtWork
    <2>4. ActionsFit'
      BY <2>1 DEF ActionsFit, PatchInv
    <2>5. CommitFits'
      BY <2>1 DEF CommitFits, PatchInv
    <2>6. QED
      BY <2>2, <2>3, <2>4, <2>5 DEF PatchInv
  <1>3. QED
    BY <1>1, <1>2

LEMMA CommitEndsKeepsInv == ASSUME PatchInv, CommitEnds PROVE PatchInv'
  <1> USE DEF CommitEnds, PatchInv
  <1>1. PatchTypes'
    BY DEF PatchTypes, Ended, NeededFiles
  <1>2. FileAtWork'
    BY DEF FileAtWork
  <1>3. ActionsFit'
    BY DEF ActionsFit
  <1>4. CommitFits'
    BY DEF CommitFits
  <1>5. QED
    BY <1>1, <1>2, <1>3, <1>4

LEMMA CommitWholeKeepsInv == ASSUME PatchInv, NEW p \in DOMAIN actions, CommitWhole(p) PROVE PatchInv'
  <1>1. /\ mode = "commit" /\ actions[p].type # "update"
        /\ commit' = [q \in DOMAIN commit \cup {p} |-> IF q = p THEN actions[p] ELSE commit[q]]
        /\ UNCHANGED <<mode, lines, orig, at, index, path, moveTo, section, chunks, hunks, fuzz, actions,
                       output>>
    BY DEF CommitWhole, Change
  <1>2. PatchTypes'
    BY <1>1 DEF PatchTypes, NeededFiles, PatchInv
  <1>3. FileAtWork'
    BY <1>1 DEF FileAtWork
  <1>4. ActionsFit'
    BY <1>1 DEF ActionsFit, PatchInv
  <1>5. CommitFits'
    BY <1>1 DEF CommitFits, PatchInv
  <1>6. QED
    BY <1>2, <1>3, <1>4, <1>5 DEF PatchInv

LEMMA CommitUpdateKeepsInv == ASSUME PatchInv, NEW p \in DOMAIN actions, CommitUpdate(p) PROVE PatchInv'
  <1>1. /\ mode = "commit" /\ actions[p].type = "update"
        /\ mode' = "apply" /\ path' = p /\ output' = NoOutput
        /\ UNCHANGED <<lines, orig, at, index, moveTo, section, chunks, hunks, fuzz, actions, commit>>
    BY DEF CommitUpdate
  <1>2. PatchTypes'
    BY <1>1 DEF PatchTypes, NeededFiles, PatchInv
  <1>3. FileAtWork'
    BY <1>1 DEF FileAtWork
  <1>4. ActionsFit'
    BY <1>1 DEF ActionsFit, PatchInv
  <1>5. OutputFits(orig[p], actions[p].chunks, NoOutput)
    BY <1>1, NothingApplied DEF PatchInv, ActionsFit, FileFits
  <1>6. CommitFits'
    BY <1>1, <1>5 DEF CommitFits, PatchInv
  <1>7. QED
    BY <1>2, <1>3, <1>4, <1>6 DEF PatchInv

LEMMA ApplyChunkKeepsInv == ASSUME PatchInv, ApplyChunk PROVE PatchInv'
  <1>1. PICK c : /\ c = actions[path].chunks[output.next]
                 /\ IF c.orig > Len(orig[path]) \/ output.index > c.orig THEN Fails
                    ELSE /\ output' = [next  |-> output.next + 1,
                                       index |-> EndOf(c),
                                       dest  |-> output.dest \o SubSeq(orig[path], output.index + 1, c.orig)
                                                   \o c.ins]
                         /\ UNCHANGED <<mode, lines, orig, at, index, path, moveTo, section, chunks, hunks,
                                        fuzz, actions, commit>>
    BY DEF ApplyChunk
  <1>2. mode = "apply" /\ output.next \in DOMAIN actions[path].chunks
    BY DEF ApplyChunk
  <1>3. CASE c.orig > Len(orig[path]) \/ output.index > c.orig
    BY <1>1, <1>3, StopsKeepsInv DEF Fails
  <1>4. CASE ~ (c.orig > Len(orig[path]) \/ output.index > c.orig)
    <2>1. /\ output' = [next  |-> output.next + 1, index |-> EndOf(c),
                        dest  |-> output.dest \o SubSeq(orig[path], output.index + 1, c.orig) \o c.ins]
          /\ UNCHANGED <<mode, lines, orig, at, index, path, moveTo, section, chunks, hunks, fuzz, actions,
                         commit>>
      BY <1>1, <1>4
    <2>2. /\ path \in DOMAIN actions /\ actions[path].type = "update"
          /\ OutputFits(orig[path], actions[path].chunks, output)
      BY <1>2 DEF PatchInv, CommitFits
    <2>3. path \in DOMAIN orig /\ Chained(actions[path].chunks)
      BY <2>2 DEF PatchInv, ActionsFit, FileFits
    <2>4. PICK file \in Seq(Texts) : file = orig[path]
      BY <2>3 DEF PatchInv, PatchTypes
    <2>5. PICK cs \in Seq(ChunkSet) : cs = actions[path].chunks
      BY <2>3 DEF Chained
    <2>6. PICK next \in Nat, done \in Nat, dest \in Seq(Texts) :
              next = output.next /\ done = output.index /\ dest = output.dest
      BY <2>2, <2>5 DEF OutputFits
    <2>7. next \in 1 .. Len(cs) /\ Applied(file, cs, next, done, dest) /\ Len(cs) \in Nat
      BY <1>2, <2>2, <2>4, <2>5, <2>6 DEF OutputFits
    <2>8. c \in ChunkSet /\ c = cs[next] /\ EndOf(c) \in Nat
      <3>1. c = cs[next]
        BY <1>1, <2>5, <2>6
      <3>2. cs[next] \in ChunkSet
        BY <2>7
      <3>3. EndOf(cs[next]) \in Nat
        BY <2>7, ChunkTypes
      <3>4. QED
        BY <3>1, <3>2, <3>3
    <2>9. c.orig <= Len(file) /\ done <= c.orig
      <3>1. c.orig \in Nat /\ Len(file) \in Nat
        BY <2>8 DEF ChunkSet
      <3>2. QED
        BY <1>4, <2>4, <2>6, <3>1
    <2> DEFINE more == dest \o SubSeq(file, done + 1, c.orig) \o c.ins
    <2>10. more \in Seq(Texts) /\ Applied(file, cs, next + 1, EndOf(c), more)
      BY <2>3, <2>5, <2>7, <2>8, <2>9, ChunkApplied
    <2>11. output'.next = next + 1 /\ output'.index = EndOf(c) /\ output'.dest = more
      BY <2>1, <2>4, <2>6
    <2> HIDE DEF more
    <2>12. OutputFits(file, cs, output')
      BY <2>7, <2>8, <2>10, <2>11 DEF OutputFits
    <2>13. PatchTypes'
      BY <2>1 DEF PatchTypes, NeededFiles, PatchInv
    <2>14. FileAtWork'
      BY <1>2, <2>1 DEF FileAtWork
    <2>15. ActionsFit'
      BY <2>1 DEF ActionsFit, PatchInv
    <2>16. CommitFits'
      BY <1>2, <2>1, <2>2, <2>4, <2>5, <2>12 DEF CommitFits, PatchInv
    <2>17. QED
      BY <2>13, <2>14, <2>15, <2>16 DEF PatchInv
  <1>5. QED
    BY <1>3, <1>4

LEMMA ApplyEndsKeepsInv == ASSUME PatchInv, ApplyEnds PROVE PatchInv'
  <1>1. mode = "apply" /\ output.next \notin DOMAIN actions[path].chunks
    BY DEF ApplyEnds
  <1>2. CASE output.index > Len(orig[path])
    BY <1>2, StopsKeepsInv DEF ApplyEnds
  <1>3. CASE ~ (output.index > Len(orig[path]))
    <2> DEFINE change == [type |-> "update", to |-> actions[path].to,
                          new |-> output.dest \o SubSeq(orig[path], output.index + 1, Len(orig[path]))]
    <2>1. /\ mode' = "commit"
          /\ commit' = [q \in DOMAIN commit \cup {path} |-> IF q = path THEN change ELSE commit[q]]
          /\ UNCHANGED <<lines, orig, at, index, path, moveTo, section, chunks, hunks, fuzz, actions, output>>
      BY <1>3 DEF ApplyEnds, Change
    <2>2. /\ path \in DOMAIN actions /\ actions[path].type = "update"
          /\ OutputFits(orig[path], actions[path].chunks, output)
      BY <1>1 DEF PatchInv, CommitFits
    <2>3. path \in DOMAIN orig /\ Chained(actions[path].chunks)
      BY <2>2 DEF PatchInv, ActionsFit, FileFits
    <2>4. PICK file \in Seq(Texts) : file = orig[path]
      BY <2>3 DEF PatchInv, PatchTypes
    <2>5. PICK cs \in Seq(ChunkSet) : cs = actions[path].chunks
      BY <2>3 DEF Chained
    <2>6. PICK next \in Nat, done \in Nat, dest \in Seq(Texts) :
              next = output.next /\ done = output.index /\ dest = output.dest
      BY <2>2, <2>5 DEF OutputFits
    <2>7. next = Len(cs) + 1 /\ Applied(file, cs, next, done, dest) /\ Len(cs) \in Nat
      BY <1>1, <2>2, <2>4, <2>5, <2>6 DEF OutputFits
    <2>8. done <= Len(file)
      BY <1>3, <2>4, <2>6
    <2>9. NewFits(file, cs, dest \o SubSeq(file, done + 1, Len(file)))
      BY <2>3, <2>5, <2>7, <2>8, RestApplied
    <2>10. NewFits(file, cs, change.new) /\ change.type = "update"
      BY <2>4, <2>6, <2>9
    <2> HIDE DEF change
    <2>11. PatchTypes'
      BY <2>1 DEF PatchTypes, NeededFiles, PatchInv
    <2>12. FileAtWork'
      BY <2>1 DEF FileAtWork
    <2>13. ActionsFit'
      BY <2>1 DEF ActionsFit, PatchInv
    <2>14. CommitFits'
      BY <2>1, <2>2, <2>4, <2>5, <2>10 DEF CommitFits, PatchInv
    <2>15. QED
      BY <2>11, <2>12, <2>13, <2>14 DEF PatchInv
  <1>4. QED
    BY <1>2, <1>3

LEMMA PatchStepKeepsInv == ASSUME PatchInv, [PatchStep]_patchVars PROVE PatchInv'
  <1>1. CASE UNCHANGED patchVars
    <2> USE <1>1 DEF patchVars, PatchInv
    <2>1. PatchTypes'
      BY DEF PatchTypes, NeededFiles
    <2>2. FileAtWork'
      BY DEF FileAtWork
    <2>3. ActionsFit'
      BY DEF ActionsFit
    <2>4. CommitFits'
      BY DEF CommitFits
    <2>5. QED
      BY <2>1, <2>2, <2>3, <2>4
  <1>2. CASE Check
    BY <1>2, CheckKeepsInv
  <1>3. CASE ParseUpdate
    BY <1>3, ParseUpdateKeepsInv
  <1>4. CASE ParseDelete
    BY <1>4, ParseDeleteKeepsInv
  <1>5. CASE ParseAdd
    BY <1>5, ParseAddKeepsInv
  <1>6. CASE ParseEnd
    BY <1>6, ParseEndKeepsInv
  <1>7. CASE ParseUnknown
    BY <1>7, StopsKeepsInv DEF ParseUnknown, Fails
  <1>8. CASE UpdateEnds
    BY <1>8, UpdateEndsKeepsInv
  <1>9. CASE SectionBegins
    BY <1>9, SectionBeginsKeepsInv
  <1>10. CASE PeekLine
    BY <1>10, PeekLineKeepsInv
  <1>11. CASE SectionEnds
    BY <1>11, SectionEndsKeepsInv
  <1>12. CASE CommitBegins
    BY <1>12, CommitBeginsKeepsInv
  <1>13. CASE CommitEnds
    BY <1>13, CommitEndsKeepsInv
  <1>14. CASE \E p \in DOMAIN actions : CommitWhole(p) \/ CommitUpdate(p)
    BY <1>14, CommitWholeKeepsInv, CommitUpdateKeepsInv
  <1>15. CASE ApplyChunk
    BY <1>15, ApplyChunkKeepsInv
  <1>16. CASE ApplyEnds
    BY <1>16, ApplyEndsKeepsInv
  <1>17. QED
    BY <1>1, <1>2, <1>3, <1>4, <1>5, <1>6, <1>7, <1>8, <1>9, <1>10, <1>11, <1>12, <1>13, <1>14, <1>15,
       <1>16 DEF PatchStep

\* For every patch and every file: where the parser is in the lines, how the
\* chunks follow each other in the file and in the new content, which chunks
\* each hunk has and where its lines are, and what getUpdatedFile has written
\* (patch.go:136-279, 376-458, 513-575).
THEOREM PatchCorrect == PatchSpec => []PatchInv
  <1>1. PatchInit => PatchInv
    BY PatchBegins
  <1>2. PatchInv /\ [PatchStep]_patchVars => PatchInv'
    BY PatchStepKeepsInv
  <1>3. QED
    BY <1>1, <1>2, PTL DEF PatchSpec

\* AppliedAsWritten, for every patch and every file: a patch that fits without
\* fuzz changes what it says and nothing else (patch.go:200-279, 376-458,
\* 513-540).
THEOREM PatchIsApplied == PatchSpec => []AppliedAsWritten
  <1>1. PatchInv => AppliedAsWritten
    <2> SUFFICES ASSUME PatchInv, mode = "done", fuzz = 0,
                        NEW p \in DOMAIN commit, commit[p].type = "update"
                 PROVE  LET hs   == actions[p].hunks
                            file == orig[p]
                            new  == commit[p].new
                        IN  /\ \A k \in DOMAIN hs : Stands(hs[k].old, file, hs[k].at)
                            /\ Len(new) = Len(file) + Grown(hs)
                            /\ InOrder(hs) =>
                                 /\ \A k \in DOMAIN hs : Stands(hs[k].new, new, hs[k].at + hs[k].shift)
                                 /\ \A k \in 0 .. Len(hs) : \A i \in DOMAIN file :
                                        Between(hs, k, i) => new[i + GrownBy(hs, k)] = file[i]
      BY DEF AppliedAsWritten
    <2>1. /\ p \in DOMAIN actions /\ actions[p].type = "update"
          /\ NewFits(orig[p], actions[p].chunks, commit[p].new)
      BY DEF PatchInv, CommitFits
    <2>2. p \in DOMAIN orig /\ FileFits(orig[p], actions[p].chunks, actions[p].hunks, fuzz)
      BY <2>1 DEF PatchInv, ActionsFit
    <2> DEFINE cs  == actions[p].chunks
               hs  == actions[p].hunks
               new == commit[p].new
    <2>3. PICK file \in Seq(Texts) : file = orig[p]
      BY <2>2 DEF PatchInv, PatchTypes
    <2>4. FileFits(file, cs, hs, fuzz) /\ NewFits(file, cs, new)
      BY <2>1, <2>2, <2>3
    <2> HIDE DEF cs, hs, new
    <2>5. \A k \in DOMAIN hs : Stands(hs[k].old, file, hs[k].at)
      BY <2>4 DEF FileFits
    <2>6. Len(new) = Len(file) + Grown(hs)
      <3>1. LastOf(hs, Len(hs)) = Len(cs) /\ Len(hs) \in 0 .. Len(hs)
        BY <2>4 DEF FileFits
      <3>2. Grown(hs) = After(cs, Len(cs))
        BY <2>4, <3>1, GrownIsAfter DEF Grown
      <3>3. QED
        BY <2>4, <3>2 DEF NewFits
    <2>7. ASSUME InOrder(hs), NEW k \in DOMAIN hs PROVE Stands(hs[k].new, new, hs[k].at + hs[k].shift)
      BY <2>4, <2>5, <2>7, NewSideStands
    <2>8. ASSUME InOrder(hs), NEW k \in 0 .. Len(hs), NEW i \in DOMAIN file, Between(hs, k, i)
          PROVE  new[i + GrownBy(hs, k)] = file[i]
      BY <2>4, <2>8, LinesBetween
    <2>9. QED
      BY <2>3, <2>5, <2>6, <2>7, <2>8 DEF cs, hs, new
  <1>2. QED
    BY <1>1, PatchCorrect, PTL

=============================================================================
