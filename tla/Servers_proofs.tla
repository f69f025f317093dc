--------------------------- MODULE Servers_proofs ---------------------------
(***************************************************************************)
(* Proofs about what the program says to servers of others: the requests   *)
(* of the MCP client, for any number of servers, requests and repeated     *)
(* answers, and the reports of file changes to a language server, for any  *)
(* number of files, tools, timers and changes.                             *)
(***************************************************************************)
EXTENDS McpClient, GoWatcher, TLAPS

-----------------------------------------------------------------------------
(* The MCP client. *)

\* A request that was not sent has no outcome yet.
Unsent == \A s \in Servers, i \in Ids : i > sent[s] => call[s][i] = "none"

\* The inductive invariant. That the pending map holds the open requests, and
\* that ids are taken in order, is what makes an outcome final.
McpInv == TypeOK /\ PendingIsWaiting /\ NoneWaitsForTheDead /\ Unsent

\* An outcome is final in a step.
Final ==
    \A s \in Servers, i \in Ids :
        call[s][i] \notin {"none", "waiting"} => call'[s][i] = call[s][i]

-----------------------------------------------------------------------------
(* Settling and sending.                                                   *)

\* SettleAll closes requests that wait, and others not (client.ts 103-107,
\* 128-135, 144-147).
LEMMA SettlingKeeps ==
    ASSUME McpInv, NEW s \in Servers, NEW ids, ids \subseteq pending[s],
           NEW o \in {"answered", "timedOut", "rejected"}, SettleAll(s, ids, o),
           sent' = sent
    PROVE  /\ call' \in [Servers -> [Ids -> Outcomes]]
           /\ pending' \in [Servers -> SUBSET Ids]
           /\ PendingIsWaiting' /\ Unsent' /\ Final
           /\ pending'[s] = pending[s] \ ids
           /\ \A r \in Servers : pending'[r] \subseteq pending[r]
<1>1. /\ call \in [Servers -> [Ids -> Outcomes]] /\ pending \in [Servers -> SUBSET Ids]
      /\ call' = [call EXCEPT ![s] = [i \in Ids |-> IF i \in ids THEN o ELSE call[s][i]]]
      /\ pending' = [pending EXCEPT ![s] = @ \ ids]
  BY DEF McpInv, TypeOK, SettleAll
<1>2. call' \in [Servers -> [Ids -> Outcomes]] /\ pending' \in [Servers -> SUBSET Ids]
  BY <1>1 DEF Outcomes
<1>3. /\ \A i \in Ids : call'[s][i] = IF i \in ids THEN o ELSE call[s][i]
      /\ pending'[s] = pending[s] \ ids
      /\ \A r \in Servers \ {s} : call'[r] = call[r] /\ pending'[r] = pending[r]
  BY <1>1
<1>4. \A r \in Servers : pending[r] = {i \in Ids : call[r][i] = "waiting"}
  BY DEF McpInv, PendingIsWaiting
<1>5. pending'[s] = {i \in Ids : call'[s][i] = "waiting"}
  BY <1>3, <1>4
<1>6. PendingIsWaiting'
  BY <1>3, <1>4, <1>5 DEF PendingIsWaiting
<1>7. \A i \in ids : i \in Ids /\ call[s][i] = "waiting"
  BY <1>4
<1>8. Final
  BY <1>3, <1>7 DEF Final
<1>9. Unsent'
  BY <1>3, <1>7 DEF Unsent, McpInv
<1> QED
  BY <1>2, <1>3, <1>6, <1>8, <1>9

\* A request takes the next id; it waits, or is rejected with the others when
\* the child is known to be gone (client.ts 138-160).
LEMMA RequestKeeps ==
    ASSUME McpInv, NEW s \in Servers, Request(s), proc' = proc
    PROVE  /\ sent' \in [Servers -> 0 .. MaxRequests]
           /\ call' \in [Servers -> [Ids -> Outcomes]]
           /\ pending' \in [Servers -> SUBSET Ids]
           /\ heard' \in [Servers -> SUBSET Ids]
           /\ PendingIsWaiting' /\ NoneWaitsForTheDead' /\ Unsent' /\ Final
<1> DEFINE n == sent[s] + 1
<1>1. /\ sent \in [Servers -> 0 .. MaxRequests] /\ MaxRequests \in Nat
      /\ call \in [Servers -> [Ids -> Outcomes]] /\ pending \in [Servers -> SUBSET Ids]
      /\ heard \in [Servers -> SUBSET Ids]
  BY McpAssumption DEF McpInv, TypeOK
<1>2. /\ n \in Ids /\ sent' = [sent EXCEPT ![s] = n] /\ sent'[s] = n
      /\ sent' \in [Servers -> 0 .. MaxRequests]
  BY <1>1 DEF Request, Ids
<1>3. \A r \in Servers : pending[r] = {i \in Ids : call[r][i] = "waiting"}
  BY DEF McpInv, PendingIsWaiting
<1>4. call[s][n] = "none"
  BY <1>1, <1>2 DEF McpInv, Unsent
<1>5. CASE StdinDestroyed(s)
  <2>1. /\ pending' = [pending EXCEPT ![s] = @ \ (pending[s] \cup {n})]
        /\ call' = [call EXCEPT ![s] =
              [i \in Ids |-> IF i \in pending[s] \cup {n} THEN "rejected" ELSE call[s][i]]]
        /\ heard' = heard
    BY <1>2, <1>5 DEF Request, SettleAll
  <2>2. call' \in [Servers -> [Ids -> Outcomes]] /\ pending' \in [Servers -> SUBSET Ids]
    BY <1>1, <2>1 DEF Outcomes
  <2>3. /\ pending'[s] = {}
        /\ \A i \in Ids : call'[s][i] = IF i \in pending[s] \cup {n} THEN "rejected" ELSE call[s][i]
        /\ \A r \in Servers \ {s} : call'[r] = call[r] /\ pending'[r] = pending[r] /\ sent'[r] = sent[r]
    BY <1>1, <1>2, <2>1
  <2>4. PendingIsWaiting'
    BY <1>3, <2>3 DEF PendingIsWaiting
  <2>5. NoneWaitsForTheDead'
    BY <2>3 DEF McpInv, NoneWaitsForTheDead, StdinDestroyed
  <2>6. \A i \in Ids : i > n => i > sent[s] /\ call[s][i] = "none"
    BY <1>1, <1>2 DEF McpInv, Unsent, Ids
  <2>7. \A i \in Ids : i > n => call'[s][i] = "none"
    <3> SUFFICES ASSUME NEW i \in Ids, i > n PROVE call'[s][i] = "none"
      OBVIOUS
    <3>1. i # n
      BY <1>1, <1>2 DEF Ids
    <3> QED
      BY <3>1, <1>3, <2>3, <2>6
  <2>8. Unsent'
    BY <1>2, <2>3, <2>7 DEF McpInv, Unsent
  <2>9. Final
    BY <1>3, <1>4, <2>3 DEF Final
  <2> QED
    BY <1>1, <1>2, <2>1, <2>2, <2>4, <2>5, <2>8, <2>9
<1>6. CASE ~StdinDestroyed(s)
  <2>1. /\ call' = [call EXCEPT ![s][n] = "waiting"]
        /\ pending' = [pending EXCEPT ![s] = @ \cup {n}]
        /\ heard' = [heard EXCEPT ![s] = IF proc[s] = "running" THEN @ \cup {n} ELSE @]
    BY <1>2, <1>6 DEF Request
  <2>2. /\ call' \in [Servers -> [Ids -> Outcomes]] /\ pending' \in [Servers -> SUBSET Ids]
        /\ heard' \in [Servers -> SUBSET Ids]
    BY <1>1, <1>2, <2>1 DEF Outcomes
  <2>3. /\ pending'[s] = pending[s] \cup {n}
        /\ \A i \in Ids : call'[s][i] = IF i = n THEN "waiting" ELSE call[s][i]
        /\ \A r \in Servers \ {s} : call'[r] = call[r] /\ pending'[r] = pending[r] /\ sent'[r] = sent[r]
    BY <1>1, <1>2, <2>1
  <2>4. PendingIsWaiting'
    BY <1>2, <1>3, <2>3 DEF PendingIsWaiting
  <2>5. NoneWaitsForTheDead'
    BY <1>6, <2>3 DEF McpInv, NoneWaitsForTheDead, StdinDestroyed
  <2>6. \A i \in Ids : i > n => i # n /\ call[s][i] = "none"
    BY <1>1, <1>2 DEF McpInv, Unsent, Ids
  <2>7. Unsent'
    BY <1>2, <2>3, <2>6 DEF McpInv, Unsent
  <2>8. Final
    BY <1>4, <2>3 DEF Final
  <2> QED
    BY <1>2, <2>2, <2>4, <2>5, <2>7, <2>8
<1> QED
  BY <1>5, <1>6

-----------------------------------------------------------------------------
(* The steps.                                                              *)

LEMMA InitKeeps == Init => McpInv
<1> SUFFICES ASSUME Init PROVE McpInv
  OBVIOUS
<1>1. up \in BOOLEAN /\ closed \in BOOLEAN /\ proc \in [Servers -> Procs]
  BY DEF Init, Procs
<1>2. /\ sent \in [Servers -> 0 .. MaxRequests]
      /\ echoes \in [Servers -> [Ids -> 0 .. MaxEchoes]]
  BY McpAssumption DEF Init
<1>3. /\ call \in [Servers -> [Ids -> Outcomes]] /\ stage \in [Servers -> Stages]
      /\ pending \in [Servers -> SUBSET Ids] /\ heard \in [Servers -> SUBSET Ids]
      /\ wire \in [Servers -> SUBSET Ids]
  BY DEF Init, Outcomes, Stages
<1>4. PendingIsWaiting /\ NoneWaitsForTheDead /\ Unsent
  BY DEF Init, PendingIsWaiting, NoneWaitsForTheDead, Unsent
<1> QED
  BY <1>1, <1>2, <1>3, <1>4 DEF McpInv, TypeOK

\* No step loses a request or changes an outcome.
LEMMA NextKeeps ==
    ASSUME McpInv, [Next]_vars
    PROVE  McpInv' /\ Final
<1> USE DEF McpInv
<1>0. /\ up \in BOOLEAN /\ closed \in BOOLEAN /\ proc \in [Servers -> Procs]
      /\ sent \in [Servers -> 0 .. MaxRequests] /\ call \in [Servers -> [Ids -> Outcomes]]
      /\ pending \in [Servers -> SUBSET Ids] /\ heard \in [Servers -> SUBSET Ids]
      /\ echoes \in [Servers -> [Ids -> 0 .. MaxEchoes]] /\ wire \in [Servers -> SUBSET Ids]
      /\ stage \in [Servers -> Stages]
  BY DEF TypeOK
\* What holds of a step that settles requests of one server, or none.
<1>a. ASSUME UNCHANGED <<sent, call, pending, proc>>, TypeOK'
      PROVE  McpInv' /\ Final
  BY <1>a DEF PendingIsWaiting, NoneWaitsForTheDead, Unsent, Final, StdinDestroyed
<1>b. ASSUME NEW s \in Servers, NEW ids, ids \subseteq pending[s],
             NEW o \in {"answered", "timedOut", "rejected"}, SettleAll(s, ids, o),
             UNCHANGED <<sent, heard, echoes, up, closed>>,
             proc' \in [Servers -> Procs], wire' \in [Servers -> SUBSET Ids],
             stage' \in [Servers -> Stages],
             \A r \in Servers : StdinDestroyed(r)' => StdinDestroyed(r) \/ (r = s /\ ids = pending[s])
      PROVE  McpInv' /\ Final
  <2>1. /\ call' \in [Servers -> [Ids -> Outcomes]] /\ pending' \in [Servers -> SUBSET Ids]
        /\ PendingIsWaiting' /\ Unsent' /\ Final
        /\ pending'[s] = pending[s] \ ids
        /\ \A r \in Servers : pending'[r] \subseteq pending[r]
    BY <1>b, SettlingKeeps
  <2>2. NoneWaitsForTheDead'
    BY <1>b, <2>1 DEF NoneWaitsForTheDead
  <2> QED
    BY <1>0, <1>b, <2>1, <2>2 DEF TypeOK
<1>c. ASSUME NEW s \in Servers, Request(s), UNCHANGED <<up, proc, echoes, wire, closed>>,
             stage' \in [Servers -> Stages]
      PROVE  McpInv' /\ Final
  BY <1>0, <1>c, RequestKeeps DEF TypeOK
<1>1. ASSUME NEW s \in Servers, Initialize(s) PROVE McpInv' /\ Final
  BY <1>0, <1>1, <1>c DEF Initialize, Stages
<1>2. ASSUME NEW s \in Servers, ListTools(s) PROVE McpInv' /\ Final
  <2>1. CASE StdinDestroyed(s)
    <3>1. /\ SettleAll(s, pending[s], "rejected")
          /\ UNCHANGED <<sent, heard, up, proc, echoes, wire, closed>>
      BY <1>2, <2>1 DEF ListTools
    <3>2. stage' \in [Servers -> Stages]
      BY <1>0, <1>2, <2>1 DEF ListTools, Stages
    <3>3. \A r \in Servers : StdinDestroyed(r)' => StdinDestroyed(r)
      BY <3>1 DEF StdinDestroyed
    <3> QED
      BY <1>0, <1>b, <3>1, <3>2, <3>3
  <2>2. CASE ~StdinDestroyed(s)
    <3>1. Request(s) /\ UNCHANGED <<up, proc, echoes, wire, closed>>
      BY <1>2, <2>2 DEF ListTools
    <3>2. stage' \in [Servers -> Stages]
      BY <1>0, <1>2, <2>2 DEF ListTools, Stages
    <3> QED
      BY <1>c, <3>1, <3>2
  <2> QED
    BY <2>1, <2>2
<1>3. ASSUME NEW s \in Servers, Connected(s) \/ ConnectFails(s) PROVE McpInv' /\ Final
  BY <1>0, <1>3, <1>a DEF Connected, ConnectFails, Stages, TypeOK
<1>4. ASSUME NEW s \in Servers, CallTool(s) PROVE McpInv' /\ Final
  BY <1>0, <1>4, <1>c DEF CallTool
<1>5. ASSUME NEW s \in Servers, BrokenPipe(s) PROVE McpInv' /\ Final
  BY <1>0, <1>5, <1>a DEF BrokenPipe, TypeOK
<1>6. ASSUME NEW s \in Servers, ExitNoticed(s) \/ SpawnFails(s) PROVE McpInv' /\ Final
  <2>1. /\ SettleAll(s, pending[s], "rejected")
        /\ UNCHANGED <<sent, heard, up, echoes, wire, stage, closed>>
    BY <1>6 DEF ExitNoticed, SpawnFails
  <2>2. PICK end \in {"exited", "unspawned"} : proc' = [proc EXCEPT ![s] = end]
    BY <1>6 DEF ExitNoticed, SpawnFails
  <2>3. proc' \in [Servers -> Procs]
    BY <1>0, <2>2 DEF Procs
  <2>4. \A r \in Servers : StdinDestroyed(r)' => StdinDestroyed(r) \/ r = s
    BY <1>0, <2>2 DEF StdinDestroyed
  <2> QED
    BY <1>0, <1>b, <2>1, <2>3, <2>4
<1>7. ASSUME NEW s \in Servers, NEW p \in {"deaf", "dead"}, ServerFails(s, p) PROVE McpInv' /\ Final
  BY <1>0, <1>7 DEF ServerFails, TypeOK, PendingIsWaiting, NoneWaitsForTheDead, Unsent, Final,
                    StdinDestroyed, Procs
<1>8. ASSUME NEW s \in Servers, NEW i \in Ids, NEW o \in {"answered", "rejected"}, ReadAnswer(s, i, o)
      PROVE  McpInv' /\ Final
  <2>1. wire' \in [Servers -> SUBSET Ids]
    BY <1>0, <1>8 DEF ReadAnswer
  <2>2. CASE i \in pending[s]
    <3>1. SettleAll(s, {i}, o) /\ UNCHANGED <<up, proc, sent, heard, echoes, stage, closed>>
      BY <1>8, <2>2 DEF ReadAnswer
    <3>2. \A r \in Servers : StdinDestroyed(r)' => StdinDestroyed(r)
      BY <3>1 DEF StdinDestroyed
    <3>3. {i} \subseteq pending[s] /\ o \in {"answered", "timedOut", "rejected"}
      BY <2>2
    <3> QED
      BY <1>0, <1>b, <2>1, <3>1, <3>2, <3>3
  <2>3. CASE i \notin pending[s]
    BY <1>0, <1>8, <1>a, <2>1, <2>3 DEF ReadAnswer, TypeOK
  <2> QED
    BY <2>2, <2>3
<1>9. ASSUME NEW s \in Servers, NEW i \in Ids, TimeOut(s, i) PROVE McpInv' /\ Final
  BY <1>0, <1>9, <1>b DEF TimeOut, StdinDestroyed
<1>10. ASSUME NEW s \in Servers, NEW i \in Ids, Answer(s, i) PROVE McpInv' /\ Final
  <2>1. wire' \in [Servers -> SUBSET Ids]
    BY <1>0, <1>10 DEF Answer
  <2>2. echoes' \in [Servers -> [Ids -> 0 .. MaxEchoes]]
    BY <1>0, <1>10, McpAssumption DEF Answer
  <2> QED
    BY <1>0, <1>10, <1>a, <2>1, <2>2 DEF Answer, TypeOK
<1>11. ASSUME Close PROVE McpInv' /\ Final
  <2>1. /\ call' \in [Servers -> [Ids -> Outcomes]] /\ pending' \in [Servers -> SUBSET Ids]
        /\ \A s \in Servers : pending'[s] = {}
        /\ \A s \in Servers, i \in Ids :
              call'[s][i] = IF i \in pending[s] THEN "rejected" ELSE call[s][i]
    BY <1>0, <1>11 DEF Close, Outcomes
  <2>2. \A s \in Servers, i \in Ids : i \in pending[s] <=> call[s][i] = "waiting"
    BY DEF PendingIsWaiting
  <2>3. PendingIsWaiting' /\ NoneWaitsForTheDead' /\ Unsent' /\ Final
    BY <1>11, <2>1, <2>2 DEF Close, PendingIsWaiting, NoneWaitsForTheDead, Unsent, Final
  <2> QED
    BY <1>0, <1>11, <2>1, <2>3 DEF Close, TypeOK
<1>12. CASE UNCHANGED vars
  BY <1>0, <1>12, <1>a DEF vars, TypeOK
<1> QED
  BY <1>1, <1>2, <1>3, <1>4, <1>5, <1>6, <1>7, <1>8, <1>9, <1>10, <1>11, <1>12 DEF Next

-----------------------------------------------------------------------------
(* The theorems.                                                           *)

\* The inductive invariant of the MCP client.
THEOREM McpCorrect == Spec => []McpInv
<1>1. McpInv /\ [Next]_vars => McpInv'
  BY NextKeeps
<1> QED
  BY InitKeeps, <1>1, PTL DEF Spec

\* The variables keep their types, ids their bound.
THEOREM McpTypes == Spec => []TypeOK
<1>1. McpInv => TypeOK
  BY DEF McpInv
<1> QED
  BY McpCorrect, <1>1, PTL

\* The pending map holds exactly the requests that are open (client.ts 128-147).
THEOREM MapHoldsTheOpen == Spec => []PendingIsWaiting
<1>1. McpInv => PendingIsWaiting
  BY DEF McpInv
<1> QED
  BY McpCorrect, <1>1, PTL

\* No request waits for a child that is known to be gone (client.ts 90-107).
THEOREM DeadChildHoldsNobody == Spec => []NoneWaitsForTheDead
<1>1. McpInv => NoneWaitsForTheDead
  BY DEF McpInv
<1> QED
  BY McpCorrect, <1>1, PTL

\* An outcome is final, whatever comes late or twice (client.ts 110-147).
THEOREM OutcomesAreFinal == Spec => SettledOnce
<1>1. McpInv /\ [Next]_vars => [Final]_vars
  BY NextKeeps
<1>2. [Final]_vars => [\A s \in Servers, i \in Ids :
         call[s][i] \notin {"none", "waiting"} => call'[s][i] = call[s][i]]_vars
  BY DEF Final
<1> QED
  BY McpCorrect, <1>1, <1>2, PTL DEF Spec, SettledOnce

-----------------------------------------------------------------------------
(* What a language server is told of the files. The inductive invariant    *)
(* says where the report of each change is, until the server has it: in an *)
(* event, with a timer that has not fired, or with somebody who is about   *)
(* to write it.                                                            *)

JobStates ==
    [do   : {"rest", "tool", "open", "change", "watch", "armed"},
     at   : {"", "start", "check", "header", "body", "mark", "end"},
     file : Files \cup {Nobody}, read : Nat,
     kind : {"", "tool", "create", "change", "remove", "rename"}]

WatcherTypes ==
    /\ content \in [Files -> Nat] /\ changes \in Nat \ {0}
    /\ fsEvents \in Seq([op : {"create", "write", "remove", "rename"}, file : Files])
    /\ watching \in BOOLEAN /\ registered \in BOOLEAN /\ garbled \in BOOLEAN
    /\ openFiles \subseteq Files
    /\ debounceMap \in [Keys -> Timers \cup {Nobody}]
    /\ job \in [Actors -> JobStates]
    /\ reported \in [Files -> BOOLEAN]
    /\ last \in [Files -> {"", "create", "change", "delete"}]

\* The last change of a file and its content go together.
LastIsThere ==
    \A f \in Files :
        /\ last[f] \in {"create", "change"} => content[f] # 0
        /\ last[f] = "" => reported[f]

\* Who is at what, and which files it is about.
JobsFit ==
    /\ \A a \in Actors :
        /\ job[a].do \in {"rest", "tool"} => job[a].file = Nobody
        /\ job[a].do = "armed" => job[a].at = ""
        /\ job[a].do = "change" => job[a].file \in openFiles
        /\ job[a].at \in {"check", "header", "body", "mark"} => job[a].file \in Files
        /\ a # Preload /\ job[a].at = "end" => job[a].file \in Files
    /\ \A t \in Timers : job[t] = Rest \/ <<job[t].file, job[t].kind>> \in Keys
    /\ ~registered => job[Preload] = Rest

\* A timer that a key has is one of its file and kind.
MapFits ==
    \A k \in Keys : debounceMap[k] # Nobody =>
        job[debounceMap[k]].file = k[1] /\ job[debounceMap[k]].kind = k[2]

\* The events that the last change of a file made.
EventsOf(kind) ==
    CASE kind = "create" -> {"create"}
      [] kind = "change" -> {"write"}
      [] kind = "delete" -> {"remove", "rename"}
      [] OTHER -> {}

InEvents(f) ==
    \E i \in 1 .. Len(fsEvents) : fsEvents[i].file = f /\ fsEvents[i].op \in EventsOf(last[f])

\* What somebody is at leads to a report of the last change of a file.
Bears(a, f) ==
    /\ job[a].file = f
    /\ \/ job[a].at \in {"header", "body"} /\ (job[a].do = "watch" \/ job[a].read = content[f])
       \/ a = Loop /\ job[a].do = "open" /\ job[a].kind = "create" /\ last[f] = "create"
       \/ job[a].do = "armed" /\ job[a].kind = last[f]
       \/ job[a].do = "change" /\ job[a].at = "check" /\ last[f] = "change"

Pending(f) == InEvents(f) \/ \E a \in Actors : Bears(a, f)

UnreportedIsPending ==
    watching /\ ~garbled =>
        \A f \in Files : last[f] \in Kinds \cup {""} => reported[f] \/ Pending(f)

WatcherInv == WatcherTypes /\ LastIsThere /\ JobsFit /\ MapFits /\ UnreportedIsPending

\* The invariant without its last part.
WatcherBase == WatcherTypes /\ LastIsThere /\ JobsFit /\ MapFits

LEMMA ActorsDiffer ==
  /\ Loop \in Actors /\ Preload \in Actors /\ Loop # Preload
  /\ \A t \in Timers : t \in Actors /\ t # Loop /\ t # Preload /\ t \notin Tools
  /\ \A t \in Tools : t \in Actors /\ t # Loop /\ t # Preload /\ t \notin Timers
  BY WatcherAssumption DEF Actors

LEMMA RestType ==
  /\ Rest \in JobStates /\ Rest.do = "rest" /\ Rest.at = "" /\ Rest.file = Nobody
  /\ Nobody \notin Files
  BY WatcherAssumption DEF Rest, JobStates

LEMMA DoesType ==
  ASSUME NEW what \in {"rest", "tool", "open", "change", "watch", "armed"},
         NEW at \in {"", "start", "check", "header", "body", "mark", "end"},
         NEW f \in Files \cup {Nobody},
         NEW kind \in {"", "tool", "create", "change", "remove", "rename"}
  PROVE  /\ Does(what, at, f, kind) \in JobStates
         /\ Does(what, at, f, kind).do = what /\ Does(what, at, f, kind).at = at
         /\ Does(what, at, f, kind).file = f /\ Does(what, at, f, kind).kind = kind
  BY DEF Does, JobStates

\* The step of a job to its next stage.
LEMMA NextStage ==
  ASSUME NEW j \in JobStates, NEW at \in {"", "start", "check", "header", "body", "mark", "end"}
  PROVE  /\ [j EXCEPT !.at = at] \in JobStates /\ [j EXCEPT !.at = at].at = at
         /\ [j EXCEPT !.at = at].do = j.do /\ [j EXCEPT !.at = at].file = j.file
         /\ [j EXCEPT !.at = at].kind = j.kind /\ [j EXCEPT !.at = at].read = j.read
  BY DEF JobStates

\* ... with the text of the file.
LEMMA ReadsText ==
  ASSUME NEW a \in Actors, job[a] \in JobStates, content[job[a].file] \in Nat,
         Goes(a, [job[a] EXCEPT !.at = "header", !.read = content[job[a].file]])
  PROVE  \E k \in JobStates :
             /\ Goes(a, k) /\ k.at = "header" /\ k.read = content[job[a].file]
             /\ k.do = job[a].do /\ k.file = job[a].file /\ k.kind = job[a].kind
  <1> DEFINE j == job[a]
             r == content[job[a].file]
             k == [j EXCEPT !.at = "header"]
             l == [k EXCEPT !.read = r]
  <1>1. /\ k \in JobStates /\ k.at = "header" /\ k.do = j.do /\ k.file = j.file /\ k.kind = j.kind
    BY NextStage
  <1>2. [j EXCEPT !.at = "header", !.read = r] = l
    BY DEF JobStates
  <1>3. Goes(a, l)
    BY <1>2
  <1> HIDE DEF k
  <1>4. /\ l \in JobStates /\ l.at = k.at /\ l.read = r /\ l.do = k.do
        /\ l.file = k.file /\ l.kind = k.kind
    BY <1>1 DEF JobStates
  <1> HIDE DEF l
  <1>5. QED
    BY <1>1, <1>3, <1>4

LEMMA WatcherInitInv == ASSUME WatcherInit PROVE WatcherInv
  <1>1. PICK there \in SUBSET Files :
            /\ content = [f \in Files |-> IF f \in there THEN 1 ELSE 0]
            /\ openFiles \in SUBSET (there \cap Preloaded)
    BY DEF WatcherInit
  <1>2. job = [a \in Actors |-> IF a \in Tools THEN Does("tool", "start", Nobody, "") ELSE Rest]
    BY DEF WatcherInit
  <1>3. \A a \in Actors : /\ job[a] \in JobStates /\ job[a].file = Nobody
                          /\ job[a].do \in {"rest", "tool"} /\ job[a].at \in {"", "start"}
                          /\ a \notin Tools => job[a] = Rest
    <2> SUFFICES ASSUME NEW a \in Actors
                 PROVE  /\ job[a] \in JobStates /\ job[a].file = Nobody
                        /\ job[a].do \in {"rest", "tool"} /\ job[a].at \in {"", "start"}
                        /\ a \notin Tools => job[a] = Rest
      OBVIOUS
    <2> DEFINE j == Does("tool", "start", Nobody, "")
    <2>1. j \in JobStates /\ j.file = Nobody /\ j.do = "tool" /\ j.at = "start"
      BY DEF Does, JobStates
    <2>2. job[a] = IF a \in Tools THEN j ELSE Rest
      BY <1>2
    <2> HIDE DEF j
    <2>3. QED
      BY <2>1, <2>2, RestType
  <1>4. debounceMap = [k \in Keys |-> Nobody] /\ fsEvents = <<>> /\ changes = 1
    BY DEF WatcherInit
  <1>5. WatcherTypes
    <2>1. content \in [Files -> Nat] /\ openFiles \subseteq Files
      BY <1>1
    <2>2. job \in [Actors -> JobStates]
      BY <1>2, <1>3
    <2>3. debounceMap \in [Keys -> Timers \cup {Nobody}] /\ changes \in Nat \ {0}
      BY <1>4
    <2>4. fsEvents \in Seq([op : {"create", "write", "remove", "rename"}, file : Files])
      BY <1>4
    <2>5. /\ watching \in BOOLEAN /\ registered \in BOOLEAN /\ garbled \in BOOLEAN
          /\ reported \in [Files -> BOOLEAN]
          /\ last \in [Files -> {"", "create", "change", "delete"}]
      BY DEF WatcherInit
    <2>6. QED
      BY <2>1, <2>2, <2>3, <2>4, <2>5 DEF WatcherTypes
  <1>6. LastIsThere
    BY DEF WatcherInit, LastIsThere
  <1>7. JobsFit
    BY <1>3, ActorsDiffer DEF JobsFit
  <1>8. MapFits
    BY <1>4 DEF MapFits
  <1>9. UnreportedIsPending
    BY DEF WatcherInit, UnreportedIsPending
  <1>10. QED
    BY <1>5, <1>6, <1>7, <1>8, <1>9 DEF WatcherInv

\* What is said of an actor and a file by an actor that does not move.
LEMMA SameBears ==
  ASSUME NEW b \in Actors, NEW f \in Files, job'[b] = job[b], content'[f] = content[f],
         last'[f] = last[f]
  PROVE  Bears(b, f)' <=> Bears(b, f)
  BY DEF Bears

\* A report that was pending is, or the server has it.
LEMMA StillPending ==
  ASSUME WatcherInv, ~garbled, UNCHANGED <<content, last>>, watching' => watching,
         \A f \in Files : reported[f] => reported'[f],
         \A f \in Files : watching' /\ last[f] \in Kinds /\ Pending(f) => reported'[f] \/ Pending(f)'
  PROVE  LastIsThere' /\ UnreportedIsPending'
  <1>1. LastIsThere'
    BY DEF WatcherInv, LastIsThere
  <1>2. UnreportedIsPending'
    <2> SUFFICES ASSUME watching', NEW f \in Files, last[f] \in Kinds \cup {""}
                 PROVE  reported'[f] \/ Pending(f)'
      BY DEF UnreportedIsPending
    <2>1. reported[f] \/ Pending(f)
      BY DEF WatcherInv, UnreportedIsPending
    <2>2. last[f] = "" => reported[f]
      BY DEF WatcherInv, LastIsThere
    <2>3. QED
      BY <2>1, <2>2
  <1>3. QED
    BY <1>1, <1>2

\* A job that fits, for an actor.
Fits(a, j) ==
    /\ j \in JobStates
    /\ j.do \in {"rest", "tool"} => j.file = Nobody
    /\ j.do = "armed" => j.at = ""
    /\ j.do = "change" => j.file \in openFiles
    /\ j.at \in {"check", "header", "body", "mark"} => j.file \in Files
    /\ a # Preload /\ j.at = "end" => j.file \in Files

\* One actor goes on with its job.
LEMMA OneMoves ==
  ASSUME WatcherInv, ~garbled, NEW a \in Actors, NEW j, Fits(a, j),
         job' = [job EXCEPT ![a] = j],
         UNCHANGED <<content, changes, last, fsEvents, debounceMap>>,
         watching' \in BOOLEAN, watching' => watching,
         registered' \in BOOLEAN, registered => registered', garbled' \in BOOLEAN,
         openFiles \subseteq openFiles', openFiles' \subseteq Files,
         reported' \in [Files -> BOOLEAN], \A f \in Files : reported[f] => reported'[f],
         a \in Timers => job[a] # Rest /\ j.file = job[a].file /\ j.kind = job[a].kind,
         a = Preload => registered',
         \A f \in Files : watching' /\ last[f] \in Kinds /\ Bears(a, f) => reported'[f] \/ Bears(a, f)'
  PROVE  WatcherInv'
  <1> USE DEF WatcherInv
  <1>1. /\ job' \in [Actors -> JobStates] /\ job'[a] = j
        /\ \A b \in Actors \ {a} : job'[b] = job[b]
    BY DEF WatcherTypes, Fits
  <1>2. WatcherTypes'
    BY <1>1 DEF WatcherTypes
  <1>3. JobsFit'
    <2>1. ASSUME NEW b \in Actors
          PROVE  /\ job'[b].do \in {"rest", "tool"} => job'[b].file = Nobody
                 /\ job'[b].do = "armed" => job'[b].at = ""
                 /\ job'[b].do = "change" => job'[b].file \in openFiles'
                 /\ job'[b].at \in {"check", "header", "body", "mark"} => job'[b].file \in Files
                 /\ b # Preload /\ job'[b].at = "end" => job'[b].file \in Files
      <3>1. CASE b = a
        BY <3>1, <1>1 DEF Fits
      <3>2. CASE b # a
        BY <3>2, <1>1 DEF JobsFit
      <3>3. QED
        BY <3>1, <3>2
    <2>2. ASSUME NEW t \in Timers PROVE job'[t] = Rest \/ <<job'[t].file, job'[t].kind>> \in Keys
      BY <1>1, ActorsDiffer DEF JobsFit
    <2>3. ~registered' => job'[Preload] = Rest
      BY <1>1, ActorsDiffer DEF JobsFit
    <2>4. QED
      BY <2>1, <2>2, <2>3 DEF JobsFit
  <1>4. MapFits'
    <2> SUFFICES ASSUME NEW k \in Keys, debounceMap[k] # Nobody
                 PROVE  job'[debounceMap[k]].file = k[1] /\ job'[debounceMap[k]].kind = k[2]
      BY DEF MapFits
    <2>1. debounceMap[k] \in Timers
      BY DEF WatcherTypes
    <2>2. QED
      BY <1>1, <2>1, ActorsDiffer DEF MapFits
  <1>5. ASSUME NEW f \in Files, watching', last[f] \in Kinds, Pending(f)
        PROVE  reported'[f] \/ Pending(f)'
    <2>1. CASE InEvents(f)
      BY <2>1 DEF InEvents, Pending
    <2>2. CASE \E b \in Actors : Bears(b, f)
      <3>1. PICK b \in Actors : Bears(b, f)
        BY <2>2
      <3>2. CASE b = a
        BY <1>5, <3>1, <3>2 DEF Pending
      <3>3. CASE b # a
        <4>1. Bears(b, f)'
          BY <1>1, <3>1, <3>3, SameBears
        <4>2. QED
          BY <4>1 DEF Pending
      <3>4. QED
        BY <3>2, <3>3
    <2>3. QED
      BY <1>5, <2>1, <2>2 DEF Pending
  <1>6. LastIsThere' /\ UnreportedIsPending'
    BY <1>5, StillPending
  <1>7. QED
    BY <1>2, <1>3, <1>4, <1>6

-----------------------------------------------------------------------------
(* The steps of those who tell the server something.                      *)

\* What a job says of a file that it is not about, or at its end.
LEMMA AtEndBearsNothing ==
  ASSUME JobsFit, NEW a \in Actors, a # Loop, job[a].at \in {"start", "mark", "end"}, NEW f \in Files
  PROVE  ~Bears(a, f)
  BY DEF Bears, JobsFit

LEMMA RestBearsNothing ==
  ASSUME NEW a \in Actors, job[a].file = Nobody, NEW f \in Files
  PROVE  ~Bears(a, f)
  BY RestType DEF Bears

\* The file and the kind of a job stay, and so does what it is at.
LEMMA TellStepKeeps ==
  ASSUME WatcherInv, ~garbled, Quiet, NEW a \in Actors, TellStep(a)
  PROVE  WatcherInv'
  <1> USE DEF WatcherInv
  <1> DEFINE j == job[a]
  <1>1. /\ j \in JobStates /\ content \in [Files -> Nat] /\ openFiles \subseteq Files
        /\ watching \in BOOLEAN /\ registered \in BOOLEAN /\ garbled \in BOOLEAN
        /\ reported \in [Files -> BOOLEAN]
    BY DEF WatcherTypes
  <1>2. /\ j.do = "change" => j.file \in openFiles
        /\ j.at \in {"check", "header", "body", "mark"} => j.file \in Files
    BY DEF JobsFit
  <1>3. j.at # "" => job[a] # Rest
    BY RestType
  <1>4. j.at # "" /\ a = Preload => registered
    BY RestType DEF JobsFit
  <1>5. CASE OpenChecks(a)
    <2>1. j.at = "check" /\ j.do = "open" /\ j.file \in Files
      BY <1>2, <1>5 DEF OpenChecks
    <2>2. UNCHANGED <<fsEvents, watching, registered, openFiles, debounceMap, garbled, reported>>
      BY <1>5 DEF OpenChecks
    <2>3. ASSUME NEW k \in JobStates, Goes(a, k), k.do = j.do, k.file = j.file, k.kind = j.kind,
                 k.at \in {"end", "header"}
          PROVE  WatcherInv'
      <3>1. Fits(a, k)
        BY <2>1, <2>3 DEF Fits
      <3>2. job' = [job EXCEPT ![a] = k] /\ job'[a] = k
        BY <2>3 DEF Goes, WatcherTypes
      <3>3. \A f \in Files : Bears(a, f) => Bears(a, f)'
        BY <2>1, <2>3, <3>2 DEF Bears, Quiet
      <3>4. QED
        BY <1>1, <1>3, <1>4, <2>1, <2>2, <2>3, <3>1, <3>2, <3>3, OneMoves DEF Quiet
    <2>4. CASE Goes(a, [j EXCEPT !.at = "end"])
      <3> DEFINE k == [j EXCEPT !.at = "end"]
      <3>1. k \in JobStates /\ k.do = j.do /\ k.file = j.file /\ k.kind = j.kind /\ k.at = "end"
        BY <1>1, NextStage
      <3>2. Goes(a, k)
        BY <2>4
      <3> HIDE DEF k, j
      <3>3. QED
        BY <2>3, <3>1, <3>2
    <2>5. CASE Goes(a, [j EXCEPT !.at = "header", !.read = content[j.file]])
      <3>1. PICK k \in JobStates : /\ Goes(a, k) /\ k.at = "header"
                                   /\ k.do = j.do /\ k.file = j.file /\ k.kind = j.kind
        BY <1>1, <2>1, <2>5, ReadsText
      <3>2. QED
        BY <2>3, <3>1
    <2>6. QED
      BY <1>5, <2>4, <2>5 DEF OpenChecks
  <1>6. CASE ChangeReads(a)
    <2>1. j.at = "check" /\ j.do = "change" /\ j.file \in Files /\ j.file \in openFiles
      BY <1>2, <1>6 DEF ChangeReads
    <2>2. UNCHANGED <<fsEvents, watching, registered, openFiles, debounceMap, garbled, reported>>
      BY <1>6 DEF ChangeReads
    <2>3. ASSUME NEW k \in JobStates, Goes(a, k), k.do = j.do, k.file = j.file, k.kind = j.kind,
                 \/ k.at = "end" /\ content[j.file] = 0
                 \/ k.at = "header" /\ k.read = content[j.file]
          PROVE  WatcherInv'
      <3>1. Fits(a, k)
        BY <2>1, <2>3 DEF Fits
      <3>2. job' = [job EXCEPT ![a] = k] /\ job'[a] = k
        BY <2>3 DEF Goes, WatcherTypes
      <3>3. ASSUME NEW f \in Files, Bears(a, f) PROVE Bears(a, f)'
        <4>1. f = j.file /\ last[f] = "change"
          BY <2>1, <3>3 DEF Bears
        <4>2. content[f] # 0
          BY <4>1 DEF LastIsThere
        <4>3. QED
          BY <2>3, <3>2, <4>1, <4>2 DEF Bears, Quiet
      <3>4. QED
        BY <1>1, <1>3, <1>4, <2>1, <2>2, <2>3, <3>1, <3>2, <3>3, OneMoves DEF Quiet
    <2>4. CASE content[j.file] # 0
      <3>1. PICK k \in JobStates : /\ Goes(a, k) /\ k.at = "header" /\ k.read = content[j.file]
                                   /\ k.do = j.do /\ k.file = j.file /\ k.kind = j.kind
        <4>1. Goes(a, [job[a] EXCEPT !.at = "header", !.read = content[job[a].file]])
          BY <1>6, <2>1, <2>4 DEF ChangeReads
        <4>2. content[job[a].file] \in Nat
          BY <1>1, <2>1
        <4>3. QED
          BY <1>1, <4>1, <4>2, ReadsText
      <3>2. QED
        BY <2>3, <3>1
    <2>5. CASE content[j.file] = 0
      <3> DEFINE k == [j EXCEPT !.at = "end"]
      <3>1. k \in JobStates /\ k.do = j.do /\ k.file = j.file /\ k.kind = j.kind /\ k.at = "end"
        BY <1>1, NextStage
      <3>2. Goes(a, k)
        BY <1>6, <2>5 DEF ChangeReads
      <3> HIDE DEF k, j
      <3>3. QED
        BY <2>3, <2>5, <3>1, <3>2
    <2>6. QED
      BY <2>4, <2>5
  <1>7. CASE WritesHeader(a)
    <2> DEFINE k == [j EXCEPT !.at = "body"]
    <2>1. j.at = "header" /\ j.file \in Files /\ Goes(a, k)
      BY <1>2, <1>7 DEF WritesHeader
    <2>2. /\ k \in JobStates /\ k.do = j.do /\ k.file = j.file /\ k.kind = j.kind
          /\ k.at = "body" /\ k.read = j.read
      BY <1>1, NextStage
    <2>3. /\ UNCHANGED <<fsEvents, watching, registered, openFiles, debounceMap, reported>>
          /\ garbled' \in BOOLEAN
      BY <1>7 DEF WritesHeader
    <2> HIDE DEF k
    <2>4. j.do \notin {"rest", "tool", "armed"}
      BY <2>1, RestType DEF JobsFit
    <2>5. Fits(a, k)
      BY <1>2, <2>1, <2>2, <2>4 DEF Fits
    <2>6. job' = [job EXCEPT ![a] = k] /\ job'[a] = k
      BY <2>1 DEF Goes, WatcherTypes
    <2>7. \A f \in Files : Bears(a, f) => Bears(a, f)'
      BY <2>1, <2>2, <2>4, <2>6 DEF Bears, Quiet
    <2>8. QED
      BY <1>1, <1>3, <1>4, <2>1, <2>2, <2>3, <2>5, <2>6, <2>7, OneMoves DEF Quiet
  <1>8. CASE WritesBody(a)
    <2> DEFINE at == IF j.do = "open" THEN "mark" ELSE "end"
               k == [j EXCEPT !.at = at]
    <2>1. j.at = "body" /\ j.file \in Files
      BY <1>2, <1>8 DEF WritesBody
    <2>2. Goes(a, k)
      BY <1>8, <2>1 DEF WritesBody
    <2>4. at \in {"mark", "end"}
      OBVIOUS
    <2> HIDE DEF at
    <2>3. /\ k \in JobStates /\ k.do = j.do /\ k.file = j.file /\ k.kind = j.kind
          /\ k.at = at
      BY <1>1, <2>4 DEF JobStates
    <2>5. UNCHANGED <<fsEvents, watching, registered, openFiles, debounceMap, garbled>>
      BY <1>8 DEF WritesBody
    <2>6. reported' = [reported EXCEPT ![j.file] =
                           reported[j.file] \/ j.do = "watch" \/ j.read = content[j.file]]
      BY <1>8 DEF WritesBody
    <2> HIDE DEF k
    <2>7. /\ reported' \in [Files -> BOOLEAN]
          /\ \A f \in Files : reported[f] => reported'[f]
          /\ j.do = "watch" \/ j.read = content[j.file] => reported'[j.file]
      BY <1>1, <2>1, <2>6
    <2>8. j.do \notin {"rest", "tool", "armed"}
      BY <2>1, RestType DEF JobsFit
    <2>9. Fits(a, k)
      BY <1>2, <2>1, <2>3, <2>4, <2>8 DEF Fits
    <2>10. job' = [job EXCEPT ![a] = k] /\ job'[a] = k
      BY <2>2 DEF Goes, WatcherTypes
    <2>11. \A f \in Files : Bears(a, f) => reported'[f] \/ Bears(a, f)'
      BY <2>1, <2>3, <2>7, <2>8, <2>10 DEF Bears, Quiet
    <2>12. QED
      BY <1>1, <1>3, <1>4, <2>1, <2>3, <2>5, <2>7, <2>9, <2>10, <2>11, OneMoves DEF Quiet
  <1>9. CASE OpenMarks(a)
    <2> DEFINE k == [j EXCEPT !.at = "end"]
    <2>1. j.at = "mark" /\ j.do = "open" /\ j.file \in Files /\ Goes(a, k)
      BY <1>2, <1>9 DEF OpenMarks
    <2>2. /\ k \in JobStates /\ k.do = j.do /\ k.file = j.file /\ k.kind = j.kind
          /\ k.at = "end"
      BY <1>1, NextStage
    <2>3. /\ UNCHANGED <<fsEvents, watching, registered, debounceMap, garbled, reported>>
          /\ openFiles' = openFiles \cup {j.file}
      BY <1>9 DEF OpenMarks
    <2> HIDE DEF k
    <2>4. Fits(a, k)
      BY <2>1, <2>2 DEF Fits
    <2>5. job' = [job EXCEPT ![a] = k] /\ job'[a] = k
      BY <2>1 DEF Goes, WatcherTypes
    <2>6. \A f \in Files : Bears(a, f) => Bears(a, f)'
      BY <2>1, <2>2, <2>5 DEF Bears, Quiet
    <2>7. openFiles \subseteq openFiles' /\ openFiles' \subseteq Files
      BY <1>1, <2>1, <2>3
    <2>8. QED
      BY <1>1, <1>3, <1>4, <2>1, <2>2, <2>3, <2>4, <2>5, <2>6, <2>7, OneMoves DEF Quiet
  <1>10. QED
    BY <1>5, <1>6, <1>7, <1>8, <1>9 DEF TellStep

\* The steps of the timers, the tools and the preloading that concern one job.
LEMMA JobStepKeeps ==
  ASSUME WatcherInv, ~garbled, Quiet, NEW a \in Actors, NEW j, Fits(a, j), Goes(a, j),
         UNCHANGED <<fsEvents, openFiles, debounceMap, garbled, reported>>,
         watching' \in BOOLEAN, watching' => watching,
         registered' \in BOOLEAN, registered => registered',
         a \in Timers => job[a] # Rest /\ j.file = job[a].file /\ j.kind = job[a].kind,
         a = Preload => registered',
         \A f \in Files : watching' /\ last[f] \in Kinds /\ Bears(a, f) => Bears(a, f)'
  PROVE  WatcherInv'
  <1>1. /\ garbled' \in BOOLEAN /\ reported' \in [Files -> BOOLEAN] /\ openFiles' \subseteq Files
        /\ openFiles \subseteq openFiles' /\ \A f \in Files : reported[f] => reported'[f]
    BY DEF WatcherInv, WatcherTypes
  <1>2. job' = [job EXCEPT ![a] = j]
    BY DEF Goes
  <1>3. QED
    BY <1>1, <1>2, OneMoves DEF Quiet

LEMMA TimerFiresKeeps ==
  ASSUME WatcherInv, ~garbled, Quiet, NEW t \in Timers, TimerFires(t)
  PROVE  WatcherInv'
  <1> USE DEF WatcherInv
  <1> DEFINE f == job[t].file
             kind == job[t].kind
             j == HandleFileEvent(f, kind)
  <1>1. /\ t \in Actors /\ t # Loop /\ t # Preload
    BY ActorsDiffer
  <1>2. job[t].do = "armed" /\ job[t] # Rest /\ <<f, kind>> \in Keys
    BY RestType DEF TimerFires, JobsFit
  <1>3. f \in Files /\ kind \in {"change", "create"}
    BY <1>2 DEF Keys
  <1>4. /\ j \in JobStates /\ j.file = f /\ j.kind = kind
        /\ \/ j.do = "change" /\ j.at = "check" /\ f \in openFiles
           \/ j.do = "watch" /\ j.at = "header"
    BY <1>3 DEF HandleFileEvent, Does, JobStates
  <1>5. Goes(t, j)
    BY DEF TimerFires
  <1>6. /\ UNCHANGED <<fsEvents, watching, registered, openFiles, debounceMap, garbled, reported>>
        /\ watching \in BOOLEAN /\ registered \in BOOLEAN
    BY DEF TimerFires, WatcherTypes
  <1>7. j.do = "change" => kind = "change"
    BY <1>3 DEF HandleFileEvent, Does
  <1> HIDE DEF j
  <1>8. Fits(t, j)
    BY <1>3, <1>4 DEF Fits
  <1>9. job'[t] = j
    BY <1>1, <1>5 DEF Goes, WatcherTypes
  <1>10. \A g \in Files : Bears(t, g) => Bears(t, g)'
    BY <1>1, <1>2, <1>4, <1>7, <1>9 DEF Bears, Quiet, JobsFit
  <1>11. QED
    BY <1>1, <1>2, <1>4, <1>5, <1>6, <1>8, <1>10, JobStepKeeps

\* The timer that ends is forgotten by its key only.
LEMMA TimerEndsKeeps ==
  ASSUME WatcherInv, ~garbled, Quiet, NEW t \in Timers, TimerEnds(t)
  PROVE  WatcherInv'
  <1> USE DEF WatcherInv
  <1> DEFINE key == <<job[t].file, job[t].kind>>
  <1>1. /\ t \in Actors /\ t # Loop /\ t # Preload
    BY ActorsDiffer
  <1>2. job[t].at = "end" /\ key \in Keys
    BY RestType DEF TimerEnds, JobsFit
  <1>3. /\ job' = [job EXCEPT ![t] = Rest]
        /\ debounceMap' = [debounceMap EXCEPT ![key] = Nobody]
        /\ UNCHANGED <<fsEvents, watching, registered, openFiles, garbled, reported>>
    BY DEF TimerEnds, Goes
  <1>4. /\ job' \in [Actors -> JobStates] /\ job'[t] = Rest
        /\ \A b \in Actors \ {t} : job'[b] = job[b]
    BY <1>1, <1>3, RestType DEF WatcherTypes
  <1>5. WatcherTypes'
    <2>1. debounceMap' \in [Keys -> Timers \cup {Nobody}]
      BY <1>3 DEF WatcherTypes
    <2>2. QED
      BY <1>3, <1>4, <2>1 DEF WatcherTypes, Quiet
  <1>6. JobsFit'
    <2>1. ASSUME NEW b \in Actors
          PROVE  /\ job'[b].do \in {"rest", "tool"} => job'[b].file = Nobody
                 /\ job'[b].do = "armed" => job'[b].at = ""
                 /\ job'[b].do = "change" => job'[b].file \in openFiles'
                 /\ job'[b].at \in {"check", "header", "body", "mark"} => job'[b].file \in Files
                 /\ b # Preload /\ job'[b].at = "end" => job'[b].file \in Files
      <3>1. CASE b = t
        BY <3>1, <1>4, RestType
      <3>2. CASE b # t
        BY <3>2, <1>3, <1>4 DEF JobsFit
      <3>3. QED
        BY <3>1, <3>2
    <2>2. ASSUME NEW u \in Timers PROVE job'[u] = Rest \/ <<job'[u].file, job'[u].kind>> \in Keys
      BY <1>4, ActorsDiffer DEF JobsFit
    <2>3. ~registered' => job'[Preload] = Rest
      BY <1>1, <1>3, <1>4, ActorsDiffer DEF JobsFit
    <2>4. QED
      BY <2>1, <2>2, <2>3 DEF JobsFit
  <1>7. MapFits'
    <2> SUFFICES ASSUME NEW k \in Keys, debounceMap'[k] # Nobody
                 PROVE  job'[debounceMap'[k]].file = k[1] /\ job'[debounceMap'[k]].kind = k[2]
      BY DEF MapFits
    <2>1. k # key /\ debounceMap'[k] = debounceMap[k] /\ debounceMap[k] \in Timers
      BY <1>2, <1>3 DEF WatcherTypes
    <2>2. /\ job[debounceMap[k]].file = k[1] /\ job[debounceMap[k]].kind = k[2]
          /\ k = <<k[1], k[2]>>
      BY <2>1 DEF MapFits, Keys
    <2>3. debounceMap[k] # t
      BY <2>1, <2>2
    <2>4. QED
      BY <1>4, <2>1, <2>2, <2>3, ActorsDiffer
  <1>8. ASSUME NEW f \in Files, Pending(f) PROVE Pending(f)'
    <2>1. ~Bears(t, f)
      BY <1>1, <1>2, AtEndBearsNothing
    <2>2. CASE InEvents(f)
      BY <2>2, <1>3 DEF InEvents, Pending, Quiet
    <2>3. CASE \E b \in Actors : Bears(b, f)
      <3>1. PICK b \in Actors : Bears(b, f)
        BY <2>3
      <3>2. Bears(b, f)'
        BY <2>1, <3>1, <1>4, SameBears DEF Quiet
      <3>3. QED
        BY <3>2 DEF Pending
    <2>4. QED
      BY <1>8, <2>2, <2>3 DEF Pending
  <1>9. LastIsThere' /\ UnreportedIsPending'
    BY <1>3, <1>8, StillPending DEF Quiet
  <1>10. QED
    BY <1>5, <1>6, <1>7, <1>9

LEMMA PreloadKeeps ==
  ASSUME WatcherInv, ~garbled, Quiet, AddRegistrations \/ PreloadNext
  PROVE  WatcherInv'
  <1> USE DEF WatcherInv
  <1>1. Preload \in Actors /\ Preload # Loop /\ Preload \notin Timers
    BY ActorsDiffer
  <1>2. CASE AddRegistrations
    <2> DEFINE j == Does("open", "end", Nobody, "")
    <2>1. Fits(Preload, j)
      BY DEF Fits, Does, JobStates
    <2>2. Goes(Preload, j) /\ registered' = TRUE /\ ~registered
      BY <1>2 DEF AddRegistrations
    <2>3. job[Preload] = Rest
      BY <2>2 DEF JobsFit
    <2>4. \A f \in Files : ~Bears(Preload, f)
      BY <1>1, <2>3, RestType, RestBearsNothing
    <2>5. /\ UNCHANGED <<fsEvents, watching, openFiles, debounceMap, garbled, reported>>
          /\ watching \in BOOLEAN
      BY <1>2 DEF AddRegistrations, WatcherTypes
    <2> HIDE DEF j
    <2>6. QED
      BY <1>1, <2>1, <2>2, <2>4, <2>5, JobStepKeeps
  <1>3. CASE PreloadNext
    <2>1. /\ job[Preload].at = "end"
          /\ UNCHANGED <<fsEvents, watching, registered, openFiles, debounceMap, garbled, reported>>
          /\ watching \in BOOLEAN /\ registered \in BOOLEAN
      BY <1>3 DEF PreloadNext, WatcherTypes
    <2>2. \A f \in Files : ~Bears(Preload, f)
      BY <1>1, <2>1, AtEndBearsNothing
    <2>3. registered
      BY <2>1, RestType DEF JobsFit
    <2>4. ASSUME NEW j, Goes(Preload, j), Fits(Preload, j) PROVE WatcherInv'
      BY <1>1, <2>1, <2>2, <2>3, <2>4, JobStepKeeps
    <2>5. CASE \E f \in Preloaded : Goes(Preload, Does("open", "check", f, ""))
      <3>1. PICK f \in Preloaded : Goes(Preload, Does("open", "check", f, ""))
        BY <2>5
      <3>2. Fits(Preload, Does("open", "check", f, ""))
        BY WatcherAssumption DEF Fits, Does, JobStates
      <3>3. QED
        BY <2>4, <3>1, <3>2
    <2>6. CASE Goes(Preload, Rest)
      <3>1. Fits(Preload, Rest)
        BY RestType DEF Fits
      <3>2. QED
        BY <2>4, <2>6, <3>1
    <2>7. QED
      BY <1>3, <2>5, <2>6 DEF PreloadNext
  <1>4. QED
    BY <1>2, <1>3

LEMMA ToolKeeps ==
  ASSUME WatcherInv, ~garbled, Quiet, NEW t \in Tools, ToolStarts(t) \/ ToolEnds(t)
  PROVE  WatcherInv'
  <1> USE DEF WatcherInv
  <1>1. t \in Actors /\ t # Loop /\ t # Preload /\ t \notin Timers
    BY ActorsDiffer
  <1>2. /\ UNCHANGED <<fsEvents, watching, registered, openFiles, debounceMap, garbled, reported>>
        /\ watching \in BOOLEAN /\ registered \in BOOLEAN
    BY DEF ToolStarts, ToolEnds, WatcherTypes
  <1>3. \A f \in Files : ~Bears(t, f)
    <2>1. CASE ToolStarts(t)
      <3>1. job[t].file = Nobody
        BY <1>1, <2>1 DEF ToolStarts, JobsFit
      <3>2. QED
        BY <1>1, <3>1, RestBearsNothing
    <2>2. CASE ToolEnds(t)
      BY <1>1, <2>2, AtEndBearsNothing DEF ToolEnds
    <2>3. QED
      BY <2>1, <2>2
  <1>4. ASSUME NEW j, Goes(t, j), Fits(t, j) PROVE WatcherInv'
    BY <1>1, <1>2, <1>3, <1>4, JobStepKeeps
  <1>5. CASE ToolStarts(t)
    <2>1. PICK f \in Files : Goes(t, Does("open", "check", f, "tool"))
      BY <1>5 DEF ToolStarts
    <2>2. Fits(t, Does("open", "check", f, "tool"))
      BY DEF Fits, Does, JobStates
    <2>3. QED
      BY <1>4, <2>1, <2>2
  <1>6. CASE ToolEnds(t)
    <2> DEFINE f == job[t].file
               what == IF f \in openFiles THEN "change" ELSE "open"
    <2>1. f \in Files
      BY <1>1, <1>6 DEF ToolEnds, JobsFit
    <2>2. Fits(t, Rest)
      BY RestType DEF Fits
    <2>3. Fits(t, Does(what, "check", f, ""))
      BY <2>1 DEF Fits, Does, JobStates
    <2>4. Goes(t, Rest) \/ Goes(t, Does(what, "check", f, ""))
      BY <1>6 DEF ToolEnds
    <2> HIDE DEF f, what
    <2>5. QED
      BY <1>4, <2>2, <2>3, <2>4
  <1>7. QED
    BY <1>5, <1>6

-----------------------------------------------------------------------------
(* The disk and the loop.                                                  *)

\* The events that a change makes are added behind the others.
LEMMA EventsAdded ==
  ASSUME WatcherTypes, NEW f \in Files, NEW ops \in Seq({"create", "write", "remove", "rename"}),
         fsEvents' = fsEvents \o [i \in DOMAIN ops |-> [op |-> ops[i], file |-> f]]
  PROVE  /\ fsEvents' \in Seq([op : {"create", "write", "remove", "rename"}, file : Files])
         /\ \A i \in 1 .. Len(fsEvents) : i \in 1 .. Len(fsEvents') /\ fsEvents'[i] = fsEvents[i]
         /\ \A i \in 1 .. Len(ops) :
               \E k \in 1 .. Len(fsEvents') : fsEvents'[k].op = ops[i] /\ fsEvents'[k].file = f
  <1> DEFINE Event == [op : {"create", "write", "remove", "rename"}, file : Files]
             new == [i \in DOMAIN ops |-> [op |-> ops[i], file |-> f]]
  <1>1. fsEvents \in Seq(Event) /\ fsEvents' = fsEvents \o new
    BY DEF WatcherTypes
  <1>2. Len(ops) \in Nat /\ DOMAIN ops = 1 .. Len(ops)
    OBVIOUS
  <1>3. \A i \in 1 .. Len(ops) : ops[i] \in {"create", "write", "remove", "rename"}
    OBVIOUS
  <1>4. \A i \in 1 .. Len(ops) : [op |-> ops[i], file |-> f] \in Event
    BY <1>3
  <1>5. /\ new \in [1 .. Len(ops) -> Event]
        /\ \A i \in 1 .. Len(ops) : new[i].op = ops[i] /\ new[i].file = f
    BY <1>2, <1>4
  <1> HIDE DEF new, Event
  <1>6. /\ new \in Seq(Event) /\ Len(new) = Len(ops) /\ Len(fsEvents) \in Nat
    <2>1. Len(fsEvents) \in Nat
      BY <1>1
    <2>2. new \in Seq(Event)
      BY <1>2, <1>5
    <2>3. DOMAIN new = 1 .. Len(ops)
      BY <1>5
    <2>4. Len(new) = Len(ops)
      BY <1>2, <2>2, <2>3
    <2>5. QED
      BY <2>1, <2>2, <2>4
  <1>7. /\ fsEvents' \in Seq(Event) /\ Len(fsEvents') = Len(fsEvents) + Len(ops)
        /\ \A i \in 1 .. Len(fsEvents) : fsEvents'[i] = fsEvents[i]
        /\ \A i \in 1 .. Len(ops) : fsEvents'[Len(fsEvents) + i] = new[i]
    BY <1>1, <1>2, <1>6
  <1>8. ASSUME NEW i \in 1 .. Len(ops)
        PROVE  \E k \in 1 .. Len(fsEvents') : fsEvents'[k].op = ops[i] /\ fsEvents'[k].file = f
    <2>1. Len(fsEvents) + i \in 1 .. Len(fsEvents')
      BY <1>2, <1>6, <1>7
    <2>2. QED
      BY <1>5, <1>7, <2>1
  <1>9. \A i \in 1 .. Len(fsEvents) : i \in 1 .. Len(fsEvents')
    BY <1>2, <1>6, <1>7
  <1>10. QED
    BY <1>7, <1>8, <1>9 DEF Event

\* A change makes an event that will be reported.
LEMMA ChangedKeeps ==
  ASSUME WatcherInv, ~garbled, NEW f \in Files, NEW c \in Nat,
         NEW kind \in {"create", "change", "delete"},
         NEW ops \in Seq({"create", "write", "remove", "rename"}),
         Changed(f, c, kind, ops), kind \in {"create", "change"} => c # 0,
         Len(ops) >= 1, ops[1] \in EventsOf(kind)
  PROVE  WatcherInv'
  <1> USE DEF WatcherInv
  <1>1. /\ changes' = changes + 1 /\ content' = [content EXCEPT ![f] = c]
        /\ fsEvents' = fsEvents \o [i \in DOMAIN ops |-> [op |-> ops[i], file |-> f]]
        /\ reported' = [reported EXCEPT ![f] = FALSE] /\ last' = [last EXCEPT ![f] = kind]
        /\ UNCHANGED <<watching, registered, openFiles, debounceMap, job, frame, garbled>>
    BY DEF Changed
  <1>2. /\ fsEvents' \in Seq([op : {"create", "write", "remove", "rename"}, file : Files])
        /\ \A i \in 1 .. Len(fsEvents) : i \in 1 .. Len(fsEvents') /\ fsEvents'[i] = fsEvents[i]
        /\ \E k \in 1 .. Len(fsEvents') : fsEvents'[k].op = ops[1] /\ fsEvents'[k].file = f
    <2>1. 1 \in 1 .. Len(ops) /\ WatcherTypes
      OBVIOUS
    <2>2. QED
      BY <1>1, <2>1, EventsAdded
  <1>3. /\ content' \in [Files -> Nat] /\ changes' \in Nat \ {0}
        /\ reported' \in [Files -> BOOLEAN]
        /\ last' \in [Files -> {"", "create", "change", "delete"}]
        /\ content'[f] = c /\ last'[f] = kind
        /\ \A g \in Files \ {f} :
               content'[g] = content[g] /\ last'[g] = last[g] /\ reported'[g] = reported[g]
    <2>1. /\ content \in [Files -> Nat] /\ changes \in Nat \ {0} /\ reported \in [Files -> BOOLEAN]
          /\ last \in [Files -> {"", "create", "change", "delete"}]
      BY DEF WatcherTypes
    <2>2. changes' \in Nat \ {0}
      <3>1. changes \in Nat /\ changes' = changes + 1
        BY <1>1, <2>1
      <3>2. QED
        BY <3>1
    <2>3. content' \in [Files -> Nat] /\ content'[f] = c /\ \A g \in Files \ {f} : content'[g] = content[g]
      BY <1>1, <2>1
    <2>4. reported' \in [Files -> BOOLEAN] /\ \A g \in Files \ {f} : reported'[g] = reported[g]
      BY <1>1, <2>1
    <2>5. /\ last' \in [Files -> {"", "create", "change", "delete"}] /\ last'[f] = kind
          /\ \A g \in Files \ {f} : last'[g] = last[g]
      BY <1>1, <2>1
    <2>6. QED
      BY <2>2, <2>3, <2>4, <2>5
  <1>4. WatcherTypes'
    BY <1>1, <1>2, <1>3 DEF WatcherTypes
  <1>5. LastIsThere'
    BY <1>3 DEF LastIsThere
  <1>6. JobsFit' /\ MapFits'
    BY <1>1 DEF JobsFit, MapFits
  <1>7. UnreportedIsPending'
    <2> SUFFICES ASSUME watching, NEW g \in Files, last'[g] \in Kinds \cup {""}
                 PROVE  reported'[g] \/ Pending(g)'
      BY <1>1 DEF UnreportedIsPending
    <2>1. CASE g = f
      BY <2>1, <1>2, <1>3 DEF Pending, InEvents
    <2>2. CASE g # f /\ InEvents(g)
      BY <2>2, <1>2, <1>3 DEF Pending, InEvents
    <2>3. CASE g # f /\ \E b \in Actors : Bears(b, g)
      <3>1. PICK b \in Actors : Bears(b, g)
        BY <2>3
      <3>2. Bears(b, g)'
        BY <2>3, <3>1, <1>1, <1>3, SameBears
      <3>3. QED
        BY <3>2 DEF Pending
    <2>4. QED
      BY <2>1, <2>2, <2>3, <1>3 DEF UnreportedIsPending, Pending
  <1>8. QED
    BY <1>4, <1>5, <1>6, <1>7

LEMMA DiskKeeps ==
  ASSUME WatcherInv, ~garbled, NEW f \in Files, FileCreated(f) \/ FileWritten(f) \/ FileRemoved(f)
  PROVE  WatcherInv'
  <1>1. changes + 1 \in Nat /\ changes + 1 # 0 /\ 0 \in Nat
    <2>1. changes \in Nat
      BY DEF WatcherInv, WatcherTypes
    <2>2. QED
      BY <2>1
  <1>2. CASE FileCreated(f)
    <2> DEFINE ops == <<"create", "write">>
    <2>1. /\ ops \in Seq({"create", "write", "remove", "rename"}) /\ Len(ops) >= 1
          /\ ops[1] \in EventsOf("create")
      BY DEF EventsOf
    <2>2. Changed(f, changes + 1, "create", ops)
      BY <1>2 DEF FileCreated
    <2> HIDE DEF ops
    <2>3. QED
      BY <1>1, <2>1, <2>2, ChangedKeeps
  <1>3. CASE FileWritten(f)
    <2> DEFINE ops == <<"write">>
    <2>1. /\ ops \in Seq({"create", "write", "remove", "rename"}) /\ Len(ops) >= 1
          /\ ops[1] \in EventsOf("change")
      BY DEF EventsOf
    <2>2. Changed(f, changes + 1, "change", ops)
      BY <1>3 DEF FileWritten
    <2> HIDE DEF ops
    <2>3. QED
      BY <1>1, <2>1, <2>2, ChangedKeeps
  <1>4. CASE FileRemoved(f)
    <2>1. PICK op \in {"remove", "rename"} : Changed(f, 0, "delete", <<op>>)
      BY <1>4 DEF FileRemoved
    <2> DEFINE ops == <<op>>
    <2>2. /\ ops \in Seq({"create", "write", "remove", "rename"}) /\ Len(ops) >= 1
          /\ ops[1] \in EventsOf("delete")
      BY DEF EventsOf
    <2>3. Changed(f, 0, "delete", ops)
      BY <2>1
    <2> HIDE DEF ops
    <2>4. QED
      BY <1>1, <2>2, <2>3, ChangedKeeps
  <1>5. QED
    BY <1>2, <1>3, <1>4

\* Timer t is armed, and the timer before it stopped.
Arms(t, f, kind, jobs) ==
    /\ job' \in [Actors -> JobStates] /\ job'[t] = Does("armed", "", f, kind)
    /\ \A b \in Actors \ {t} :
          \/ job'[b] = jobs[b]
          \/ /\ b \in Timers /\ job'[b] = Rest
             /\ job[b].do = "armed" /\ job[b].file = f /\ job[b].kind = kind
    /\ job[t] = Rest \/ (job[t].do = "armed" /\ job[t].file = f /\ job[t].kind = kind)
    /\ debounceMap' = [debounceMap EXCEPT ![<<f, kind>>] = t]

\* What debounceHandleFileEvent does to the jobs and the map.
LEMMA DebouncedArms ==
  ASSUME WatcherBase, NEW f \in Files, NEW kind \in {"change", "create"},
         NEW jobs \in [Actors -> JobStates], \A t \in Timers : jobs[t] = job[t],
         Debounced(f, kind, jobs)
  PROVE  \E t \in Timers : Arms(t, f, kind, jobs)
  <1> DEFINE old == debounceMap[<<f, kind>>]
             stopped == IF old # Nobody /\ jobs[old].do = "armed"
                        THEN [jobs EXCEPT ![old] = Rest] ELSE jobs
             armed == Does("armed", "", f, kind)
  <1>1. <<f, kind>> \in Keys /\ old \in Timers \cup {Nobody}
    BY DEF Keys, WatcherBase, WatcherTypes
  <1>2. old # Nobody => old \in Actors /\ job[old].file = f /\ job[old].kind = kind
    BY <1>1, ActorsDiffer DEF WatcherBase, MapFits
  <1>3. PICK t \in FreeTimers \cup ({old} \cap {i \in Timers : stopped[i] = Rest}) :
            /\ job' = [stopped EXCEPT ![t] = armed]
            /\ debounceMap' = [debounceMap EXCEPT ![<<f, kind>>] = t]
    BY Zenon DEF Debounced
  <1>4. armed \in JobStates
    BY DEF Does, JobStates
  <1>5. /\ stopped \in [Actors -> JobStates]
        /\ \A b \in Actors : stopped[b] # jobs[b] =>
              b = old /\ old # Nobody /\ jobs[old].do = "armed" /\ stopped[b] = Rest
    BY <1>2, RestType
  <1>6. t \in Timers /\ t \in Actors
    BY <1>3, ActorsDiffer DEF FreeTimers
  <1>7. job[t] = Rest \/ (job[t].do = "armed" /\ job[t].file = f /\ job[t].kind = kind)
    <2>1. CASE t \in FreeTimers
      <3> HIDE DEF stopped, armed, old
      <3>1. QED
        BY <2>1 DEF FreeTimers
    <2>2. CASE t = old /\ stopped[t] = Rest
      <3>1. old # Nobody
        BY <1>6, <2>2, WatcherAssumption
      <3>2. stopped[t] = jobs[t] \/ jobs[t].do = "armed"
        BY <1>5, <1>6, <2>2
      <3>3. jobs[t] = job[t]
        BY <1>6
      <3> HIDE DEF stopped
      <3>4. QED
        BY <1>2, <2>2, <3>1, <3>2, <3>3
    <2>3. QED
      BY <1>3, <2>1, <2>2
  <1> HIDE DEF stopped, armed
  <1>8. /\ job' \in [Actors -> JobStates] /\ job'[t] = armed
        /\ \A b \in Actors \ {t} : job'[b] = stopped[b]
    BY <1>3, <1>4, <1>5, <1>6
  <1>9. ASSUME NEW b \in Actors \ {t}, job'[b] # jobs[b]
        PROVE  /\ b \in Timers /\ job'[b] = Rest
               /\ job[b].do = "armed" /\ job[b].file = f /\ job[b].kind = kind
    <2>1. b = old /\ old # Nobody /\ jobs[b].do = "armed" /\ job'[b] = Rest
      BY <1>5, <1>8, <1>9
    <2>2. b \in Timers /\ jobs[b] = job[b]
      BY <1>1, <2>1
    <2>3. QED
      BY <1>2, <2>1, <2>2
  <1>10. QED
    BY <1>3, <1>6, <1>7, <1>8, <1>9 DEF armed, Arms

\* The loop goes from an event, or to its rest, with a timer armed.
LEMMA DebouncedKeeps ==
  ASSUME WatcherInv, ~garbled, Quiet, NEW f \in Files, NEW kind \in {"change", "create"},
         NEW jobs, jobs = job \/ jobs = LoopRests, Debounced(f, kind, jobs),
         UNCHANGED <<watching, registered, openFiles, garbled, reported>>,
         fsEvents' \in Seq([op : {"create", "write", "remove", "rename"}, file : Files]),
         \A g \in Files : last[g] \in Kinds /\ InEvents(g) => InEvents(g)' \/ (g = f /\ last[g] = kind),
         jobs # job => \A g \in Files : Bears(Loop, g) => g = f /\ last[g] = kind
  PROVE  WatcherInv'
  <1> USE DEF WatcherInv
  <1>1. /\ jobs \in [Actors -> JobStates]
        /\ \A b \in Actors : jobs[b] # job[b] => b = Loop /\ jobs # job /\ jobs[b] = Rest
        /\ \A t \in Timers : jobs[t] = job[t]
    BY ActorsDiffer, RestType DEF LoopRests, WatcherTypes
  <1>0. PICK t \in Timers : Arms(t, f, kind, jobs)
    BY <1>1, DebouncedArms DEF WatcherBase
  <1>2. /\ job' \in [Actors -> JobStates] /\ job'[t] = Does("armed", "", f, kind)
        /\ \A b \in Actors \ {t} :
              \/ job'[b] = jobs[b]
              \/ /\ b \in Timers /\ job'[b] = Rest
                 /\ job[b].do = "armed" /\ job[b].file = f /\ job[b].kind = kind
        /\ job[t] = Rest \/ (job[t].do = "armed" /\ job[t].file = f /\ job[t].kind = kind)
        /\ debounceMap' = [debounceMap EXCEPT ![<<f, kind>>] = t]
    BY <1>0 DEF Arms
  <1>3. /\ t \in Actors /\ t # Loop /\ t # Preload /\ t # Nobody
        /\ <<f, kind>> \in Keys
    BY ActorsDiffer, WatcherAssumption DEF Keys
  <1>4. /\ job'[t].do = "armed" /\ job'[t].at = "" /\ job'[t].file = f /\ job'[t].kind = kind
    <2> DEFINE armed == Does("armed", "", f, kind)
    <2>1. armed.do = "armed" /\ armed.at = "" /\ armed.file = f /\ armed.kind = kind
      BY DEF Does
    <2>2. job'[t] = armed
      BY <1>2
    <2> HIDE DEF armed
    <2>3. QED
      BY <2>1, <2>2
  <1>5. ASSUME NEW b \in Actors \ {t}
        PROVE  \/ job'[b] = job[b]
               \/ b = Loop /\ jobs # job /\ job'[b] = Rest
               \/ /\ b \in Timers /\ job'[b] = Rest
                  /\ job[b].do = "armed" /\ job[b].file = f /\ job[b].kind = kind
    BY <1>1, <1>2
  <1>6. WatcherTypes'
    <2>1. debounceMap' \in [Keys -> Timers \cup {Nobody}]
      BY <1>2 DEF WatcherTypes
    <2>2. QED
      BY <1>2, <2>1 DEF WatcherTypes, Quiet
  <1>7. JobsFit'
    <2>1. ASSUME NEW b \in Actors
          PROVE  /\ job'[b].do \in {"rest", "tool"} => job'[b].file = Nobody
                 /\ job'[b].do = "armed" => job'[b].at = ""
                 /\ job'[b].do = "change" => job'[b].file \in openFiles'
                 /\ job'[b].at \in {"check", "header", "body", "mark"} => job'[b].file \in Files
                 /\ b # Preload /\ job'[b].at = "end" => job'[b].file \in Files
      <3>1. CASE b = t
        BY <3>1, <1>4
      <3>2. CASE b # t /\ job'[b] = Rest
        BY <3>2, RestType
      <3>3. CASE b # t /\ job'[b] = job[b]
        BY <3>3 DEF JobsFit
      <3>4. QED
        BY <1>5, <3>1, <3>2, <3>3
    <2>2. ASSUME NEW u \in Timers PROVE job'[u] = Rest \/ <<job'[u].file, job'[u].kind>> \in Keys
      <3>1. CASE u = t
        BY <3>1, <1>3, <1>4
      <3>2. CASE u # t
        BY <3>2, <1>5, ActorsDiffer DEF JobsFit
      <3>3. QED
        BY <3>1, <3>2
    <2>3. ~registered' => job'[Preload] = Rest
      BY <1>3, <1>5, ActorsDiffer DEF JobsFit
    <2>4. QED
      BY <2>1, <2>2, <2>3 DEF JobsFit
  <1>8. MapFits'
    <2> SUFFICES ASSUME NEW k \in Keys, debounceMap'[k] # Nobody
                 PROVE  job'[debounceMap'[k]].file = k[1] /\ job'[debounceMap'[k]].kind = k[2]
      BY DEF MapFits
    <2>1. CASE k = <<f, kind>>
      BY <2>1, <1>2, <1>3, <1>4 DEF WatcherTypes
    <2>2. CASE k # <<f, kind>>
      <3> DEFINE u == debounceMap[k]
      <3>1. debounceMap'[k] = u /\ u \in Timers
        BY <2>2, <1>2 DEF WatcherTypes
      <3>2. /\ job[u].file = k[1] /\ job[u].kind = k[2] /\ k = <<k[1], k[2]>> /\ k[1] \in Files
        BY <3>1 DEF MapFits, Keys
      <3>3. ~(job[u].file = f /\ job[u].kind = kind) /\ job[u] # Rest
        BY <2>2, <3>2, RestType
      <3> HIDE DEF u
      <3>4. u # t
        BY <1>2, <3>3
      <3>5. job'[u] = job[u]
        BY <1>5, <3>1, <3>3, <3>4, ActorsDiffer
      <3>6. QED
        BY <3>1, <3>2, <3>5
    <2>3. QED
      BY <2>1, <2>2
  <1>9. ASSUME NEW g \in Files, last[g] \in Kinds, Pending(g) PROVE Pending(g)'
    <2>1. CASE g = f /\ last[g] = kind
      <3>1. Bears(t, g)'
        BY <2>1, <1>4 DEF Bears, Quiet
      <3>2. QED
        BY <3>1, <1>3 DEF Pending
    <2>2. CASE ~(g = f /\ last[g] = kind) /\ InEvents(g)
      BY <1>9, <2>2 DEF Pending
    <2>3. CASE ~(g = f /\ last[g] = kind) /\ \E b \in Actors : Bears(b, g)
      <3>1. PICK b \in Actors : Bears(b, g)
        BY <2>3
      <3>2. b # t
        BY <1>2, <2>3, <3>1, RestType DEF Bears, JobsFit
      <3>3. job'[b] = job[b]
        BY <1>5, <2>3, <3>1, <3>2 DEF Bears, JobsFit
      <3>4. Bears(b, g)'
        BY <3>1, <3>3, SameBears DEF Quiet
      <3>5. QED
        BY <3>4 DEF Pending
    <2>4. QED
      BY <1>9, <2>1, <2>2, <2>3 DEF Pending
  <1>10. LastIsThere' /\ UnreportedIsPending'
    BY <1>9, StillPending DEF Quiet
  <1>11. QED
    BY <1>6, <1>7, <1>8, <1>10

\* The first event is taken from the others.
LEMMA EventTaken ==
  ASSUME WatcherTypes, fsEvents # <<>>, fsEvents' = Tail(fsEvents), UNCHANGED last
  PROVE  /\ fsEvents' \in Seq([op : {"create", "write", "remove", "rename"}, file : Files])
         /\ Head(fsEvents).file \in Files
         /\ Head(fsEvents).op \in {"create", "write", "remove", "rename"}
         /\ \A g \in Files : InEvents(g) =>
               InEvents(g)' \/ (g = Head(fsEvents).file /\ Head(fsEvents).op \in EventsOf(last[g]))
  <1> DEFINE Event == [op : {"create", "write", "remove", "rename"}, file : Files]
             e == Head(fsEvents)
  <1>1. fsEvents \in Seq(Event)
    BY DEF WatcherTypes
  <1>2. e \in Event => e.file \in Files /\ e.op \in {"create", "write", "remove", "rename"}
    OBVIOUS
  <1> HIDE DEF Event
  <1>3. /\ e \in Event /\ e = fsEvents[1] /\ fsEvents' \in Seq(Event)
        /\ Len(fsEvents) \in Nat /\ Len(fsEvents') = Len(fsEvents) - 1
        /\ \A i \in 1 .. Len(fsEvents') : fsEvents'[i] = fsEvents[i + 1]
    BY <1>1
  <1> HIDE DEF e
  <1>4. ASSUME NEW g \in Files, InEvents(g), ~(g = e.file /\ e.op \in EventsOf(last[g]))
        PROVE  InEvents(g)'
    <2>1. PICK i \in 1 .. Len(fsEvents) : fsEvents[i].file = g /\ fsEvents[i].op \in EventsOf(last[g])
      BY <1>4 DEF InEvents
    <2>2. i # 1
      BY <1>3, <1>4, <2>1
    <2>3. i - 1 \in 1 .. Len(fsEvents') /\ fsEvents'[i - 1] = fsEvents[i]
      BY <1>3, <2>2
    <2>4. fsEvents'[i - 1].file = g /\ fsEvents'[i - 1].op \in EventsOf(last'[g])
      BY <2>1, <2>3
    <2>5. QED
      BY <2>3, <2>4 DEF InEvents
  <1>5. QED
    BY <1>2, <1>3, <1>4 DEF e, Event

\* The loop goes from its rest to an event.
LEMMA LoopMoves ==
  ASSUME WatcherInv, ~garbled, Quiet, job[Loop] = Rest, NEW j, Fits(Loop, j),
         job' = [job EXCEPT ![Loop] = j],
         fsEvents' \in Seq([op : {"create", "write", "remove", "rename"}, file : Files]),
         UNCHANGED <<watching, registered, openFiles, debounceMap, garbled, reported>>,
         \A g \in Files : last[g] \in Kinds /\ InEvents(g) => InEvents(g)' \/ Bears(Loop, g)'
  PROVE  WatcherInv'
  <1> USE DEF WatcherInv
  <1>1. /\ job' \in [Actors -> JobStates] /\ job'[Loop] = j
        /\ \A b \in Actors \ {Loop} : job'[b] = job[b]
    BY ActorsDiffer DEF WatcherTypes, Fits
  <1>2. WatcherTypes'
    BY <1>1 DEF WatcherTypes, Quiet
  <1>3. JobsFit'
    <2>1. ASSUME NEW b \in Actors
          PROVE  /\ job'[b].do \in {"rest", "tool"} => job'[b].file = Nobody
                 /\ job'[b].do = "armed" => job'[b].at = ""
                 /\ job'[b].do = "change" => job'[b].file \in openFiles'
                 /\ job'[b].at \in {"check", "header", "body", "mark"} => job'[b].file \in Files
                 /\ b # Preload /\ job'[b].at = "end" => job'[b].file \in Files
      <3>1. CASE b = Loop
        BY <3>1, <1>1, ActorsDiffer DEF Fits
      <3>2. CASE b # Loop
        BY <3>2, <1>1 DEF JobsFit
      <3>3. QED
        BY <3>1, <3>2
    <2>2. ASSUME NEW t \in Timers PROVE job'[t] = Rest \/ <<job'[t].file, job'[t].kind>> \in Keys
      BY <1>1, ActorsDiffer DEF JobsFit
    <2>3. ~registered' => job'[Preload] = Rest
      BY <1>1, ActorsDiffer DEF JobsFit
    <2>4. QED
      BY <2>1, <2>2, <2>3 DEF JobsFit
  <1>4. MapFits'
    <2> SUFFICES ASSUME NEW k \in Keys, debounceMap[k] # Nobody
                 PROVE  job'[debounceMap[k]].file = k[1] /\ job'[debounceMap[k]].kind = k[2]
      BY DEF MapFits
    <2>1. debounceMap[k] \in Timers
      BY DEF WatcherTypes
    <2>2. QED
      BY <1>1, <2>1, ActorsDiffer DEF MapFits
  <1>5. ASSUME NEW f \in Files, last[f] \in Kinds, Pending(f) PROVE Pending(f)'
    <2>1. CASE InEvents(f)
      BY <2>1, <1>5, ActorsDiffer DEF Pending
    <2>2. CASE \E b \in Actors : Bears(b, f)
      <3>1. PICK b \in Actors : Bears(b, f)
        BY <2>2
      <3>2. b # Loop
        BY <3>1, ActorsDiffer, RestType, RestBearsNothing
      <3>3. Bears(b, f)'
        BY <1>1, <3>1, <3>2, SameBears DEF Quiet
      <3>4. QED
        BY <3>3 DEF Pending
    <2>3. QED
      BY <1>5, <2>1, <2>2 DEF Pending
  <1>6. LastIsThere' /\ UnreportedIsPending'
    BY <1>5, StillPending DEF Quiet
  <1>7. QED
    BY <1>2, <1>3, <1>4, <1>6

LEMMA LoopTakesKeeps ==
  ASSUME WatcherInv, ~garbled, Quiet, LoopTakes
  PROVE  WatcherInv'
  <1> USE DEF WatcherInv
  <1> DEFINE f == Head(fsEvents).file
             op == Head(fsEvents).op
  <1>1. /\ job[Loop] = Rest /\ fsEvents # <<>> /\ fsEvents' = Tail(fsEvents)
        /\ UNCHANGED <<watching, registered, openFiles, garbled, reported>>
    BY DEF LoopTakes
  <1>2. /\ fsEvents' \in Seq([op : {"create", "write", "remove", "rename"}, file : Files])
        /\ f \in Files /\ op \in {"create", "write", "remove", "rename"}
        /\ \A g \in Files : InEvents(g) => InEvents(g)' \/ (g = f /\ op \in EventsOf(last[g]))
    BY <1>1, EventTaken DEF Quiet
  <1>3. \/ /\ op = "create"
           /\ \/ Goes(Loop, Does("open", "check", f, "create"))
              \/ Goes(Loop, Does("open", "end", f, "create"))
           /\ UNCHANGED debounceMap
        \/ op = "write" /\ Watched("change") /\ Debounced(f, "change", job)
        \/ op = "write" /\ ~Watched("change") /\ UNCHANGED <<job, debounceMap>>
        \/ /\ op \in {"remove", "rename"}
           /\ Goes(Loop, Does("watch", IF Watched("delete") THEN "header" ELSE "end", f, op))
           /\ UNCHANGED debounceMap
    BY DEF LoopTakes
  <1> HIDE DEF f, op
  <1>4. \A g \in Files : op \in EventsOf(last[g]) =>
            /\ op = "create" => last[g] = "create"
            /\ op = "write" => last[g] = "change"
            /\ op \in {"remove", "rename"} => last[g] = "delete"
    BY <1>2 DEF EventsOf
  <1>5. ASSUME NEW j, Goes(Loop, j), Fits(Loop, j), UNCHANGED debounceMap,
               \A g \in Files : g = f /\ op \in EventsOf(last[g]) /\ last[g] \in Kinds =>
                                    Bears(Loop, g)'
        PROVE  WatcherInv'
    <2>1. job' = [job EXCEPT ![Loop] = j]
      BY <1>5 DEF Goes
    <2>2. \A g \in Files : last[g] \in Kinds /\ InEvents(g) => InEvents(g)' \/ Bears(Loop, g)'
      BY <1>2, <1>5
    <2>3. QED
      BY <1>1, <1>2, <1>5, <2>1, <2>2, LoopMoves
  <1>6. ASSUME NEW at \in {"check", "end"}, op = "create", UNCHANGED debounceMap,
               Goes(Loop, Does("open", at, f, "create"))
        PROVE  WatcherInv'
    <2> DEFINE j == Does("open", at, f, "create")
    <2>1. /\ Fits(Loop, j) /\ j.do = "open" /\ j.kind = "create" /\ j.file = f
      BY <1>2 DEF Fits, Does, JobStates
    <2>2. Goes(Loop, j)
      BY <1>6
    <2> HIDE DEF j
    <2>3. job'[Loop] = j
      BY <2>2, ActorsDiffer DEF Goes, WatcherTypes
    <2>4. \A g \in Files : g = f /\ op \in EventsOf(last[g]) => Bears(Loop, g)'
      BY <1>4, <1>6, <2>1, <2>3 DEF Bears, Quiet
    <2>5. QED
      BY <1>5, <1>6, <2>1, <2>2, <2>4
  <1>7. CASE op = "write" /\ Watched("change") /\ Debounced(f, "change", job)
    <2>1. \A g \in Files : last[g] \in Kinds /\ InEvents(g) =>
              InEvents(g)' \/ (g = f /\ last[g] = "change")
      BY <1>2, <1>4, <1>7
    <2>2. QED
      BY <1>1, <1>2, <1>7, <2>1, DebouncedKeeps
  <1>8. CASE op = "write" /\ ~Watched("change") /\ UNCHANGED <<job, debounceMap>>
    <2>1. "change" \notin Kinds
      BY <1>8 DEF Watched
    <2>2. Goes(Loop, Rest)
      BY <1>1, <1>8, ActorsDiffer DEF Goes, WatcherTypes
    <2>3. Fits(Loop, Rest)
      BY RestType DEF Fits
    <2>4. QED
      BY <1>4, <1>5, <1>8, <2>1, <2>2, <2>3
  <1>9. CASE /\ op \in {"remove", "rename"} /\ UNCHANGED debounceMap
             /\ Goes(Loop, Does("watch", IF Watched("delete") THEN "header" ELSE "end", f, op))
    <2> DEFINE at == IF Watched("delete") THEN "header" ELSE "end"
               j == Does("watch", at, f, op)
    <2>1. /\ at \in {"header", "end"}
          /\ at = "end" => "delete" \notin Kinds
      BY DEF Watched
    <2>2. Goes(Loop, j)
      BY <1>9
    <2> HIDE DEF at
    <2>3. /\ Fits(Loop, j) /\ j.do = "watch" /\ j.at = at /\ j.file = f
      BY <1>2, <1>9, <2>1 DEF Fits, Does, JobStates
    <2> HIDE DEF j
    <2>4. job'[Loop] = j
      BY <2>2, ActorsDiffer DEF Goes, WatcherTypes
    <2>5. \A g \in Files : g = f /\ op \in EventsOf(last[g]) /\ last[g] \in Kinds => Bears(Loop, g)'
      BY <1>4, <1>9, <2>1, <2>3, <2>4 DEF Bears, Quiet
    <2>6. QED
      BY <1>5, <1>9, <2>2, <2>3, <2>5
  <1>10. QED
    BY <1>3, <1>6, <1>7, <1>8, <1>9

LEMMA LoopEndsEventKeeps ==
  ASSUME WatcherInv, ~garbled, Quiet, LoopEndsEvent
  PROVE  WatcherInv'
  <1> USE DEF WatcherInv
  <1> DEFINE f == job[Loop].file
             kind == job[Loop].kind
  <1>1. /\ job[Loop].at = "end"
        /\ UNCHANGED <<fsEvents, registered, openFiles, garbled, reported>>
    BY DEF LoopEndsEvent
  <1>2. Loop \in Actors /\ Loop # Preload /\ Loop \notin Timers /\ f \in Files
    BY <1>1, ActorsDiffer DEF JobsFit
  <1>3. \A g \in Files : Bears(Loop, g) => g = f /\ kind = "create" /\ last[g] = "create"
    BY <1>1, <1>2 DEF Bears, JobsFit
  <1>4. /\ watching \in BOOLEAN /\ registered \in BOOLEAN
        /\ fsEvents \in Seq([op : {"create", "write", "remove", "rename"}, file : Files])
    BY DEF WatcherTypes
  <1>5. ASSUME Goes(Loop, Rest), UNCHANGED debounceMap, watching' \in BOOLEAN, watching' => watching,
               watching' => kind # "create" \/ "create" \notin Kinds
        PROVE  WatcherInv'
    <2>1. Fits(Loop, Rest)
      BY RestType DEF Fits
    <2>2. \A g \in Files : watching' /\ last[g] \in Kinds /\ Bears(Loop, g) => Bears(Loop, g)'
      BY <1>3, <1>5
    <2>3. QED
      BY <1>1, <1>2, <1>4, <1>5, <2>1, <2>2, JobStepKeeps
  <1>6. CASE watching' = FALSE /\ Goes(Loop, Rest) /\ UNCHANGED debounceMap
    BY <1>5, <1>6
  <1>7. CASE Debounced(f, "create", LoopRests) /\ UNCHANGED watching
    <2>1. \A g \in Files : last[g] \in Kinds /\ InEvents(g) =>
              InEvents(g)' \/ (g = f /\ last[g] = "create")
      BY <1>1 DEF InEvents, Quiet
    <2>2. LoopRests # job => \A g \in Files : Bears(Loop, g) => g = f /\ last[g] = "create"
      BY <1>3
    <2>3. fsEvents' \in Seq([op : {"create", "write", "remove", "rename"}, file : Files])
      BY <1>1, <1>4
    <2> HIDE DEF f
    <2>4. QED
      BY <1>1, <1>2, <1>7, <2>1, <2>2, <2>3, DebouncedKeeps
  <1>8. CASE /\ \/ kind = "create" /\ ~Watched("create")
                \/ kind \in {"remove", "rename"}
             /\ Goes(Loop, Rest) /\ UNCHANGED <<debounceMap, watching>>
    BY <1>4, <1>5, <1>8 DEF Watched
  <1>9. QED
    BY <1>6, <1>7, <1>8 DEF LoopEndsEvent

\* There is no report in events that are not there.
LEMMA NoneLeft == ASSUME fsEvents = <<>>, NEW f PROVE ~InEvents(f)
  <1>1. Len(fsEvents) = 0
    OBVIOUS
  <1>2. ASSUME NEW i \in 1 .. Len(fsEvents) PROVE FALSE
    BY <1>1
  <1>3. QED
    BY <1>2 DEF InEvents

-----------------------------------------------------------------------------

LEMMA WatcherNextInv == ASSUME WatcherInv, [WatcherNext]_watcherVars PROVE WatcherInv'
  <1>1. CASE WatcherNext
    <2>1. ~garbled
      BY <1>1 DEF WatcherNext
    <2>2. CASE \E f \in Files : FileCreated(f) \/ FileWritten(f) \/ FileRemoved(f)
      BY <2>1, <2>2, DiskKeeps
    <2>3. CASE Quiet /\ LoopTakes
      BY <2>1, <2>3, LoopTakesKeeps
    <2>4. CASE Quiet /\ LoopEndsEvent
      BY <2>1, <2>4, LoopEndsEventKeeps
    <2>5. CASE Quiet /\ (AddRegistrations \/ PreloadNext)
      BY <2>1, <2>5, PreloadKeeps
    <2>6. CASE Quiet /\ \E t \in Timers : TimerFires(t) \/ TimerEnds(t)
      BY <2>1, <2>6, TimerFiresKeeps, TimerEndsKeeps
    <2>7. CASE Quiet /\ \E t \in Tools : ToolStarts(t) \/ ToolEnds(t)
      BY <2>1, <2>7, ToolKeeps
    <2>8. CASE Quiet /\ \E a \in Actors : TellStep(a)
      BY <2>1, <2>8, TellStepKeeps
    <2>9. QED
      BY <1>1, <2>2, <2>3, <2>4, <2>5, <2>6, <2>7, <2>8 DEF WatcherNext
  <1>2. CASE UNCHANGED watcherVars
    <2> USE <1>2 DEF watcherVars
    <2>1. WatcherTypes' /\ LastIsThere' /\ JobsFit' /\ MapFits'
      BY DEF WatcherInv, WatcherTypes, LastIsThere, JobsFit, MapFits
    <2>2. UnreportedIsPending'
      <3>1. \A f \in Files : Pending(f)' <=> Pending(f)
        BY SameBears DEF Pending, InEvents
      <3>2. QED
        BY <3>1 DEF WatcherInv, UnreportedIsPending
    <2>3. QED
      BY <2>1, <2>2 DEF WatcherInv
  <1>3. QED
    BY <1>1, <1>2

\* The inductive invariant of the watcher: while the loop runs and no message
\* was written into another one, the last change of each file, of a kind that
\* the server wants to be told, has been told or is on its way.
THEOREM WatcherCorrect == WatcherSpec => []WatcherInv
  <1>1. WatcherInit => WatcherInv
    BY WatcherInitInv
  <1>2. WatcherInv /\ [WatcherNext]_watcherVars => WatcherInv'
    BY WatcherNextInv
  <1>3. QED
    BY <1>1, <1>2, PTL DEF WatcherSpec

\* The types of what the watcher keeps.
THEOREM WatcherTyped == WatcherSpec => []WatcherTypes
  <1>1. WatcherInv => WatcherTypes
    BY DEF WatcherInv
  <1>2. QED
    BY <1>1, WatcherCorrect, PTL

\* When everybody is at rest the server has heard of the last change of every
\* file: whatever order timers, tools and the loop run in.
THEOREM EveryChangeReported == WatcherSpec => []NoChangeUnreported
  <1>1. WatcherInv => NoChangeUnreported
    <2> SUFFICES ASSUME WatcherInv, Settled, watching, ~garbled,
                        NEW f \in Files, last[f] \in Kinds \cup {""}
                 PROVE  reported[f]
      BY DEF NoChangeUnreported
    <2>1. reported[f] \/ Pending(f)
      BY DEF WatcherInv, UnreportedIsPending
    <2>2. ~InEvents(f)
      BY NoneLeft DEF Settled
    <2>3. ASSUME NEW a \in Actors PROVE ~Bears(a, f)
      <3>1. job[a] = Rest \/ job[a].do = "tool"
        BY DEF Settled
      <3>2. job[a].file = Nobody
        BY <3>1, RestType DEF WatcherInv, JobsFit
      <3>3. QED
        BY <3>2, RestBearsNothing
    <2>4. QED
      BY <2>1, <2>2, <2>3 DEF Pending
  <1>2. QED
    BY <1>1, WatcherCorrect, PTL

=============================================================================
