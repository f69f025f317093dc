----------------------------- MODULE McpClient -----------------------------
(***************************************************************************)
(* The MCP clients of the engine and the registry that connects them: one  *)
(* child process for each server, requests matched to answers by id, a     *)
(* timer for every request.                                                *)
(*                                                                         *)
(* The servers are foreign programs: they answer in any order, twice, late *)
(* or never, send notifications and noise, and die at any time.            *)
(***************************************************************************)
EXTENDS Naturals, FiniteSets

CONSTANTS
    Servers,
    MaxRequests,  \* bound: requests to one server
    MaxEchoes     \* bound: answers to one request

ASSUME McpAssumption == MaxRequests \in Nat /\ MaxEchoes \in Nat \ {0}

VARIABLES
    up,       \* FALSE when an unhandled error ended the engine
    proc,     \* the child: running, deaf (it closed its stdin), dead or ghost
              \* (no such command), exited or unspawned once that is noticed
    sent,     \* requestId
    call,     \* what became of each request
    pending,  \* keys of the pending map, one timer each
    heard,    \* requests the server has received
    echoes,   \* answers it has written for each request
    wire,     \* ids of the answers written and not yet read
    stage,    \* where connectAll stands with the server
    closed    \* close() was called

vars == <<up, proc, sent, call, pending, heard, echoes, wire, stage, closed>>

Ids == 1 .. MaxRequests
Outcomes == {"none", "waiting", "answered", "timedOut", "rejected"}
Stages == {"new", "init", "list", "ready", "failed"}
Procs == {"running", "deaf", "dead", "ghost", "exited", "unspawned"}

Init ==
    /\ up = TRUE
    /\ proc \in [Servers -> {"running", "ghost"}]
    /\ sent = [s \in Servers |-> 0]
    /\ call = [s \in Servers |-> [i \in Ids |-> "none"]]
    /\ pending = [s \in Servers |-> {}]
    /\ heard = [s \in Servers |-> {}]
    /\ echoes = [s \in Servers |-> [i \in Ids |-> 0]]
    /\ wire = [s \in Servers |-> {}]
    /\ stage = [s \in Servers |-> "new"]
    /\ closed = FALSE

\* exit and error destroy stdin before their handlers run.
StdinDestroyed(s) == proc[s] \in {"exited", "unspawned"}

\* The requests in "ids" of server s end with the outcome o.
SettleAll(s, ids, o) ==
    /\ pending' = [pending EXCEPT ![s] = @ \ ids]
    /\ call' = [call EXCEPT ![s] =
                  [i \in Ids |-> IF i \in ids THEN o ELSE call[s][i]]]

(***************************************************************************)
(* request: an entry, a timer and a line on stdin.  writeMsg on a          *)
(* destroyed stdin rejects everything, the new request included.           *)
(***************************************************************************)
\* Faulty variant of Request: writeMsg does not look at stdin.
RequestUnchecked(s) ==
    /\ sent[s] < MaxRequests
    /\ sent' = [sent EXCEPT ![s] = @ + 1]
    /\ call' = [call EXCEPT ![s][sent'[s]] = "waiting"]
    /\ pending' = [pending EXCEPT ![s] = @ \cup {sent'[s]}]
    /\ heard' = [heard EXCEPT ![s] =
                   IF proc[s] = "running" THEN @ \cup {sent'[s]} ELSE @]

Request(s) ==
    /\ sent[s] < MaxRequests
    /\ sent' = [sent EXCEPT ![s] = @ + 1]
    /\ IF StdinDestroyed(s)
       THEN /\ SettleAll(s, pending[s] \cup {sent'[s]}, "rejected")
            /\ UNCHANGED heard
       ELSE /\ call' = [call EXCEPT ![s][sent'[s]] = "waiting"]
            /\ pending' = [pending EXCEPT ![s] = @ \cup {sent'[s]}]
            /\ heard' = [heard EXCEPT ![s] =
                           IF proc[s] = "running" THEN @ \cup {sent'[s]} ELSE @]

\* connectAll: initialize, then tools/list, all servers at once.
Initialize(s) ==
    /\ up /\ stage[s] = "new"
    /\ stage' = [stage EXCEPT ![s] = "init"]
    /\ Request(s)
    /\ UNCHANGED <<up, proc, echoes, wire, closed>>

\* Faulty variant of ListTools: a notification that cannot be written is
\* dropped in silence.
ListToolsOrDrop(s) ==
    /\ up /\ stage[s] = "init" /\ call[s][1] = "answered"
    /\ ~StdinDestroyed(s)
    /\ stage' = [stage EXCEPT ![s] = "list"]
    /\ Request(s)
    /\ UNCHANGED <<up, proc, echoes, wire, closed>>

\* initialize was answered: the initialized notification, then tools/list.
ListTools(s) ==
    /\ up /\ stage[s] = "init" /\ call[s][1] = "answered"
    /\ IF StdinDestroyed(s)
       THEN stage' = [stage EXCEPT ![s] = "failed"]
            /\ SettleAll(s, pending[s], "rejected")
            /\ UNCHANGED <<sent, heard>>
       ELSE stage' = [stage EXCEPT ![s] = "list"] /\ Request(s)
    /\ UNCHANGED <<up, proc, echoes, wire, closed>>

Handshake(s) == IF stage[s] = "init" THEN 1 ELSE 2

Connected(s) ==
    /\ stage[s] = "list" /\ call[s][2] = "answered"
    /\ stage' = [stage EXCEPT ![s] = "ready"]
    /\ UNCHANGED <<up, proc, sent, call, pending, heard, echoes, wire, closed>>

ConnectFails(s) ==
    /\ stage[s] \in {"init", "list"}
    /\ call[s][Handshake(s)] \in {"timedOut", "rejected"}
    /\ stage' = [stage EXCEPT ![s] = "failed"]
    /\ UNCHANGED <<up, proc, sent, call, pending, heard, echoes, wire, closed>>

\* invoke: only the tools of a server that listed them are offered.
CallTool(s) ==
    /\ up /\ stage[s] = "ready"
    /\ Request(s)
    /\ UNCHANGED <<up, proc, echoes, wire, stage, closed>>

\* A line for a child that no longer reads: stdin has no "error" listener.
BrokenPipe(s) ==
    /\ up /\ proc[s] \in {"deaf", "dead"}
    /\ \E i \in pending[s] : i \notin heard[s]
    /\ up' = FALSE
    /\ UNCHANGED <<proc, sent, call, pending, heard, echoes, wire, stage, closed>>

(***************************************************************************)
(* handleLine, the timer and the end of the child.                         *)
(***************************************************************************)
\* Faulty variant of ReadAnswer: the entry is not looked up first.
ReadAnyAnswer(s, i, o) ==
    /\ up /\ i \in wire[s]
    /\ wire' = [wire EXCEPT ![s] = @ \ {i}]
    /\ SettleAll(s, {i}, o)
    /\ UNCHANGED <<up, proc, sent, heard, echoes, stage, closed>>

\* An answer to a request that is no longer pending is ignored.  An error
\* answer counts as "rejected" for whoever asked.
ReadAnswer(s, i, o) ==
    /\ up /\ i \in wire[s]
    /\ wire' = [wire EXCEPT ![s] = @ \ {i}]
    /\ IF i \in pending[s]
       THEN SettleAll(s, {i}, o)
       ELSE UNCHANGED <<call, pending>>
    /\ UNCHANGED <<up, proc, sent, heard, echoes, stage, closed>>

\* Faulty variant of TimeOut: the timer is armed only once the server has read
\* the request.
TimeOutOnceHeard(s, i) ==
    /\ up /\ i \in pending[s] \cap heard[s]
    /\ SettleAll(s, {i}, "timedOut")
    /\ UNCHANGED <<up, proc, sent, heard, echoes, wire, stage, closed>>

TimeOut(s, i) ==
    /\ up /\ i \in pending[s]
    /\ SettleAll(s, {i}, "timedOut")
    /\ UNCHANGED <<up, proc, sent, heard, echoes, wire, stage, closed>>

\* onExit, for "exit" and for "error"; answers still in the pipe may be read.
\* connectAll sends its first request before any event of the child.
ExitNoticed(s) ==
    /\ up /\ proc[s] = "dead" /\ stage[s] # "new"
    /\ proc' = [proc EXCEPT ![s] = "exited"]
    /\ SettleAll(s, pending[s], "rejected")
    /\ UNCHANGED <<up, sent, heard, echoes, wire, stage, closed>>

SpawnFails(s) ==
    /\ up /\ proc[s] = "ghost" /\ stage[s] # "new"
    /\ proc' = [proc EXCEPT ![s] = "unspawned"]
    /\ SettleAll(s, pending[s], "rejected")
    /\ UNCHANGED <<up, sent, heard, echoes, wire, stage, closed>>

\* McpRegistry.close: every client rejects its requests and signals its child,
\* which may take its time to die.
Close ==
    /\ up /\ ~closed
    /\ closed' = TRUE
    /\ call' = [s \in Servers |-> [i \in Ids |->
                  IF i \in pending[s] THEN "rejected" ELSE call[s][i]]]
    /\ pending' = [s \in Servers |-> {}]
    /\ UNCHANGED <<up, proc, sent, heard, echoes, wire, stage>>

(***************************************************************************)
(* The foreign server.                                                     *)
(***************************************************************************)
Answer(s, i) ==
    /\ proc[s] \in {"running", "deaf"}
    /\ i \in heard[s] \ wire[s] /\ echoes[s][i] < MaxEchoes
    /\ echoes' = [echoes EXCEPT ![s][i] = @ + 1]
    /\ wire' = [wire EXCEPT ![s] = @ \cup {i}]
    /\ UNCHANGED <<up, proc, sent, call, pending, heard, stage, closed>>

ServerFails(s, p) ==
    /\ \/ proc[s] = "running" /\ p \in {"deaf", "dead"}
       \/ proc[s] = "deaf" /\ p = "dead"
    /\ proc' = [proc EXCEPT ![s] = p]
    /\ UNCHANGED <<up, sent, call, pending, heard, echoes, wire, stage, closed>>

Next ==
    \/ \E s \in Servers :
         \/ Initialize(s) \/ ListTools(s) \/ Connected(s) \/ ConnectFails(s)
         \/ CallTool(s) \/ BrokenPipe(s) \/ ExitNoticed(s) \/ SpawnFails(s)
         \/ \E p \in {"deaf", "dead"} : ServerFails(s, p)
         \/ \E i \in Ids :
              \/ \E o \in {"answered", "rejected"} : ReadAnswer(s, i, o)
              \/ TimeOut(s, i) \/ Answer(s, i)
    \/ Close

\* The timers fire, the exit of a child is reported, and the promises that
\* connectAll awaits come back.  Nothing is assumed of the servers.
Fairness ==
    \A s \in Servers :
        /\ \A i \in Ids : WF_vars(TimeOut(s, i))
        /\ WF_vars(Initialize(s)) /\ WF_vars(ListTools(s))
        /\ WF_vars(Connected(s)) /\ WF_vars(ConnectFails(s))

Spec == Init /\ [][Next]_vars /\ Fairness

(***************************************************************************)
(* Properties.                                                             *)
(***************************************************************************)
\* The type of every variable.
TypeOK ==
    /\ up \in BOOLEAN /\ closed \in BOOLEAN
    /\ proc \in [Servers -> Procs]
    /\ sent \in [Servers -> 0 .. MaxRequests]
    /\ call \in [Servers -> [Ids -> Outcomes]]
    /\ pending \in [Servers -> SUBSET Ids]
    /\ heard \in [Servers -> SUBSET Ids]
    /\ echoes \in [Servers -> [Ids -> 0 .. MaxEchoes]]
    /\ wire \in [Servers -> SUBSET Ids]
    /\ stage \in [Servers -> Stages]

\* The map holds exactly the requests whose promise is open: none is forgotten
\* without an outcome, none keeps an entry and a timer after it.
PendingIsWaiting ==
    \A s \in Servers : pending[s] = {i \in Ids : call[s][i] = "waiting"}

\* Once the end of the child is known no request waits for it: old ones were
\* rejected, new ones are at once.
NoneWaitsForTheDead ==
    \A s \in Servers : StdinDestroyed(s) => pending[s] = {}

\* An outcome is final, whatever late or repeated answers arrive.
SettledOnce ==
    [][\A s \in Servers, i \in Ids :
         call[s][i] \notin {"none", "waiting"} => call'[s][i] = call[s][i]]_vars

\* Every request ends, and so does connecting, unless the engine is gone.
EveryRequestEnds ==
    \A s \in Servers, i \in Ids :
        (call[s][i] = "waiting") ~> (call[s][i] # "waiting" \/ ~up)

ConnectingEnds ==
    \A s \in Servers : <>(stage[s] \in {"ready", "failed"} \/ ~up)
============================================================================
