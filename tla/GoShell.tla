------------------------------ MODULE GoShell ------------------------------
(***************************************************************************)
(* The persistent shell of the bash tool (internal/llm/tools/bash.go and   *)
(* shell/shell.go). Sessions call it from goroutines of their own; one     *)
(* goroutine per shell takes commands from a channel, writes them to the   *)
(* input of the process and polls for the file with their exit code.       *)
(***************************************************************************)
EXTENDS Naturals, FiniteSets, Sequences

CONSTANTS
    Calls,      \* bound: the calls of the tool, each with its command
    NoCall,     \* no call
    Room,       \* the capacity of commandQueue
    MaxShells   \* bound: the shells that are started

ASSUME ShellAssumption ==
    NoCall \notin Calls /\ Room \in Nat \ {0} /\ MaxShells \in Nat \ {0}

VARIABLES
    call,      \* the stage of each call, and how it returned
    shellOf,   \* the shell of a call
    started,   \* the shells that were started
    once,      \* shellInstanceOnce was done
    instance,  \* shellInstance, 0 for nil
    proc,      \* the process runs
    isAlive,   \* PersistentShell.isAlive
    queue,     \* commandQueue
    closed,    \* commandQueue was closed
    current,   \* the command that execCommand waits for
    input,     \* the commands in the pipe; the first one is being run
    status,    \* the commands whose exit code is in a file
    name,      \* the reading of the clock that names the files of a command,
               \* itself named after the first command it was read for
    codeOf     \* history: the command whose exit code a call returned

shellVars == <<call, shellOf, started, once, instance, proc, isAlive, queue, closed, current, input, status, name, codeOf>>

Shells == 1 .. MaxShells
Returned == {"complete", "interrupted", "failed", "refused", "panicked"}

ShellInit ==
    /\ call = [c \in Calls |-> "idle"]
    /\ shellOf = [c \in Calls |-> 0]
    /\ started = {} /\ once = FALSE /\ instance = 0
    /\ proc = [h \in Shells |-> FALSE]
    /\ isAlive = [h \in Shells |-> FALSE]
    /\ queue = [h \in Shells |-> <<>>]
    /\ closed = [h \in Shells |-> FALSE]
    /\ current = [h \in Shells |-> NoCall]
    /\ input = [h \in Shells |-> <<>>]
    /\ status = {}
    /\ name = [c \in Calls |-> NoCall]
    /\ codeOf = [c \in Calls |-> NoCall]

To(c, stage) == call' = [call EXCEPT ![c] = stage]

-----------------------------------------------------------------------------
(* The side of the tool. *)

\* Run: bad parameters, a banned command or a denial return; what neither is
\* safe nor was allowed goes to the user.
BashRun(c) ==
    /\ call[c] = "idle"
    /\ \E to \in {"shell", "refused"} : To(c, to)
    /\ UNCHANGED <<shellOf, started, once, instance, proc, isAlive, queue, closed, current, input, status, name, codeOf>>

\* newPersistentShell: the next shell, which is kept as shellInstance.
NewPersistentShell(h) ==
    /\ h \notin started /\ \A g \in Shells \ started : h <= g
    /\ started' = started \cup {h} /\ instance' = h
    /\ proc' = [proc EXCEPT ![h] = TRUE]
    /\ isAlive' = [isAlive EXCEPT ![h] = TRUE]

\* GetPersistentShell: the first call starts a shell, while others wait for
\* shellInstanceOnce. It may fail.
First(c) ==
    /\ call[c] = "shell" /\ ~once
    /\ once' = TRUE
    /\ \/ \E h \in Shells : NewPersistentShell(h)
       \/ UNCHANGED <<started, instance, proc, isAlive>>
    /\ UNCHANGED <<call, shellOf, queue, closed, current, input, status, name, codeOf>>

\* GetPersistentShell looks at the shell that there is.
Look(c) ==
    /\ call[c] = "shell" /\ once
    /\ IF instance # 0 /\ isAlive[instance]
       THEN To(c, "exec") /\ shellOf' = [shellOf EXCEPT ![c] = instance]
       ELSE To(c, "start") /\ UNCHANGED shellOf
    /\ UNCHANGED <<started, once, instance, proc, isAlive, queue, closed, current, input, status, name, codeOf>>

\* GetPersistentShell replaces one that is not alive. Two calls may each start
\* one; the later is kept. A shell that cannot be started is nil, and Exec
\* panics.
NewShell(c) ==
    /\ call[c] = "start"
    /\ \/ /\ instance' = 0 /\ To(c, "panicked")
          /\ UNCHANGED <<shellOf, started, proc, isAlive>>
       \/ \E h \in Shells :
            /\ NewPersistentShell(h)
            /\ shellOf' = [shellOf EXCEPT ![c] = h]
            /\ To(c, "exec")
    /\ UNCHANGED <<once, queue, closed, current, input, status, name, codeOf>>

\* Exec: the look at isAlive.
Exec(c) ==
    /\ call[c] = "exec"
    /\ To(c, IF isAlive[shellOf[c]] THEN "send" ELSE "failed")
    /\ UNCHANGED <<shellOf, started, once, instance, proc, isAlive, queue, closed, current, input, status, name, codeOf>>

\* Exec: the command is sent, which waits for room in the channel, and panics
\* if it was closed.
Send(c) ==
    /\ call[c] = "send"
    /\ LET h == shellOf[c]
       IN  IF closed[h]
           THEN To(c, "panicked") /\ UNCHANGED queue
           ELSE /\ Len(queue[h]) < Room
                /\ queue' = [queue EXCEPT ![h] = Append(@, c)]
                /\ To(c, "wait")
    /\ UNCHANGED <<shellOf, started, once, instance, proc, isAlive, closed, current, input, status, name, codeOf>>

-----------------------------------------------------------------------------
(* processCommands and execCommand of a shell. *)

\* Faulty variant of NameOf: the files are named after the shell.
NameOfShell(h, c) == {h}

\* time.Now().UnixNano(), when h takes c: a new reading, or just the one that
\* another shell made for a command it still waits for. Of one that was
\* answered it differs, by the 10 ms until the first look at its file or by the
\* time of pgrep.
NameOf(h, c) ==
    {c} \cup {n \in Calls : (\E d \in Calls : name[d] = n)
                          /\ \A d \in Calls : name[d] = n => current[shellOf[d]] = d}

\* The command c is written to the shell, which will write to its file.
Writes(h, c) ==
    /\ current' = [current EXCEPT ![h] = c]
    /\ input' = [input EXCEPT ![h] = Append(@, c)]
    /\ \E n \in NameOf(h, c) : name' = [name EXCEPT ![c] = n]
    /\ UNCHANGED call

\* Faulty variant of Takes: the loop ends with the shell.
TakesAlive(h) ==
    /\ current[h] = NoCall /\ queue[h] # <<>> /\ isAlive[h]
    /\ queue' = [queue EXCEPT ![h] = Tail(@)]
    /\ LET c == Head(queue[h])
       IN  \/ /\ ~proc[h] /\ To(c, "failed") /\ UNCHANGED <<current, input, name>>
           \/ proc[h] /\ Writes(h, c)
    /\ UNCHANGED <<shellOf, started, once, instance, proc, isAlive, closed, status, codeOf>>

\* The next command: the shell is dead, or its input is closed, or the command
\* is written to it. What is left in a closed channel is still taken.
Takes(h) ==
    /\ current[h] = NoCall /\ queue[h] # <<>>
    /\ queue' = [queue EXCEPT ![h] = Tail(@)]
    /\ LET c == Head(queue[h])
       IN  \/ /\ ~isAlive[h] \/ ~proc[h]
              /\ To(c, "failed") /\ UNCHANGED <<current, input, name>>
           \/ isAlive[h] /\ proc[h] /\ Writes(h, c)
    /\ UNCHANGED <<shellOf, started, once, instance, proc, isAlive, closed, status, codeOf>>

\* The commands whose files have the name of that of c.
SameFile(c) == {d \in Calls : name[d] = name[c]}

\* A command ends: its exit code is in its file, instead of another that was.
EndOfCommand(c) == (status \ SameFile(c)) \cup {c}

\* execCommand returns, its files are removed, and Exec returns.
Answers(h, result, files) ==
    /\ call' = [call EXCEPT ![current[h]] = result]
    /\ current' = [current EXCEPT ![h] = NoCall]
    /\ status' = files \ SameFile(current[h])
    /\ UNCHANGED name

\* The file of the command is there and has an exit code, which is read.
Completes(h) ==
    /\ current[h] # NoCall
    /\ \E d \in status \cap SameFile(current[h]) : codeOf' = [codeOf EXCEPT ![current[h]] = d]
    /\ Answers(h, "complete", status)
    /\ UNCHANGED <<shellOf, started, once, instance, proc, isAlive, queue, closed, input>>

\* The context is cancelled, or the time over: killChildren ends the child
\* that the shell waits for, if it has one and this one ends. The command may
\* have been in the pipe behind another, where it stays.
Interrupts(h) ==
    /\ current[h] # NoCall
    /\ \/ Answers(h, "interrupted", status) /\ UNCHANGED input
       \/ /\ proc[h] /\ input[h] # <<>>
          /\ input' = [input EXCEPT ![h] = Tail(@)]
          /\ Answers(h, "interrupted", EndOfCommand(Head(input[h])))
    /\ UNCHANGED <<shellOf, started, once, instance, proc, isAlive, queue, closed, codeOf>>

-----------------------------------------------------------------------------
(* The process. *)

\* The command ends and its exit code is written.
ShellRuns(h) ==
    /\ proc[h] /\ input[h] # <<>>
    /\ input' = [input EXCEPT ![h] = Tail(@)]
    /\ status' = EndOfCommand(Head(input[h]))
    /\ UNCHANGED <<call, shellOf, started, once, instance, proc, isAlive, queue, closed, current, name, codeOf>>

\* The shell ends: the command was exit or exec, or somebody killed it.
ShellDies(h) ==
    /\ proc[h]
    /\ proc' = [proc EXCEPT ![h] = FALSE]
    /\ input' = [input EXCEPT ![h] = <<>>]
    /\ UNCHANGED <<call, shellOf, started, once, instance, isAlive, queue, closed, current, status, name, codeOf>>

\* cmd.Wait returns, in two steps.
Waited(h) ==
    /\ h \in started /\ ~proc[h]
    /\ \/ isAlive[h] /\ isAlive' = [isAlive EXCEPT ![h] = FALSE] /\ UNCHANGED closed
       \/ ~isAlive[h] /\ ~closed[h] /\ closed' = [closed EXCEPT ![h] = TRUE] /\ UNCHANGED isAlive
    /\ UNCHANGED <<call, shellOf, started, once, instance, proc, queue, current, input, status, name, codeOf>>

-----------------------------------------------------------------------------

CallStep(c) == First(c) \/ Look(c) \/ NewShell(c) \/ Exec(c) \/ Send(c)
Worker(h) == Takes(h) \/ Completes(h) \/ Interrupts(h) \/ Waited(h)

ShellNext ==
    \/ \E c \in Calls : BashRun(c) \/ CallStep(c)
    \/ \E h \in Shells : Worker(h) \/ ShellRuns(h) \/ ShellDies(h)

\* The goroutines are scheduled, and every command has a timeout. The commands
\* themselves need not end.
ShellFairness ==
    /\ \A c \in Calls : SF_shellVars(CallStep(c))
    /\ \A h \in Shells : WF_shellVars(Takes(h)) /\ WF_shellVars(Completes(h) \/ Interrupts(h))
                         /\ WF_shellVars(Waited(h))

ShellSpec == ShellInit /\ [][ShellNext]_shellVars /\ ShellFairness

-----------------------------------------------------------------------------
(* Properties. *)

\* The commands of two shells, whose files are named after the same reading of
\* the clock.
Twin(c, d) == shellOf[c] # shellOf[d] /\ name[c] = name[d]

\* A call returns the exit code of its own command: not that of one before it
\* in the pipe, which was reported as interrupted, whose file was removed
\* then, and which ends and writes it again while a later command is awaited;
\* nor is its own file overwritten like that before it is read. What keeps them
\* apart is the clock alone, between shells too (shell.go:149-158, 160-182,
\* 190-244).
OwnExitCode ==
    \A c \in Calls : call[c] = "complete" => codeOf[c] = c \/ Twin(c, codeOf[c])

\* Every call of the tool returns or panics, though the shell may die at any
\* moment between the look at isAlive, the sending of the command and its
\* answer, and a command may never end (shell.go:111-137, 186-244, 271-288).
CallsReturn == \A c \in Calls : call[c] = "shell" ~> call[c] \in Returned

-----------------------------------------------------------------------------
(* What the answer of the tool says and the code does not do. *)

\* bash.go:301: a command that was interrupted was aborted before completion.
\* One that waits in the pipe behind another, or does not end by SIGTERM, runs
\* on, or begins only then.
AbortedIsOver ==
    \A h \in Shells : proc[h] => \A i \in DOMAIN input[h] : call[input[h][i]] # "interrupted"

=============================================================================
