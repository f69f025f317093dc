# Noira Coder: specification and proofs

TLA+ modules for Noira Coder: its engine in TypeScript, its screens, services and
tools in Go, and the wrapper that starts them. They are model-checked with TLC
and, where it matters most, proved with TLAPS. Paths below are relative to the
repository; `thin.ts:511` is a line of a file.

## The system

`noiracoder` is a coding assistant for the terminal. A wrapper
(`bin/noiracoder.mjs`) starts two processes: the *engine* in TypeScript
(`src/`) and the *thin client* in Go (`cmd/noira-thin`, `internal/thinclient`).
They speak HTTP on a local port: requests go to the engine, and one event stream
(`GET /v1/events`) goes to the client (`docs/PROTOCOL.md`). The rest of
`internal/` is a fork of an older assistant in Go, a program of its own, with an
agent service, permissions, an event broker, a database, tools, language servers
and screens.

| Part | State | Operations | Talks to |
|---|---|---|---|
| Thin server (`src/server/thin.ts`) | stream, active turn, pending confirmations and options, task queue, watchdog | connect, turn, cancel, confirm, options, queue, close | client, orchestrator, session store |
| Agent loop and orchestrator (`src/agents/`) | providers that are out, models tried, counts of failures, one loop per role | start a role, call, run tools, rotate, abort | router, providers, tool registry |
| Router, ranker, quotas (`src/models/`) | candidates used, cooldowns, budget of the account | decide, record success, record failure | orchestrator |
| File tools and undo (`src/tools/`) | the user's files, `stacks.json` | write, edit, delete, snapshot, undo, redo | agent loop, `POST /v1/undo` |
| MCP client and registry (`src/mcp/`) | child processes, open requests, timers | connect, initialize, list, call, close | foreign servers |
| Session store and titles (`src/memory/sessions.ts`, `src/server/titles.ts`) | one JSON file per session | create, append, rename, pin, title, delete | turns, endpoints |
| Sandbox policy, context, learning, credentials, languages | files of settings | pure functions and file access | tools, orchestrator |
| Wrapper | two child processes, the port, timers | start, watch, kill, fall back | engine, client |
| Go thin client (`internal/thinclient`) | the Model: turn, dialogs, panel, input; goroutines with a POST | keys, clicks, events of the stream, timers | engine |
| Go agent service (`internal/llm/agent`, `provider`, `permission`, `pubsub`) | active requests, messages, open permissions, subscribers | run, cancel, summarize, stream, ask, answer | screens, providers, tools |
| Go sessions, messages, history (`internal/session`, `message`, `history`, `db`) | rows of SQLite | list, create, save, version | agent, tools, sidebar |
| Go file tools (`internal/llm/tools`) | the disk, when files were read and written | view, edit, write, patch | permissions, history, language servers |
| Go patch parser and shell (`internal/diff/patch.go`, `tools/bash.go`, `tools/shell`) | the parse; the process, its queue of commands | parse, apply; call, run, poll, interrupt | file tools, the process `bash` |
| Go language server client (`internal/lsp`) | open files, timers, registrations, the pipe of the server | watch, debounce, open, notify | servers, tools |
| Go screens and life (`internal/tui`, `internal/app`, `cmd/root.go`) | pages, dialogs, the session of each part, subscriptions, watchers | keys, commands, events; start, restart, shut down | everything above |

What is hard in it, and what must hold:

* **Thin server.** Handlers of one event loop interleave at every `await`: a turn
  and a queued task, a timer and a late answer, a watchdog and a turn that wakes
  up again, a stream that closes. Nothing may run without its approval, no wait
  may lose its entry, no dead turn may hold the server, the queue keeps its order
  and every turn that ends says so to the client that was there when it began.
* **Rotation.** Models and providers fail while several agents, two of them in
  parallel, share what they know of them. A turn may not circle, may not go back
  to what is out, and may not give up while something is left.
* **Undo.** Two stacks in one file are read and written whole around the change of
  a third file. Failures and crashes in between may not lose the way back.
* **MCP.** Foreign servers answer in any order, twice, late or never, and die.
  Every request must end, once.
* **Wrapper and the end of the Go program.** Processes that die in any order, with
  timers of 300 ms, 3 s, 5 s, 15 s and 30 s between them; goroutines that restart
  servers while the program waits for them. Two screens may not share the
  terminal, nobody may be left behind, and the program must end.
* **Thin client.** A dialog is answered while another one replaces it, a turn ends
  before the reply of its POST: an answer must reach just the dialog it was given to,
  which another box may hide, and he must get out.
* **Go agent.** Requests of several sessions, cancellation between any two steps, a
  lossy channel to one dialog. Nothing may run that the user did not grant, every
  call gets a result, and a cancelled request ends.
* **Go data.** Tools wait for the user between looking at a file and changing it;
  messages and rows of a session are read and written whole by goroutines that do
  not know of each other.
* **Go tools.** A parser that keeps three indices by hand, and a shell whose
  process, queue and polls fail one by one.
* **Language servers and screens.** Events held back by timers, files opened in
  between; parts of one page that hear of the session by messages in any order.
* **Sessions of the engine.** Turns, the titler and the endpoints save whole files
  over each other (not modelled).

`PROJECT.json` lists every component with its sources, and under `hazards` the
lines where these bite.

## Modules

| Module | Models | Run by |
|---|---|---|
| `ThinServer` | `src/server/thin.ts`: stream, turns, confirmations, options, cancel, watchdog, queue, close | `MCThinServer` |
| `Rotation` | `src/agents/{orchestrator,agentLoop,roster}.ts`, `src/models/{router,adaptive}.ts` | `MCRotation` |
| `UndoHistory` | what undo and redo promise (abstract) | refined by `UndoStack` |
| `UndoStack` | `src/tools/{undoSnapshot,undo,files}.ts` | `MCUndoStack` |
| `McpClient` | `src/mcp/{client,registry,connect}.ts` | itself |
| `Wrapper` | `bin/noiracoder.mjs`, the parent watch of `src/cli/cli.ts` and `internal/thinclient` | `MCProcesses` |
| `GoApp` | `cmd/root.go`, `internal/app`: subscriptions, servers and their watchers, the end | `MCProcesses` |
| `GoProvider` | `internal/llm/provider`: one streamed answer of four clients, with retries | part of `GoAgent` |
| `GoAgent` | `internal/llm/agent`, `permission`, `pubsub` and the permission dialog | `MCGoAgent` |
| `GoFiles` | `view`, `edit`, `write`, `patch`, `file.go`, `internal/history` | `MCGoData` |
| `GoStore` | the messages and the row of a session, and what each client sends of them | `MCGoData` |
| `GoPatch` | `internal/diff/patch.go` | `MCGoTools` |
| `GoShell` | `tools/bash.go`, `tools/shell/shell.go` | `MCGoTools` |
| `GoClient` | `internal/thinclient/{model,panel,protocol}.go` | `MCGoClient` |
| `GoWatcher` | `internal/lsp/watcher`, `client.go`, `transport.go`, `tools/diagnostics.go` | `MCGoEditor` |
| `GoScreen` | `internal/tui`: pages, dialogs, keys, the session of each part | `MCGoEditor` |

Theorems are in `ThinServer_proofs`, `Rotation_proofs`, `UndoStack_proofs`,
`GoAgent_proofs`, `GoClient_proofs`, `GoData_proofs` (about `GoFiles` and `GoStore`),
`Terminal_proofs` (about `Wrapper`, `GoShell`, `GoScreen` and `GoPatch`) and
`Servers_proofs` (about `McpClient` and `GoWatcher`).

In the modules of the engine an action is the code between two awaits, since the
engine has one thread; in those of Go it is the code between two points where
another goroutine may come in (a lock, a channel, a call of the database, of a
provider or of a file). Operators named as faulty variants stand beside the
definition they vary; only the mutation runs use them. An MC module that composes
two parts that share nothing (`MCGoData`, `MCGoTools`, `MCGoEditor`,
`MCProcesses`) lets one rest while the other moves: their product would only
multiply the states.

### ThinServer

`sse`, `active` (`activeTurn.id`), `pending` (the keys of `pendingConfirms`),
`queue`, `estado` and `running` (`queueBusy` and the task it works for) are the
variables of `startThinServer`. `pc[t]` is where `runTurn` of turn `t` stands;
`aborted` its `AbortController`; `quiet` and `toolAge` say how long ago
`lastEventAt` and `lastToolStartAt` were, to the precision the watchdog looks at.

* `PostTurn`, `RejectTurn` and `AcceptTurn` are the three parts of `POST /v1/turn`:
  the look at `activeTurn`, and what follows its awaits. `Begin` is the head of
  `runTurn`, which overwrites `activeTurn`, as the code does.
* `Reply` is one reply of the model: tool calls, or the answer. `ToolStart`,
  `ToolRuns`, `AskConfirm`, `AskOptions` and `ToolEnd` are a tool call. The
  several agents of a turn are one sequence of replies here, so that a turn waits
  for at most one confirmation; with `/parallel`, two leaf agents may each wait for
  one. `Rotation` has the agents.
* `Settle` is `resolveConfirm`; `ConfirmAnswered`, `ConfirmTimeout` and `Shutdown`
  are the three that call it.
* `Saved`, `Cancelled`, `Failed`, `SessionMissing` and `Watchdog` are the five ways
  in which a turn sends `turn.end`. `Over` and `Release` are its `finally`.
  `EmitEnd` is `send`, which does nothing without a stream; the history variable
  `owed` holds the turns that began on the open stream and whose `turn.end` was not
  written to it, so that a send that reached nobody settles nothing.
* `Pump` is `pumpQueue` up to its first await; it is called by `Enqueue`,
  `TaskReturns` and `TaskFails`, and by nobody else, as in the code.
* `LoseEarly` is the client that leaves between `sse = res` (626) and
  `req.on("close")` (644): the code never learns of it.

### Rotation

`cat` is what the turn knows: which provider serves each model now
(`modelsById`, changed by `markDead`), which are out and which of those three failures
put aside, failures in a row, cooldowns. `used` is `usedCandidates` of the router and `tried` is `triedModels`.
`NextAlive` is `nextAlive`: up to twelve decisions of the router, then the scan of
the whole catalog; the twelve are not counted, since twelve is more candidates than
a policy has. What the ranker learned is any order, so `decide` is the set of
decisions it may take (`Decisions`). `Rotate` is the catch of the agent loop:
`onModelError`, `nextModel` and the look at the signal at the head of the loop.

### UndoStack and UndoHistory

`UndoHistory` is a line of changes with a cursor. `UndoStack` has the five steps of
a change (take the snapshot, read the stacks, push, write the file, record what was
written) and the two of an undo, each interrupted by failures or a crash. The
refinement counts an undo from the moment its file changed, before `stacks.json`
says so: `Past` and `Future` look at the tool in progress. `shrink` deletes snapshot
files that nothing reads and is left out; files are written in one step, except
that a crash may tear `stacks.json`, which `readMeta` takes for empty stacks.

### McpClient

`pending` and `call` are the map of the client and the promises given out. `proc`
tells an exit that happened from one that node has reported: between the two the
pipe is still writable. `stage` is where `connectAll` stands with each server.

### Wrapper

`wrapper` is where `startGo` stands; `exited` is an exit with its handlers, `killed` one
without. `screen` and `exit` are the process in Go and its exit code, `term` who was
sent SIGTERM. `parent` is the `process.ppid` that the engine read, which is the wrapper
or, when that died during the boot, init. `hung` is a screen that stops before tea
takes over. Time is three facts: polls may be used up, three seconds have passed or
not, and the 30 s watch fires after them. The model is of Unix: `taskkill`, and the
question for the command line of the parent, are Windows only. `cleanOrphans` has no
action: it kills processes whose parent is not in the list of processes, and on Unix
init always is.

Two outcomes are as the code has them and not as its comments announce: a screen that
the 30 s watch kills ends with a null code, so `startGo` leaves with 0 instead of
starting Ink (242-243, 278, 286); and an engine whose wrapper died while it booted
stays (cli.ts:270-274).

### GoProvider and GoAgent

`GoProvider` is the goroutine of one answer: its state is a record, and `StreamSteps`
the steps it may take, each with the event it hands over the unbuffered channel.
The four clients differ in what they retry, in how they tell calls and in how they
fail, and the code differs from what one would expect in two places the model keeps:
a 401 of copilot, and gemini after the pause of a retry, end in a panic.

In `GoAgent`, `pc[r]` is where `processGeneration` of run `r` stands; `active` is
`activeRequests`; `asks`, `inbox`, `toScreen`, `shown` and `replies` are a permission
request on its way from `permission.go` over the broker to the one dialog of the
screen and back. `Shows` overwrites the request that is shown; `Loses` is the event
that the broker drops. `Cancel` and `Ends` both free a session, and each frees
whatever the map holds by then. A run that panics (`processEvent` on an error event with
no error, a tool) frees nothing: `RecoverPanic` waits for a reader that does not come,
and the entry stays until the user cancels. `BusyIsLive` says so, and counts such a run
as the only one besides the unfinished that may hold a session.

Tools that ask are of two kinds. A built-in tool reports a denial as an error, which
marks the message and ends the request; a tool of an MCP server (`Foreign`) answers with
a text, and the model goes on. `DenialEndsRequest` speaks of the first kind alone.
A grant for a session is kept by session and tool; the code compares the action and the
path as well (permission.go:93), so the model has fewer questions than the program, and
`GrantedByUser` is about who was asked, not about how far a grant reaches.

### GoFiles and GoStore

`tool[s]` is the one tool at work in session `s`: its name, the stage it is at and the
plan it made from the file before it asked. The stages are the question (`ask`), the
write (`change`), the versions and the record (`record`), the same without versions
after the request was cancelled (`cut`), and the second pass of `edit` after a creation
or a deletion (`again`). `record` is `fileRecords` to the precision of the comparison
with the time of the file. `View` shows a whole file or a part of it; the program records
both alike, and the model is shown nothing new by a part. A cancelled request ends a tool
after the write and before its versions (`RecordFails`), or in the middle of them
(`RecordsCut`); a patch then goes on and records its files without any. `rows` is the table `files`; a version is unique per session, numbered over
all sessions and the latest one is told by the second. `Insert` gives up after three
attempts, so that a content may be lost; what is proved is that the *first* version
of a session is right, and when it is missing.

Five variables are history. `before` is what a session found when it first wrote a file,
set in the step that writes, and `lost` the first changes without a way back: written
over something else than was read, or never stored, by a crash, a cancelled request or a
patch that fails at a later file. `BaselineKept` excepts these and no others, and it is
for `ChangesAreRecorded` to say that the code promises more. `seen` is what a model was
shown last. `missed` and `hit` are the windows through which a file is changed unseen: a
change between the reading or writing of a file and its record, a part shown for the
whole, and a change between the look of a tool and its write. `NoBlindEdit` says that
there are no others, of the look and of the write; `WritesWhatItRead` is what `write`
promises of the last one.

`GoStore` has the messages and the row of one session under two requests, the titler,
the summary and a sub-agent; `read[w]` is the row a writer holds while others write.
`Unread` is a writer that has read nothing. A message in the history of a request keeps
its place in the table, so that what a client leaves out is said by the places that are
left (`ConvertMessages`), not by a shorter sequence. The names `title` and `summary` of
the other writers are no requests (`StoreAssumption`).

### GoPatch and GoShell

`GoPatch` makes one step of one round of each loop: of `parseUpdateFile` (`SectionBegins`,
`SectionEnds`), of `peekNextSection` in it (`PeekLine`, whose locals are `section`), of
`PatchToCommit` (`CommitWhole`, `CommitUpdate`) and of `getUpdatedFile` in that
(`ApplyChunk`, `ApplyEnds`, whose locals are `output`). `TryFindMatch` is exact, then
without the blanks behind, then without those around; the fuzz for the last is 1, as in
the code, and not 100, as the comment above it says (patch.go:353-358). `Patches` and
`Trees` are any patches that end with the mark of the end, which `TextToPatch` asks
first, and any files of the lines `Texts` (`PatchAssumption`). Of history are `hunks`
(both sides of each hunk, where it was found, by how much its new side is shifted, and
which chunks it has), `new` of a section and `to` of a chunk, where its lines land.

`GoShell` has the goroutine of each shell (`Takes`, `Completes`, `Interrupts`), the
process (`ShellRuns`, `ShellDies`), its `cmd.Wait` (`Waited`), and the calls that look
for a shell, start one and send to its queue. Two callers may each replace a dead
shell, and a call may send to a queue that was closed in between (it panics).

A command that was interrupted stays in the pipe, and may write its exit code after the
worker has gone on to the next one. What keeps the two apart is the name of their files,
a reading of the clock (`name`, `NameOf`): two shells may read the same one, and then wait
for the same file (`Twin`); a shell never reads it again for its next command. `codeOf` is
history: the command whose exit code a call returned. `OwnExitCode` says that it is that
of the call, but for such a twin.

### GoClient

`m` is the Model; `KeyIn` is `Update` for a key, with its order of panel, slash menu,
confirmation, options, main keys. `posts` are the goroutines that have a request out;
they write into the Model when its reply comes. The engine is the part of `ThinServer`
that the screen sees. `said` records each answer, the dialog it went to and whether
`View` painted that dialog then, `obeyed` what the engine took from it. `Painted` is what
`View` may paint: the options lie over the confirmation, the slash menu over both, and in
a narrow window with the panel open there is no room for either. `Update` looks at the
confirmation first, so a key may answer a dialog that is hidden; `AnswersAsShown` says
that an answer is obeyed only for the dialog it went to, and was painted unless the
dialog was hidden in one of these ways (`Unseen`). That a painted frame is older than the
Model for a moment is not modelled.

### GoWatcher and GoScreen

In `GoWatcher`, `job[a]` is what the loop of `WatchWorkspace`, each timer, the preloading
goroutine and each tool are at; telling the server something is three steps (read the
file, write a header, write a body), since `WriteMessage` takes no lock. A body in
another message sets `garbled`, where the model ends. The loop itself ends when a
created file is gone at the second look (watcher.go:416-420).

`GoScreen` has the pages, the dialogs in the order in which they get keys, and the
session that page, list, editor and sidebar each keep. Commands run beside each other
(a bag), events come in order by a channel that may drop them. `missed` keeps book of
what the code cannot make up for until another session is selected: a message to the
page of logs or an event that was lost, a read that failed, a clearing that crossed a
selection, a read that an older event on its way will overwrite (`Overtaken`).

### GoApp

`job[n]` is where the goroutine of server `n` stands, from its start over readiness
and the watcher to a restart after a panic; `main` is the program from its first frame
to `Shutdown`. `Call` is a request to a server, which looks at no context, so that
`NeverEnds` names the ways in which the code waits for ever (a server that hangs or
was killed while it was asked; a watcher that joins after the cancel loop).

## Runs

| Run | Expected | Question |
|---|---|---|
| `thin_safety` | pass | Do confirmations, turns, stream and queue keep their invariants? |
| `thin_liveness` | pass | Is the server released, and does every dialog end? |
| `thin_queue` | violation | Does a queued task ever start over a turn of the user? It does |
| `rotation` | pass | Does a turn rotate without circling, to what is alive, to the end, until aborted? |
| `undo` | pass | Is there always a way back, and does `UndoStack` implement `UndoHistory`? |
| `mcp` | pass | Does every request end once, and connecting too? |
| `wrapper` | pass | Does a screen come up, alone, does everything end with its parent, and does the Go program end? |
| `go_agent` | pass | Does only what was granted run, does every call get a result, is a session held only by a run that has not ended or that panicked, does a cancelled request end? |
| `go_data` | pass | Is the first version the baseline unless the first change was overtaken or never recorded, is a file changed unseen only through three named windows, is the history sent one that a provider takes? |
| `go_tools` | pass | Does a patch that is accepted change what it says, does its parser end, is the exit code of a call that of its own command, does every call of the shell return? |
| `go_client` | pass | Does an answer reach the dialog it was given to, seen or hidden, and can he leave? |
| `go_lsp` | pass | Is every change reported to the server, and does the page show the session it is at? |

The one violation: `pumpQueue` looks at `activeTurn` once, awaits the sessions and then
starts its turn (thin.ts:511), although thin.ts:1185-1186 says that a queued task never
steps on an active turn.

Ten further disagreements between code and comments were met. They are stated at the
end of their modules and have no run of their own; each is shown by adding the
definition to the cfg named with it, as an `INVARIANT` where nothing else is said:

* `PlanIsReadOnly` (`thin_safety.cfg`): in plan mode only the commands of bash are taken
  from the policy (thin.ts:302); PROTOCOL.md:61-62 says that any tool that writes is
  rejected before it runs.
* `RedoReplaysExactly` (`undo.cfg`): an entry is pushed with no content after it
  (undoSnapshot.ts:82), which a manual snapshot or a failed write leaves so;
  undoSnapshot.ts:52 says that redo replays the change exactly.
* `FreeOnlyIsFree` (`rotation.cfg`): the second choice of the router and its last resort,
  the first of the list, do not look at `freeOnly` (router.ts:151-164), against
  router.ts:19.
* `TriesWhateverIsServed` (`rotation.cfg`, as a `PROPERTY`): a provider that three
  failures put aside keeps its models (orchestrator.ts:276-278), and also when its key is
  refused afterwards, since `markDead` returns for a provider that is out (213). A turn
  then fails although a live provider serves a model it never tried;
  providers/index.ts:198-200 says that the models of a provider that dies can go to
  another live one. `GivesUpOnlyWhenExhausted` excepts just the models of such providers.
* `SessionsAreFreed` (`go_agent.cfg`): a session is refused for the sake of a run that
  panicked; logger.go:64-66 says that `RecoverPanic` handles panics gracefully and runs
  its cleanup before it returns.
* `ClientServesModel` (`rotation.cfg` with `Pool = {p1}`): a model whose provider has no client goes to the
  default client (orchestrator.ts:99-100, 365), against orchestrator.ts:86.
* `WritesWhatItRead` (`go_data.cfg`, as a `PROPERTY`): `write` compares the times before
  the user is asked and not again; write.go:59 says that it checks whether the file was
  modified since it was last read.
* `ChangesAreRecorded` (`go_data.cfg`, as a `PROPERTY`): `edit` and `write` answer with an
  error when they cannot look for the versions, after the file was written;
  edit.go:462 and write.go:196 say that such an error does not fail the operation.
* `AbortedIsOver` (`go_tools.cfg`): an interrupted command that waits in the pipe behind
  another, or does not end by SIGTERM, goes on or begins only then; bash.go:301 says that
  it was aborted before completion.
* `SeesWhatHeAnswers` (`go_client.cfg`): `Update` looks at the confirmation before the
  options (522, 581) and `View` paints the options and the slash menu over it (2257-2286),
  so that a key approves what is not shown; model.go:451-452 says that a modal dialog
  takes its keys, and 2220-2221 that the dialog always fits.

### Bounds

* `thin_safety`: one turn of the user, two tasks, two streams, a queue of two, one
  reply with one tool per turn. Overlap needs one user turn and one task; the order
  of the queue and `queueBusy` need two; the queue is full at two; the second stream
  is the one that would take over. The second task also stands for the second turn
  of a session. Tasks and streams are symmetric. The theorems drop these bounds.
* `thin_liveness`: one of each, without symmetry. A second task adds nothing to a
  wait for the watchdog, which sees only the active turn.
* `rotation`: four models, three providers, all five roles with the two leaves in
  parallel. One model is served by all (it can be reassigned twice), one by two, one by
  a single provider (its key takes it away), one is paid. One provider owns up to three
  models, so that three failures put it aside with a model untried that another one
  serves. Every assignment of owners and every set of cooldowns is an initial state.
  `MaxSwitches` is 25 in the code and 2 here: what is tried and out is shared by the
  turn, so five loops with two switches each go through more states of the catalog than
  one loop with ten.
* `undo`: one agent, two files, two contents, a cap of two with four changes, so that
  the cap is passed, and one crash anywhere.
* `mcp`: one server, four requests (initialize, list and two calls) and two answers
  to each. Clients of different servers share nothing but the engine.
* `wrapper`: one of each process of the wrapper, with no bound; for the Go program two
  servers, one of them TypeScript's (which is asked differently), one service and one
  panic of a watcher.
* `go_agent`: two sessions; two runs with OpenAI's client and one call per answer (two
  requests in one session, or in two), or one run with each other client and two calls
  per answer (a denial between two calls; one call with gemini's, which tells all at
  once). One tool of the program and one of an MCP server, both of which ask. One retry, one round after the tools, one
  answer of the user on its way.
* `go_data`: two sessions, two paths (a patch moves one to the other), one text and the
  empty one, two tools, one change from outside and one tick of the second. One file is
  there at first and none is empty; the second passes only once a version is stored,
  since it tells rows apart and nothing else. Two
  requests and five rows, with the clients of anthropic and openai (copilot's converts
  as openai's, gemini's drops empty messages as anthropic's does).
* `go_tools`: patches of one file with up to three lines of any kind, or four plain
  ones, and pairs of files; trees with a text that occurs twice and one with blanks.
  Three calls, a queue with room for one (10 in the code, which fills only later), and
  two shells, so that a dead one is replaced, and one may read the clock as the other
  did. The clock has a reading for each call.
* `go_client`: two sessions, one turn, one dialog of the engine, one event on its way,
  three keys before the user wants to leave, two goroutines.
* `go_lsp`: one file (timers and entries are per file and kind), one tool, three timers
  and three changes: one timer fires while the next is armed and a third is stopped.
  For the screen two sessions, two keys from the start or from a session that is open,
  with the dialog of commands open or not, two dialogs, two waiting commands, one
  request, one message and two updates of it, so that an older event may overtake what
  was read. Sessions are symmetric. The theorem drops these bounds.

### Fairness

`ThinServer`: weak fairness of what the engine itself brings about: timers
(confirmation, options, watchdog), the passing of time, and the awaits on local
files. Nothing is assumed of the user, the client, the model or a tool, which may
hang for ever: that is what the watchdog is for. `TaskFails` and `Failed` need no
fairness since their awaits may also succeed. `McpClient`: timers, the steps of
`connectAll`. Nothing is assumed of the servers, nor that node reports an exit.
`Wrapper`: timers, the delivery of SIGTERM and of exits, and `server.close()` once the
stream is closed. Nothing is assumed of the user, nor that the engine boots or the
screen connects; a status request to an engine that lives is answered.
`GoApp`: weak fairness of the goroutines that can go on (main, the feed, the job of
each server) and strong fairness of `GivesUp`, a poll that times out again and again.
`GoAgent`: weak fairness of the steps of a run, which are goroutines of the program
or answers of a service that ends its streams; nothing of the user, so a permission
may stay open. `GoShell`: weak fairness of the worker and of `cmd.Wait`, strong
fairness of a call, which competes with others for the lock and the queue.
`GoPatch`: weak fairness of the parser. `GoClient`: weak fairness of the screen, of
replies, of a turn that was cancelled, and of a user who wants to leave. `GoFiles`,
`GoStore`, `GoWatcher` and `GoScreen` state no liveness and no fairness.

`CHECK_DEADLOCK FALSE` appears where the system may rest: every turn is over, every
request answered, every key typed.

## Proofs

Each theorem holds for every value of the constants that meets the assumption of its
module; those only say that numbers are naturals, that markers such as `None` are not
members of the sets beside them, and that subsets are subsets. Type correctness is
proved, so no run spends a property on it. Nor does one on `OneTaskAtATime`,
`StreamHandover` and `NoReplyAfterAbort`, which are proved of `ThinServer`.

`ThinServer_proofs` is about `Spec` of `ThinServer` for any sets of turns, tasks and
streams, any queue cap above zero and any bounds on replies (`ServerAssumption`).

1. `TypeCorrect`: `TypeOK` is inductive. The one hard part is that `SubSeq` after
   `Append` keeps the queue within its cap (`PushEffect`).
2. `TurnsCorrect`: `TurnInv` is inductive given `TypeOK`. It strengthens the four
   invariants of turns, which need each other: `ActiveIsLive` holds across
   `Release` only because a turn clears what it names, and across `Shutdown` only
   because the turns in `pending` are those that wait (`PendingIsWaiting`); a send
   without a stream leaves no debt because the close of a stream settles what was
   owed on it (`NoStreamNoDebt`).
   `OnlyApprovedRuns`, `EveryWaitHasItsEntry`, `NoDeadTurnHoldsServer` and
   `EndIsAnnounced` follow.
3. `QueueCorrect`: `QueueInv` adds to `OneTaskAtATime` and `QueueIsFifo` what they
   rest on: the tasks of the queue are distinct and were enqueued. The least
   waiting index exists (`LeastIndex`, by well-foundedness), so taking it keeps the
   order (`PumpFreeKeepsOrder`), and so does dropping a prefix (`PushKeepsOrder`).
4. `StreamPassesByClose` and `AbortedTurnsEnd` are action properties, proved action
   by action from the invariants.

`Rotation_proofs` is about `Spec` of `Rotation` for any catalog of models and providers,
any policy, pipeline and limits (`RotationAssumption`).

1. `NextAliveEffect` and `AfterErrorEffect` say what `nextAlive` and `onModelError` do:
   an answer was not tried and its provider is not out; no answer means that the
   scan of the catalog found nothing; a refused key hands over each model that
   another live client serves.
2. `RotationCorrect`: `RotationInv` is inductive. `RefusedGivesAway` says that a
   provider that is out, and was not put aside by failures, owns no model that a live
   one serves: `nextAlive` passes over dead owners only, so this is what makes
   `GivesUpOnlyWhenExhausted` true when keys are refused one after the other.
   `SwitchesToUntried` needs that what failed was tried, which needs
   that a loop at work calls its base or a model that was tried (`LoopsHaveModels`):
   `nextAlive` notes both.
3. `StepOfLoop` says which steps a loop can take; with `RotationOutcome` the four action
   properties follow (`NeverBackToFailed`, `NeverToDeadProvider`, `NothingLeftBehind`,
   `NoCallAfterAbort`).

`UndoStack_proofs` assumes `OneAgent`: there is one actor that changes files. The code
takes no lock on `stacks.json`, reads it whole and writes it whole, and makes no promise
for two writers; with one, `UndoInv` (types, room in the stacks, the entry of the tool at
work is on top, and entries are distinct) is inductive. `ChangesOnce` follows, and
`ImplementsHistory`: every step of `UndoStack` is a step of `UndoHistory` or a stutter
under the mapping `Past`, `Future`, which needs the room (the cap drops the oldest of
both) and the distinctness (the entry that an undo takes is the one that it restores).

`GoAgent_proofs`: `AgentInv` for any sessions, runs, tools, clients and bounds. That a
call has a result when its answer is finished (`EachCallHasResult`) needs `ResultsKept`
and `InOrder` (results are given in the order of the calls, and stay), and `StreamsOK`
(what the client tells in pieces is what it tells at the end). That nothing runs
ungranted (`OnlyGrantedRuns`) needs where each answer of the user is on its way.
`NoSessionHeld` rests on who may take an entry out of `activeRequests`.
`DenialEnds` is an action property: a denial of a built-in tool among the results has
replaced the finish of the message, so the loop cannot go on to the model.

`GoClient_proofs`: `AnswersInv` says of every dialog and every request on its way of
what kind it is, and that an answer on its way was given to its dialog, painted or
hidden (`Given`, `SaysGives`). `ObeysTheUser` follows: what the engine obeys the user said
to just this dialog. That he saw it is not a theorem, since it is not so
(`SeesWhatHeAnswers`).

`GoData_proofs` is about `FilesSpec`, for any sessions, paths, texts and bounds, and about
`StoreSpec`, for any requests, clients and number of messages.

1. `FilesInv` speaks of each session and path (`PairOK`): rows are there only after a first
   change, and once it is recorded version 0 is the content before, unless it is in
   `lost`; while it is not, the tool that made it still has that content in its plan.
   `Insert` may add nothing at all, or a version under a later number, so the proof goes
   through `Grows` (rows are only added, and only of this session and path), `HasFirst`
   and `Founds` (the first version is stored with what the change was planned from).
   Every way in which a tool may end after the write (`ChangeFails`, `RecordFails`,
   `RecordsCut`, a crash) has its own case: it has recorded its files or lost them.
2. Of the disk: a record that is fresh means that the file is as last seen, or `missed`
   says otherwise (`FreshIsSeen`); and what a tool has looked at or written is there
   until it is done with it, or somebody else hit it (`WatchedIsThere`).
3. `FirstVersionIsBaseline` follows from `PairOK`. `NoToolIsBlind`, the action property,
   joins `StepsKnow`, with one case for each tool that begins, from `FreshIsSeen`, and
   `ChangesKnow`, of the write, from `WatchedIsThere`.
4. `StoreInv` of `GoStore`: calls in the table have their results after them, and results
   their calls before them, before anything else, unless their request is excused or is
   still at them (`TableFits`); a request that did not share the session is alone in it
   from its message on (`OwnsAlone`, `AnswerFits`); and a history is a part of the table
   with the same property (`HistoriesFit`), since it is cut at a summary, which is written
   when nobody is between calls and results (`SessionFits`: whoever writes the row of the
   session, from whatever he has read, writes a summary or none).
   `EveryConversationIsSound` follows for each client from what it leaves out.

`Terminal_proofs` is about `Wrapper`, `GoShell`, `GoScreen` and `GoPatch`.

* `WrapperInv` adds `Told` to `TypeOK` and `InkAlone`: in Ink, or after the wrapper left
  by itself, whoever is alive was sent SIGTERM. `LeavingTellsBoth` is the safety part of
  `ExitLeavesNothing`, which TLC checks.
* `ShellInv`, for any calls, shells and room in the queue: what is queued or run waits and
  belongs to that shell, a call that waits is queued or run (`NoneLost`). Of the files:
  a command has a name once it was written to a shell (`Named`), two commands of one shell
  have different ones (`Apart`), and a call got its code from a file of its name
  (`ReadByName`). `ExitCodeIsOwn`, `NoCommandLost` and
  `OneResultEach` follow. The last one is why the worker never waits for ever on the
  channel of the result, which has no room (shell.go:278): its reader is there until he
  has the one result.
* `ScreenInv`, for any sessions, messages, changes and keys, says of each part of the page
  what it has or which message on its way will give it (`SessionsAgree`: whoever differs
  from the page has a selection or a clearing to come, and a clearing to come while the
  page has a session means that it crossed a selection), and that the list with the
  events still to come becomes what is stored (`Follows`: the last change on its way is
  what is stored; what the list lacks is announced in order and before its changes).
  `Follows` is kept by one lemma for each end of the channel, `EventComes` and
  `EventGoes`; `ShownIsStored` follows since nothing is on its way.
* `PatchInv`, for every patch and every file, is about chunks. They form a chain
  (`Chained`): each lands where the chunks before it have moved its place (`After`). Every
  line of the new side of a hunk is a line of one of its chunks or a line of its old side
  between two of them (`FromChunk`, `FromFile`), and a hunk is shifted by what the chunks
  before its first have moved (`HunkFits`). `PartsFit` says this of a section that is
  still read, where the run of deleted and added lines is not a chunk yet; it is kept by
  one lemma for each kind of line (`LineDeleted`, `LineAdded`, `LineKept`, `RunCloses`),
  and `SectionPlaced` moves it into the file. What is written so far has the lines of the
  applied chunks where they land and the lines of the file between them (`Applied`); a
  chunk begins where the one before it ended or later, since the code refuses the others.
  The two facts meet in `NewSideStands` and `LinesBetween`: no step of the code knows
  of hunks any more when it writes the file.

`Servers_proofs` is about `McpClient` and `GoWatcher`.

* `McpInv` adds to `PendingIsWaiting` and `NoneWaitsForTheDead` that ids are taken in order
  (`Unsent`); `OutcomesAreFinal` is the action property that an outcome is not changed by
  whatever comes late or twice.
* `WatcherInv`, for any files, tools, timers and changes, says where the report of each
  change is until the server has it: `Pending(f)` is an event of the right kind in the
  queue, or an actor that `Bears` it: the loop at a created file, a timer that has not
  fired, or somebody who has read the present text or is about to. It needs `LastIsThere`
  (the last change and the content go together, so that a timer that fires finds the
  file), `JobsFit` (a text is told only of a file that is open, and stays so) and
  `MapFits` (a timer in the map of a file and kind is one of that file and kind, so that
  stopping it stops no other's report: `DebouncedArms`). `EveryChangeReported` follows,
  since whoever rests bears nothing (`NoneLeft`, `RestBearsNothing`).

Three things were learned from proofs and went into the models: the loop and the
preloading goroutine are not tools or timers (an assumption that was only implicit); an
absent file is not told apart from a patched one by the model value alone; and a list
that reads a session whose older event is still on its way, when the later one was
dropped, is set back to the older text (`Overtaken`), which `ShownIsCurrent` excused
nowhere and no run met while a message was changed only once.

Only model-checked, with the reason:

* All liveness (`ServerIsReleased`, `AskingEnds`, `EveryRequestEnds`, `ConnectingEnds`,
  `CancelledRunEnds`, `ParseTerminates`, `CallsReturn`, `UserCanLeave`, `ProgramEnds` and
  the four of `Wrapper`): it rests on fairness and `ENABLED`, out of the prover's reach.

Every safety invariant and action property that a run checks has a theorem.

## Not modelled, and the plan

Modelled in no module: the texts of prompts, events and screens; what files contain;
HTTP and its authentication; the endpoints that only store a preference; login and
deploy. `internal/lsp/protocol` (two generated files of 10 000 lines) is types; the
themes are colours; most of the screens is painting. The settings of the Go program
(`internal/config`) are read and checked once. The remaining components are in
`PROJECT.json` with the reason.

Next, in this order:

1. `Sessions`: the file of a session of the engine under turns, titler, rename, pin and
   delete, each a load, a wait and a save.
2. A turn with several agents: `ThinServer` composed with the loops of `Rotation`, for
   the leaf that outlives its turn.
3. Operators for `policies.decide`, the compaction of the history and the merge of MCP
   configurations, checked against their definitions.
