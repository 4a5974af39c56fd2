# OpsNerva: models, checks and proofs

OpsNerva is a single-administrator service in which an LLM Agent operates hosts over SSH.
Everything that changes a host passes an approval, and a conversation with the Agent must
survive approvals that take hours, operators who stop it, messages that arrive while it
runs, failures of the store, and restarts of the process. This directory models that
machinery in TLA+, checks it with TLC on small instances and proves the central statements
with TLAPS for every value of the constants.

- `PROJECT.json`: components, runs, mutants, the map from definitions to source lines,
  findings, hazards, theorems.
- To check a run: `tlc -workers 2 -config <run>.cfg <module>`; to check proofs: `tlapm <module>_proofs.tla`.

Paths are relative to the repository (`src/` in `PROJECT.json`).

## 1. The system

About 50,000 lines (Go service, Vue client, Tauri shell); sizes are in lines without tests.

| Component | State it keeps | Operations | Hard behaviour | Correct when |
|---|---|---|---|---|
| Approval lifecycle (`store/approvals.go`, `service/approvals.go`, `service/approval_execution.go`) | `approvals`, `runs`, checkpoints; `executionCancels`, `cancelledExecutions` | create, activate a group, decide, claim, abort, recover | decisions, stops and resumed tools race for one row; crash between two transactions | an operation runs at most once, only as decided; a group is shown and resumed as one |
| Agent turn driver (`agent/runtime.go`, `httpapi/chat_turns.go`) | `active` sessions, `chat_messages`, the loop's goroutine | begin, run the model, pause, resume, end, deferred cleanup | cleanup after failure in any phase; stale groups; two drivers | one user of a conversation's context at a time; a pause can be resumed |
| Agent tool execution (`agent/tool_errors.go`, `agent/tool_execution_scope.go`, `service/execution*.go`) | `runs`, `chat_tool_calls`, scopes | submit, execute, finish, fail | cancelled scope between two writes; a write that fails | call and run agree when all is quiet |
| Restart recovery (`service/recovery.go`, `store/runs.go`) | all of the above | a fixed sequence of sweeps | a second crash between two sweeps | nothing busy that nobody can free |
| Message queue (`httpapi/chat_queue.go`) | `chatQueueSession`: items, `pausedFor`, closing | begin, enqueue, next, clear, pause, resume, finish | a message that meets the end of the last turn; limit; steering order | accepted messages are taken in order or dropped together |
| Event hub (`httpapi/chat_events.go`) | events, ids, subscribers per conversation | publish, subscribe, drop | ids restart after a terminal event; slow subscribers | a cursor misses nothing and sees nothing twice |
| Background tasks (`service/tasks.go`, `store/tasks.go`) | `tasks` in memory and table, `approvalTasks` | start, settle, register, cancel, shut down | writes overtake each other; cancel races approve | the outcome shown stays; a cancellation is effective |
| Execution limits (`service/execution_limits.go`) | a global and per-host semaphores | acquire, release | partial acquisition cancelled | no deadlock, no leaked slot |
| Explanations, automatic approval (`agent/reviewer.go`, `service/approvals.go`) | `explanationActive`, queue and reviewers, the run's review | explain, explain again, cancel, persist | cancel races the answer and the request for another one | a cancelled explanation writes nothing; "working" is shown only while somebody works |
| Model context (`agent/context*.go`, `store/chat_context.go`) | `chat_messages`, `chat_context_summaries` | load, compress, prune, resume | a failed turn under a fresh summary; a resumed turn with an old context | a model call is told every turn once |
| Conversations (`service/chat_sessions.go`, `store/chat_sessions.go`, `agent/session_title.go`) | `chat_sessions` | create, bind a Workspace, rename, generate a title, delete | look first, write later, in every handler | a turn keeps the Workspace it was told; nothing is left of a deleted conversation |
| Agent plans (`plan/`, `service/plans.go`, `store/plan*.go`) | `agent_plans`, `agent_plan_steps` | create, transition, revise, migrate | a revision around the current step | ended steps stay; exactly one current step |
| SSH hosts and proxies (`service/hosts.go`, `proxies.go`, `configuration.go`, `ssh.go`) | `hosts`, `proxies` | save, delete, import, resolve a chain | the chain is read row by row | an operation uses the connection that was approved |
| SFTP pool and deletion (`sshx/sftp_*.go`, `service/sftp*.go`) | sessions, leases, idle timers; deletion jobs | lease, return, expire, close; scan, remove | a fired timer after a lease; parallel removers | exclusive leases; children before directories |
| Interactive shells (`service/shell_*.go`) | registry, generations, events, the batching writer | open, resize, close, reconnect, record, follow | a late event of an old generation; failed batches | connections have one owner; the history is whole |
| SSH tunnels (`sshtunnel/`) | manager, generations | start, stop, replace, reconnect | retry races stop and replacement | a stopped tunnel stays stopped; no two on one address |
| MCP client (`mcpclient/`, `service/mcp*.go`) | links, OAuth flows, tokens | connect, test, authorize, refresh, call, close | a late result for older settings | tools of the saved, enabled server only |
| Workspaces, file edits (`workspaces/`, `workspacefs/`, `fileedit/`, `service/files.go`) | files | edit, create, save, upload, transfer | file changed since it was read; machine stops | no lost update; only the lines of the block change |
| Models and settings (`service/model_providers.go`, `system_settings.go`, `Runtime.Reload`) | `model_providers`, `system_settings`, the runtime | save, activate, delete, import, reload | two reloads in the wrong order | what is saved is served |
| Skills (`skills/registry.go`) | directories on the disk | import, save, enable, delete, load | failed rename, failed undo, crash between renames | no skill is lost, no half package is loaded |
| Application WebSocket (`httpapi/application_websocket*.go`, `service/task_events.go`, the page's client) | subscriptions, channels, cached samples | subscribe, publish, snapshot, sample | full channels, lost sockets, a second listener | the page shows the last state in the end |
| Store, migrations (`store/`) | SQLite | - | - | modelled as the rows the components write |
| Security, redaction (`security/`, `config/`) | secrets | - | - | pure functions and cryptography |
| Observability (`observability/`) | ring buffer of log entries | append, subscribe | overflow | as a topic of the WebSocket |
| HTTP API, authentication (`httpapi/`) | login sessions | handlers | limits | handlers that drive the rest are actions of the models |
| MCP server, tool catalogue, web search (`mcpserver/`, `agenttool/`, `websearch/`) | - | list, call | - | stateless |
| Web client, desktop shell (`web/`) | UI state | - | - | its part of the two streams is modelled |

How the modelled components interact: an HTTP handler opens the *queue* of a conversation
and starts its *driver*; the driver calls the *Agent runtime*, whose model (Eino, an
external library) starts one goroutine per *tool call*; a tool submits an operation to the
*service*, which writes a *run* and, when the approval mode asks, an *approval*; the tool
then returns an interrupt, Eino stores a *checkpoint*, the driver activates the group of
approvals and sleeps on the queue. The *operator's handler* decides in one transaction,
wakes the queue or starts a new driver; the resumed tool *claims* the run and executes it.
A *stop* cancels the turn, clears the queue and sweeps the approvals. At start the process
*recovers* tasks, runs, approvals, messages and tool calls and resumes decided groups.
*Background tasks* and operator-initiated approvals run without a conversation: the task's
worker, the decision's goroutine and the cancellation share `taskMu` but write the table
after they release it. Everything that works on a host first takes its slots from the
*limits*, resolves its *connection* from the saved hosts and proxies and checks it against the
approved one again. The driver publishes what happens into the *event hub*, which every open
*page* follows over a stream of its own; everything else a page shows comes over one
*application WebSocket*. Shells, tunnels, SFTP sessions and MCP links each own their
connections; the shutdown tells shells, tunnels and links to close and waits for all of them.

## 2. Modules

| Module | What it is |
|---|---|
| `OperationGate` | abstract: what the approval machinery promises about each operation |
| `ApprovalContinuation` | one conversation: driver, tools, operator, stop, crash, recovery |
| `ApprovalExplanations` | explanations beside pending approvals |
| `MCApprovalSafety`, `MCApprovalContinuation` | instances: the two above; the first one, for counterexamples |
| `ApprovalContinuation_proofs` | inductive invariants and theorems, of the explanations too |
| `ChatContext`, `Conversations`, `AgentPlan`, `SkillRegistry` | what a turn is told: context, row of the conversation, plan, skills |
| `MCAgentTurns` | instances of these four, and of `ApprovalContinuation` around crashes and stops |
| `AgentTurns_proofs` | inductive invariants and theorems about the context, the row of the conversation, plan and skills |
| `ChatMailbox` | abstract: what the message queue promises |
| `ChatTurns` | the turns of one conversation: queue, steering, stop, compression |
| `MCChatTurns`, `ChatTurns_proofs` | instances and theorems |
| `BackgroundTasks` | tasks, approved executions, cancellation, shutdown, restart |
| `MCBackgroundTasks`, `BackgroundTasks_proofs` | instances and theorems |
| `ExecutionLimits` | global and host slots |
| `ChatEvents` | event log of a conversation, streams and pages |
| `ApplicationStream`, `MCApplicationStream` | the application WebSocket, its topics and listeners; an instance with two listeners |
| `MCSharedServices` | instances of limits, events, tasks and the WebSocket, side by side |
| `SharedServices_proofs` | inductive invariants and theorems of limits, events and the WebSocket, and of the four side by side |
| `InteractiveShells`, `ShellEvents` | shells: connections and their generations; events, history, followers |
| `SshTunnels`, `SftpSessions`, `TreeDeletion` | tunnels; the pool of SFTP sessions; deletion of a remote tree |
| `Shells_proofs`, `RemoteFiles_proofs` | inductive invariants and theorems: both modules of shells; the pool, the deletion, the changes of a file and the text of an edit |
| `FileChanges`, `TextEdits`, `MCTextEdits` | everything that writes a file, beside another writer; what an edit makes of a text; texts |
| `McpConnections` | one MCP server: links, tests, sign-in, tokens, calls |
| `ConnectionCatalogue` | hosts, proxies, imports, and an operation bound to its connection |
| `ModelRuntime` | model providers, settings, and the reload of what serves the Agent |
| `MCConnections` | instances of the ten above, side by side |
| `Connections_proofs` | inductive invariants and theorems of tunnels, catalogue, MCP links and the runtime, and of the ten side by side |

`ApprovalContinuation` and `BackgroundTasks` both implement `OperationGate` (properties
`KeepsGate`); `ChatTurns` implements `ChatMailbox` (`KeepsMailbox`). `ChatTurns` refines in
time what `ApprovalContinuation` abstracts (several turns, the queue's messages) and
abstracts what that models in detail (tools and approvals of a turn); they share the
driver's places and the queue's closing protocol.

### ApprovalContinuation

A call, its run and its approval have one identity, as do a turn, its user message and its
checkpoint: the code creates them one to one. Store state is the status columns (`run`,
`approval`, `call`, `msg`), `bound` (`interrupt_id` is set), `linked` (the call's `run_id`
is set), `saved` (the checkpoint and the calls interrupted in it). Process state is the
driver's place `pc`, its local variables (`group`, `outcome`, `resumable`), the queue
(`queue`, `paused`, `woken`), the place of every tool goroutine, decision handler and of
the stop handler. `execs` is a history variable: how often `execute` was entered.

An action is one transaction of the store or one critical section, so that other processes
and crashes interleave everywhere the code lets go:

- *driver*: `StartTurn`, `BeginTurn`/`BeginResume`, `ModelCalls`, `Interrupt`,
  `RegisterPause`, `Activate`, `MarkWaiting`, `Wake`, `ResumeGroup`, `ModelEnd`/
  `ModelCancelled`, the deferred cleanup in its order (`SettleCalls`, `MarkMessage`,
  `CheckpointCleanup`), then `QueueAdvance` or `Exit`;
- *tool*: `ToolSubmit`, `ToolBind`, `ToolRequest`, `ToolPause`, `ToolAbandon`; after the
  resumption `ToolResume`, `ToolClaim`, `ToolRefused`, `ToolFinish`;
- *operator*: `Decide`, then `OpResumeQueue`, `OpCheckActive`, `OpReadGroup`, `OpBegin`;
- *stop*: `StopSession`, `StopQueue`, `StopAbort`, `StopReject`, `StopDone`;
- *restart*: `Crash`, then `RecoverRuns`, `RecoverApprovals`, `RecoverMessages`,
  `RecoverCalls`, `RecoverResume`; `ReloadAgent` resumes decided groups while serving.

Decisions of abstraction:

- Eino is external. It is modelled as `agent/runtime.go` uses it: it reports an interrupt
  when every tool of the answer returned; `ResumeWithParams` replays the interrupted calls
  of the checkpoint, and those that are not targets report their pause again. A steering
  boundary that races an interrupt inside Eino is left out.
- Messages that wait in the queue are abstracted to `QueueAdvance`; `ChatTurns` has them.
- `endSession` is part of the last step of the cleanup (`CheckpointCleanup`); `Exit` is the
  queue's `finish`. `chat`'s busy check and the queue's `begin` are one step.
- The queue's context cancels the driver's by `context.AfterFunc`; here at once, in
  `ChatTurns` in a step of its own (`CancelRun`).
- The decision's transaction is one step, the publication of its event and the wake-up of
  the queue (`OpResumeQueue`) another.
- Every terminal status of a tool call is `settled`; the statuses of runs are kept apart,
  except `partial`, which no modelled condition distinguishes from `failed`.
- Failures of the store or the model (`Fault`) happen where the code has an error path that
  changes state and is not equivalent to another path, at most `MaxFaults` times.
- Detached tools, the pruning of old checkpoints and titles, history and events are left out.

### ChatTurns

`box`/`items` are the `chatQueueSession`, `active`/`turnCancelled`/`steerPending` the
runtime's `activeAgentSession`, `asked`/`holding` whether Eino's cancel function was called
and who still holds it. A turn is one step (`TurnEnds`) or a `Pause`. `SteerSession` is two
steps, because it calls the cancel function after its lock (`SteerMark`, `SteerRequest`).
The compression's idle check and its `beginSession` are two steps (`CompressCheck`,
`CompressBegin`); a compression that is refused at the check changes nothing. `endSession`
is part of the turn's last step, `registerSteerCancel` part of `RunModel` and `Resume`. A
crash is left out: everything modelled here is in memory and is lost with the process. The
error path of a turn that failed before its stream started is left out, too (it publishes
and finishes like the others). `arrival` and `clock` are history variables for the order.

### BackgroundTasks

A task, its run and its approval have one identity. `worker`, `act` (the decision and its
approved execution) and `canc` are the places of the three threads of a task; `carried`
holds the snapshot a thread took under `taskMu` and has yet to write (`Save`, which keeps
the row with the higher revision). `registered` and `marked` are `executionCancels` and
`cancelledExecutions`; `taskDone` and `execDone` say whose context is cancelled. `Stop`
cancels every context of a task at once, the executions' in steps of their own
(`StopExecution`, an `AfterFunc`). HTTP handlers may still run while the service closes and
after it stopped: `http.Server.Shutdown` runs in another goroutine, so decisions and
cancellations are possible in every phase that is not recovery. `Launch` merges the two
effects of a refused start; `PublishEnd` merges `updateApprovalTask`'s two sections. The
status `partial` is treated as `failed` (no condition of the modelled code tells them
apart). Left out: output and its checkpoints, `WaitTask`, subscriptions, session checks,
panics, and a failed write of a task's row (all callers ignore the error; a hazard says so).

### ExecutionLimits

`globalSem` and `hostSems` count what is in the buffered channels; `stage` is where the call
of a request to `acquire` is, `taken` which host slots it holds, `expired` whether its
context has ended. Every send and receive on a channel is a step: `TakeGlobal`, `TakeHost`
in the order of the host ids (`InOrder`, the `sort.Strings` of the code), `GiveUp` where a
`select` chooses `ctx.Done`, `ReturnHost` last one first, `ReturnGlobal`. A request whose
context has ended may still take a slot that is free, as a `select` with two ready cases may.
Host ids are numbers; the empty id, which the code skips, is left out. The requests stand for
all callers: executions (one host, or two for a transfer), shells, tunnels (two when a tunnel
moves to another host).

### ChatEvents

One conversation: the hub treats conversations apart. `entry`, `log` and `subscribed` are the
`chatEventSession`; `nextID` is the length of the log, whose terminal event makes the next
`publish` open a new one. `driver` is the run (`runChatTurnLoop`), `poster` the page whose POST
stream it serves, `emitting` the event that is published but not yet in the POST stream's
channel: `broadcast` does the two in this order under `emitMu`. `stream` is what a page's
connection is doing: `chatState` said active (`asked`), the handler replays a log that ended
(`reading`) or one it is subscribed to (`joining`), it waits on its channel (`live`), or the
page reads its own POST stream (`posting`). `replay` and `feed` are the two sequences of events
such a handler has to write. `cursor` is `lastAgentEventIDRef` in `ChatPage.tsx`, sent as
`after`. `era` numbers the logs; `origin` (in which log the cursor started) and `got` (what the
page has shown of the current log) are history variables.

- A queued message is announced by its own handler, without `emitMu` (`AcceptQueued`,
  `AnnounceQueued`), possibly after the run has ended; it then opens a log.
- The deletion is a check, then either the deletion of the log or a failure of the store.
- Writing an event and the page's showing it are one step; what is lost with a connection is
  lost before it (`Disconnect`). The coalescing of deltas in the client is left out.
- A page reconnects only to a conversation that `chatState` calls active. Heartbeats and the
  contents of events are left out.

### ApprovalExplanations

`explainer` says where the goroutine of an explanation is, the first of an operation or the
one a client asked for again; `registered` is `explanationActive`, `called` the contexts that
were cancelled. The decision (`DecideAsked`) cancels and clears in steps of its own; a retry
looks twice (`AskAgain`, `CheckAgain`) and erases what is shown before it works (`EraseReview`).
`unanswered` names the operations whose "pending" nobody owes any more: a decision before the
registration, a restart, a write that failed.

### ChatContext, Conversations, AgentPlan, SkillRegistry

`ChatContext` keeps the identities of rows, not their text: `rows`, the `status` of each user
row, the `summary` (its boundary and the rows it tells of), the context of the running
`query` and of paused ones (`checkpoint`). Compression within a turn
(`BeforeModelRewriteState`) and by the operator (`CompressContext`, `ForceSummary`), `retain`,
`excludedChatTurns` and the prunes are the code's own functions. `left` is a history variable: the turns that others
followed while they were unfinished.

`Conversations` gives each HTTP request two or more steps, a look and a write; `INSERT OR
IGNORE` by whoever writes a message brings a deleted row back (`Ensured`). `overlapped` is
a history variable: a change was written that a turn or a terminal had overtaken.

`AgentPlan` is one row and its steps; `edition` stands for the titles of one call.
`SkillRegistry` has a step for every rename of `replaceDirectories`, for each undoing, and a
crash between any two; `aside` are the hidden directories it renames to.

### InteractiveShells, ShellEvents

A critical section under `lifecycleMu` is a step. `starter` and `runner` are the two
goroutines of a generation, `connected` the transports that are open. `ShellEvents` is one
shell: `log` is what was given a number under `eventMu`, `writer` the `shellEventWriter`
with its timer (`fired`: timers whose callback waits for the lock), `history` the table or the
bounded list in memory, `stream`, `channel` and `shown` a page that follows. A failed batch is
kept and tried again up to `MaxAttempts`.

### SshTunnels, SftpSessions, TreeDeletion

A tunnel is an object with an id; an edit has two objects of the same id in turn. `worker` is
its goroutine's place, `socket` the client and listener of the current generation, `relay` a
forwarded connection, `editing` a call of `Replace` with its four phases, `view` what was
published last. `SftpSessions` has sections under `sftpPoolMu` as steps; `idleTimer` is
`stale` when it fired and the session was leased and returned since. `TreeDeletion` lists
directories, hands files to removers, then removes the directories level by level.

### FileChanges, TextEdits

Every change looks at its target, fills a temporary file, may look again, and puts it in
place. Ten operations do that with different care, which `FileChanges` states as records
(`WorkspaceEdit`, `SftpReplace`, ...), with the lines of each in the map. `since` holds what
came into the target after the last look: the code holds no lock, and the properties do not
claim it. `TextEdits` is two pure functions, `Apply` (Go) and `RemoteApply` (the awk programs
on a host), over texts of a few characters. Both lines the awk compares are input records, so it
compares two that look like numbers by their values (`AwkSame`), but a line it has cut of a
carriage return or a byte-order mark as text (`Whole`). Which texts look like numbers, and to what
value, differs between awks and is the constant `Numerals`. A NUL is a byte like another to the
awk, as gawk and mawk have it.

### McpConnections, ConnectionCatalogue, ModelRuntime

`McpConnections` numbers the attempts to connect, test or authorize (`link`); a section under
`mcpSecretsMu` or the manager's `mu` is a step. `asSaved` and `granted` say that the settings
and the authorization an attempt was made with are still those saved. `ConnectionCatalogue`
gives requests a check and a later write; an operation reads its hosts and proxies row by row
three times (to bind, to authorize, to verify), and `whole` says that what it read was the
catalogue's at one moment since. `ModelRuntime` splits a request into its write and each read
of the reload (`ReadActive`, `ReadConfig`, `ReadSettings`, `ReadTools`, `ReadAgent`), with
`reloadMu` as the guard `ReloadFree`. A reload fails in three ways: a row cannot be read and the
old runtime stays (`FailReload`), an Agent cannot be built and nothing is served (`FailBuild`), or
only the approval Agent cannot be loaded (`ReadAgent` yields `None`): then the reload succeeds
without one, and `approvalAvailable` is what the status says of it. A request may also fail after
its write and never ask for a reload (`FailDecide`, and one branch each of `SaveProviderProxy` and
`ChangeTools`, which read back what they wrote). `McpConnections` takes the write of a server's row
and its read-back for one step, which does not fail in between.

### ApplicationStream

One topic per behaviour, of ten; each has the code's own way from a change to the page:
snapshots on a signal, deltas, sampling by a ticker through a cache, a bounded channel whose
overflow is turned into a resync. `known` is the last state the socket sent, `page.view` what
each listener shows, `troubles` what excuses a page: a snapshot that failed and was
shown as an error, a signal that found no room.

`MCApprovalSafety`, `MCAgentTurns`, `MCSharedServices` and `MCConnections` are sums, not
products: a behaviour is one of a single component, chosen at the start. The components of a
sum share no state, so a product would only multiply the states.

## 3. What TLC checks

Deadlock checking is off everywhere: turns, messages and tasks are bounded, and a
conversation at rest may wait for its user.

| Run | Instance | Distinct states | Shows |
|---|---|---|---|
| `approval_safety` | 2 calls, 1 turn, 1 crash, 1 stop, 1 fault, symmetric calls; 2 explanations, 1 place, 1 retry, 1 trouble | 1,590,485 | at most one execution, as decided; groups appear and resume as one; no conversation blocked for nothing; verdicts are final; `OperationGate` is implemented; explanations are cancelled by decisions and come or are taken back |
| `agent_turns` | 2 calls, 1 turn, 2 crashes; 1 call, 2 turns, 1 stop, 1 fault; a conversation with 2 requests and 2 turns; 4 messages with 1 failure; plans of up to 3 steps; 3 skills, 3 contents, 2 mishaps | 742,050 | a driver that waits is woken, a decided group is carried out, through two crashes; what is shown can be resumed, a stopped turn ends; a conversation's row, context and plan stay its own; no skill is lost |
| `chat_turns` | 2 follow-ups, 2 steering messages, limit 2, 2 troubles | 415,326 | `ChatMailbox` is implemented; the limit holds; one user of the session; steering arrives; messages do not rest for ever |
| `shared_services` | 3 requests, 2 global slots, 2 hosts with 1 slot; 1 page, channels of 1, 2 logs, 1 queued message; 1 task, 2 restarts, 2 faults; 10 topics, 2 publishers, 2 changes, 1 lost socket, 1 error | 196,501 | limits hold, no request waits for ever; a page skips nothing, its streams end; a task hears of its run, cancellation is effective, shutdown is quiet, outcomes stay and reach the table; a page shows the last state |
| `connections` | 2 shells of one host, 2 generations; 2 tunnels; 2 SFTP requests for 1 session; a tree of 5; 2 changes of a file in 6 combinations; texts of up to 4 characters, numbers of up to 3, and texts that are not UTF-8; 2 MCP links, 2 requests; 3 hosts, 1 proxy, 2 requests; 2 providers, 2 requests, 3 writes | 446,681 | connections have owners and end; histories are whole; tunnels are what they are said to be; leases are exclusive; deletion is orderly; edits change only what they should; what is saved is served; operations use the approved connection |
| `stop_leaves_preparing`, `restart_orphans_run`, `failed_turn_not_resumed`, `steered_without_successor`, `decided_before_registered`, `late_listener_misses_change`, `remote_edit_differs` | the smallest that shows it | - | a counterexample each, section 5 |

Why the bounds suffice for the questions asked. Two calls are the smallest group: one
sibling can be decided, paused or executed while the other is not; with two crashes one can
fall into the recovery of the other. Two turns are needed where a later turn of the same
driver could disturb an earlier pause. One stop and one fault at any point
meet every phase of the turn. Four messages with a limit of two fill the queue, overflow it
and let each kind overtake and be overtaken. Two troubles give a stop with a failure, or two
stops, or a stop with a compression. Tasks share nothing but the shutdown, so one task
shows every race of its three threads; the proofs hold for any set of tasks. Two faults let
a failed read of the approval meet a failed write of the run. Three requests on two hosts are
the smallest instance in which two that hold the global slots can wait for each other's host
while a third waits for a global slot. The hub handles each channel by itself, so one page
suffices; what another page may do appears as a run without a POST stream (`ResumeRun`) and as
announcements of the queue. Channels of one make every second event meet a full one; two logs
are enough for a cursor to meet the log after its own. The proofs hold for any pages, requests
and sizes.

Of the other modules: one retry and one place in the queue make the second explanation wait
and be refused (the code has two reviewers and four places). `Preserve = 1` stands for two
preserved turns: with four messages there are turns before, at and after the boundary.
`MaxSteps = 3` stands for eight steps: a first, a middle and a last one. Three skills of which
one name is taken give a package whose second rename fails. Two generations of a shell are
the old and the new one; a pool of one session makes every second request wait; a batch of two
with a backlog of two overflows, and memory that keeps three of four events drops its oldest. The tree has a leaf at each depth and an empty directory, so
that a failure blocks some directories and not others. In `FileChanges` two changes meet
in the six combinations that a target can have, and a program outside may write once, at any time.
Three characters spell a number with leading zeros, with blanks on either side, and beside a
line that spells it otherwise; `SpelledNumbers` gives them the values gawk gives them.
Three hosts admit a chain of two jumps, a cycle, and one host too many. Three bounds are
written as guards in the MC modules: `Within` (crashes meet two calls of one turn, stops and
faults two turns of one call), `SecondAfterFirst` (two alike publishers start in one order),
and in `ModelRuntime` one lookup of a context window at a time.

Two properties and one half of a third speak only of some behaviours, because they really do
not hold of the others. `WaiterIsWoken` and the second half of `TurnsGoOn` (a decided group
continues) are about behaviours without stops and faults, with any number of crashes: a fault
leads to the third finding or lets a handler start the turn anew with a group it read before,
and a stop between the activation of a new pause and its own sweep rejects an approval without
waking the queue (hazard at `service/approvals.go:268`); a second stop frees the turn.
`PendingIsResumable` leaves out that a process dies under a stop handler: the turn is cancelled
by then, its checkpoint may be gone, and the approval is still pending after the restart.

### Fairness

`FairSpec` gives weak fairness to what goroutines do on their own: the driver, each tool,
each handler that has begun, the stop handler, the recovery; in `ChatTurns` also the
`AfterFunc` goroutine and the compression (three-minute timeout), in `BackgroundTasks` the
three threads and their writes. A goroutine that can take a step is scheduled; models,
commands and compressions are bounded by timeouts, so `ModelEnd`, `TurnEnds` and `FinishRun`
are among the fair steps. In `ExecutionLimits` what does not wait for a slot is weakly fair
(work has a timeout), and taking a slot is strongly fair: others may take a slot that is freed
again and again, but Go queues the senders of a channel in the order of their arrival. In
`ChatEvents` only the handlers of open connections are fair (`Serve`): what they have to write
is written, or the connection breaks. In `MCConnections` and `MCSharedServices` the duties of
the scheduler are numbered (`Duty(k)`), and the k-th duty of one component is joined with the
k-th of another: only one component acts in a behaviour, so this is the fairness of that
component. Opening a connection has a timeout and a closed session returns, so the steps of
a shell's, a tunnel's and a link's goroutine are fair, and so are the callbacks of timers and the
removers of a deletion; what a remote host or an operator does is not. None is given to what nobody is obliged to do: users' messages,
decisions, stops, cancellations, crashes, reloads, the end of a pause. Weak fairness is
enough everywhere else: no other step that liveness relies on is disabled again and again by
another process.

## 4. What is proved

Every theorem is about a specification without fairness, or uses none of its fairness, and holds for any sets of calls,
turns, messages, tasks, requests, pages, shells, tunnels, sessions, hosts, proxies, skills and
Workspaces, and any bounds. Assumptions: `NoTurn \notin Turns`; `Steering \subseteq Messages`
and `MaxQueued \in Nat`; the bounds of `BackgroundTasks` are naturals; host ids are naturals,
the requests finite, limits and buffers positive; shells and SFTP sessions are finite sets, the
limits of the shells naturals, that of the pool positive; ids of tunnels are positive naturals,
and "no tunnel", "no session", "no host", "no proxy" and "no Workspace" are none of theirs. A
tree of paths is finite, and of two directories above an entry one is above the other
(`TreeAssumption`). The ways to change a file are the ten of the code, and a content
is named after the change that brought it (`FileAssumption`). The first provider, and those an
import brings, are providers or none (`RuntimeAssumption`); items of the WebSocket are finitely many
positive numbers, the rooms of channels positive (`StreamAssumption`). The first hosts name jump hosts and proxies that are hosts and proxies, or
none (`CatalogueAssumption`); batches, backlogs and attempts of a shell's history are positive
(`ShellEventAssumption`); a conversation has a first message and a compression preserves at
least one (`ContextConstants`); a package of skills is not empty (`replaceDirectories` returns early)
and names no skill twice. TLC evaluates each assumption in the runs.

**ApprovalContinuation.** `TypeCorrect`, `ExecutedAtMostOnce`, `DecisionsHold`
(`ExecutedAsDecided`), `VerdictsAreFinal`, `KeepsOperationGate`. `AtMostOnce` is not
inductive: a second execution is excluded only because an executed run has left
`approval_required`, and the claim demands that status together with the approval. The
invariant therefore tells the story of each call (`CallStory`): what was executed has a run
past `approval_required` and an approval that is none or approved; a call no turn has made is
untouched everywhere; the place of a tool goroutine says which rows exist; an approval
exists only with its run. Two more parts tie the driver to the store: the calls saved in a
checkpoint belong to its turn, and a driver that is not idle has a turn. From it follow the
action property (a terminal run is never reopened, a rejection never taken back) and the
refinement: every step maps to a step of `OperationGate` or leaves its gate alone; the two
sweeps (stop, recovery) map to `Refuse(S)`.

A second invariant (`TurnInv`) is about groups: `GroupsActTogether`, `PendingCanResume`
(`PendingIsResumable`), `WaiterWakes` (`WaiterIsWoken`), `BusyAwaits` (`BusyIsAwaiting`). A
group is held in several places at once: by the tools that asked, the checkpoint of the turn
(`SavedStory`), the driver between the interrupt and its wake-up (`BoundStory`), the pause of
the queue, the bound interrupts in the table (`GroupStory`), and every handler or restart that
has read it to start a driver (`HandlerRead`, `DriverRead`). These sets are the same calls, or a
handler holds a group none of which is bound any more; until a group is decided nothing of it
has been carried out (`UndecidedStory`). `Uncut` says that what is pending is in a checkpoint
outside of a stop; `BusyStory` that a call which is not settled has somebody who will settle it
or awaits a decision. What `WaiterIsWoken` needs holds only without stops and faults, and so do
the conjuncts that begin with `Calm`: the pause of the queue is that part of the group whose
decisions it has not heard of, and each of those that is decided has a handler about to tell it.

**ApprovalExplanations.** `ReviewsAnswered` (`ReviewsAreAnswered`). The registry names whoever
works on an operation unless that was cancelled (`RegistryOf`), and what is shown as "working"
has somebody who will replace or clear it (`AnswerOf`).

**SkillRegistry.** `SkillsKept` (`SkillsAreKept`). A name is at rest (`Rest`) when its skill is
as the last writer left it, or lies aside in a directory nobody will remove. An import takes
the names it has reached out of rest (`Touched`); `AsideStory` says where the old skill of each
of them is, so that undoing brings it to rest again or counts the name as torn. That the Agent
is given nothing of a withdrawn import rests on the numbers of the contents (`VersionStory`): a
content of the import under way is at touched names only, and nobody loads a skill meanwhile.

**AgentPlan.** `PlanKept` (`PlanIsKept`, a part of `ConversationIsWhole`). A plan is its ended
steps, one that is in progress, and pending ones (`PlanInv`); revisions and migrations are shown
to build such a plan from any list of titles.

**Conversations.** `ConversationKept` (`ConversationIsKept`, a part of `ConversationIsWhole`). A
request whose check is not old finds what it checked (`Fresh`): to bind another Workspace, the
turn has been told of none and no tool runs; to delete, there is no turn; for both writes, no
terminal. Every step that would change that makes the check old.

**ChatContext.** `ContextWhole` (`ContextIsWhole`), and with the two before it
`ConversationWhole` (`ConversationIsWhole`, for any interleaving of the three). The property is
far from inductive: it speaks of the context of a new turn only, and that is right because of
what pruning, compression and resumption left behind many turns ago. The invariant (`ContextInv`)
holds while nobody went on past an unfinished turn:
- rows are in the order of their turns, and every turn but the last is `Solid`, that is, no
  prune will ever remove it (`InOrder`);
- the summary tells of exactly the rows up to its boundary, which lies between two turns and
  ends a solid one (`SummaryFits`), so the foreign key never refuses a prune (`BoundaryStays`);
- a context fits the rows at a boundary (`Fits`), and the row that a compression will name is
  the end of the questions it will take, though the two are computed at different moments from
  different data (`Splits`);
- a context that no longer fits the summary, because a compression was stored and its answer
  lost or the turn paused, finds so few questions after the boundary that no compression of its
  turn is due (`Few`);
- without failures as many turns stay in full as are to be preserved (`CountStory`).

The lemmas on `AllBut` are about ranks in finite sets of numbers: what it leaves are exactly so
many members as stay, and what it takes are the least ones (`AllButLeaves`, `AllButBelow`). The
proof showed that a case of the property could not occur, and the property now says without
exception that each row is told once: a failed question without an answer was allowed to be
left out, but none is there when a new turn reads the history.

**ChatTurns.** `TypeCorrect`, `QueueIsBounded`, `SessionIsExclusive` (`OneUserOfContext`),
`SteeringArrives` (`SteeringIsDelivered`), `KeepsChatMailbox`. The invariant says that the
items are ordered as `ChatMailbox` demands and carry the stamps of their arrival
(`OrderKept`, `Stamped`), that the box is open exactly while a driver exists (`BoxAndDriver`),
and who holds the session of the runtime (`SessionStory`). The refinement needs the order:
`Take(m)` demands that `m` precedes everything that waits, while the code takes the head.

**BackgroundTasks.** `TypeCorrect`, `TasksFollowRuns` (`TaskFollowsRun`),
`CancellationReaches` (`CancelReachesExecution`), `QuietWhenStopped` (`StoppedIsQuiet`),
`OutcomesStay`, `KeepsOperationGate`. `OutcomeStays` is the hard one: it speaks of what a
reader sees, memory while the task is there and the row afterwards, and three threads write
that row with snapshots taken earlier. The invariant (`RowStory`) says that every snapshot
under way is at most the revision in memory, that the final revision is either written or
carried by the thread that may remove the task, and that it is removed only afterwards;
`GateStory` connects the threads' places with run and approval, `EventStory` says who still
has to publish the end of a run, `ContextStory` which executions may not begin.

**ExecutionLimits.** `LimitsHold` (`LimitsKept`), `ReleaseIsFree`, `LimitTypesHold`. The
invariant is an account: the fill of each channel is the number of requests whose stage and
`taken` say they hold a slot of it. The limits follow from the capacity, and `ReleaseIsFree` (no
receive of a release can block, since the channel holds at least the slot that is returned) from
the count being positive.

**ChatEvents.** `FollowersSkipNothing` (`NothingIsSkipped`), `EventTypesHold`. `NothingIsSkipped`
says nothing of events under way, so it is not inductive. The invariant follows each event to
the page: for a stream of the current log, an event after the cursor is in the replay, in the
channel or, for the page that posted, in `emitting`, and these are read in the order of their
ids; with two events in `emitting` the order would be lost, which is what `emitMu` prevents. A
cursor that started in an older log puts no obligation on the page.

**InteractiveShells.** `ShellTypesHold` (`ShellTypes`), `ConnectionsOwned` (`ConnectionsAreOwned`),
`EndedRowsFinal` (`EndedRowsStay`). A connection would lose its owner if a shell had two
goroutines, so the invariant says that it has one at most (`ActorOf`): the starter of its
current generation, as long as there is no session, or the goroutine that waits for that
session's end, and then the record is neither final nor of another generation. Each open
connection is of that goroutine (`ConnectionOf`), and a final row belongs to a record that is
finished (`RowOf`), which the actions that write a row exclude by their guards. The type of
`workers` is its meaning, the number of goroutines; each step changes it as it changes that
number (`WorkersCounted`), so that it is zero only when there are none. The limits rest on the
admission: no other step makes a shell count again (`LimitsKept`).

**ShellEvents.** `ShellEventTypesHold`, `ShellHistoryWhole` (`ShellHistoryIsWhole`). The history
and, after it, the batch of the writer are in the order of the numbers, and unless the writer
has given up they are the last numbers without a gap (`InOrder`, `NothingMissing`); a timer that
fires late finds the batch it was set for, or none. What a page has shown meets what waits in its
channel (`PageStory`), unless memory has dropped events or the channel overflowed.

**SshTunnels.** `TunnelTypesHold` (`TunnelTypes`), `TunnelsTrue` (`TunnelsAreTrue`). The place of a
worker tells what may be open (`Place`), the manager lists exactly the tunnels whose workers
are between registration and end, each under its id (`ListStory`), and what was published last
of an id is the status of the tunnel listed there (`ViewStory`). Two objects share an id while
an edit restores one; that the first has no worker by then (`EditStory`) keeps its late steps
from the entry of the second.

**ConnectionCatalogue.** `CatalogueTypesHold`, `ApprovedConnection` (`ApprovedConnectionOnly`),
`ReferencesAlwaysResolve` (`ReferencesResolve`). An operation reads its connection row by row
while the catalogue changes. A revision never returns (`ClockStory`), so a hop is the content of
its row for as long as the row has the revision that was read (`HopFrom`), and a row that is no
longer what the operation was bound to will neither be it again nor be read as it
(`CatalogueGone`): equal revisions, hop by hop, mean that the whole connection was the
catalogue's at one moment since (`whole`).

**SftpSessions.** `SftpTypesHold` (`SftpTypes`), `SessionsLeased` (`SessionsAreLeased`). A lease
belongs to one request and makes its session busy, whatever timers fire (`LeaseStory`); a
client that is open is in the pool, one that was closed is not (`ClientStory`); the pool keeps
its limit and is empty once closed (`PoolStory`). `SleepStory` is what excludes a lost wake-up:
whoever sleeps has seen a full pool with nothing free, and every step that frees a place or a
session, or ends the pool, wakes all.

**TreeDeletion.** `DeletionTypesHold`, `DeletionOrderly` (`DeletionIsOrderly`). Every entry that
was discovered is at one place, with the scanner, among the directories of a later level, in the
channel or the hand of one remover, or with one verdict (`PlaceStory`, `HandStory`), and only a
cancelled job loses one. A level is handed out when all that was found below it has a verdict;
a directory above a failure is blocked (`BlockStory`), so that one which is tried has lost all
its entries (`OrderStory`).

**FileChanges.** `FileTypesHold`, `FileLosesNothing` (`NothingLostUnseen`, a part of
`ChangesKeepTheRest`). The invariant (`ChangeStory`) follows one change: as long as it is under way it has
replaced and told nothing; when it is about to put its file in place, the target is what it
looked for, or something that came since; whoever compares contents looks a second time
(`SecondLook`). A torn target needs a way of writing that does not sync.

**TextEdits.** `HostEditsAlike` (`RemoteEditsAlike`, another part), for every file, every edit and
every `Numerals`, from the assumption that texts are sequences of the bytes the model tells apart
(`EditAssumption`). A file that is not UTF-8 text is left out, and one with a line that is another
spelling of a number of the block (`Respelled`): without one the awk finds the blocks `Apply` finds
(`SameMatches`). The
invariant is only that both results are those of the file and the edit (`ResultStory`); the work is
in the lemmas about texts. The members of a finite set of numbers have the ranks 0 to n - 1, each
once (`RankIsOnto`: an injection into as many numbers is onto), so that `Sorted` lists them
(`SortedLists`); hence the first line starts after the byte-order mark and every line but the last
has an ending (`LinesOfText`). Where these endings are alike, the block's first one, the one of the
line before and, with neither, a line feed are what both programs choose (`SameEnding`), and they
cut at the same places (`SameText`).

**McpConnections.** `McpTypesHold`, `SavedSettingsServed` (`ServesSavedSettings`). An attempt that can
still become the current one, in the manager's map and not cancelled, was reserved with the
settings that are saved and, unless it is a test, is the one the entry names (`LinkStory`): every
save, deletion and authorization cancels those before it under the same lock. So what is
"ready" is open and of the saved settings (`EntryStory`), and tokens of an older authorization
never replace newer ones.

**ModelRuntime.** `RuntimeTypesHold`, `SavedRuntimeServed` (`RuntimeServesSaved`). A reload reads the
rows one after the other while others write them, so what it has read may be old. The invariant
(`Current`) says when it is not: if no request has yet to reload (`Owing`), everything the reload under
way has read agrees with the rows (`Agrees`), and without one the rows are served. A request
that writes owes a reload from its write until its own begins, and `reloadMu` keeps the two
reloads apart (`ReloadStory`). Of the approval Agent it says that it is the saved one or none, and
that the status tells which (`ReviewerServed`). `unrepaired` is a history variable: it excuses the
rows from the moment a reload fails or a request that fails after its write does not ask for one
(or a provider in use is deleted without one) until the next reload begins. A late answer about a context window is dropped unless it was
asked for the model in use (`WindowStory`).

**ApplicationStream.** `AppTypesHold`: what can be in a channel, in a page and in the cache of
samples; no channel exceeds its room. `PagesCatchUp` (`PageCatchesUp`) speaks of moments when nothing
is under way, and each topic reaches such a moment in a way of its own. What is inductive
(`StreamInv`) says at every moment why a listener that shows something else will learn of it
(`ViewOf`):
- with revisions (`RevisionOf`), what is shown is never ahead of the server, and either it is the
  last revision, or that one is in the channel or with a publisher that has found this
  subscriber, or the socket is told to begin again (`Recovers`): a signal, the request in the
  channel, or the publisher that made room for it. `unsignalled` is the one way that ends;
- with deltas (`DeltaOf`), an item that is shown wrong is awaited, and of the events of one item in a
  channel the last is the server's, or another follows it (`OrderStory`);
- what is sampled or compared is shown as it was sent (`socket.known`), and a difference to the
  server has an event under way (`Moves`);
- the conversations are a window of the last ones that is never read as a whole (`WindowOf`): what
  was sent of a conversation is right unless its event is awaited; one outside the window has
  enough others above it, or others that are gone whose events are awaited; one inside has few
  enough above it *of those sent*. At rest these say that the windows are equal: otherwise, of the
  conversations that are missing above one that is shown, take the one with the fewest
  above it; all of these are sent, so it cannot be missing (`RestWindow`).
`PageStory` is the other half: who has a snapshot is served, and who registered before the topic was
served gets one, or an error. A step that is no publisher's has one of six outcomes for what is
shown (`OutcomeCases`), so that each part of the invariant is proved for those and not for every
handler of the socket.

**The compositions.** A behaviour of `MCConnections` is one of each of its components, as one of
`MCSharedServices` is one of each service (`EachBehaves`, `ServicesBehave`: each starts as the
component does and takes its steps or stutters), so that what is proved of the components holds of
the sums: `ConnectionTypesHold` (`TypeOK`), `SavedAlwaysServed` (`SavedIsServed`), `ServiceTypesHold`
(`ServiceTypes`).

**Only model-checked**: every liveness property (`TurnsGoOn`, `QueueDrains`, `ServicesSettle`,
`ConnectionsEnd`), since the prover has neither fairness nor `ENABLED`. Of the invariants,
the third part of `ChangesKeepTheRest`, `EditKeepsTheRest`: `Joined` folds over the new lines and
the diff filters its own, and what a recursive definition computes for every input needs induction
over data.

Each property of a passing run has a mutant in `PROJECT.json`: an operator marked `mutant` in
the modules that replaces a mapped definition with the form a plausible slip would give it,
and with which TLC finds the property violated.

## 5. Where code and text disagree

Each is a run that must end in a counterexample; details and quotations are in
`PROJECT.json` under `findings`.

1. `stop_leaves_preparing`. `service/approvals.go:292` says that a stop rejects every
   approval that belongs to a live execution path. The sweep selects pending and approved
   ones: a group that is still being prepared stays `preparing` and its runs
   `approval_required`, and the conversation stays busy until the next restart.
2. `restart_orphans_run`. `store/approvals.go:145` speaks of "the only unsafe crash window".
   `submit` writes the run and its approval in two transactions; a crash between them leaves
   a run that awaits an approval which does not exist, which no recovery step touches.
3. `failed_turn_not_resumed`. `docs/architecture.md:215` and `:217` say that a decided group
   continues. If the status update after the activation fails, the driver is leaving but its
   pause is still registered: the last decision is absorbed by the queue, no driver is
   started, and the group is parked until a restart or a reload of the Agent.
4. `steered_without_successor`. `docs/architecture.md:247` says that steering ends the
   current turn and starts the new input at once. The message is enqueued first and the
   active turn asked to stop afterwards: if the driver takes the message in between, it is
   the turn of the steering message itself that is cut short.
5. `decided_before_registered`. `docs/architecture.md:215` says that a background task
   follows the events of its execution. A decision that is published between the creation of
   the approval and the registration of the task is not seen by the task, which then shows
   `approval_required` until it is cancelled or the process restarts. `TaskFollowsRun` is
   what remains true: the only exception is this window (`missed`).
6. `late_listener_misses_change`. `web/src/features/chat/sessionPlanState.ts:19` and
   `docs/architecture.md:239` say that a subscription begins with a snapshot. A second part of
   the page that listens to a topic the socket already serves asks for what is subscribed
   already and gets none: a change between its own HTTP read and its registration reaches it
   only with the next one. `PageCatchesUp` is what remains true (`fresh` listeners).
7. `remote_edit_differs`. `fileedit/contract.go:1` calls the text-edit contract "shared by
   remote and Workspace files". The two implementations differ in six cases: all lines of a
   file with a byte-order mark are removed; line endings are mixed; the old text ends in an
   empty line (refused on a host); the new text does (the line is lost on a host); a line is
   another spelling of a number of the old text (`01`, ` 1` and `1.0` match `1` on a host); the
   file has a NUL byte or the byte-order mark of UTF-16 (refused in a Workspace only). The run shows
   the first. The files of `connections` have all of them, and `RemoteEditsAlike`, part of
   `ChangesKeepTheRest`, fails there without any one of its conditions; with all of them the two
   agree, which is proved for all texts (`HostEditsAlike`).

## 6. Not modelled, and why

- *Eino, SQLite, SSH, MCP*: external. Their effect is in the models as the code uses them;
  a transaction of the store is atomic and durable.
- *Data*: contents of messages, commands, output, titles, redaction, cryptography; token
  estimates and attachments of a context.
- *Approvals*: execution within the request (`Approve`), the automatic approval Agent beyond
  its verdict, more than one retry of an explanation at a time.
- *Turns*: detached tools; the conversation's context once it went on while an earlier turn was
  unfinished (`left`: a recovered turn may then be told rows twice or not at all, and nothing is
  claimed); pauses in `Conversations`; background tasks in the deletion's check.
- *Connections*: the first save of a host (a new id that nothing refers to), the second host of
  a transfer, lookup by name, the flag for root access; the environment's model; of the two
  approval Agents, which are built alike, one.
- *Files*: browsing, search and deletion in a Workspace, the registry of Workspaces; validation of
  an archive of skills.
- *MCP server, tool catalogue, web search, login sessions, start of the process, migrations
  other than that of plans*: sequential code over data, or outside what a model checker adds to
  a test. A client that neither reads nor closes its POST stream blocks `publish`
  (`httpapi/server.go:1867`): the network is outside the models.
- *The page and the desktop shell*, but for the page's part of the two streams: they use the
  HTTP API.

Some hazards in `PROJECT.json` have a note instead of a property, because the code does not
exclude them: a stop that rejects without waking the queue; a message status that cannot be
written, after which the foreign key refuses the prune and the next start; a skill whose
directory stays hidden after a crash between two renames.

## 7. Plan

Done: the core (approvals, turns, tasks), in the order of its importance to the promise
that nothing runs unapproved or twice and nothing gets stuck; the services every run
uses (`ExecutionLimits`, `ChatEvents`); then everything else that has state and concurrency:
explanations, context, conversations, plans, skills, shells, tunnels, SFTP, files, MCP, hosts,
models, the application WebSocket.

What would add most next:

1. Detached tools and `WaitTask`; the registry of Workspaces; login sessions.
2. `ChatContext` composed with `ApprovalContinuation`, so that pauses come from real groups.
