# ModelFusion: TLA+ models, checks and proofs

This directory holds TLA+ specifications of the concurrent parts of ModelFusion, the
TLC configurations that check them on small instances, and TLAPS proofs that hold for
every value of the constants.  `PROJECT.json` maps every definition to the lines it
models, and lists runs, mutants, hazards, findings and theorems.

Notation: *scheduler.rs:343* is a line of
`src/IDE/mcp_ide_engine/crates/mcp-core/src/`; files of other components carry their
directory.

## 1. Inventory

ModelFusion is a Rust workspace (about 87,000 lines) with a Python service, a browser
front end and IDE extensions.  Most of it is sequential glue: command lines, prompt
building, HTML, HTTP calls to model providers.  The logic whose correctness depends on
order, concurrency and failure is listed first.

| Component | State it keeps | Operations | Speaks to |
|---|---|---|---|
| **mcp-core scheduler** (`scheduler.rs`) | five lock-free lanes, table of tasks, WRR counters per round, active count, gauges, `Notify` | `submit`, `next_task`, `promote_aged_tasks`, `reset_round_quotas`, `cancel` | worker loops, dispatcher, telemetry |
| **mcp-core dispatcher** (`registry.rs`) | task records, payload map (arguments and oneshot sender), root token | `dispatch`, `worker_loop`, `cancel_task`, `TaskHandle::wait`/`cancel` | scheduler, tokens, event bus, telemetry, command handlers |
| **mcp-core cancellation** (`cancellation.rs`) | a tree of tokens, each with a flag, a reason and its children | `cancel`, `child_token`, `detach_child`, `child_with_timeout`, drop guard | dispatcher, MCP server and client |
| **mcp-core registry, telemetry, runtime** | command table; counters and a broadcast bus | `register`, `publish`, `snapshot` | everything in the engine |
| **MCP client** (`mcp-protocol/src/client.rs`) | pending requests by id (a sharded map of oneshot senders), next id | `send_request_with_timeout`, `receiver_loop`, `cancel_request`, `close`, `initialize` | a transport |
| **MCP server** (`mcp-protocol/src/server.rs`, `tools.rs`) | lifecycle state, active requests by id, root token | `serve`, `handle_request`, `handle_notification`, `shutdown` | transports, tools, resources, prompts |
| **SSE server** (`transport/sse.rs`, `mcp-cli/sse_server.rs`) | table of sessions, two bounded channels for each | `create_session`, POST handler, serving loop, event stream | MCP server, clients |
| **rest_rl daemon** (`IDE/rest_rl`) | task queue, pause flags, SQLite task log, results for polling | RPC methods, worker loop, `save_task` | IDE clients over TCP, sandbox |
| **rest_rl clients** (`rest_rl_client.py`, `ide_client_shim.ts`) | idle or not, a debounce timer, the daemon's process | `on_user_activity`, `onUserActivity`, calls to the daemon | daemon, IDE |
| **IDE ghost text** (`speculativeGhostText.ts`) | requests under way, one shared abort controller | `provideInlineCompletionItems`, `dispose` | VS Code, engine, Ollama |
| **Browser agent** (`core/src/browser/agent.rs`, `cli/src/main.rs`) | one slot for the active agent; its status, step, pending action and history | start, worker loops, `step`, `approve`, `abort`, chat commands | models, Chrome, HTTP clients |
| **Fusion engine** (`core/src/fusion_engine`, `providers.rs`) | the panel's answers, the pool of fallbacks, process-wide backend flags | `run_fusion`, `run_panel`, `judge_panel`, `write_final_answer`, the providers' chains | model selection, remote APIs, local backends |
| **Conversation memory** (`core/src/memory.rs`) | sessions and messages in SQLite | `ensure_session`, `append_message`, `assemble_context`, `delete_session` | `/boost` requests |
| **Model catalogue** (`core/src/task_handler.rs`, `db/src/models.rs`) | the table of models with their badges | update, crawl, upsert, backup, restore | Hugging Face Hub |
| **Code graph** (`crates/code_graph`) | files, symbols, calls and references in SQLite | `index_workspace`, prune, resolve | IDE requests, disk |
| **KV caches** (`core/src/kv_cache.rs`) | free list and block tables of a paged pool, ring buffers, tabs in LRU order | `append`, `free`, `create_tab`, `append_to_tab`, `close_tab` | inference and browser tabs |
| **Ollama lifecycle** (`model_selection/src/memory.rs`, `main.rs`) | the daemon's process, the watchdog's count | `ensure_ollama_running`, `recover_and_restart_ollama`, watchdog | request handlers |
| **Inference slots** (`main.rs`) | a fast and a heavy semaphore | `/orchestrate` and what runs under it | clients, Ollama |
| **Orchestrator, mesh, rate limiter, folder manager** | spent budget; peers; window of calls; folders | route, prune, `should_allow` | providers, other hosts |
| **Model selection, RL controller** | scores, weights, history | scoring, Pareto fronts, updates | database, CLI |
| **Database schema, monitoring, security, PE analysis** | rows and reports | queries and scans | disk |
| **CLI, TUI, web, browser UI, scripts** | screens and arguments | parsing and display | all of the above |

### How the parts interact

A client command enters the engine through the CLI, the TUI or the MCP server.  `dispatch`
creates a cancellation token, a record and a payload, and `submit`s a task to the scheduler,
which pushes it on a lane, counts it and notifies one worker.  Worker loops call
`next_task`, which promotes aged tasks and scans the lanes by weighted round robin; the
worker runs the handler under `select!` with the token, settles the record, counters and
events and sends the result through the oneshot channel on which `TaskHandle::wait` waits.
Cancellation arrives by handle, by task id or from the root token at any of these
moments, and runs down a tree of tokens that grows meanwhile.  An MCP client numbers its
requests and waits on a oneshot for each, with a timeout; the server spawns a handler per
message, so a connection is ordered but its handlers are not.  Over SSE the requests come by
POST and the replies go out on the stream of a session.

The HTTP server of the host (`main.rs`) admits `/orchestrate` requests through two semaphores,
runs the fusion engine under them, keeps one browser agent in a slot, and starts, checks and
kills the Ollama daemon on which all local inference depends.  `/boost` requests share a
conversation in SQLite.  The IDE tells the ReST-RL daemon when its user is idle, asks for
completions at each pause in the typing, and has its workspace indexed into the code graph.

### What is hard, and what makes each part correct

* **Scheduler.** The lanes are queues without a common lock, and nothing in `next_task`
  is atomic: the quota test, the pop, the charge and the gauge are separate steps of
  several workers, and ageing empties a lane into a private vector while others look.
  Correct means: no task lost, duplicated or misplaced; a promotion only by age; gauges
  that agree with the lanes; a bounded overshoot of a quota; no sleep over a queued task
  that nobody will fetch; every submitted task reached.
* **Dispatcher.** Two sources of cancellation race the scheduler, the gate, the handler
  and each other; a dispatch still reports while its task runs; handlers may panic.
  Correct means: one worker per task; counters that account for every task; records that
  only move forward and answers that agree with them; a wait that always returns;
  workers that stop at shutdown.
* **Cancellation tree.** Children may be added while the parent is being cancelled.
  Correct means: when `cancel` has returned, every descendant reads cancelled, whatever the
  order of linking, copying and registering, and nobody else does.
* **MCP client and server.** Answers race timeouts, cancellations and a closing
  transport; messages of a connection are handled out of order; request ids are chosen
  by clients but kept in one map per server.  Correct means: every call returns within
  its bounds; one answer per request and to its own caller; a cancellation reaches the
  call it names and no other; a panicking tool leaves only its own entry behind.
* **SSE server.** Nobody removes a session when its client leaves.  Correct means: posts to
  such a session are still consumed, and no reader that left holds anybody.
* **rest_rl daemon and clients.** RPC threads and the worker share a queue whose entries are
  read under a lock and used outside it, and the SQLite copy is written after the lock is
  released; idle and active notices travel on connections of their own.  Correct means: no
  task run twice or dropped, a result reported once, the database never behind a later state,
  pause honoured, no training while the user types.
* **Browser agent.** A worker looks at the slot, unlocks it and locks it again to step; an
  approval names no checkpoint; a start replaces the agent under another's loop.  Correct
  means: steps once and in order, one checkpoint per approval, an aborted agent never acts,
  a running agent is driven.
* **Fusion engine.** Failed answers are replaced from a shared pool, replacements may fail, and
  one failed remote call turns the whole process offline.  Correct means: no candidate asked
  twice, no failed answer left while candidates remain, an answer that some model gave.
* **Stores.** Conversation, catalogue and code graph are written by transactions of several
  requests or processes, each of which may fail or be the last.  Correct means: messages in
  the order of their appends and none without its session, a report that counts what was
  stored, symbols that are those of the stored text and edges that point at stored files.
* **KV caches.** A pool can run out in the middle of an append.  Correct means: a block has
  one owner, a cache reads the tokens it was given, memory stays under the cap.
* **Ollama and slots.** A call that finds the daemon silent kills it for all; a request keeps
  its fast slot while it waits for a heavy one.  Correct means: the daemon comes back, a
  request is served or, if its client left, ended, and gives its slots back.
* **Ghost text.** Overlapping requests share one abort controller.  Correct means: what is
  shown is of the newest fetch, and every older one has been told to stop.

## 2. Plan

The order followed the importance of the behaviour for the whole system; all modules are
written.

| Step | Modules |
|---|---|
| 1 | `TaskPool`, `MultiLaneScheduler` |
| 2 | `TaskLifecycle`, `TaskDispatcher` |
| 3 | `RequestReply`, `McpClient`, `McpServer`, `McpConnection` |
| 4 | `JobQueue`, `RestRLDaemon` |
| 5 | `BrowserAgent`: the agent's slot, loops, approvals and aborts |
| 6 | `CancellationTree`: parent and child tokens, registration against cancellation |
| 7 | `SseSessions`, `IdleNotices`: what lies between clients and the two servers |
| 8 | `PagedKvCache`, `MultiTabKv`: the block pool and the tabs |
| 9 | `ConversationMemory`, `ModelCatalog`, `CodeGraph`: the stores that several writers share |
| 10 | `OllamaHost`, `InferenceSlots`: what all local inference waits for |
| 11 | `FusionPipeline`, `GhostText`: overlapping and failing calls of models |

The orchestrator's budget, the rate limiter and the mesh's peer table stood in the plan and were
dropped: the first two have a single owner (`&mut self`, an orchestrator per command), and the
peer table is one map operation under one lock per event.

Abstract specifications and what implements them:

* `TaskPool` (a task is handed out at most once, leaves unserved only when cancelled,
  never waits for ever) is implemented by `MultiLaneScheduler`.  `TaskDispatcher` is
  built on the pool and does not mention lanes.
* `TaskLifecycle` (records only move forward, answers agree with them) is implemented by
  `TaskDispatcher`.
* `RequestReply` (a call returns once, with its own verdict or a failure) is implemented
  by `McpClient` against any peer and by `McpConnection`, in which `McpClient` and
  `McpServer` share the wire and each is the other's environment.
* `JobQueue` (jobs settled in order, results collected once) is implemented by
  `RestRLDaemon`.

Still to prove: `TabsKept` of `MultiTabKv`, which needs lemmas on a sum over a set of tabs, and
`ContextIsRecent` of `ConversationMemory`, which needs lemmas on a fold over a sequence.  Until then
TLC checks them on the runs of section 4.

## 3. The modules

Every action is the code between two accesses to state that another thread, task or
process can see.  Where the code takes several such accesses in a row and nobody could
tell the difference, the merge is named below, with the reason.

### 3.1 `MultiLaneScheduler` (scheduler.rs)

| Code | Model |
|---|---|
| `lanes: [SegQueue; 5]` | `lanes`, one sequence per lane |
| `TaskState` table, effective and base priority, submission time | `prio`, `base`, `created`; the lifecycle state is in `TaskDispatcher` |
| `wrr_counters` | `consumed` |
| `active_tasks`, lane gauges of the telemetry | `active`, `gauge` |
| `Notify` | `permit`, and the worker locations `park` and `asleep` |
| locals of `next_task` | `pc`, `at`, `pass`, `hold`, `temp`, `snap` per worker |

`submit` is `SubmitPush`, `SubmitGauge`, `SubmitCount`, `SubmitNotify`; `promote_aged_tasks`
is `StartPromotion`, `DrainPop`, `PromoteTask`, `PromoteUncount`, `PromoteCount`, `KeepTask`,
`DrainEmpty` and `RestoreTask`, with the private vector `temp` that holds a drained lane; the
scan is `QuotaLeft`/`QuotaUsed`, `ScanPop`/`ScanEmpty`, `ScanUncount` (the lane's gauge, after
the pop), `DropCancelled` and `DropUncount`, or `TakeTask` and `ChargeLane`, then `ResetLane`
lane by lane; waiting is `Park`.  `FinishTask` and `FinishUncount` stand for the dispatcher's
end of a task.  A `cancel` of a task that has left the scheduler writes only its lifecycle
state and is left to `TaskDispatcher`.

Each step is one access to a queue, a counter, a gauge or the permit.  Two merges remain.
`submit` files the task before it pushes it (`SubmitPush`): a cancellation between the two is
one right after the push, since the token of a task that is in no lane is not read.  And
`PromoteTask` writes the new priority with the push: only the worker that holds a task reads
its priority.

### 3.2 `TaskDispatcher` (registry.rs)

`dispatch` is `DispatchSubmit` (record, payload, push), `DispatchCount` (the gauge),
`DispatchNotify`, `DispatchTotal` and `DispatchReport`: the dispatch is counted, and `TaskQueued`
published, after the task may have run.  `worker_loop` is `LoopTop`, then `DropQueued`,
`DropTotal`, `DropUncount` for each cancelled task on the way, `TakeTask` or `FindNothing`, then
`Gate`, `Start`, `RunEnd` or `RunPanic`, then `SettleTotal` (state and total), `SettleRecord`
(under the record's lock), `Publish` (after it is released), `SettleUncount` (the gauge) and
`Deliver`, and `Park` or `WakeToStop`.  `HandleCancel` is `TaskHandle::cancel`, `CancelTask` the
cancellation by id, `Shutdown` the root token; `WaitBegin` and `WaitEnd` are `TaskHandle::wait`.
`record` is the table of `TaskRecord`s, `state` what the scheduler's own table says, `payload`
the payload map, `counter` the totals and the active gauge, `reply` the oneshot.

Every write that somebody else can read is a step, but for three groups.  `DispatchSubmit`
writes record, payload and the map of active tasks with the push: nobody knows of the task
until then.  `TakeTask` removes the payload with the pop: only the worker that was given the task
looks for it.  And `EngineTask.state` is written together with the token, queue or counter next to
it: its only reader, `is_cancelled`, asks the token first, which stays cancelled once it is.

The scheduler's choice is replaced by the pool: `TakeTask` takes any queued task that is
not cancelled, and `FindNothing` may find nothing although a task is queued, because a
colleague may hold it in its private vector; that abstraction is what `TaskPool`
allows and `NoLostWakeup` limits.  A handler returns success, failure, or
`Err(Cancelled)` of its own only when its token is cancelled.

### 3.3 `McpClient` (client.rs, stdio transport)

`send_request_with_timeout` is `Register`, `Send`/`SendFailed`, `Return`, `TimeOut`,
`Forget`, `ReturnTimeout`, and `ReturnDropped` when its sender is gone; `initialize` adds
`Confirm`.  `cancel_request` is `Drop` and `CancelTell`.  The receiver loop is
`Receive`, `StopReceiving`, `Sweep`, the last one shard at a time.  `pending_requests` is
a DashMap (dashmap 6.2.1): `Unlocked(c)` says that the shard of `c` can be locked, and
`Sweep` keeps a shard locked from the moment it finds an entry there, as the iterator
does.  The peer is an environment: it answers each request once or never, in any order,
and may stop reading or writing.  One merge: `Receive` takes a sender out of the map and sends on its
channel in one step; a timeout that falls between the two is one that fell before both, and a
cancellation there one that came after both.

### 3.4 `McpServer` (server.rs, tools.rs)

`Serve` spawns a task per message, so the messages of a session are handled in any
order; the wire is therefore a set.  `handle_request` is `Refuse`, `Invalid`,
`HandleInitialize`, `HandleList`, or, for a tool call, `StartCall`, `EndCall` or `Panic`,
`FileAway`, `Reply`.  `handle_notification` is `NoteInitialized` and `NoteCancelled`.
One `state`, one `active` map and one `root` token serve all sessions.  The receive of a
message and its spawn are one step.  `Serve` stays enabled after a shutdown but has no
fairness then: the loop leaves at the next `select!` that sees the token.
`$/cancelRequest` does the same as `notifications/cancelled` and is the same action.
`shutdown`'s two writes are one step: `state` decides what later requests are told, `root` what running
calls are, and no handler reads both.  `Id` is unique in a session and no further, as with clients
that number from 1 (client.rs:54).  Resource subscriptions and the logging level do
not influence other handlers and are left out; the end of a session is not modelled
because the server keeps nothing per session.

### 3.5 `McpConnection`

The wires of client and server are the same variables; each takes the place of the
other's environment.  `greeted` is history: the requests made after an `initialize()`
returned its result.

### 3.6 `RestRLDaemon` (rest_rl_daemon.py, adapters/tier3_minimal.py, sandbox.py)

| Code | Model |
|---|---|
| `is_idle`, `pause_event`, `running` | `isIdle`, `pauseSet`, `running` |
| `task_queue`, `tasks`, `current_task_id` under `task_lock` | `taskQueue`, `tasks`, `currentTaskId` |
| `DaemonTask.state`; `resolved_tasks` | `state`; `resolved` (and `delivered`, what polls returned) |
| tables `tasks` and `resolutions` in SQLite | `dbState`, `dbResolutions` |
| `_task_states` and the loop of the adapter | `adapter`, `sample`, `last` |
| list of active processes in `sandbox.py` | `proc`: none, fresh (spawned, not listed), listed, killed |

RPC threads: `Enqueue`, `EnqueueSave` (the row is saved after the lock is released);
`StartIdle`, `StartResume`; `StopIdle`, `StopPause`, `StopKill`; `Poll`; `QuitRun`,
`QuitPause`.  Worker: the loop's checks read one flag at a time in the order of the code
(`ReadClear`, `ReadBlocked`, `ReadOn`); `Peek`, `Mark`, `SaveRunning`, `Enter`, the rollout
(`Sample`, `Spawn`, `Register`, `Judge`, `Reject`, `Raise`), then `Pause`, `SavePaused`, or
`Complete`, `PopOwn`, `Resolve`, `SaveDone`, `SaveResolution`, or `Fail`, `SaveFailed`, `Drop`.

The rollout is that of tier 3; tiers 1 and 2 have the same shape.  A change of target
between tasks resets the baseline, through `last`.  The writes to SQLite are assumed to
succeed: the code logs and swallows their errors.  `terminate_active_jobs` is one step.  A
Windows job object and the fallback that kills the process do the same here.  `TestEnds` lets a test
that is being killed have passed already.  `calm` and
`stray` are history: the stops that no step of a start has followed, and the work begun
since the last of them returned.

### 3.7 `CancellationTree` (cancellation.rs)

A token has a flag of its own and wraps a tokio token whose tree mirrors the tree of tokens;
`is_cancelled` is either.  `cancel` is `CallCancel`, `StoreFlag` (a plain store: a second caller
goes through all of it as well), `CancelTokio` (the whole tokio subtree, atomically: tokio locks its
tree) and `VisitChild`, which recurses into the children that are registered when it comes to
them.  `child_token_with_name` is `LinkChild`, `CheckParent`, `CopyFlag`, `Register`: four steps,
between which the parent may be cancelled.  What saves a child that is made meanwhile is the pair
of the tokio link of line 127, which `CancelTokio` follows whenever it comes, and the question
`is_cancelled` (lines 128 and 137, `ParentReads`), which sees a flag that is stored already:
without the question of the *flag* a child made between `StoreFlag` and `CancelTokio` would read
uncancelled under a parent that reads cancelled (`BornCancelled`, with `late` as its history).  The
copy of the flag (line 138) and the moment of registration make no difference that `is_cancelled`
shows, because tokio's mark is always there first.  `DetachChild` is `detach_child`.  A timeout and a
drop guard are callers of `cancel`.  The dispatcher and the server use flat tokens: each task's
token is a child of one root, and only the two are ever cancelled there.

### 3.8 `PagedKvCache`, `MultiTabKv` (kv_cache.rs)

`AppendTokens` is `append` with its loop as a recursive function, `Turns`: it takes a block when the last one is full
and stops with an error when the free list is empty, and what it wrote until then stays.  `Free`
is `free`, whose loop (`Released`) gives the blocks back in table order.  A token is its cache and position, so that
reading another cache's block shows.  The pool's `&mut` borrow makes each call one step.

`CreateTab` evicts from the old end of `lru` until the new tab fits, or fails; `TouchTab`,
`AppendToTab` (which touches first), `ClearTab` and `CloseTab` are the other methods of
`MultiTabKvManager`.  `CreatePanics` is a ring tab whose prefix fills its window: the assertion in
`RingKvCache::new` fails when tabs have been evicted already, and they stay evicted.  Memory is
counted in tokens of equal size; `Total` is what `total_memory_bytes` counts, one cache per tab,
and `Allocated` what the tabs hold, two for a ring tab.  An `append` that would overflow
a linear cache panics in an assertion and is not enabled.

### 3.9 `ModelCatalog` (task_handler.rs, db/src/models.rs)

A run is an update (feeds, streams, OpenVINO list) or a crawl (feeds, pages by cursor).  A batch
is one transaction, which happens or fails whole; `seen_models` is filled before it, and that is
where a failure leaves a trace.  `RetryPage` is a failed fetch, given up after
`MaxAttempts`; `EndCrawl` is every other end of a crawl.  `Merged` is the SQL merge of
`feed_source`, and `Restore` copies the backup back.

### 3.10 `ConversationMemory` (memory.rs)

Every query is a step, and every request (`Talks`) goes through `FindSession`, `InsertSession`,
`AssembleContext`, then after the model's answer `ReadNewest` (`SELECT MAX(created_at)`, the
stamp of a message being above it) and `PutMessage` (`INSERT`) for the question and for the
answer; `ReadFails` and `AppendFails` are errors, which the handlers ignore.  `DeleteSession`
cascades to the messages.  `SetClock` moves the host's clock either way.  One may wonder how two
appends that read the same maximum keep their order: they overlap, and no order is promised
between them (`AppendsInOrder` is about appends that do not overlap).

### 3.11 `CodeGraph` (crates/code_graph: indexer.rs, db.rs)

`index_workspace` is discovery (`StartIndex`, whose walk may miss any of the files that are there,
because indexer.rs:58 drops entries it cannot look at), then for each file read, compare with the stored hash and store in
a transaction, then the prune in two steps (list, delete) and the resolution of calls; several
runs of several processes interleave at every one of these, files change on disk, and a run may
die anywhere (`EndEarly`, `GiveUp`).  A text is the names it defines and uses.  Deletions carry
the cascades of the schema (`RowsWithout`, `CallsWithout`, `RefsWithout`).

### 3.12 `FusionPipeline` (fusion_engine/, providers.rs)

`BeginFusion` chooses panel, pool, judge and writer from the ranked candidates, the forced model and
the specialists, as `run_fusion` does.  The calls of a wave run side by side (`StartCall`,
`NextBackend`, `CallAnswers`, `CallFails`, `RemoteFails`, `OllamaUnreachable`): a remote call that
fails sets process-wide flags, and later calls read them.  `WaveEnds` starts the next batch;
`Review` and `Replaced` are the passes that replace failed answers from the pool; `VerdictGiven` asks
the judges in turn; `Written` ends the run.  Both walk through slots in the panel's order, so
`queue` is a set of slots of which the least is next.  What decides whether a call succeeds is open.  The
settings of the run are those of the command line (with a token, without, with each local
backend), of an empty catalogue, and of the server.

### 3.13 `BrowserAgent` (browser/agent.rs, cli/src/main.rs)

A worker loop looks (`worker = "look"`), waits, steps and reports, locking the slot three times per
round (`WorkerStep`); `BeginApprove`/`EndApprove` keep it locked while the action runs; `StartRun`
puts a new agent in and spawns its loop; `Abort` sets the agent in the slot to `Aborted`.  A chat
goal drives a private agent (`ChatBegin`, `ChatStep`) and stores it when its run is over or waits
(`ChatStore`).  `SafetyClassifier` is `NeedsApproval`: a sensitive word, a checkout URL to go to or to
be at.  `history` holds for each executed action whether a human released it.  `url` is
`current_url`, which only `step` sets (agent.rs:774); `page` is history, where the executed
navigations took the browser, those that `approve` ran included.  Where a click leads is decided by
pages outside the repository and is in neither.

### 3.14 `OllamaHost`, `InferenceSlots`, `SseSessions`, `IdleNotices`

* `OllamaHost`: each caller checks, kills, spawns, waits for `WaitPolls` polls, as
  `ensure_ollama_running` and `recover_and_restart_ollama` do; `Tick` is the watchdog's probe, and
  the daemon starts, falls ill, hangs, recovers and dies.
* `InferenceSlots`: `Arrive`, `GetFast`, `Sort` (which of the three paths), `GetHeavy`, `FallBack`,
  `Finish`, and `HangUp`/`Notice` for a client that leaves and the watch that sees it.  Semaphores
  are fair, as tokio's are.
* `SseSessions`: `Connect`, `Leave`, `PostTo`/`PutIn`/`CutPost` for a POST of one or more messages that
  go into the inbox one by one, `Take` and `Reply` for the serving loop, `ReadEvent` for the stream.
* `IdleNotices`: `FallIdle` and `UserActivity` are the client, each call is a thread of the daemon
  that writes `is_idle` and `pause_event` in two steps, `DaemonDies`, `DaemonStarts` and `TimeOut` the
  failures.  `Locked` tells the Python tracker, which calls under its lock, from the TypeScript
  shim, which does not wait.

### 3.15 `GhostText` (speculativeGhostText.ts)

JavaScript runs to the next `await`, so an action is the code between two.  `Provide` and `BeginFetch`
lie before and after the pause; `EngineFails`, `Answer` and `StopFetch` are the ends of a post.
`Withdraw` is VS Code's cancellation, which during a fetch aborts *the controller that is in place*,
whoever's it is; `Dispose` ends the provider.

### 3.16 `MCHostData`, `MCHostServices`

These two modules put parts that share no state side by side: a variable `part` is chosen in the
initial state, and only that part moves.  A run of such a module is the union of the runs of its
parts.  `MCHostData` holds the parts checked for safety, `MCHostServices` those with liveness.

## 4. The runs

Every property of a passing run has a mutant in `PROJECT.json`: a changed definition, like
a dropped guard or a swapped order, under which the run finds the property violated.  The
operators `Mut...` in the modules are those changed definitions and are used nowhere else.
Most properties are conjunctions of named parts, each stated and commented where it is defined;
the table names the conjunction and says what its parts claim.

| Run | Distinct states | Properties and what they say |
|---|---|---|
| `scheduler_safety` | 891,041 | `QuotasHold`: the overshoot of a quota is below the number of workers. `LanesConsistent`: no task lost, doubled, in a wrong lane or promoted early; gauges and counters exact up to the updates still to come. `NoLostWakeup`: when all workers sleep nothing is queued. `StepsOfTaskPool`: every step is one of `TaskPool` |
| `scheduler_liveness` | 425,965 | `ImplementsTaskPool`: with its liveness, so that no task waits for ever |
| `dispatcher_safety` | 828,977 | `TasksOwned`, `BooksBalance`, `EventsMatchRecord`, `ImplementsTaskLifecycle`: one owner per task, counters that account for all tasks but for the updates still to come, events that follow the record and answers that agree with it, records that move forward |
| `dispatcher_liveness` | 617,639 | `WorkersServe`: every wait is answered unless a handler hangs, and a shutdown ends every loop (one formula `[]<>` for both: a shutdown, the end of a loop and the answer to a wait are for good) |
| `client` | 143,321 | `PendingConsistent`: the map is exact. `StepsOfRequestReply`: one return per call, its own verdict or a failure. `ReturnsUnlessStuck`: each call returns unless the clean-up is stuck |
| `server` | 1,339,765 | `ActiveConsistent`, `GreetedNeverRefused`, `CancelledByItsId`: an entry of the map is a call that can be cancelled and only a contested one is missing, no request after a handshake is refused, a call is cancelled only by its id or a shutdown |
| `connection` | 24,011 | `HandshakeConsistent`, `ImplementsRequestReply`, `CallsEnd`: the contract of the two together, a call given up ends on the server, every call returns |
| `restrl` | 725,375 | `HeadConsistent`: the worker works on the head, and a stop lets at most one more piece of work begin. `ResolutionsConsistent`: what is reported, polled and stored agrees. `ImplementsJobQueue`, `QueueDrains` |
| `host_data` | 1,418,799 | `TreeConsistent`, `PagesConsistent`, `TabsKept`, `CatalogKept`, `GraphConsistent`, `LogConsistent`, `ContextIsRecent`, `FusionConsistent`, `CompletionIsCurrent` |
| `host_services` | 93,567 | `AgentConsistent`, `OneCheckpointPerApproval`, `HumanDecides`, `RunEnds`, `EngineComesUp`, `SessionsServe`, `RequestsEnd`, `TypingPauses` |
| `client_lost` | | violation of `EveryCallReturns`, see section 7 |
| `idle_shim` | | violation of `TypingPauses`, see section 7 |

Two cases deserve a word.  `TypingPauses` is checked twice: for the Python tracker it holds (in
`host_services`, `Locked = TRUE`), for the TypeScript shim it does not.  For a
fusion run `host_data` checks deadlock where other modules have liveness: only a run that has
returned may stop (`Rest` lets the other parts of that module rest anywhere), the graph of a run
has no cycle, and each call of it has a timeout.

### Bounds

* **Two workers** suffice for the races of the scheduler and the dispatcher: every
  property that fails in them relates a worker to one other, or to a submitter or
  canceller.  **Two tasks** let one be drained, restored or promoted while the other is
  popped.  The safety run submits both to the lowest of three lanes, so that each can be
  promoted twice; with quotas of one they contend for the last unit.  `MaxNow` bounds the
  clock; thresholds of 1 make every lane reach its own.  The liveness run has two lanes
  and a frozen clock, submits at every priority and lets one task be cancelled (`Cancelling`).  Both runs merge
  states that differ only in the priority and times of a task that has left, or in the token of
  one a worker was given (`MCView`): no guard, property or fairness condition reads either any more,
  so the merged states have the same futures.  The bound on a quota's overshoot is
  `QuotaOvershoot` as a theorem, for any number of workers, tasks and lanes.
* **Dispatcher**: no counter is bounded; the state space is finite as tasks are dispatched
  once.  In the safety run one task may be cancelled by its handle or id and its handler may panic,
  and a shutdown cancels either; in the liveness run one may be cancelled, and its handler hangs
  until it is.
* **Client**: with a capacity of one a sender finds the channel full; two shards tell a
  call whose shard is locked from one whose is not.  `client_lost` has a capacity of two,
  so that both calls are under way when the connection is lost.
* **Server**: two sessions are needed for the shared lifecycle state and map; both number from 1, so
  that the tool call of each has the id of the other's.
* **rest_rl**: two tasks are needed for the order of the queue and the change of target;
  two samples for a pause between samples; two starts and one stop for a stop overlapped by
  a start on either side.  The ids differ in the run; ids used twice are covered by the
  theorems `HeadHolds` and `RefinesJobQueue`, which hold for any.
* **Cancellation tree**: three tokens make a grandchild that registers while both ancestors are
  being cancelled, by two threads.  The proofs hold for any number.
* `PagesAlwaysConsistent`, `CatalogAlwaysKept`, `GraphAlwaysConsistent`, `FusionAlwaysConsistent`,
  `LogAlwaysConsistent` and `CompletionAlwaysCurrent` do not depend
  on the bounds of the next paragraphs at all.
* **KV caches**: three blocks of two tokens and calls of up to five: one cache exhausts the pool
  in the middle of a call while the other holds a block.  Three tabs of sizes 2 and 4 under a cap
  of 6: a new one evicts none, one or two; `MaxFed = 5` lets a ring slide past its prefix;
  the prefix fills the window of the smaller size, so that creating such a ring panics.
* **Catalogue**: two models, two runs of either kind, one stream, two pages of the Hub, two attempts
  (the code makes 4, which only repeats the same step).
* **Memory**: two requests beside one of the past, a budget of 2 and a history of 3 messages (30 in
  the code), so that both limits bite; the clock has two values to go back and forth.
* **Code graph**: two paths and three texts, two of which define the same name and use each
  other's; two indexers of the whole tree or a part of it, two runs and one edit.  Two runs are
  what overlap needs, and one after the other what `SoloRunMends` needs.
* **Fusion**: panels of 2 from 3 to 5 candidates, batches of 1 and 2, every local backend.
* **Ollama**: two handlers and the watchdog, two calls, one fault, two polls (30 in the code; more
  only lengthen the wait).  **SSE**: two sessions, two posts of up to two messages, channels of one
  (128 in the code), so that both fill.  **Slots**: three requests, two fast slots and one heavy.
  **Agent**: a run over HTTP, a gated chat run, two approvals, a chat approval, an abort, goals of
  two steps.  **Idle notices**: six calls, that is three idle periods, and two faults.
* **Ghost text**: three requests, so that one is overtaken by one that is itself withdrawn.

`CHECK_DEADLOCK FALSE` stands in every configuration but `MCHostData.cfg`, because every system
here may rest: all tasks done, all calls returned, the daemon shut down, all clients gone.

### Fairness

* Scheduler and dispatcher: weak fairness of each worker, of a `dispatch` or `submit` once
  begun and of a `wait` whose answer is there.  The multi-threaded tokio runtime polls every
  future that was woken, and both functions run to their end without an `await` on others.
  A handler is assumed to return unless it is in `Hanging`; nobody is obliged to dispatch,
  cancel or shut down.
* Client: weak fairness of each caller (timers fire), of the canceller once it has dropped
  the sender, and of the receiver task; of the peer only that it empties its end of the
  channel, since `send` awaits room outside the timeout.  The peer need not answer.  A clean-up that
  waits for its own lock waits with a thread of the runtime in its hands, and so does every caller
  it locks out: from then on this fairness is more than the runtime gives.  `ReturnsUnlessStuck`
  therefore claims nothing once the clean-up is stuck, not even for calls of other shards, and
  `client_lost` refutes `EveryCallReturns` although the others do run on.
* Server: weak fairness of every spawned task and of the `serve` loops until a shutdown;
  tools in `Hanging` return only when cancelled.
* rest_rl: weak fairness of the worker thread alone: no RPC need arrive or finish.  Tests end
  because `sandbox.py` gives them five seconds.
* `AgentFairness`: the worker loops, the approvals that hold the lock and the chat goals go on:
  models and browser answer or time out, and the answer can be parsed.  `RunEnds` therefore does not
  cover a panic while a model's action is parsed, nor a `Wait` whose length the model chose.  Nobody need approve, abort or start.
* `HostFairness`: the blocking threads and the watchdog's loop run, and a daemon that was started
  comes up; faults need not end, but `MaxFaults` ends them.
* `SseFairness`: the serving loops and the POST handlers run; clients need neither read nor leave.
* `SlotFairness`: semaphores hand their permits on, requests are sorted, the watch notices a client
  that left.  What runs under a slot may hang: `EveryRequestServed` assumes of each single request
  that it ends.

Strong fairness is never assumed.

## 5. What is proved

The proofs are in `...Proofs` modules; each states an inductive invariant for every value of the
constants under the module's named assumptions, and derives the rest from it.  The assumptions
type the constants, make the sets that are counted finite and keep markers apart from data:
`SchedulerAssumption`, `DispatcherAssumption`, `ClientAssumption`, `ServerAssumption`,
`ConnectionAssumption`, `TaskAssumption`, `CallAssumption` (the four kinds of RPC calls are
distinct), `TreeAssumption`, `MemoryAssumption`, `BrowserAssumption` (requests of different kinds
differ), `GhostAssumption`, `CatalogAssumption`, `PageAssumption`, `GraphAssumption` (`NULL` is
no path, and no text is the mark of a file that is not there) and `FusionAssumption` (a panel has at
least two models, as `.max(2)` in mod.rs:240 makes it, a batch holds a call, and the catalogue ranks a
model once, since its query reads one table in which `model_id` is `UNIQUE`).  One theorem has a hypothesis of its
own: `TypingAlwaysPauses` assumes `Locked`, that is the Python tracker, since without it the claim
is false (run `idle_shim`).

| Module | Component | Inductive invariant | Theorems |
|---|---|---|---|
| `MultiLaneSchedulerProofs` | | `TypeOK /\ WorkersFit /\ QuotaOvershootBounded /\ PlacesInv /\ Lanes /\ Gauges /\ Watched` | `TypeCorrect`, `QuotaOvershoot`, `QuotasAlwaysHold`, `OnePlace`, `LanesAlwaysConsistent`, `NoWakeupLost`, `RefinesTaskPool` |
| `TaskDispatcherProofs` | | `TypeOK /\ OneOwner /\ PlaceFixesRecord`, beside it `BooksBalance` and `EventsMatchRecord` | `AlwaysOwned`, `ExclusiveOwnership`, `BooksAlwaysBalance`, `EventsAlwaysMatch`, `RefinesTaskLifecycle` |
| `McpClientProofs` | | `TypeOK /\ CallsFit /\ PendingExact` | `PendingAlwaysConsistent`, `RefinesRequestReply` |
| `McpServerProofs` | | `TypeOK /\ AllFit /\ ActiveExact /\ OwnToken /\ GreetedNeverRefused` | `ActiveAlwaysConsistent`, `HandshakeHolds`, `CancelledOnlyByItsId` |
| `McpConnectionProofs` | client and server together | `ServerSide!IInv /\ ClientSide!IInv /\ Linked` | `HandshakeAlwaysConsistent`, `ConnectionRefinesRequestReply` |
| `RestRLDaemonProofs` | | `TypeOK /\ QueueListed /\ WorksOnHead /\ StopStands /\ StrayFits`, beside it `Books` | `HeadAlwaysConsistent`, `HeadHolds`, `OneStray`, `ResolutionsAlwaysConsistent`, `RefinesJobQueue` |
| `HostServicesProofs` | `BrowserAgent` | `TypeOK /\ Whereabouts /\ StepsOnceInOrder`, beside it `Ledger` | `Consistent`, `StepsInOrder`, `AlwaysDriven`, `StoppedByHuman`, `WaitingPaused`, `AbortFinal`, `CheckpointsApproved` |
| | `IdleNotices` | `LastCallOnly /\ CallsAlternate /\ StopIsComing` | `TypingAlwaysPauses` |
| `HostDataProofs` | `CancellationTree` | `TreeTypeOK /\ Shape /\ Marked /\ Calls` | `AlwaysConsistent`, `NobodyEscapes`, `CancelDone`, `FromAbove`, `ForGood`, `AlwaysBornCancelled` |
| | `ConversationMemory` | `LogTypeOK /\ OnlyPassed /\ StampIsLater /\ AppendsInOrder /\ NoOrphans` | `LogAlwaysConsistent` |
| | `GhostText` | `GhostTypeOK /\ OnlyCurrentLives /\ NotBegun /\ PausesWanted /\ StaleIsAborted /\ OnlyPausesOutliveDispose` | `CompletionAlwaysCurrent` |
| | `ModelCatalog` | `CatalogTypeOK /\ BooksOfRuns /\ ReportIsHonest /\ SeenIsStored` | `CatalogAlwaysKept` |
| | `PagedKvCache` | `PlacesOK /\ TokensOK` | `PagesAlwaysConsistent` |
| | `CodeGraph` | `GraphTyped /\ TablesInv /\ SoloInv` | `GraphAlwaysConsistent` |
| | `FusionPipeline` | `ChoiceInv /\ WaitingInv /\ WaveInv /\ AnsweredInv /\ SourceInv /\ RealInv /\ JudgesAnswers` | `FusionAlwaysConsistent` |

Why the strengthenings are needed:

* **Scheduler.** The quota bound is about the workers between test and charge.  A worker that
  passes the test sees less consumed than the quota, so the others past the test, at most all
  but itself, complete the sum.  `WorkersFit` says where a worker has a task in hand and when
  its private vector is not empty, without which the steps do not keep their types.
  `PlacesInv` restates `TaskInOnePlace` without a count: no two positions hold the same task, what
  lies anywhere is live, what is live lies somewhere.  Five lemmas say what the five ways of
  moving a task (pop, push, keep, restore, empty the hand) do to it; every action is one of these
  or moves nothing.  The other invariants build on it: a promotion changes the priority of a task
  that lies in no queue, so `LaneIsPriority` holds of all others, and the sets `GaugesTrackLanes`
  counts grow and shrink by one element at a time.  `Watched` explains why no wake-up is lost.
  A worker is *fresh* if it will reset the quotas and scan every lane before it can sleep.
  A lane with tasks always has a `submit` about to notify, a stored permit, a fresh worker, or
  one whose last scan has that lane before it; and a quota is spent only while somebody is fresh,
  since the worker that spent it is busy and comes back.  So the spent quota that makes one
  worker skip a lane is itself the proof that another one will come.
* **Dispatcher.** `OneOwner` alone is not inductive: whether a worker's write of `Running`
  moves a record forward depends on the record being `Queued` whenever a worker stands before
  that write.  `PlaceFixesRecord` fixes the record for every place of a task and every location
  of a worker.  `BooksBalance` is inductive with the types: each step moves one task from one of
  its finite sets and counters to another.  `EventsMatchRecord` is about the places in the event
  log at which a task's end was told (`Ends`): a worker publishes an end only while it holds the
  task, whose record is not final then, so an earlier end would show in the record.
* **Client.** Whether a caller's entry is in the map depends on its stage and its channel, so
  `CallsFit` relates stage, oneshot, outcome and the peer's answer for each call and message.
  It rules out a second answer for one call and a verdict of another one.
* **Connection.** The proof is compositional.  `ServerSide` and `ClientSide` are instances of the
  proof modules of the two components, so their invariants and lemmas about steps are used as they
  stand; what is added is that a step of the one is a step the other's environment may take.
  `Linked` is what only the two together guarantee: the server knows of no request before it is
  sent, and a result that `initialize()` returned is one the server gave.
* **Server.** `AllFit` says that a message of a request and its task exclude each other, that an
  entry in the map names a call with that id which has begun, and that before the handshake
  nobody is greeted.  Ids need not be unique between sessions: `ActiveExact` excepts the entry a
  call loses to another of its id (`Contested`), and `OwnToken` says that a token is cancelled only if
  that was asked for under the call's id (`AskedFor`), which the end of a call, that removes whatever
  is filed there, must not do.
* **Daemon.** `QueueListed` (what is queued is in the table) and `WorksOnHead` support each
  other: the worker is the only one to pop, so the head it peeked at stays.  `StopStands` says
  what a stop has written once it stands unchallenged, and `StrayFits` how much work can have
  been begun for each location of the worker: a stop that returned leaves both flags against
  every later check, and only the check already passed lets one more piece of work through.
  For the resolutions, `SavesState` says that what the worker is about to write is the state of
  its task, `Filed` that the resolutions handed out and to be handed out are those in the table and
  the one on its way there, in that order, and `Known` and `OnceQueued` that an id which one task
  has comes up once: the worker cannot meet it again after it resolved it.

* **Browser agent.** `Whereabouts` says who may hold which agent: a chat agent is outside the slot
  until it is stored, an action is pending exactly while its agent waits, and an agent that is
  stepped or approved is so under the lock.  Without it two loops could be between look and step
  of one agent with a status that has changed.  `RunningIsDriven` is proved beside it: a step from
  a state with a driven agent leads to one, unless a chat approval releases the agent.  `Ledger`
  keeps two sets of the same size for each agent, the checkpoints in its history and the approvals
  that released it, and lets both grow by one element at a time, in the same step.
* **Idle notices.** `LastCallOnly` says that a caller which waits for its answers has one call on
  its way, the last one, unless it gave one up; calls alternate, so when the user types that call
  is an `idle_stop`, and the daemon trains only until it has read it (`StopIsComing`).
* **Cancellation tree.** `Shape` makes the ancestors a tree that only finished tokens have children
  in; `Marked` says that tokio's marks are closed downwards and that every mark comes from a call
  above it; `Calls` that the nested calls of a thread are a chain below what was asked for, all but
  the innermost past their tokio step.  The proof shows that it is the *tokio* tree that lets nobody
  escape: a child that registers behind the iteration is caught because it was linked before.  The
  flags matter for `BornCancelled` alone, which `Marked` and the two questions of a child give.
* **Conversation.** What makes appends ordered is `StampIsLater`: the stamp a request has read is
  above every row that was there when its append began, and `OnlyPassed` says that only requests
  past their insert have rows.
* **Ghost text.** Of the controllers only the shared one can be live (`OnlyCurrentLives`), a request
  whose fetch has not begun has none (`NotBegun`), and a pause belongs to a request nobody gave up
  (`PausesWanted`): otherwise a pause that ends could bring back what was withdrawn.
* **Catalogue.** `BooksOfRuns` ties what a run wrote to what it marked as seen and to its phase; the
  rest is that the merge of badges only adds (`MergedGrows`), whoever else writes in between.
* **Paged cache.** `PlacesOK` states without counting that every block is free or in one table, once;
  `TokensOK` that a table is as long as its tokens need and that each token lies where decode
  computes it to be.  A token that is put overwrites no other one, since an earlier position is in an
  earlier block or earlier in the same one (`DivModBefore`).  The loops of `append` and `free` are
  recursive functions, and the proofs go by induction over the turns of the loop.
* **Code graph.** `TablesInv` holds whoever writes: a store, a prune and a resolution each take one
  sound set of tables to another (`StoreKeeps`, `DeleteKeeps`, `ResolveKeeps`).  `SoloInv` follows
  one undisturbed run from step to step: what of the workspace is stored, that what it has in hand is
  what is on disk, that of its workspace it will prune exactly the rows whose files are gone.  A run
  counts as undisturbed only if its walk missed nothing.

* **Fusion.** The first half is about the choice of the models: `LooksFar` says that the catalogue
  is looked through exactly until the panel is full, so that Ollama's own models join only when no
  candidate is left over, and so nothing in the pool is on the panel (`PoolFresh`).  The second half
  is about the run: `WaveInv` says that the calls before the wave have ended and those behind it have
  not begun, so that only the wave can hold local backends (`BatchFits`); `SourceInv` that what stands
  in for an answer is a candidate already taken; `AnsweredInv` that after the panel no slot is open,
  so that a judge or a replacement never meets a call that still runs.  The five steps of a call are
  all cases of `OneCall`, about which one lemma is enough.

Two kinds of lemmas serve all of this.  `NatSetInduction` is induction over the natural numbers for the
*set* of numbers for which a statement holds; it follows from the library's `WFMin`, which takes
no operator as a parameter.  With it, `TurnsDef`, `ReleasedDef`, `KeptDef` and `FilterDef` show that the
recursive functions for loops exist and satisfy their equations.

Step refinements are proved as `Init => Abstract!Init` and `[Next]_vars => [Abstract!Next]` under
the invariant.

## 6. What is only model-checked

* All liveness (`ImplementsTaskPool`, `WorkersServe`, `ReturnsUnlessStuck`, `CallsEnd`, `QueueDrains`,
  `RunEnds`, `SessionsServe`, `EngineComesUp`, `RequestsEnd`) and everything about enabledness: out
  of the prover's reach.  Of `OllamaHost`, `SseSessions` and `InferenceSlots` the runs check liveness
  only, so that they have no theorem.
* That a fusion run never stops half-way: deadlock is about enabledness too.
* `TabsKept`: the memory that is accounted for is a fold over the set of open tabs, and the window of
  a ring a fold over what was fed.
* `ContextIsRecent`: the choice of the newest messages under a budget is a fold over a sorted sequence.

## 7. Where code and text disagree

Two runs are expected to find a violation; `findings` in `PROJECT.json` quotes the text.

1. `client_lost`: the clean-up after a lost connection removes entries while it iterates over
   the same map and waits for the lock its own iterator holds.  Callers in that shard do not
   return, not even by their timeout.
2. `idle_shim`: the TypeScript shim does not wait for `idle_start` before it sends `idle_stop`; if
   the daemon handles them the other way round it trains while the user types, and nothing more is
   sent.

Seen while reading or in a model, without a run of their own.

Engine:

* A task cancelled in its lane is dropped inside `next_task` (scheduler.rs:348), so the worker
  loop's "complete immediately with Cancelled" (registry.rs:487) never applies: the record stays
  `Queued` and its payload stays in the map.  `BooksBalance` counts these tasks.
* A panicking tool is not contained (tools.rs:257): no response, and its entry stays.
* A worker that holds the only queued task in its private vector lets others sleep; the task
  waits for that worker, which may first run another task.
* `MultiLaneScheduler::cancel` overwrites the scheduler's state of a finished task.
* `send` awaits room in the channel before the timeout starts.
* A cancellation that is handled before the tool call it names has no effect.
* All sessions share one lifecycle state and one map of active requests: the handshake of one
  session opens the server for all.  Every client numbers from 1 (client.rs:54), so ids of two
  sessions collide as a rule: a cancellation may reach the other's call, and the end of one call
  removes the entry of the other, which can no longer be cancelled (server.rs:277, 289).
  `CancelledByItsId` and `ActiveExact` state what holds all the same.
* Every task's token stays registered in the root token (cancellation.rs:142): children are never
  detached, and `active_tasks` and `task_records` are never pruned.
* `remove_session` has no caller (sse.rs:175): a POST to a session whose client left gets 202 and its
  reply is dropped.  A graceful shutdown waits for streams that do not end.

ReST-RL and IDE:

* A test spawned after `idle_stop` made its list is not killed (sandbox.py:191, `AtMostOneStray`
  allows for this one process); one that is
  killed counts as a failed sample, and if it was the last one the task is `COMPLETED` and not
  `PAUSED`.
* With equal task ids both queue entries run the second task.
* `QUEUED` may overwrite a later state in the database (`DbStateOrQueued` says exactly so).
* Two windows share one daemon: the `idle_start` of one trains while the user of the other types,
  and `poll_resolutions` by one, or a reply that is lost, takes the results from both.
* `acceptPatch` replaces the whole document and with it what was typed since.
* README:317 says a debounce of 200 ms; the clients wait 45 s.
* Ghost text: the cancellation of a request aborts the controller in place; it is its own only
  because a later fetch has aborted the earlier one's.  `_debounceTimer` is never set, so a provider
  that was disposed of during a pause still asks and answers.
* Code graph: when a file is re-indexed the references of *unchanged* files to its symbols are
  cascaded away (indexer.rs:186) and not restored before a forced run; a reference whose target is
  indexed later is never stored; implementation rows are neither unique nor removed; indexing
  another directory, or a part, into the same default database prunes all other files, and a walk
  that cannot look at a directory (indexer.rs:58) has everything below it pruned, although db.rs:163
  says that files go that "no longer exist on disk"; prune and resolve errors are silent (indexer.rs:138).

Host:

* `evaluate_action` is to look at the "URL context" too (agent.rs:168, 227), but `approve` runs what was
  pending without setting `current_url` (agent.rs:837), and a click never does: after an approved
  navigation to a checkout page the agent goes on there ungated, unless a word or an address in its
  next action is sensitive.  `OneCheckpointPerApproval` claims of such a page only that an approval led
  there.
* `/browser approve` sets the agent in the slot running but spawns no loop (main.rs:20521); an
  approval names no checkpoint; an abort cannot reach a chat agent before it is stored; two loops
  may drive one agent.
* Fusion: one failed or tokenless remote call turns the whole process to local backends for good
  (providers.rs:987, 994, 1001).  A panel that starts online and falls back runs all its local
  backends at once, past the batch that fusion.rs:14 promises.  `LocalProvider` returns a made-up
  answer as a success when Ollama is down, unless `MODELFUSION_NO_SIMULATION` is set, which the
  server never does (providers.rs:1132, main.rs:9783).  A forced model may make the panel one larger
  than its maximum (mod.rs:350); a specialist that is in the catalogue may stand on the panel twice
  or replace itself.  The fallback to cached models is dead code for multi-sample runs, because the
  selector fails first (mod.rs:261).  The judge's fallback calls models by display name instead of
  id (judge.rs:58).  Error text is cut at byte 200, which may fall inside a character.  The
  comparators of the candidate sort have a tolerance of 1e-6 and are no total order.
* Memory: the requests of `/boost` interleave in one session, an answer may be stored although its
  question was not, and the loser of check-then-insert silently goes without memory; `updated_at`
  mixes milliseconds and microseconds (memory.rs:245, 277).
* Catalogue: a crawl counts the models of failed batches (task_handler.rs:1431), and models are
  marked as seen before the batch is written, so that the run passes them over afterwards; the
  backup has a fixed name and is copied without its WAL.
* Slots: a fast path that fails goes on without a heavy slot; slash commands are not watched for
  clients that leave; a byte more than the request counts as having left;
  `acquire_cross_process_lock` excludes nobody (main.rs:24460).
* KV caches: a ring tab has two caches of which `total_memory_bytes` counts one (kv_cache.rs:1064),
  so that ring tabs may take twice the cap, against the "global memory caps" of line 847 and the "total
  memory used across all active tabs" of line 1062 (`WithinCap` grants exactly these second caches); a
  ring whose prefix fills its window panics after tabs were evicted for it (334); a linear append
  that overflows panics; an existing tab of the other kind is returned as it is;
  `status_summary` shows 0 tokens for ring tabs.
* The CDP client decodes one frame per read and matches ids by substring; the bandit's weights may
  lose an update (main.rs:23113).

## 8. What is not modelled

* **The rest of the command line and the HTTP server** (`cli/src/main.rs` alone has 28,000 lines):
  parsing, help texts, printing and sequential pipelines.  The routes with shared state are those
  of the browser agent, Ollama and the slots.
* **Model selection, RL controller, mcp-resource**: floating-point scoring, hardware probes and
  thresholds without concurrency.  TLA+ has no floating point, and a model in integers would not be
  the code's.
* **Orchestrator, rate limiter, folder manager, mesh**: single owners, or one map operation under one
  lock; TLS and framing are I/O.
* **Browser automation under the agent** (CDP, DOM pruning, computer use): what it does is decided by
  pages and models outside the repository; one connection per command.
* **Learning and research, database schema, monitoring, security, PE analysis, task detection**:
  prompts, HTTP, SQL and scans by one thread.
* **Event bus and runtime of the engine, registry of resources and prompts, schema and types**:
  tokio's broadcast channel, of which the models keep the order of publication, start-up, tables
  filled once.
* **rest_rl tiers 1 and 2, verification and synthesis**: tiers 1 and 2 have the control of tier 3,
  the rest is sequential work on syntax trees and floating-point rewards.
* **Screens**: TUI, web, the IDE's canvases and viewers, browser UI, launcher, scripts.

Within the modelled components the `note` of each in `PROJECT.json` names what is left out.  The
mapped lines are about one in fourteen of the implementation: what remains is the text and I/O above,
for which a state machine would say nothing that the code does not.
