# Montlok terminal: TLA+ models, checks and proofs

Montlok terminal shows and controls trading runs. This directory models the
parts of it in which several processes, tasks and stores have to agree while any
of them may fail, checks the models with TLC and proves part of what is checked
with TLAPS. Every definition is translated from the source; `PROJECT.json` says
from which lines (`map`), which runs exist and what they check (`runs`), a
seeded fault that each property catches (`mutants`), what is hard to test and
which property watches it (`hazards`), and where code and documents disagree
(`findings`).

## The system

| Component | State it keeps | Operations | Hard part |
|---|---|---|---|
| Nautilus adapter (`adapters/nautilus/src/main.rs`, `outbox.rs`, `lib.rs`) | SQLite: source offset, stream sequences, outbox rows; the batch in flight | read lines, stage, publish, acknowledge | crash between any two of them; lost acknowledgements; republication |
| Run watcher (`adapters/nautilus/src/bin`) | discovered runs, child adapters | discover, start, restart | children that die or hang |
| Event transport (`packages/event-transport`) | JetStream stream, deduplication window, durable consumer (external) | publish, deliver, redeliver | reordering and duplicates |
| Gateway bus and journal (`services/gateway/src/bus.rs`, `journal.rs`) | `event_log`, `stream_positions` | pull a chunk, append it in one transaction, acknowledge | whole chunks rolled back, redelivery |
| Gateway stream sessions (`services/gateway/src/lib.rs`) | one broadcast receiver per socket, queries of the journal | subscribe, snapshot or replay, live events, lag | the step from replay to live events |
| Gateway operations (`services/gateway/src/lib.rs`) | `OperationStore`: one status per operation | prepare, execute, query, restart | concurrent requests, deadlines, unknown outcomes |
| Group supervisor (`apps/web/server/group_runtime.py`) | `runs` and `operations` tables, child processes, watch tasks, one lock | start, controls, status, reload, watch, shutdown | asyncio tasks that hold rows across awaits |
| Worker control (`apps/web/engine/control.py`, `live_controls.py`, `live_hft_worker.py`) | command journal, a queue between the control thread and the engine thread, trading state | dispatch, apply, flatten, quiesce | thread hand-over, shutdown during a command |
| Model workers (`apps/web/engine/model_*.py`, `alpha_execution.py`) | warm-up, inference, signals | infer, trade | deadlines of inference |
| Web backend (`apps/web/server/app.py`, `profiles.py`, `sessions.py`, `passkeys.py`) | tickets and the operations table, `write_lock`, the epoch of the connections, the status cache, the account | prepare, execute, background start, poll; `account_loop`, `private_loop`, push | a start that waits while the connections change; answers of old connections; a cache filled by a read older than a write |
| Model releases (`apps/web/server/model_releases.py`) | release directories, active release | upload, validate, activate, roll back | crash between file and table |
| Projector (`services/projector`) | batches, Parquet files, marks | ingest, archive, delete | crash between file and mark |
| Gateway authorization (`services/gateway/src/auth.rs`) | device codes, tokens | begin, approve, poll, revalidate | polling against approval |
| Clients (`packages/sdk-ts`, `apps/native`) | positions per stream, status | connect, apply, detect a gap, reconnect | duplicates and gaps around a reconnection |
| Web pages, requests (`operator/api.ts`, `usePoll.ts`) | session, shared reads, request in flight | read, execute, poll | reads joined across a write, a session that changes, hidden tabs |
| Web pages, operations (`StrategyRunPanel.tsx`, `OrderTicket.tsx`, `HeaderStatus.tsx`, `ApiWorkbench.tsx`) | form, ticket, receipt, open requests | preflight, prepare, confirm, poll, query | answers about what is no longer selected |
| Web pages, market data (`useMarket.ts`) | generations of effects, sockets, timers, ticker | snapshot, stream, reconnect, hide | snapshot against stream, late events of old sockets |
| Web pages, selection and account (`models/operator.ts`, `selectionStorage.ts`) | selection, edits, stored selection; account, epoch, EventSource | restore, select; refresh, push | restoring under an operator at work; push against read |
| Web pages, loads (`pages/*/index.tsx`) | selected key, loads under way, data | load, poll, refresh, drop | one page of several reads, of which the run may change |
| Web pages, tabs (`QuantWorkspace.tsx`, `quantWorkspaceModel.ts`, `dockingModel.ts`) | route, open tabs, docking layout | open, close, move | three states changed in different renders |
| Stream contract (`generated/montlok/v2/terminal.ts`) | none | encode, decode, JSON | versions that do not know each other's fields |
| Views, scripts | projections of files | read | none of their own |

How they interact. A trading process appends events to its run log. The adapter
tails the log and publishes to JetStream; the gateway pulls from JetStream into
its journal, and serves terminals from the journal and a broadcast channel. In
the other direction a terminal prepares an operation at the gateway and executes
it; the gateway writes one line to the supervisor's Unix socket and waits; the
supervisor starts, signals or commands a worker process over the worker's own
socket. Receipts travel back the same way, and each of the three keeps a row per
operation identifier.

What makes each component correct:

- **Adapter, transport, journal**: the journal of a stream is the beginning of
  that stream in the source log, in order and without duplicates; nothing behind
  the durable cursor is lost; everything arrives in the end.
- **Supervisor**: one live worker per group and account, model slots respected,
  no live worker forgotten, no success shown without evidence, ended runs
  released.
- **Operations**: an operation takes effect at most once; receipts are true; a
  completed command is reported in the end.
- **Stream sessions**: what a terminal applied of a stream is an uninterrupted
  part of the journal.
- **Worker control**: receipts say what was done to a command, a flatten ends
  and sells only what the run holds, and a worker that is told to stop ends.
- **Web pages and their backend**: what a page shows belongs to what is selected
  now, what it confirms is what it prepared, with the connections it was prepared
  for, and after any disturbance the page shows the current state again.
- **Stream contract**: a message is heard as it was sent, also by a build that
  does not know all of it.
- **Projector, model releases**: a row is archived once; the active release is
  always a complete one.

## Modules

| Module | Models | Uses |
|---|---|---|
| `Adapter` | the adapter process, its outbox, JetStream as it uses it | |
| `GatewayBus` | the durable consumer, `bus::follow`, `append_many` | extends `Adapter` |
| `EventFeed` | abstract: a log, and per stream what has been published of it | |
| `EventPipeline` | adapter and gateway together; properties, fairness, refinement | extends `GatewayBus`; `INSTANCE EventFeed` |
| `EventPipelineProofs` | theorems about `EventPipeline` | extends it |
| `GroupSupervisor` | run lifecycle of the supervisor | |
| `GroupSupervisorProofs` | theorems about `GroupSupervisor` | extends it |
| `Operations` | the life of an operation across gateway, supervisor and worker | |
| `OperationsProofs` | theorems about `Operations` | extends it |
| `WorkerControl` | the control thread and the engine thread of a live worker | |
| `WorkerControlProofs` | theorems about `WorkerControl` | extends it |
| `WebApi` | session, shared reads and polls of a page; the status cache behind them | |
| `RunPanel` | starting and controlling runs from a page, with the backend's tickets and receipts | |
| `MarketStream` | the market data of one chart | |
| `RunSelection` | the selected groups and runs and their storage | |
| `AccountFeed` | connections and account, in the backend and on the page | |
| `WebReadsProofs` | theorems about `AccountFeed` and `WebApi` | extends the two |
| `PageLoads` | the load functions of seven pages | |
| `WebPagesProofs` | theorems about `PageLoads`, `RunSelection`, `MarketStream`, `RunPanel` and `Workspace` | extends the five |
| `Confirmations` | tickets, `write_lock` and the epoch of the connections; queries | |
| `ConfirmationsProofs` | theorems about `Confirmations` | extends it |
| `Workspace` | tabs, docking layout and route | |
| `StreamSession` | a gateway stream session, its connection and the terminal's store | |
| `StreamSessionProofs` | theorems about `StreamSession` | extends it |
| `WireCodec` | the messages of the stream and their encodings | |
| `WebTerminal` | the ten web modules above side by side; fairness, liveness | extends them |
| `MCPipeline`, `MCSupervisor`, `MCOperations`, `MCWorker`, `MCWeb` | instances for TLC | |

Definitions named `X_Something` right before a definition `X` are seeded faults:
what `X` would be with a plausible bug. Nothing uses them but the mutants in
`PROJECT.json`.

### Event pipeline

A record of the log keeps the stream it belongs to, the sequence its writer
supplied (0 for none) and whether its line parses. An envelope keeps its
identifier, stream and sequence and, for the properties, the position of its
record (`src`). The cursor counts lines instead of bytes.

- `offset`, `seqs`, `outbox` are the committed tables of `outbox.rs`, and the
  variables `tx...` are the same tables inside the open stage transaction. A
  crash, a parse error (`ReadMalformed`) and a sequence gap (`StageGap`) drop
  them. `nextId` stands for fresh UUIDs: rows are ordered by insertion in both.
- `BeginPublish`, `PublishStored`, `PublishLost`, `PublishBreaks` and
  `Acknowledge` are `publish_pending`: the rows are sent in order, the
  acknowledgements are collected, and exactly the acknowledged rows are deleted.
- `js` and `window` are JetStream (external): a message is stored unless its
  identifier is in the window. `WindowPasses` forgets identifiers at any time,
  which is stronger than the 24 hours of the configuration.
- `Deliver` and `Redeliver` are the durable consumer (external): new messages in
  order, any unacknowledged one again at any time.
- `TakeChunk` to `ChunkDone` are `follow`: a chunk of any size up to the limit,
  one transaction, then one acknowledgement per message. `AppendRefused` ends
  `follow`, as its error does, and drops everything in flight.

`EventFeed` is what producers and readers rely on: a log that grows, and for each
stream the records published of it, each next one the next record of that stream
with its number. `ImplementsFeed` maps `published` to the committed journal
(`Journaled`): every step of adapter, JetStream and gateway, crashes included, is
a step of the feed or a stutter.

Left out: the payload mapping of `map_event` other than the stream and sequence,
the byte limit of a batch and incomplete last lines (a record exists in the model
once its line is complete), the 30 days JetStream keeps a message, the publication
of workspace events to the broadcast channel.

### Group supervisor

The supervisor is one asyncio process: what happens between two awaits is one
action. `row` is the `runs` table with the fields of its `result` column that
decide something (`stopRequested`, `errorObserved`, `automatic` for
`automaticShutdown`). `proc` and `worker` are the kernel's and the worker's side.

- `PollBegin`/`PollEnd` are a status request: `run_status` up to its await, and
  the write after it. The row read before the await is what the write rebuilds
  the result from. `CheckBegin`/`CheckEnd` are the same inside `prepare`.
- `StartBegin`, `Launch`, `Spawn`, `SpawnRecorded`, `SpawnFailed` are a start
  under the lock; `ControlBegin`, `ControlStop`, `ControlApplied`,
  `ControlReply`, `ControlLost` the other actions; `ReloadBegin`/`ReloadEnd`
  `reload_registry`.
- `Watch` is the task that decides how a run ended; `Verdict` its rule.
- `Shutdown`, `ShutdownStops`, `ServiceEnds` are SIGTERM, the stops it sends, and
  the end of the service with its cgroup; a crash is `ServiceEnds` on its own.
- `version` is the digest by which `owned_process` recognises a command line.

Abstracted: `prepare` reads the conflicting rows in one query (the newest 20) and
awaits each; the model reads each when it comes to it. Registry validation, the
inventory preview and the normalisation of requests are a refusal that may happen
(`LaunchRefused`). A worker that answers with another identity is left out.
`validation_complete` in `final.json` counts as the deadline. Creating a process
is synchronous in asyncio, so the thirty seconds `run_status` grants a row
without a process do not pass inside `launch`.

### Operations

`gate`, `book` and `wlog` are the three stores, `hand` the gateway's handlers,
`call` the supervisor's tasks, one per connection, which outlive the handler.
Statuses are the code's. `Acquire` to `AskSilent` follow `execute`, `control` and
`receipt`; `Dispatch`, `Apply`, `Complete`, `Raises` follow
`ControlServer.dispatch` and its lock. `effect` counts how often an operation did
something. `halt`, `reduce` and `resume` are one kind ("control"), because
`receipt` asks the worker about these; `cancel` and `flatten` are the other
("order").

Abstracted: owners, confirmation hashes and request digests; what the effect of
an operation is (`GroupSupervisor` models it).

### Worker control

`Operations` and `GroupSupervisor` see a worker from outside; `WorkerControl` is
its inside. `task` is the coroutine of an operation in `ControlServer.dispatch`,
up to the future that the engine thread sets; `queue`, `closed`, `stop` and
`state` are what the two threads share. A thread switch can fall between the
check of `closed` and the queueing in `request` (`Dispatch`, `Put`), between the
checks and the changes of `apply` (`Process`, `Apply`), between the two
assignments of `request_stop` (`Dispatch`, `StopShown`), and anywhere in `close`.
`Poll` is `runtime.update` followed by `NativeControls.poll`, and its disjuncts
are poll's ways to return. `Shutdown` is the `finally` of `run`.

`Apply` is a command whose handler returns. It may raise anywhere instead
(`ApplyRaises`, `ResumeRaises`): before it changed anything, after the trading
state with strategies paused and orders cancelled in part, or while strategies
are resumed. `partial` remembers the commands that changed something and then
raised; `dispatch` must report these as unknown. An executor's order that is
denied makes the worker halt itself (`RiskHalt`), and if that raises the loop fails
(`RiskHaltRaises`).

The run trades one instrument, in lots. `held` is what its fills left it,
`ledger` is `allocated_positions`, `own` the ledger of an alpha strategy or its
executor, and `mode` says which strategy it is: a native grid (no ledger of its
own), an alpha that trades to its initial allocation, or a `ContinuousExecutor`.

Abstracted: `cancel` is `halt` (the same path); strategies decide freely within
the conditions the code puts on them, with one order at a time (the executor has
one per side); an order ends with one fill or none; prices, sizes and fees; the
execution check of a release. Risk engine and venue are external: an order is
accepted and ends, or never does.

### The web terminal

The parts of the web terminal share nothing but what the backend gives each of
them, and no step of one reads a variable of another. `WebTerminal` therefore
puts the ten modules side by side, and a behaviour looks at one of them, its
`scene` (the constant `Scenes` says which); the others stay at their beginning.
Each part is explored completely, and no product of independent parts is.

**Requests** (`WebApi`). The state of the runs is a version, and an execute makes
the next one. `req` are the requests under way, with the page's side in `pc` and
the backend's in `at`; `pendingReads` is the map of `api.ts` by which equal reads
join; `cache`, `shared`, `epoch` are `status_cache`, `status_pending` and
`status_epoch` of `GroupRuntimeClient`. `RunPoll` is `usePoll`'s `run`,
`Visibility` its listener. `Mismatch` and `SessionAnswered` are the 403 of a CSRF
token of another session: refresh, and retry once only if the operator is the
same. `Supervise`, `StatusDone` and `ExecuteDone` separate asking the supervisor
from keeping its answer.

**Run panel** (`RunPanel`). `panel` holds the React state of
`StrategyRunPanel`, `OnGroup` to `OnRun` its effects, run after each change by
`Become`. `asking` is the preflight or prepare under way, `executing` the execute
of the dialog, `polled` a poll of the receipt, `runtimeLoads` answers of
`loadRuntime`. `op[i]` is an operation with what each side knows of it: `status`
and `told` are its row at the backend, `performing` that the backend waits for the
supervisor, `book` the supervisor's record, `worker` the receipt the worker keeps.
`PrepareRoute`, `ExecuteRoute` and `Performed` are the backend. `PollReceipt` asks
for a receipt; of an open one the supervisor is asked (`Recorded`), and what it said
is written to the row after the await (`RouteWrites`), perhaps over what
`Performed` has written meanwhile. `Take` and `Act` are the supervisor's `execute`
under its lock; `Restart` makes what was open unknown and loses what was only
sent; `WorkerEndsIt` is a worker that ended a command of which the supervisor did
not hear. As in the code, only halt, reduce and resume (`Reconciled`) are looked up
at the worker, so any other unknown outcome stays unknown for ever: `Undecided`
names what nobody can find out, and `ReceiptSettles` excepts it and nothing else.
`Elsewhere` is a reload of the configuration, a run that ends and a ticket that
expires. The settings, the capabilities and the preview are one value, the
operator's own or a version of the configuration. `halt` stands for reduce and
resume, `flatten` for cancel.

Left out: the restart of the backend (`app.py:71`), which makes processing rows
unknown; what a preflight shows; a request that reaches the backend after the page
gave it up. A start refused because the epoch changed is a refusal (`Take`);
`Confirmations` has the epochs.

**Charts** (`MarketStream`). `effects` are the generations of the effect of
`useMarket`, each with the variables of its closure; all but the last are
disposed. `Bootstrapped` and `Flush` are the two ways to write the ticker: a
snapshot fills an empty one, the stream overwrites. A market has versions; a
snapshot may be one the backend has kept for a second (`MarketAnswers`), and a
message may be older than the market by the time it is shown. `OnClose` may come long after
`close()`. A failed `ensureSession` is `ConnectFails`.

**Selection** (`RunSelection`). `stored` is the storage of one operator;
`Restore` is the effect that waits for the session and validates what was stored
while `EditSelection` may count `edits`; `Kept` is the effect that saves.

**Account** (`AccountFeed`). `store` is the connection store with its epoch,
`polling` what `account_loop` and `private_loop` have asked for, and `OfNow` the
comparison of epochs before an answer is kept. `stream` is the EventSource,
`refreshing` the page's own reads.

**Loads** (`PageLoads`). `kind` says whose load function it is, and the guards of
the module how they differ: which compare the selected key in a ref, which have a
generation, which a button. A poll is aborted when the selection changes
(`Aborted`); a load from the button of groups, portfolio, engine and execution
carries no signal and goes on (`RefreshPage`), so the comparison with the selected
key alone decides about its answer. `ReadPage` reads the parts of a page one by
one, so a new run may fall in between. Without a run selected the backend answers
with the last of the group, but the page of the models looks for the selected run
in a list and shows none (`LoadAnswered`, `Accepted`). A run that is selected is
taken to be in that list.

**Confirmations** (`Confirmations`). `tickets` is the operations table with the
confirmations, `writeLock` the lock under which `perform` runs, `epochNow` the
epoch of the connections. A start is accepted and performed later (`FinishStart`,
`Perform`); `StillOfEpoch` is the comparison under the lock.

**Tabs** (`Workspace`). `pathname`, `paths` and `dock` are the three states,
`due` says that the effect is to run, `closingPath` is the ref by which a close
tells the effect what not to open again. The events tab shares the tabset and is
no route: selecting it (`SelectTab`) changes `front` alone, and `aside` remembers
that the operator did so since a page was gone to. There is one tabset: moving
tabs to others, and windows of their own, are left out.

**Stream sessions** (`StreamSession`). `log` is the replay journal as it stands
after `append_many` (the pipeline above shows it is a prefix of each source),
`gatewaySession` with its queue is `stream_socket` and its broadcast receiver,
`net` is what is on its way, and the rest is `TerminalClient` with its
`TerminalStreamStore`. An event is the entity it updates; a view is, for each
entity, the sequence of the event shown. `Ingest` takes one message: what
`ingest` throws on, or calls `recover` for, is `~Acceptable`, and both end in
`reconnect`. `Frame` is the animation frame in which conflated entities are shown.

**Contract** (`WireCodec`). The generated file repeats one scheme for each of its
messages. The module lists the fields of every message in their order (`Fields`)
and states the scheme once: `Encode`, `Decode`, `FromPartial`, `ToJSON`,
`FromJSON`. Scalars are samples: the default, another value, an integer beyond 64
bits; an enum is a name, or `"new"` for a number this build does not know. A
behaviour writes one message, sends it, adds fields of a newer contract, hears
it, and shows an event in the raw view.

Abstracted: what is rendered; `*` subscriptions and context filters (a page
subscribes to one `run.<id>`); a snapshot is one batch; the phase `recovering`,
since the browser drops what arrives after `close()`; heartbeats; retry delays;
the eviction beyond 20,000 entities. A session whose send times out in the middle
of a delivery is a connection that breaks with the rest still in `net`.
`Unsubscribe`, `RequestSnapshot` and `setContext` are used by no page. The
gateway's restart is a broken connection: the journal is durable. In the codec:
bytes, the recursion limit and end-group tags.

## Runs

All runs use model values; the bounds are the constants named in the `.cfg`.
`CHECK_DEADLOCK FALSE` is set because the bounds stop the instances (a full log,
no more runs, no more restarts) and because an idle system is a legal end.

| Run | Question | Bounds | States |
|---|---|---|---|
| `pipeline_faults` | Do all faults together lose, double, reorder or rename a record, or take committed state back? Is the whole an `EventFeed`? | 1 stream, 3 records, batch 2, 2 messages in flight; the window passes while the stream holds fewer than 2 messages | 1.7 M |
| `pipeline_live` | Do streams, supplied sequences and bad lines disturb one another, and does every record arrive? | 2 streams, 4 kinds of record, 2 records, batch 2; lost acknowledgements, passing window | 0.5 M |
| `supervisor_account` | Can two workers be alive on one account? | 2 live groups, 1 account, 2 runs, 1 poller, 1 reload | 3.8 M |
| `supervisor_slots` | Is a slot given twice, a live worker forgotten? | 2 model groups, 1 slot, 2 runs, 1 reload, 1 restart | 3.2 M |
| `supervisor_run` | Is an end shown wrongly, is a run ever stuck? | 1 run of a live model group, 1 poller, 1 restart | 0.3 M |
| `operations_once` | Can an operation take effect twice, or off the record? | 1 operation, 2 handlers, 2 restarts, all faults | 0.2 M |
| `operations_truth` | Can a receipt be false, or stay open for ever? | 1 operation, 2 handlers, 1 restart | 26 k |
| `operations_expired` | Is an expired operation one that was not executed? It is not. | 1 operation, 2 handlers | |
| `web_pages` | In each part of the web terminal: does what is shown, confirmed, stored and heard belong to what is selected, prepared and sent, in any order of answers? | per part, see below | 1.7 M |
| `web_live` | Does each part show the current state in the end, and end what was confirmed? | the same, smaller, but operations of every kind and a failure | 0.2 M |
| `worker_control` | Are receipts true, does a flatten behave, does a worker end, whatever is commanded when and raises where? | 2 commands of 5 kinds, 3 modes, a queue of 2, 2 flatten orders, 1 lot | 1.9 M |
| `worker_flatten` | Does a flatten sell only the run's inventory? Not with a continuous executor. | 1 flatten, 2 flatten orders, 1 lot | |

The web runs check each part under bounds of its own: 2 requests at once, 1
execute, 2 sessions (requests); 2 symmetric groups, 1 start or flatten, 2
selections, inputs or configurations that change (panel); 2 instruments, 2 sockets, 2 versions of a
market, 1 upset (charts); 2 groups, 2 runs, 2 edits, 1 failure, every stored
selection (selection); 2 connections, 2 epochs, 1 failure (account); 7 kinds of
page, 2 loads at once, 2 selections, refreshes, new runs or failures (loads); 3
tickets, 1 input (confirmations); 5 pages, a limit of 4 with 2 pinned (tabs); 2
runs, 2 entities of which one is conflated, 4 events, a channel of 1, 1 break
(stream); every message with at most 2 fields set, or all, and 1 unknown field
(contract). `web_live` takes 1 session and 1 group where the second only adds
symmetric cases, 3 sockets and 2 upsets for a chart that has to come back twice,
2 tickets and 3 events; for the panel, 1 group and 1 operation of any kind with 1
trouble.

The panel's `Offered` are the actions looked at, and `MaxTroubles` counts what fails:
refused or lost requests, time limits, restarts, runs that end, tickets that expire.
In `web_pages` one operation, two changes (a selection left and taken again is the
case that matters) and any order of answers fill the run, and with failures or more
operations as well the instance is out of the reach of a short run; the theorems
`TicketsAreCurrent` and `ReceiptsAreCurrent` hold for every bound, with troubles and
actions of all kinds.

A property of a web run that is a conjunction names its parts, and each part has
a seeded fault of its own: `LoadsBelong`, `TabsFollowRoute`, `MessagesSurvive`,
`ChartIsOfStream`, `SelectionIsKept`, `ShownCatchesUp`, `ConfirmedSettles`,
`StreamsCatchUp`.

Why the bounds are enough. *Pipeline*: a batch of two makes partial
acknowledgement and partial chunks possible, three records make a second batch
that follows a partly published one; a stream is treated independently of the
others except in a shared batch, for which two suffice. *Supervisor*: two runs
and two groups are the smallest conflict on a group, account or slot; the lock
admits one operation, so one more task that holds a row across an await, the
poll, is what can interfere. *Operations*: rows of different operations never
meet except through the lock, whose only effect is delay, and delay is already
arbitrary; two handlers give concurrent executes, an execute against a query,
and a duplicate. *Web*: a stale answer needs one request begun before a change
and one change; a joined read needs two requests around an execute; an older quote
needs two versions of a market, of which the snapshot, the queue of the connection
and the frame may each hold either; a receipt is kept open by one lost answer, one
time limit or one restart, and a second operation delays it by the locks only,
which `Confirmations` has; a start that
is overtaken needs a start, a change of connections and the order that waits for
both, three tickets; five pages with a limit of four evict a tab. *Stream
sessions*: a channel of one lags with the second event, three events of one
stream make a replay of more than one, and with a break a run is left or replayed
and its rest arrives later. *Contract*: two fields are every pair (a case that
takes the place of another, a list beside a map), and nested messages are whole. *Worker
control*: dispatch's lock lets one command reach the queue at a time, so two are
every pair, one applied while the other comes, and one lot with two sell orders
is enough to sell something twice.

Symmetry is used for runs, handlers and the groups of the panel, in runs without
liveness properties.

## Fairness

- *Pipeline*: the adapter's and the gateway's loops are weakly fair; each has no
  exit other than an error after which it is run again (`main`'s retry loop, the
  run watcher, systemd). Strong fairness says that acknowledgements are not lost
  for ever and that JetStream starves neither new messages nor redeliveries.
  `pipeline_live` leaves out crashes, and publications that are lost while later
  ones are stored: with the latter the arrival depends on how JetStream
  interleaves redelivery with the republished row.
- *Supervisor*: the event loop runs every ready task (weak fairness); terminals
  poll the status again and again (strong, since another poll may be under way);
  a worker that got SIGTERM ends; systemd completes a shutdown.
- *Operations*: handlers, tasks and the worker proceed (weak); a terminal keeps
  asking about an open operation (`ConfirmOperation` polls), and a worker asked
  again and again answers in time at some point (strong).
- *Web* (`WebTerminal`, one formula per part). `ApiFairness`: the interval of
  `usePoll` fires, the backend and the supervisor answer, the 0.5 s of the cache
  pass. `PanelFairness`: answers arrive, the receipt is polled while it is open,
  and the supervisor works off what it is sent: its calls of a worker end after 3 s,
  those of the backend after 60 s, and both locks are given in turn. That an unknown
  outcome is ever found out is not assumed: a worker need not end a command, and
  `Undecided` is excepted. `MarketFairness`: the
  browser runs timers and socket events of a chart. `FeedFairness`: the backend
  writes to the EventSource, the browser reconnects it, and a hidden page is
  shown again. `LoadsFairness`: the interval of a page fires and its requests are
  answered. `ConfirmFairness`: `asyncio.Lock` is given in turn, and the
  background task of a start runs. `StreamFairness`: both ends of a connection
  proceed and the retry timer fires; connections stop breaking, since breaks are
  bounded. All weak.
- *Worker control*: both threads run, time passes, and the loop looks at `stop`
  again and again (weak); the venue owes nothing.

## Proofs

`EventPipelineProofs` holds for every set of streams and records, every batch
size, log bound, limit on pending acknowledgements and set of faults, under the
named assumptions of `Adapter` and `GatewayBus` (positive batch and limits,
natural bounds, well-formed records).

- `TypeCorrect`: `Spec => []TypeOK`. Not inductive alone: the record staged next
  and the message appended next have to exist. `Bounds` adds that every cursor,
  and every position in inbox and chunk, stays inside what it points into.
- `NothingIsLost`: `Spec => []NothingLost`. The inductive invariant is `Bounds`
  with `AdapterInv` (identifiers are unique and below `nextId`; a row whose
  identifier was acknowledged, or is still remembered by JetStream, is stored;
  what is behind the cursor is in outbox or stream), `StageInv` (an open
  transaction extends the committed tables, with fresh identifiers), `GatewayInv`
  (the chunk being acknowledged is in the committed journal) and `DurableInv`.
  The uniqueness of identifiers is the heart of it: deletion by identifier is
  safe only because an identifier that JetStream knows belongs to this very row.
- `CommittedMovesForward`: `Spec => NeverBackwards`, from the same invariant.
- `IdentityStable`: `Spec => []IdentityIsStable`. An envelope is one for its
  record wherever it is, in the outbox, in the open transaction, in JetStream or
  in the journal: identifiers are fresh when staged, and sequences of a stream
  count its records.
- `GoodRecordsOnly`: `Spec => []OnlyGoodRecordsStaged`. The open transaction has
  read good records only, and every other end of it drops what it read.
- `JournalIsPrefix`: `Spec => []JournalIsLogPrefix`. `OrderInv` adds to the above
  that journal and open append hold, per stream, exactly the sequences up to its
  position.
- `PipelineIsAFeed`: `Spec => ImplementsFeed`, the refinement of `EventFeed`. The
  log of the feed is the source log; a commit of the gateway publishes the next
  records of each stream (`DurableInv`, `OrderInv` give that these are the next
  ones of the log), every other step stutters.

`OperationsProofs` holds for any operations, handlers, restarts and faults;
handlers must not be called `"none"`, the value of a free lock
(`OperationsAssumption`). `AtMostOnce` alone is not inductive. `OpsInv` adds
`Answered`, `Known` (what anything is about has been prepared, so its kind is
fixed), `Locked` (a task between its look at the table and its answer holds the
lock) and `Recorded`: a task acts on an intent it found absent and has itself
recorded under the lock, so nobody acts on the same operation again; a command in
the worker's journal was sent once, and its effect comes after its entry there.

- `EffectAtMostOnce`: `Spec => []AtMostOnce`, and `EffectRecorded`:
  `Spec => []EffectIsOnRecord`.
- `OpsTypeCorrect`: `Spec => []TypeOK`, which no run repeats.
- `TrueReceipts`: `Spec => []ReceiptsAreTrue`, assuming `"duplicate"` is not among
  the faults. With it the property is false, as TLC shows. Only the gateway calls
  the supervisor, once per claimed operation, so the hypothesis is what the code
  does; `operations_truth` runs under it too. `Claims` says who
  may still call for an operation, `Truth` what each answer on its way proves.

`GroupSupervisorProofs` holds for any groups, accounts, runs, slots, pollers,
reloads and restarts. `SupervisorAssumption` asks that runs are finitely many (a
table has finitely many rows), and that no run or group is called `"none"`.
None of the properties is inductive, because what decides about a run is held in
tasks across awaits. `SupInv` is the conjunction of

- `Placed`: a task that works on a run works on one with a row;
- `InOrder`: the operation under the lock goes through its steps in order;
- `Managed`: who is alive is recorded as active under a command line the registry
  still knows, or is about to be recorded by the start that holds the lock;
- `Cleared`: the runs a start has checked are still dead;
- `Reserved`: a start of a model keeps the slot it found until its process counts;
- `Evidence`: a row that remembers a stop was stopped, and what a late status
  write puts back was read from the row before.

`TypesOK`, `OneLiveRun`, `SlotsBounded`, `LiveRunsManaged` and `SuccessIsEvident`
are `Spec => []P` for `TypeOK`, `OneLiveRunPerAccount`, `SlotsRespected`,
`LiveRunIsManaged` and `NoFalseSuccess`. The counting in `SlotsBounded` uses the
library's facts about cardinalities.

`WorkerControlProofs` holds for any commands and modes and every bound.
`WorkerInv` adds to the types `Dispatched` (the dispatch lock lets one command
come to the queue at a time, so the queue never holds two and its bound is never
met), `Recorded` (a command was applied exactly if its task has a result or its
journal says completed, and one that changed something before it raised has an
error or is journalled as unknown), `Flattened` (after a flatten nothing resumes trading, and
a native run's strategies are paused) and `Covered` (a native run has one order at
a time, which sells no more than is held). That a handler may raise anywhere costs
two lemmas: what a pause that raises leaves of the orders (`PausesPartly`), and
the ways in which a command ends without a result (`RaiseCases`). From it `TypesOK`, `ReceiptsHold`
(`ReceiptsMatch`), `FlattenIsFinal` (`NoFreeTradingAfterFlatten`) and
`FlattenIsCovered` (`FlattenWithinAllocation`).

`ConfirmationsProofs` holds for any number of tickets and inputs.

- `ConfirmedRunsWithTicket`: `ConfirmSpec => []RanWithTicket`. The lock holder's
  epoch is the current one (`LockInv`): only who holds the lock changes the
  connections, and the comparison is made under it.
- `DialogShowsForm`: the ticket on the screen is the one of the form, because a
  prepare that is under way keeps its context (`DialogInv`).
- `QueryAnswerIsCurrent`: a query is answered from connections no older than
  those the page knew when it asked (`QueryInv`).

`WebReadsProofs` holds for any connections and any number of changes, requests,
executes, sign-ins and losses. There are operators, and a first session
(`ApiAssumption`).

- `AccountIsOfActive`: `FeedSpec => []AccountFollows`, since what a task asked for
  is of an epoch there has been, and an epoch tells the connection (`AskedInv`).
- `ReadsAreFresh`: `ReadsSeeWrites`. A version is as new as told (`AsNewAsTold`) if
  no execute has reported a later one, to the page or on the way to it. In
  `ApiInv` the cache is always as new as told, and so is the answer of a status
  call of the current epoch (`StatusCalls`): an execute that ends empties the
  cache, gives up the status call that others would share and begins an epoch, so
  that an answer asked for earlier serves those who asked before the report and is
  kept for nobody. On the page, a read that can still be joined knows of every
  report (`ReadsOfPage`), since a write and the end of an execute forget all reads
  under way. That `request()` shares a read by session, retries after a mismatch
  and forgets a read that ended only where it is still the one to join adds
  nothing stale.

`WebPagesProofs` holds for any groups, runs, instruments, pages, number of loads,
edits, sockets, upsets and operations.

- `PagesShowSelection`: `LoadsBelong` always holds. Each load has read what it
  was begun for and one at most is the newest (`LoadsOrdered`), and what was
  accepted belongs to the key of its load (`LoadedBelongs`), however the selection
  moved on in between and although nothing aborts a load from a button.
- `SelectionKept`: `SelectionIsKept`, two action properties. `RestoringInv` says
  that the page writes to the storage only once restoring is over.
- `ChartFollowsStream`: `ChartIsOfStream`. That what is shown is of the
  instrument follows from `QuotesOfEffects`: whatever an effect asked for or
  waits with is of its own instrument. That the stream is not overtaken needs, for
  a page that was never hidden, `OneConnection` (one connection that is not
  closed, or one timer or connect that will make it) and `StreamInOrder` (what
  that connection still holds is in order and no older than what is shown or waits
  for the next frame).
- `TicketsAreCurrent` and `ReceiptsAreCurrent`: `TicketIsCurrent` and
  `ReceiptIsCurrent` of the panel. `PanelInv` relates three kinds of state. What is
  shown belongs together (`Consistent`). What is under way names the group it was
  begun for (`UnderWay`). And every operation that a runtime, ticket, receipt or
  answer names is one the backend knows, of that group; the backend only gets to
  know more (`Register`, `ServerKept`; neither the supervisor's steps nor its restart
  forget or rename an operation, `RunsAfterAre`), so a receipt found by its number,
  and the answer of a poll that is under way (`PollOk`), is of the group that the
  panel shows it with. A render is followed by three rounds of
  effects: the first leaves no ticket made for what was shown before and selects
  the run of a receipt that is new, and the later ones change neither scope nor
  settings (`EffectsAre`, `ChosenOnce`, `EffectsAgain`, `Rendered`). That the
  pending start which `Runtime` chooses exists (`Greatest`) rests on the
  well-founded order of the naturals.
- `TabsFollow`: `TabsFollowRoute`, for any pages, limits and choice of pinned tabs
  with fewer of them than the limit, none twice, and no page called `"none"` or
  `"events"` (`WorkspaceAssumption`). `RouteHasTab` speaks of the moments when all is
  rendered, and excepts that the operator has put the events in front; `TabsInv`
  adds what holds in between (`Departing`): an active tab is closed by giving up its
  page and going to another, and the render of the tabs, which may come before that
  of the route, knows by `closingPath` that it must not open the tab again. The list is within its limit because a list that is full has
  a tab that is not pinned, which can go (`SomeUnpinned`). What `filter` and
  `reduce` keep (`FilteredIs`, `StoredIs`) is proved without an induction theorem:
  of the beginnings of the list that would disprove it there would be a shortest
  (`Smallest`, from the well-founded order of the naturals).

`StreamSessionProofs` holds for any streams, entities and choice of conflated
ones, any capacity of the receiver and any number of events and lost connections.
A stream must not be called `"none"`, the topic of no session
(`StreamAssumption`; the code's are `run.<id>`). Gateway and store hold two views
of one journal that are compared nowhere: that they fit shows only in the messages
between them. `StreamInv` is the conjunction of

- `StreamTypes` and `HasLatest` (each entity has a last event in every beginning of
  a journal, so the CHOOSE of `Latest` means it);
- `Greeting`: a connection that has not subscribed yet has sent nothing, and its
  resume positions are those of the store; what the receiver holds is committed;
- `Conversation`: the messages on their way form one chain (`Follows`), of which the
  first is what the store expects now, the last leads to the session's position,
  and each says what is in the journal (`Said`). That snapshot and live events
  come from two sources makes no gap, since the session fills from the journal
  whatever lies between its position and the event it received;
- `Conflated`: only quotes and books wait for the next frame, so an event shown at
  once is never hidden by an older one that waits; and `ShownIsJournal` itself.

`TerminalShowsJournal` is `[]ShownIsJournal`, and `SessionIsAccepted`
`[]ServerIsAccepted`.

The web theorems are about the specification of the part (`ConfirmSpec`,
`FeedSpec`, or its initial condition and next-state relation), whose next-state
relation `WebSpec` uses.

Only model-checked: `MessagesSurvive` (encoding and decoding are RECURSIVE
definitions) and `WebTypeOK`, stated in `WebTerminal`, which reaches those
definitions; and all liveness: fairness and ENABLED are outside what TLAPS proves.
The invariants of `WebReadsProofs`, `WebPagesProofs`, `ConfirmationsProofs` and
`StreamSessionProofs` hold what those proofs need of the types.

## Findings

- `worker_flatten`: nothing calls `external_fill`, so a continuous executor's
  ledger does not hear of the operator's fills, and a flatten sells the same
  inventory again and again while the account has a free balance.
- `operations_expired`: `begin` writes EXPIRED from a row loaded earlier, and may
  overwrite the outcome of an operation that was executed.

Without a run of their own:

- A command that `request` puts into the queue after `close` emptied it is never
  answered: its dispatch keeps the lock, `quiesce` waits for it and the process,
  whose control thread is not a daemon, stays. `WorkerEnds` excepts this case
  (`late`) and no other.
- `start_strategies` sets the ledger of an allocation feed from
  `allocated_positions`, which `update` refreshes every quarter of a second: a
  fill in between is forgotten.
- A status query that is under way when a worker dies overwrites `failed` with
  `unresponsive`, later shown as `interrupted`; `GROUP_RUNTIME.md:143` promises
  `failed`.

The same late write of `run_status` can erase `stopRequested`, after which a
clean stop is recorded as `interrupted`; `NoFalseSuccess` shows that the opposite,
a success that is none, does not happen.

What else was met while modelling the web terminal, each without a run; the
properties are stated so that they hold of the code as it is:

- `api.ts:128`: after a CSRF mismatch the session is forgotten; when the refresh
  fails, the next request adopts whatever session there is, also another
  operator's, without the reload.
- `StrategyRunPanel.tsx`: the receipt of a halt, which names no run, survives
  another run being selected; a flatten ticket keeps its reduction scope after
  the selection went away and back; an execute that never reached the backend
  leaves an unknown receipt that blocks a start until something else is selected.
- `group_runtime.py:1007`: a start, stop, cancel or flatten whose outcome is
  unknown, after a restart of the supervisor or a reply that was lost, stays unknown
  for ever, at the supervisor, in the backend's row and on the page.
- `app.py:746-751`: what the supervisor said before an await is written over a row
  that `perform_confirmed` completed meanwhile; the next poll of the open receipt
  puts it right (`ConfirmedSettles`).
- `useMarket.ts`: when a page is hidden and shown before the `onclose` of its
  socket comes, that event starts a second connection that nothing closes; a
  failed `ensureSession` of a reconnect is not tried again; trades of the
  snapshot may repeat those of the stream.
- `models/operator.ts`: a runtime read that fails while the selection is
  restored drops that run, and the selection is saved without it; a failed
  refresh after a new epoch leaves the profiles stale until the next epoch; an
  `ensureSession` that fails in `connect` leaves the page without push.
- Pages: `StrategyGroups` and `ResearchHistory` do not compare the run of the
  detail with the run of the curve when the last run is shown; `EventBlotter`
  resolves the last run once per selection.
- `OrderTicket.tsx`, `HeaderStatus.tsx`: an order prepared under an older epoch
  of the page is performed with the present connections if the backend took it in
  the new one; a late answer to `test` sets the verification of values edited
  meanwhile; several prepares show whichever answer came last.
- `QuantWorkspace.tsx`: a tab that the limit evicts stays in the docking layout,
  and a saved layout with more than 16 tabs is rejected.
- `terminal.ts`: enum values unknown to a build show as `UNRECOGNIZED` in the raw
  view; an integer beyond 64 bits makes `encode` throw; a message repeated on the
  wire replaces the earlier one.
- An event `append_many` refuses for good would stop every stream behind it;
  `IdentityIsStable` shows that the adapter never produces one.

## Plan

1. *Done*: event pipeline with the `EventFeed` it implements; supervisor
   lifecycle; operations; worker control; stream sessions; the web terminal's
   pages, the part of the web backend behind them, the stream contract.
2. *Done*: proofs of the whole safety of pipeline (with the refinement of
   `EventFeed`), supervisor, operations and worker control; of tickets, dialog,
   query, account, reads, loads, selection, charts, panel and tabs on the web; of
   stream sessions.
3. Left to model: `Projector` (archive, mark, delete with crashes),
   `ModelReleases` (activation and rollback), `RunWatcher`, `DeviceAuth`, sign-in
   and passkeys, warm-up and inference deadlines of model workers.
4. Left to prove: of the safety that the runs check, nothing that the provers
   reach. Each module to come needs its theorems.

## Not modelled

Run views, artifacts, telemetry, the legacy proxy and the pages that show one
resource read state and change none that others rely on. What is rendered, and
feature and price arithmetic, are out of TLC's reach. `generated/api.ts` holds
types only: nothing of it runs. Backup and deployment scripts are one-shot. The
native terminal repeats the stream handling of `StreamSession`; the rest of it is
user interface. The projector, model releases, the run watcher and the gateway's
authorization, as well as sign-in, passkeys and the two-person approval of the
web backend, are the plan's next modules.
