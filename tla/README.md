# PrivaHub in TLA+

PrivaHub is a control plane for privacy computing: institutions agree on
projects by vote, compose graphs of computation components in a web front end,
run them as jobs on Kuscia (an external orchestrator) and keep their databases
in step. This directory holds TLA+ models of the parts of its Go backend and of
its TypeScript front end in which concurrency, crashes, unreliable delivery or
long sequences of gestures matter, the TLC configurations that check them, and
TLAPS proofs about them.

Paths below are relative to the repository.

## 1. Inventory

| Part | State it keeps | Operations | Talks to | What is hard | What makes it correct |
|---|---|---|---|---|---|
| P2P change feed, `internal/service/sync/{p2p,producer,consumer,manager}.go` | a queue per peer institution, its file, the `working` map, the AsyncSink channel | emit (GORM callback, inside the transaction), `Push`/`enqueue`, `Drain`, ticker, `Load`, `Start`, `Stop` | peers' `/sync` endpoint over HTTP; local database | crash between post and persist, a post that failed but was applied, superseding while the superseded event is in flight, start and stop order | nothing accepted is lost; one drain per peer; attempts are bounded; peers converge |
| Scheduler, `scheduled_service.go` | schedules, their jobs and tasks (database), Kuscia jobs | `CreateScheduler`, `Offline`, `Del`, `TaskStop`, `TaskRerun`, `RunDue`, `SyncRunning`, status hook of the job poller | Kuscia; several instances share the database | two instances claim the same task, crash between claim and submission, a submission that timed out but succeeded, status answers applied late | a task is submitted once; nothing runs in Kuscia that no row accounts for; no task is stuck |
| Project jobs, `graph_chain.go`, `graph_service.go`, `job_service.go`, `job_sync_service.go`, `job_sync_watch.go` | job, task and result rows, miss counters | `RunGraphJob`, `rollbackJob`, poll, watch events, not-found handling, `StopGraph`, `stopProjectJob`, `syncResult` | Kuscia; the pipeline page | poll answers older than watch events, a stop racing a status write, a crash or a lost reply between rows and Kuscia, results written after the commit | a finished job stays finished and idle; results of a success are registered; a run is stopped only for a reason; every run ends |
| Web: pipeline page and autosave, `pages/dag/{index.tsx,use-graph-editor.ts}` | the canvas being edited, its version and generation, a debounce timer, React Query's caches | edit, autosave, save, switch, create, copy, delete, configure, run | graph API of the server | answers that arrive for another graph, two saves that overtake each other, a refresh over unsaved edits | no edit is lost unnoticed, "saved" is never a lie, edits of one graph never reach another |
| Web: canvas, `packages/dag-next/src/{index.tsx,graph-model.ts}` | nodes, edges, undo and redo stacks, clipboard | delete, connect, paste, import, export, undo, redo, configure | id allocation of the server | nodes, edges and the inputs stored with the nodes are edited separately; ids arrive after the canvas has changed | edges join what is there, inputs follow edges, ids are unique, what comes back belongs to the graph |
| Web: session, `packages/api-client/src/{api,session}.ts`, `features/auth/model/auth-store.ts`, with `auth_session.go` | cookies, stored user, one refresh per tab, the session row | login, logout, calls, 401 handling, single-flight refresh, replay, password change | the server, other tabs of the browser | a refresh token is good once; parallel 401s; several tabs; lost answers; what is stored again by a caller that catches an error | a call runs once, a session is not given up or revoked without a reason |
| Web: access, `shared/lib/{access,platform}.ts`, `router.tsx` | none | path rules, home page, menu, guards | session | rules, home, menu and guards are written apart from each other | redirects end on a page that may be shown; what is offered is open |
| Web: run status, `pages/dag/{use-node-status.ts,adapters.ts,index.tsx}` | what the page has asked for, whether a run was active, cached answers | polling, start, stop, switch | project jobs | an answer about the previous round, nodes that keep a stale state, a switch of graphs | the end told is that of the run watched; polling ends |
| Center dispatcher and edge client, `sync/{center,edge}.go`, `sse_server.go` | in-memory batch queue, SSE sessions, checkpoints | `Push`, `Flush` every 3 s, `InitialSync`, `RunOnce`, `HandleEvent` | edges over SSE | session replacement during a send, snapshot racing the live stream | not modelled |
| Votes, `internal/service/votehandler` | vote requests, invites, approval configs, party votes, project status | `createApproval`, `Reply`, monitor tick, compensation | peers, through the change feed | concurrent replies, crash between callback and status | not modelled |
| Audit log, `internal/audit` | hash chain, spool file, anchors | append, spool and replay, retention, verification | database, file | store failure, retention cutting the chain | not modelled |
| Other services, `internal/service/*.go` | database rows | CRUD with guards | Kuscia | partial failure between a row and Kuscia | not modelled |
| HTTP API, Kuscia client, persistence, configuration, crypto, commands | schema, rate limiter buckets, connection pool | handlers, migrations, start and stop order | | shutdown order | not modelled; the order is taken into the models |
| Web: other pages | forms | tables and dialogs over single calls | HTTP API | | not modelled |

`PROJECT.json` lists the components with their status, and under `hazards` what
can go wrong in this code that a test would hardly reach, each at its line with
the properties that would notice it.

## 2. How the project is built

The modules were written in this order: the change feed, because everything that
crosses an institution's border rides on it; the scheduler, in which instances,
status loops and requests write the same rows; then the pipeline page from the
canvas to the run (`Canvas`, `GraphEditor`, `ProjectJobs` with `RunStatus`), and
the session every call of the front end depends on (`WebSession` with `Access`).

| Module | Uses | Checked by | Proved in |
|---|---|---|---|
| `P2PQueue` | instantiates `Outbox`, the abstract specification it implements | `MCP2PQueue` | `P2PQueueProofs`, `P2PPromiseProofs` |
| `Scheduler` | | `MCScheduler` | `SchedulerProofs` |
| `GraphEditor` | | `MCGraphEditor` | `GraphEditorProofs` |
| `Canvas` | | `MCCanvas` | `CanvasProofs` |
| `ProjectJobs` | | through `RunStatus` | through `RunStatus` |
| `RunStatus` | extends `ProjectJobs`: the page composed with the server | `MCRunStatus` | `RunStatusProofs` |
| `Access` | | through `WebSession` | `AccessProofs` |
| `WebSession` | extends `Access`: every page shown is where the guards come to rest | `MCWebSession` | `WebSessionProofs` |

What would come next, in this order: the vote handlers (an approval decides once
and only unanimously), the center's dispatcher with its SSE sessions, the audit
chain. Every safety property of a passing run is proved; what a proof does not
reach is in section 7.

## 3. Modules

An atomic step is what the code does under one lock, in one database statement
or transaction, in one call of another process, or, in the browser, between two
awaits. Everything else interleaves.

### P2PQueue

One institution in AUTONOMY mode, its peers' databases, and the life cycle of
the process. `P2PQueue` knows a change by its number in the history `log`; the
contents of a row are the number of the change that wrote it, which is all the
properties tell apart.

| In the model | In the code |
|---|---|
| `phase` | what `NewManager`, `P2PSync.Load`, `P2PSync.Start`, `Manager.Stop` have done so far |
| `row`, `open` | the local tables, and the change a transaction has emitted before its commit |
| `sink`, `push` | the channel of `AsyncSink`, and its worker inside `P2PSync.Push` |
| `queue`, `disk` | `P2PSync.queues` and the queue files of `persistLocked` |
| `working`, `worker` | the map that excludes a second drain, and the goroutines of `trigger` |
| `load` | `Load` between reading a file and merging it |
| `peer` | what the peers' `Consumer` has applied, and the change that did it; a deleted row remembers its deletion |
| `log`, `refused`, `accepted`, `sent`, `dropped` | history, in no guard of the code |

| Action | Code |
|---|---|
| `Write`, `Commit`, `Rollback` | the GORM callbacks emit inside the writer's transaction, `producer.go`; nothing recalls a change whose transaction is rolled back |
| `TakeSink`, `Enqueue`, `EnqueueTrigger` | the sink's worker; `enqueue` with `qmu` (supersede, append, persist), then `trigger` |
| `Tick` | the ticker of `Start` |
| `Peek`, `Post`, `Settle`, `Exit` | `Drain`: read the head, post it without the lock, remove or requeue and persist with the lock, give up the `working` mark |
| `ListFiles`, `ReadFile`, `MergeFile`, `StartLoop` | `Load`, then `Start` |
| `StopSink`, `StopLoop`, `StopProcess` | `Manager.Stop` and the end of the process |
| `Boot`, `Crash` | a process begins, or ends without warning |

A post has three outcomes: applied and acknowledged, applied with the answer
lost, not applied. A queue file that cannot be written stays as it was.

`Outbox` is the promise of such a feed: what has been accepted for a peer stays
owed until it was applied there, given up, or a later update of the row is owed
instead. The refinement maps `owed` to the queue *files*, not to the queues in
memory, so a crash must be a stuttering step: that is the content of `Promised`.

### Scheduler

The rows of one schedule with its pre-computed tasks, Kuscia's view of their
jobs, and several instances, each with a fire loop, up to two status loops and
at most one API request at a time.

| In the model | In the code |
|---|---|
| `sched`, `task`, `job` | `project_schedule`, `project_schedule_task`, `project_schedule_job` |
| `age` | the expected start against the clock and the misfire grace |
| `kjob` | the job in Kuscia (external), as `mapKusciaJobStateToScheduleJob` reads its state |
| `engine[i]` | the batch `RunDue` has read, and where `fireTask` is with one of them |
| `loop[i]["sync"]`, `loop[i]["poll"]` | `SyncRunning`, and `syncOnce` of the job poller, between the answer they read and the rows they write |
| `missed` | `JobStatusSyncService.notFound` |
| `request[i]` | `TaskStop`, `TaskRerun`, `Offline` between their statements and calls |
| `submitted`, `withdrawn`, `reruns` | history |

`CreateScheduler` is one transaction; `RunDue` selects, `Misfire` and `Claim` are
the two compare-and-set updates, `Submit`, `FailTask`, `RecordJob` the rest of
`fireTask`; `Expire` is the 30 s context of the pass. `List`, `Found`,
`NotFound`, `QueryFails` are a status pass, `ReadJob` to `WriteTask` the
statements of `ApplyKusciaJobStatus`, `CheckVanished` and `MarkDeleted` the two
halves of `markJobDeleted`. `TaskStop` to `MarkDown` are the requests, one action
per statement or Kuscia call. `Crash` replaces an instance.

A Kuscia call may be refused, and it may take effect although its answer is
lost. Time is abstract: `Ripen` moves a task from not due, to due, to overdue;
`Elapse` says that the minute of `notFoundWait` since the start of a task has
passed. That minute is longer than a fire pass is allowed to take and, by
assumption, longer than the poller's way from its third not-found answer to the
check it then makes; it may elapse at any other moment. Nothing limits how old
the other answers are when they are used.

### GraphEditor

One browser tab on the pipeline page, and the graphs the server stores. A graph's
content is the set of edits it incorporates; a save carries the whole graph, so
it replaces.

| In the model | In the code |
|---|---|
| `editor` | the state and refs of `useGraphEditor`: the graph shown, the canvas, dirty, the timer, version, generation, the save state |
| `cached`, `listing`, `detail`, `fetch` | React Query's answers of `graph/list` and `graph/detail`, and what is in flight: a detail is asked for, half read or read |
| `selected` | `selectedGraphId` of the page |
| `wire` | requests, in the order they were sent; the server may serve a later one first |
| `list`, `stored` | the server's graphs |
| `made`, `given`, `risky`, `copies`, `ever`, `runs` | history: what was edited, what a gesture or a refused save discarded, graphs whose saves overtook each other, or lacked what the server had or was about to have |

`Edit`, `AutoSave`, `SaveNow`, `Select`, `FollowLink`, `CreateGraph`, `CopyGraph`,
`DeleteGraph`, `SaveAdvanced`, `QuickConfig` and `StartNodes` are gestures; `Serve`
and `Fail` are the server; `Answer` is what the handler that awaited a request
does next. `Rendered` is the effect that follows every render.

Two of the server's handlers read a graph in several statements.
`GetGraphDetail` reads the edges (`DetailRead`) and then the nodes
(`DetailNodes`): an update between them makes the answer a mixture of two stored
contents (`Torn`), which the server never had. `RunGraphJob` (`ServerStart`) reads
twice what it runs; `RunsUseCanvas` is said of each of the two.

### Canvas

Nodes, edges and the stacks of one canvas, and id allocation. A node's id is a
graph and an index. A node's parameters are represented by the inputs it had when
they were entered, which is all that tells whether they still fit.
`allocateNodeIds` is split into the request (`Begin`, with the largest index on
the canvas then), the two statements of `RefreshNodeMaxIndex` (`LoadIndex`,
`SaveIndex`), its failure, after which the page goes on with the default index
(`IndexFails`), and what follows the await (`Apply`). `Pick`, `Valid` and `Refused`,
`DeriveInputs`, `Remapped`, `Without` and `Layers` are the pure functions of
`graph-model.ts` and of the canvas.

What makes a graph correct is said of any graph (`Sound`, `OfGraph`, `Unique`,
`Follows`, `Latest`), so that the same predicates serve the canvas, the stacks, the
exported file and the stored graph the page opens. That one, `FirstGraph`, is any
graph with these properties (`FirstGraphAssumption`): one that this page saved
without overlapping allocations.

### ProjectJobs and RunStatus

`ProjectJobs` has the rows of the runs (`rows`), the request that starts each
(`call`), Kuscia's job (`kuscia`), what the poller and the watch streams hold
(`syncer`; the streams of the pool nodes are one, since all apply under `applyMu`), the poller's counts (`missed`), a stop in progress (`stopping`) and the
registered outputs (`results`).

| Action | Code |
|---|---|
| `Persist`, `Submit`, `SubmitFails`, `Rollback` | `RunGraphJob`: rows first, then `CreateJob`; `rollbackJob` when it returns an error |
| `PollAsk`, `WatchEvent` | an answer is fetched without a lock |
| `Look`, `Apply`, `Register` | under `applyMu`: the row is read, one transaction writes it (`updateJob`, `markJobDeleted`), then `syncResult` |
| `StopGraph`, `StopNode`, `StopKuscia`, `StopWrite` | `StopGraph` and `stopProjectJob`, which does not take `applyMu` |
| `KusciaTask`, `KusciaJobEnds`, `KusciaEndTime`, `Vanish` | Kuscia, external, as the code reads it |
| `GracePasses`, `Crash` | `notFoundWait` since the row was written; a kill and a restart |

`RunStatus` adds the page: the refs of `useNodeStatus` with what it told last
(`page`), the last answer and the fetch of each graph (`cache`, `query`), and the
starts it waits for (`pending`). `Effect` is the effect on data,
`shouldPollStatus` and `result` the functions of the same names. `page.asked` is
history: the run the page means.

### Access and WebSession

`Access` has no state: kinds of account (`Contexts`), paths, `CanAccess`, `Home`,
`Menu` and the guards of the router (`Guard`, `Resolve`), all of them as sets of
sections. `WebSession` is the browser: tabs that share cookies (`jar`) and the
stored user (`marker`), each with its page, the user in its memory and at most
one refresh; calls on the way; and the server's account and session rows.

| Action | Code |
|---|---|
| `Start`, `AskUser`, `Serve`, `Lose` | a call is sent, carried out or refused, or it or its answer is lost |
| `Await`, `Replay`, `GiveUp`, `Sandboxed` | `api.ts`: a 401 waits for `refreshSession`, one replay, the stored user is dropped and the page left; a 403 that asks for a new password |
| `Failed`, `Succeeded`, `LogoutAgain`, `LoggedOut` | the callers in `auth-store.ts` and the password form, `fetchUserContext` catching and the second path of `logout` included |
| `RefreshRead`, `RefreshSwap` | `RefreshToken`: it reads the row and the account, then swaps the token it has read; whatever happens in between, a row that is not as it was read counts as a reuse |
| `RefreshAnswered`, `RefreshLost`, `ResetFlight` | the promise of `session.ts` settles (`Settle`): whoever waits holds the promise and goes on at once; the timer forgets it later |
| `OpenLink`, `Reload`, `Leave` | navigation; a page that is left takes its calls and its refresh with it |
| `Age`, `EndSession`, `ResetPassword` | expiry, revocation, and an administrator's reset, which clears the sessions unless that last statement fails |

The fault variants beside a definition (`ClaimBlindly`, `EnqueuedFirst`, ...) are
the same code with a plausible mistake in it. They occur in no specification.
`PROJECT.json` names, for each property, the variant under which it fails, so
that a property which no mistake can break is noticed.

## 4. Runs

The MC modules give the constants their values, and declare symmetry (peers, rows
and goroutines; tasks and instances; edits; tabs and calls) for runs without
temporal properties, which need none of the state identities symmetry hides.
`CHECK_DEADLOCK FALSE` throughout: all counters are bounded and the system is
allowed to be at rest.

| Run | Shows | Bounds, and why |
|---|---|---|
| `feed_safety` | nothing accepted is lost, whatever the crashes; a change leaves a queue for one of three reasons; attempts are counted across restarts; one drain per peer; peers do not go back in time while no post fails, deletions included; a graceful stop keeps what was emitted; the feed implements `Outbox` | two rows and three changes so that an update is superseded while another row waits; `MaxRetries` 2 and two failing posts so that one change is given up; two goroutines; one stop and one crash, each with a restart |
| `feed_live` | a queue is drained; without failures the peer ends with the local rows | one row, three changes (create, update, delete or again update), all failures except a crash |
| `feed_stale` | a finding, below | one failing post |
| `sched_safety` | what runs in Kuscia is accounted for by a fired row; the fire loops submit once | two instances, one task and one request of any kind; each of the faults may occur, at most one in a behaviour (the constraint `FewFaults`): a refused call, a lost reply, a vanished job, a crash; the first miss is the verdict |
| `sched_live` | the failure of a job is read back, a vanished or never submitted job is noticed, a due task leaves TO_BE_RUN | one instance with both status loops, one task and a stop; a refused call, a pass that is cut off, a vanished job and a crash, any two of them in a behaviour (the constraint `TwoFaults`; no fairness asks for a fault, so that it only leaves out behaviours with a third); two misses before the verdict |
| `editor_safety` | no edit is lost outside the named exceptions, edits of a graph stay its own, "saved" means stored (or read as a mixture of what was), a run uses the canvas it was asked for, a refresh keeps unsaved edits | two graphs and a third to be created or copied, two edits, any two of nine gestures, two requests at once, which is what overtaking needs, one of them failing |
| `editor_late` | a finding, below | switching and the quick configuration only |
| `canvas_safety` | the canvas and all that can come back on it stay well formed | four gestures from the graph table → edit ← train, in which the two-input modification `edit` was configured with both inputs connected; the training has three outputs, one of them a report; two allocations at once, two graphs, two snapshots of history so that the stack is cut |
| `session_safety` | a call runs once, sessions are revoked or given up only for a reason; redirects end and what is offered is open | two tabs and two calls, so that refreshes of one tab are shared and those of two tabs race; a second login; two events of the user, the administrator or the network besides one expiry of the access token |
| `session_loop` | a finding, below | one tab, one call, one event |
| `runs_status` | a finished job is idle, results are registered, a run is stopped for a reason, the page concludes nothing from an earlier round, every run ends, polling ends | both graphs have finished runs already, one more run is started; one disturbance of any of six kinds at any point: a watch event, a stop, a failed call, a vanished job, a crash, a graph opened; two misses before the verdict |
| `runs_switch` | a finding, below | two switches |

Exceptions that properties name are cases in which the code does lose or confuse
something, and which it does not claim to handle: `EditsAccounted`, `SavedIsStored`
and `RunsUseCanvas` except graphs whose saves overtook each other or to which a
write was sent that lacked what the server had or was about to have (`risky`: a
canvas that is behind, or the fill of a copy made while the new graph was edited
already), and edits dropped by following a link without a flush, by a template or
by a refused save (`given`); `GraphsStayApart` except graphs made by copying, which
start with the edits of another; `NoEarlierRound` except a first answer that shows
a task an earlier run has left INITIALIZED (see below); `IdsUnique` and what depends on it except graphs in which two allocations
overlap, or an allocation overlaps an undo (`clash`). `ParamsMatchInputs` excepts a
clash in any graph, because an import carries parameters from one graph to the
next; `RevokedForAReason` and
`GaveUpForAReason` except behaviours in which an answer was lost or came after its
page was left, in which a refresh overlapped another one, a replay or a login, or
in which the access token expired under one of these (`excused`). Each exception is
history of the model, set in the actions where the case occurs.

`RunningIsAccounted` excepts reruns and lost replies. With a lost reply of
`CreateJob` it is false of the code: the task is marked FAILED while its job runs
(`scheduled_service.go:1617`). `FailuresAreReadBack` is about failed and stopped
jobs, `VanishedIsDetected` about tasks whose job's row is RUNNING; of the others the
code keeps neither (see below). `SavedWasStored` says of a canvas shown as saved
that it is stored content or a mixture of two stored contents, because a detail may
be read while a save is being stored.

Each module but `Access` and `ProjectJobs` states its types as `TypeOK`. The runs
check that of `P2PQueue`, the proofs also those of `Scheduler` and `Canvas`; the
others are there for the reader.

### Findings

Each is a disagreement between the code and one of its own comments;
`PROJECT.json` quotes the line.

- `feed_stale`: an update whose post fails after a newer update superseded it
  goes to the tail, behind the newer one. The peer, where the last arrival wins,
  keeps the older contents.
- `editor_late`: the answer of a quick configuration resets the editor of
  whatever graph is shown by then: its unsaved edits are marked clean and its
  autosave timer is cancelled.
- `session_loop`: when the session is over on the server, the call whose 401 drops
  the stored user is usually the layout's own `refreshUser`, which catches the
  error and stores the user again. The login page finds a stored user and
  redirects home, and the page reloads for ever.
- `runs_switch`: opening a graph whose finished status is cached, while a run of
  another graph is watched, reports the opened graph's earlier result as the end
  of a run.

### Known divergences kept out of the standing runs

Properties that state what a comment promises and the code does not keep are
still in the modules where they are short; no run checks them.

- `P2PQueue!StartRestoresQueues`: the change callbacks are registered before
  `Load` has run (`EarlyWrites`). A change made in between persists a queue
  without the persisted events over their file.
- `Scheduler!OnlyUpSchedulesFire`: the claim compares the status of the task, not
  of the schedule; a task selected before `Offline` is fired after it.
- `Scheduler!StoppingEnds`: `TaskStop` writes STOPPING over a verdict stored
  meanwhile, and a job that vanishes while its task is STOPPING is no longer
  asked for.
- `Scheduler!RerunAllOnce`: two reruns of type ALL at the same time both happen.
- `Scheduler!VerdictIsReadBack`, which adds successes to `FailuresAreReadBack`: the
  two status loops apply answers of different age without a common lock. An older
  RUNNING written last, or a loop that dies between the statements that end the job
  and its task, leaves a task RUNNING whose job has SUCCEEDED, and
  `ApplyKusciaJobStatus` returns early for such a job ever after
  (`scheduled_service.go:1664`, `:1719`).
- A fired task whose job's row is no longer RUNNING, and whose job is unknown to
  Kuscia, stays fired: the poller asks only about RUNNING rows, and `SyncRunning`,
  which does ask, ignores the answer (`scheduled_service.go:1643`).
  `VanishedIsDetected` is about the others.
- `WebSession`: a refresh whose row was ended (a logout elsewhere, a revocation)
  between the read and the swap is recorded as `refresh_token_reuse`
  (`auth_session.go:169`), the reason kept for stolen tokens. No session is left to
  be ended by it, so `RevokedForAReason` is about sessions that are alive.
- `GraphEditor`: a detail torn between its two statements (`graph_service.go:565`)
  is shown as saved, and the next save writes it back.
- `Canvas!SelectionOfGraph`: the answer to an allocation selects its node on the
  page whatever graph is shown by then.
- `RunStatus!FinishedJobsLeaveNothing`: a stop is written without `applyMu`. When it
  comes between the reading of a job and the transaction that applies a failure
  reported without an end time, that transaction writes the tasks Kuscia still
  calls Pending back to INITIALIZED, under a job that is STOPPED
  (`job_sync_service.go:309`; line 319 says that no task of a finished job stays
  INITIALIZED).
- Such a task, or one of the old data `adapters.ts:146` speaks of, defeats the guard
  of `use-node-status.ts:25` against taking the previous round's end for this
  one's: `useNodeStatus` counts it as active. If the graph's first status was read
  before the start and arrives after it, the page tells the previous round's result
  at once and stops watching. `NoEarlierRound` excepts exactly this.
- `ProjectJobs` and `RunStatus` show, without a property: a start whose answer
  arrives after a switch marks the other graph as started; a stop between the
  rows and `CreateJob` leaves the job running in Kuscia; a stop overwrites a
  success written meanwhile; the page calls a partial run failed because of
  nodes of earlier rounds; a crash between commit and `syncResult` loses
  results; a `CreateJob` whose reply is lost leaves a job nothing refers to.

## 5. Fairness

`P2PQueue!Fairness`: weak fairness of the sink's worker, of `Load` and `Start`, of
each drain goroutine, of the ticker per peer, and of an open transaction's end
(a commit or a rollback, whichever). These are goroutines the Go scheduler runs
and transactions that end. Posts fail only `MaxPostFaults` times, and nobody
owes a write, a stop, a crash or a restart: `QueueDrains` therefore speaks of
the time the process runs, and `Converges` of behaviours without faults.

`Scheduler!Fairness`: weak fairness of each fire loop, of each status loop and of
a request being served, all of which are tickers or handlers that run to their
end. Strong fairness of `Elapse`: it is disabled while the poller is between
answer and verdict, again and again, yet a minute passes in between. A job in
Kuscia may run for ever, and nobody owes a request. `DueTasksLeave` needs no
fairness of the clock because it starts from a task that is due.

`RunStatus!Fairness`: weak fairness of a request being served, of whoever holds
or waits for `applyMu`, of stops, of the answers of fetches and of the page's
interval. Strong fairness of the poller asking for each unfinished job (it asks
for all of them in every pass, but a job's turn is not enabled all the time) and
of the grace period passing (not while the poller holds a not-found answer, but
in between). That jobs in Kuscia end is assumed; without it `JobsSettle` would be
a statement about computations. Nothing makes a user act, a call fail or the
watch deliver an event: the poller alone has to be enough.

`WebSession!Fairness`: the server and the network answer, and the browser runs
what is due (the continuation of a call, the layout's effect, the timer, a page
that is being left). Nothing makes the user act, a token expire or an answer get
lost. `session_loop` is the only run that uses it.

## 6. Proofs

The proofs hold for every value of the constants: any set of peers, rows,
goroutines, tasks, instances, tabs, calls, graphs and nodes, and any value of the
bounds. They rest on the named assumptions of the modules (`P2PAssumption`,
`SchedulerAssumption`, `GraphEditorAssumption`, `CanvasAssumption`,
`FirstGraphAssumption`, `ProjectJobsAssumption`, `RunStatusAssumption`), which TLC
evaluates in the runs of those modules. A theorem that needs more says so in its
statement.

- `P2PQueueProofs!TypeCorrect` and `DrainsExclusive`. `TypeOK` is not inductive:
  that an event handled by a goroutine is one of a queue, and that a `working`
  mark stands for exactly one goroutine, has to be known as well. `TypeInv` is
  `TypeOK` with `WorkerInv`, `PushInv` and `OneDrainPerPeer`. Lemmas about `Keep`,
  `Supersede`, `Enqueued` and `Settled` say what these do to a queue's entries.
- `QueueKeepsChanges`, the action property. `FeedInv` adds that numbers enter a
  queue in the order of the log (`OrderInv`: otherwise "a later update" means
  nothing), that an acknowledged post was applied (`AnswerInv`), and that what is
  queued, persisted or being loaded was accepted (`AcceptedInv`).
- `NothingLost`, under `EarlyWrites = FALSE` and `MaxDiskFaults = 0`, the two
  circumstances in which the code does lose changes. `DiskInv` says that a queue
  and its file agree once `Load` is over, that nothing else moves before that, and
  that meanwhile a queue is empty until its file has been merged into it.
- `StopKeeps`. `StopKeepsEmitted` is inductive once one knows that a stopped sink is
  empty and its worker idle (`ClosedInv`): this is the order of `Manager.Stop`.
- `GivenUpLate`. The invariant counts: `FailedPosts` is the set of triples of a
  peer, a change and an attempt that some event in a queue, a file, a buffer of
  `Load` or a goroutine remembers as failed, and it has at most as many elements as
  posts have failed (`CountInv`). A copy of an event, a crash or a restart adds no
  triple, and a change that is given up stands for `MaxRetries` of them.
- `P2PPromiseProofs!KeepsPromise`: `P2PQueue` implements `Outbox` under the same two
  hypotheses as `NothingLost`. What is owed is what the files hold, so each step is
  mapped by what it does to them: `Enqueue` is an acceptance, `Settle` a delivery, a
  retry (no step) or a giving up, and everything else, `Crash` included, a stutter.
  This needs `SerialInv`: a change is at most once in a queue, and the event a
  goroutine holds is still the head of its queue or was superseded.
- `RowsAdvance`, under `~EarlyWrites`: a change queued before `Load` has read the
  file is otherwise merged twice, and an older one comes after a newer one. A row
  that a peer deletes keeps the number of the deletion, so that the theorem also
  rules out an older update that brings the row back. `InOrderInv` says that files
  are sorted, that a peer's row is not newer than anything still in the file for
  that row, and that what is being posted lies between the two.
- `SchedulerProofs!TypeCorrect`. One lemma for each way in which a record is
  updated, then one step per action.
- `SubmittedAtMostOnce`. `FiredOnce` becomes inductive with `ClaimInv`: a task
  waiting to be run was neither submitted nor withdrawn, at most one instance
  holds the claim of a task, and one that holds it has not submitted it yet.
  Most actions are `Quiet`: they touch neither the claims nor the history and
  keep TO_BE_RUN as it is, and one lemma covers them all.
- `JobsAreAccountedFor`. `AccountInv` has to say why no instance ends a row whose job
  runs. A job was submitted and its row started (`TaskAccounted`); a row being
  submitted is fired and still within the minute the poller grants it, and a
  submission taken for failed left no job running (`EngineAccounted`); an answer
  that would end a row stays true of its job until it is written, be it a verdict
  or the third miss (`LoopAccounted`); only started tasks are stopped
  (`RequestAccounted`). The last three are what the interleavings of loops, requests
  and the fire pass could break. Steps that start neither a task nor a job are
  `Mild`, and one lemma shows that they keep the invariant. Reruns and lost replies
  are excepted, as in the run: with either, the property is false of the code.
- `GraphEditorProofs`. `SavedWasStored` and `GraphsStayApart` are about the canvas
  and the store, but both are filled from requests and answers, so `Inv` follows a
  content all the way: a write carries only what was done to its graph and, once
  served, was stored there (`Fits`); a save whose version is still the canvas's
  carries the canvas, or the canvas has been refreshed since (`Fresh`); what is
  stored was stored for that graph (`StoreFits`), and what is cached or read for a
  refresh is mixed of at most two such contents (`Mixes`, `CacheFits`). This is what makes `doSave`'s three comparisons,
  graph, generation and version, enough. Lemmas say what appending, removing and
  serving a request do to the wire. `Typed` is the type invariant, and
  `RefreshKeeps` the action property: every step keeps the edits of a dirty canvas
  that stays in view.
- `EditsSurvive`, `SavedStays` and `RunsUseTheirCanvas` have one more invariant,
  `Survival`, about graphs that are not `risky`. Nothing is lost on the way because
  writes only grow: a write that is still to be served contains all that is stored
  (`Builds`) and all that was sent before it (`InOrder`), so serving it takes nothing
  back. What was served, what a run or a clean canvas rests on, and what the cache
  shows or is about to show is *safe*: stored, or given up (`Stands`, `EditorStands`,
  `CacheStands`). The content of a save that may still be answered to the present
  visit is on the canvas or safe; this is what `doSave`'s generation is for. And
  every edit is safe, on its canvas or on the wire (`Accounted`). Lemmas say how each
  part moves with the canvas, the wire and the store, then there is one lemma per
  action. The proof made the history precise: the fill of a copy, sent after the new
  graph was edited and saved, takes those edits back; such a graph is `risky`, and other
  graphs made by copying need no exception.
- `RunStatusProofs`. `FinishedJobsIdle` is not inductive: an answer written late
  could bring a running task back, so one has to know what answers can be in
  the syncers' hands. `Inv` is `Typed` with three parts. `InStep(j)` ties row,
  request and Kuscia's job together: a job whose start is still to come is unknown
  to Kuscia and young, Kuscia knows every task of a row, and a job that is over
  in Kuscia runs nothing there. `Held(s)` says of an answer in a syncer's hands
  that, if it would stop the job, the reason still holds: Kuscia neither runs the
  job nor will be asked to, or it is the poller's and the row is young, so that
  `Look` will drop it. `Idle` is the property. `FinishedJobsAreIdle` and
  `StopsHaveReasons` follow, the latter an action property.
- `ResultsAreRegistered` adds `AllDue`: whoever turned a task to SUCCEED holds the lock
  until its output is registered, so no other answer can see the success first.
- `EndsAreOfThisRun` adds `PageInv`: while the page waits for a run, the fetch under
  way was read after that run's rows were written (`Current`), unless nothing has
  been heard since the start. Only react-query's first fetch of a graph survives the
  refresh after a start, and it is heard once; the count of answers then keeps the
  page waiting, but for the exception above. `RowsStay` says that no step of the
  server adds a task to a row, and `Latest` that the largest number of a set of runs
  exists.
- `AccessProofs`. Redirects settle because the pages they lead to are stable
  pages: after one redirect a user is on a page from which no guard leads on, or
  at home, and home is such a page or leads on to a tab of the account's own
  node. `HomesOpen` and `MenusOpen` go through the kinds of account.
- `WebSessionProofs`. `AtMostOnce` becomes inductive with the shape of tabs and
  calls and with `Unrun`: a call that may still be carried out (sent, waiting for a
  refresh, or answered with 401) has not been carried out. `RouterSettles` and `OffersOpen` bring `AccessProofs` to the
  reachable states: whatever the steps do to the stored user, it is a marker the
  guards know how to settle.
- `NoFalseTheft` and `NoSessionGivenUp` have one invariant, `SessionInv`, which holds
  until the first excuse. It ties what the browser holds to the session rows: the
  cookies name the token their session accepts, or the one refresh on its way is
  about to replace it, whether it has read its row or swapped it (`JarFits`,
  `FlightFits`, `OneFlight`); sessions are made one
  after the other with the password of their time (`RowsFit`); the session
  of a login whose answer is on its way is nobody else's (`LoginFits`); and no
  call is replayed while a refresh is on its way (`ReplayFits`). Hence a refresh never
  uses an old token, and a replay that is refused had no session.
- `CanvasProofs`. `CanvasInv` is `TypeOK` with three parts: whatever is shown or can
  come back is a graph of the page (`Held`), what was exported is one (`Exported`), and
  so is what waits to be imported, with at most one request per graph on its way,
  asked with an index that no node exceeds (`Requested`). That second half is what
  makes new ids new; it lapses with `clash`. What an edit makes of a canvas is proved
  apart from the actions: `Better` relates a canvas to one made from it by deleting,
  connecting or configuring, `Imported` and `Pasted` are the two ways in which nodes
  come in. `CanvasStaysSound` needs what the search computes: `Downstream` contains
  the successors, is closed under them and is the least such set, although the
  search stops after as many rounds as there are edges (by counting). So an edge
  whose target does not reach its source closes no cycle. `LayoutIsOrdered` counts,
  too: in a graph without a cycle each layer places another node, so that after as
  many layers as there are nodes all are placed. `PickFindsAny` holds because, once
  one pair of ports would close a cycle, every pair of these two nodes would.
  Where induction over numbers is needed, it is over a *set* of numbers
  (`ByNumbers`), which follows from the well-foundedness of `<` and needs no operator
  as a parameter.

## 7. Only model-checked

Liveness (`QueueDrains`, `Converges`, `DueTasksLeave`, `FailuresAreReadBack`,
`VanishedIsDetected`, `JobsSettle`, `PollingEnds`), which the prover does not
reach. Every other property of a passing run is a theorem, under the
hypotheses its statement names.

## 8. Not modelled

`PROJECT.json` lists every component with its status and the reason.

Left out of the modules that exist: which peers a change is addressed to
(`Peers` is what `pad` computes) and which changes are filtered out; the
consumer's special cases per table; the rows of a scheduled job's nodes; the
cron computation of the tasks; TEE and model jobs and the nodes the platform
runs itself; which nodes are watched and reconnection of a watch; that a status answer reads
the latest task of each node, and then the jobs, in statements of their own
(`graph_service.go:759-790`), where `RunStatus` reads them at once; parameters,
positions, selection and rendering of the canvas; password hashing, lock-out and
throttling; the logs and outputs shown for a node (`dag-next/src/index.tsx:1056`
applies a late answer under whatever node is selected by then).

Most of the TypeScript lines are no behaviour a model could tell apart: the
translations (`dictionaries.ts`), one wrapper function per endpoint
(`api-client/src/client.ts`) and the schemas of their answers, forms and tables
(`attribute-form.tsx`, `result-view.tsx`, the pages), and component definitions. The
modules cover the files in which the front end keeps state across awaits: the
editor, the canvas, the session, the router's rules and the run status. They are
a small share of the lines.

A database transaction is one step. On SQLite it is; on MySQL, which `dao/db.go`
provides for several instances, transactions that read before they write may
interleave further.
