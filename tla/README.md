# Formal models of re-mcp

`re-mcp` serves reverse-engineering databases (IDA, Ghidra) over MCP.  A stdio
*proxy* per client talks to one *daemon* per backend; the daemon hosts the
*supervisor*, which runs one *worker* process per open database and routes every
tool call to the worker of the database it names.  This directory holds TLA+
models of the parts whose correctness depends on orderings that tests do not
reach, the TLC runs that check them, and TLAPS proofs.

## 1. Inventory

| component | source (under `src/packages/`) | state | operations | what must hold |
|---|---|---|---|---|
| Worker pool | `re-mcp-core/…/worker_provider.py` | `_workers`, `_id_to_path`, per worker: state, sessions, client, pid, spawn/analysis/death-watch tasks, ready event | open, attach, detach, close, call, analyse, wait, list, shut down | one shutdown per worker; no session loses a worker it holds; limit kept; closed workers stay closed; waiters wake |
| Supervisor | `re-mcp-core/…/supervisor.py` | none of its own | management tools over the pool, signal handlers | as the pool |
| Tool transform | `re-mcp-core/…/transforms.py` | tool catalogue | `batch`, `call`, `search_tools`, `execute`, heartbeat | a batch reports what took effect; stop on first error |
| Daemon | `re-mcp-core/…/daemon.py` | state file, proxy tracker, idle timer | serve, idle monitor, state-file write and removal | the state file names a live daemon; idle exit only when idle |
| Proxy | `re-mcp-core/…/proxy.py`, `_process.py` | lock file, child process | discover, spawn, restart on version change, stop, bridge | at most one daemon per backend |
| Worker server | `re-mcp-core/…/server.py` | job queue, main thread | run a job on the main thread, stop | every submitted job ends; the stop overtakes none |
| Sandbox | `re-mcp-core/…/sandbox.py` | none | rewrite and run `execute` code | (static policy) |
| Helpers | `re-mcp-core/…/helpers.py`, `context.py`, `models.py`, `exceptions.py`, `backend.py` | registries | pagination, schemas, environment | page arithmetic |
| IDA session | `re-mcp-ida/…/session.py`, `server.py`, `helpers.py` | open database, cancel flag, auto-analysis queue | open, close, save, analyze, cancel, undo points | no work lost silently; "analyzed" is true; cancel reaches the running call only |
| IDA tools | `re-mcp-ida/…/tools/`, `prompts/` | the database and its undo history, in the SDK | 47 tool modules | each mutating call is one undo step; answers tell old and new values as they were |
| Ghidra session | `re-mcp-ghidra/…/session.py`, `server.py`, `helpers.py` | project, program, lock, transaction | open, close, save, analyze | nothing leaked by a partial failure; no work lost silently |
| Ghidra tools | `re-mcp-ghidra/…/tools/`, `prompts/` | the program and its undo history, in Ghidra | 47 tool modules | as IDA's; a failed call leaves nothing |

How they interact.  Client → proxy (stdio) → daemon (HTTP, found through the
state file) → supervisor → pool → worker (a child process, stdio MCP) → SDK.
The pool, the supervisor and the daemon's idle monitor are coroutines of one
asyncio event loop and share the pool's objects.  Proxies and daemons are
separate processes that share two files, the state file and the spawn lock.
Inside a worker the event loop and the main thread share a job queue.

What is hard.

* *Interleaving at awaits.*  Every `await` lets every other request run.  The pool
  takes entries out of its registry before it starts long shutdowns, keeps
  references to workers that left the registry, and is re-entered by cancelled
  requests, late answers, the death watcher and the session-disconnect callback.
* *Failure.*  Worker processes crash, hang and exit late; opens fail half-way;
  calls time out; a client may cancel a request at any await.
* *Several processes.*  Proxies race to start, restart and stop daemons.
* *Two threads.*  The worker's main thread runs SDK calls for the event loop.
* *Partial effects.*  An engine call fails between two others of one tool, one open or one
  close; what is left must match what the answer, the history and the session say.

## 2. Plan

1. `WorkerPool`, the registry and the life of workers, with the abstract
   `WorkerLease` it implements; proofs of its type invariant, its inductive
   invariant and the refinement.  *(done)*
2. `Analysis`: one worker's ready event, analysis task and its waiters
   (`wait_for_ready`, `wait_for_ready_multi`, `run_analysis`), with the ways the
   spawn task can end.  *(done)*
3. `Discovery`: proxies and daemons around the state file and the spawn lock.
   *(done)*
4. `WorkerProcess`: the worker's event loop and main thread, its signals and its
   end.  *(done)*
5. `ToolSteps`, `IdaTools`, `GhidraTools`, `ToolCalls`: what every tool of both backends
   does to the database and its undo history, with the abstract
   `EditHistory`; proofs of its invariant and the refinement.  *(done)*
6. `DatabaseSession`: opening, saving, closing and restoring databases with partial
   failures and kills, for both backends; proofs of all its properties.  *(done)*
7. `Gateway`: the idle monitor, the proxies' pings, and the meta-tools `batch`, `execute`
   and `call`; proofs of its safety properties.  *(done)*
8. Proofs of the remaining safety properties of `WorkerPool`, `Analysis` and `ToolCalls`,
   over invariants of their own on top of the first.  *(done)*
9. Proofs that nothing waits for nothing, the safety half of the liveness properties: who
   waits has a step to take, or waits for one who has.  `WorkerPool`, `Analysis`,
   `Discovery`, `WorkerProcess` and the idle monitor of `Gateway` *(done)*.  Left:
   pagination as an algorithm.

How the modules fit together.  `Discovery` brings a client to a daemon; `Gateway` keeps the
daemon alive and splits requests into tool calls; `WorkerPool` and `Analysis` find, start
and end the worker of a database; `WorkerProcess` carries a call to the worker's main
thread; `ToolCalls` and `DatabaseSession` are what the call does there.  Each module
abstracts its neighbours to the events it can observe (a call returns or fails, a process
dies), with every order of them allowed.

The modules are written to be proved about: constants with named assumptions, one
action per operation, record-level helper operators, no RECURSIVE operator.

## 3. WorkerPool

### What it models

`WorkerPool.tla` is `WorkerPoolProvider`, the fields of `Worker` that requests
share, and the two routing entry points `RoutingTool.run` and
`RoutingTemplate._read`.

| variable | code |
|---|---|
| `workers` | `_workers`, path → worker object (`NoWorker` when absent) |
| `idToPath` | `_id_to_path` |
| `created`, `wk` | the worker objects ever created: state, sessions, client and exit stack, process, death watcher, where the spawn task is suspended, the stale worker it replaces |
| `task` | the requests, analysis tasks and shutdown tasks suspended at an await |
| `registered` | `_registered_sessions` (sessions whose disconnect callback is installed) |
| `ended` | sessions that are over and that the pool still counts or has registered; it is not in the code, which does not learn of them |
| `phase` | the server serves, is in `shutdown_all`, has stopped |

The provider runs on one event loop, so an action is the code between two awaits.
`_lock` is never held across an await: it is never contended, acquiring it never
suspends, and a locked block is atomic with the straight-line code around it.

| action | code |
|---|---|
| `OpenDatabase`, `OpenDetaching`, `SpawnWorker` | `open_database` with `keep_open` true / false, `detach_all`, `spawn_worker` |
| `SpawnStart` … `SpawnRemove` | the stretches of `_background_spawn`: closing a stale worker, start and open, commit, ready, `_mark_failed`, `_remove` |
| `ToolCall`, `ReadResource`, `SaveDatabase`, `StartAnalysis`, `JoinAnalysis`, `QueuedDispatch`, `CallReturns`, `CallFails` | calls through `proxy_to_worker`; a failed call runs `mark_worker_dead` |
| `CloseDetaches`, `CloseTerminates`, `SpawnAwaited`, `SaveEnds`, `ClientClosed` | `close_for_session`, `_shutdown_worker`, `_close_client` |
| `CancelRequest` | a client cancels the request it has in flight, at whatever it awaits |
| `Disconnect`, `DisconnectUnnoticed`, `Connect` | a session ends: its disconnect callback runs `detach_all(terminate=False)`, or it has none and nothing happens; a new session takes a name that nothing refers to any more |
| `LateCall` | a call that a cancelled `execute` left behind, when its session is over |
| `ProcessDies`, `ProcessReaped`, `DeathWatch` | a worker's process and the death watcher |
| `Shutdown` … `ShutdownDone` | `lifespan` exit: `shutdown_all`, its 30 second deadline, `_force_close_remaining` |

Abstractions.  Resolving a database by id or by path ends in the same
`_workers.get(path)`, so calls name a path; a new id is any unused one (`_unique_id`
and custom ids both yield one); `BUSY` is `IDLE` with active calls, which the
`state` property computes, so it is not a state of its own; an analysis is a task
that calls the worker.  Callers without a session id (no MCP context) are not
modelled.  A request that joins an analysis has no effect when it ends and is
not kept as a task.  Every late call is a tool call.

`Manual` is the set of sessions at which `ensure_session_cleanup` fails to push its
callback ("session cleanup becomes manual-only"): every attach of such a session goes
through, and none registers it (`Registering`).

A cancelled request (`CancelRequest`) is cut at whatever it awaits.  `_shutdown_worker`
suppresses `CancelledError` around the spawn task it awaits, which does not save the
shutdown: the cancelled scope of anyio raises again at the next await, that of the
analysis or of the save, and the `finally` clause closes the client (`CutShort`).
`_force_close_remaining` closes one worker after another; the model starts all the closings
at once.

`WorkerLease.tla` is what a session may rely on, per worker: it is listed from its
creation until it is withdrawn for good, sessions take hold of it only while it is
listed and not closed, and its life runs opening → open → closed.

### Runs

`MCWorkerPool` adds symmetry sets only.  The bounds are `MaxObjects` (worker objects
created), the number of `Requests` slots (requests and analyses in flight at once)
and the sets of paths, ids and sessions.  Two objects of one path are enough for
every race between a worker and its successor, two requests for every race of two
requests; the properties relate at most two workers and two tasks.  Two sessions,
one of which has no callback, and cancellation with its late calls are kept apart, in
`reopen` and `databases`, to keep the runs short.  Deadlock is not checked: the server may stop, and clients may
do nothing.

| run | instance | shows |
|---|---|---|
| `reopen` | 1 path, 2 sessions, one of them in `Manual`, 2 requests, 2 objects | `TypeOK`; `OneShutdown`: a worker is shut down by one task; `NoAttachedSessionLosesItsWorker`; `EntriesMatchProcesses`: an entry that is handed out has its client, a dead one stands for no process; `AttachedSessionsWillDetach`: every session counted will be taken off when it ends, except one whose callback could not be installed, also when it attaches to a worker that is opening, comes back, or shares the worker with another; `OrphansReplaceAnother`: a process is left behind only where the path had been opened before; `ImplementsLease` |
| `databases` | 2 paths, 1 session, 2 requests, cancellation | `PoolInv`, the invariant that the proofs of `OneShutdown` and `NoAttachedSessionLosesItsWorker` rest on, when requests are cancelled, calls come in after their session, and `detach_all` works on several workers; `DeadIsFinal` |
| `live` | 2 paths, 1 request, `MaxWorkers` 1, fairness | `CapRespected`, `ShutdownsEnd`, `StoppingEnds` |
| `duplicate`, `lifespan` | 1 path, 1 session, 2 requests | two statements of the documentation that the code does not keep (below) |

Fairness (`live` only): the event loop runs every task that is ready; a closing
transport, SIGTERM and SIGKILL end a process (`_kill_pid`); `close_database` has a
60 second timeout, so a save ends.  Nothing is assumed of an open, a tool call or
an analysis, none of which has a deadline, nor of the 30 second deadline.

### Where the code and its documentation differ

* `NoDuplicateWorkers` (run `duplicate`).  `close_database` leaves the registry before the
  save; a reopen of the path meanwhile starts a second process on the database.
* `LifespanShutsDownAllWorkers` (run `lifespan`).  `mark_worker_dead`, `close_for_session`
  and `_remove` pop the entry at the worker's path and id without asking whether it is
  still theirs.  A call of a replaced worker that fails late removes the entry of the
  live one, whose process then survives `shutdown_all`.

Three more definitions of the module state what the code does not keep.  No listed run
names them; as an invariant of `WorkerPool_databases.cfg` each is violated.

* `AddressableById`: the same pop removes the id that a worker of another path was given.
* `DetachedAreShutDown`: `open_database(keep_open=False)`, cancelled while it closes the first
  of several workers, forgets the others, which left the registry already.
* `CountedSessionsAreConnected`: `ensure_session_cleanup` says that sessions are detached when
  they disconnect "so `check_attached` and `session_count` stay accurate".  A late call
  attaches a session that is over, and its callback goes on an exit stack that has
  unwound: the worker counts it until it is closed, `close_database` without `force` then
  only detaches the others, as does their `open_database(keep_open=False)`.  The same holds of a session whose callback could not be installed
  (`WorkerPool_reopen.cfg` violates it through `DisconnectUnnoticed`).

### Proofs

`WorkerPoolProofs` proves `TypeCorrect`, that `TypeOK` is an invariant, for every value of
the constants that meets `PoolAssumption`.  `WorkerPoolInvProofs` proves `PoolSafe`, the
conjunction of `PoolInv`, `OneShutdown` and `NoAttachedSessionLosesItsWorker`, inductive, and
from it the theorems `PoolInvariant`, `ShutDownOnce`, `AttachedSessionsKeepTheirWorkers`,
`DeadStaysDead` and `PoolImplementsLease`.

Why a strengthening is needed: `OneShutdown` alone is not inductive.  That a second task
cannot claim a worker rests on `Claimed` (what is being shut down has left the registry);
that a registry entry stays what it was on `Keyed` (an entry names an existing worker by
its own path, so a pop by path removes it); that no answer revives a worker on `OpenOK` (a
worker whose open is under way is STARTING) and `WorkerOK` (only a DEAD worker is
replaced, an object not yet created is untouched); and `TaskOK` ties a task to a worker
that exists and whose spawn task is over when its client is closed.

The argument: every step changes a worker's record in one of a few ways.  `Moves(r, q)`
says what all but an attach have in common (identity kept, life only onward, an open
that is over stays over, no session gained); an attach is `Granted`, a creation is `Born`.
Record-level lemmas show it for each helper; one lemma per group of actions lifts them
to the step; `TasksSafe` turns "every worker moves or is granted, every task is kept or
claims a worker that leaves the registry" into the whole invariant.  The same step
relation, `LeaseStep`, is a step of the lease.

More invariants stand on `PoolSafe`.

* `EntryInv` says what an entry tells of its process: a running process belongs to an open
  that is under way or to an IDLE worker with its client (`UpOK`); the process of a
  registered worker is torn down only by its own failed open (`RegOK`); a worker that is
  being replaced has left the registry; a client is closed only for a DEAD worker; the
  session of an open that still detaches is `Known` (below).  The argument has the same shape: `Sound` says that a value of the worker records keeps these
  conditions and gains no session but a known one, each helper keeps `Sound`, and each
  group of actions is an `EntryStep`.  From it follow `EntriesTellTheTruth` and
  `PoolIsBounded`.  The last needs that spawn_worker's check of MAX_WORKERS and its insertion
  are one step (`Enrolled`), and that no other step adds to the registry or revives a worker.
* `CountedSessionsWillDetach` needs that a session which a worker counts is `Known`: it is registered, or its callback could not be
  installed (`CountedKnown`, by `EntryStep`), and that a session is both over and registered
  only if requests can be cancelled (`EndedApart`).  The theorem says with that when
  the counting is right: where every callback can be installed and no call outlives its
  request, only connected sessions are counted (`CountedSessionsAreConnected`).
* `HeldInv` says who still leads to a process: the worker a path names is its newest, and a
  worker that is the first of its path, while it lives, is listed or in the hands of a task that
  shuts it down.  Each step is a `HoldStep`: a worker leaves the registry only when a newer one
  took its path, when a task claims it, or dead; and a task lets go of it only dead.
  `FirstWorkersAreHeld` concludes `OrphansReplaceAnother`.  It assumes `~Cancels`: a
  cancelled `open_database` forgets the workers it was about to shut down, which is the
  violation of `DetachedAreShutDown` above.
* `WaitInv` is the part of `ShutdownsEnd` and `StoppingEnds` that no fairness is needed for.
  A shutdown awaits one thing that could go on without end, the spawn task of an open.
  `ShutdownsGoOn` says that it has cancelled that task first, and that no step gives it back its
  life: only its cleanup is left (`ShutdownsNeverHang`).  `PathsInv` says which tasks
  shutdown_all has at each of its stages; with it, each of them has a step whose guard holds,
  whatever entries a late death drops from under it (`StoppingNeverHangs`).

### Only model-checked

The liveness properties `ShutdownsEnd` and `StoppingEnds` (fairness and ENABLED are out of
the prover's reach).

## 4. Analysis

### What it models

`Analysis.tla` is what a request learns that waits for a database.  Each database is
one `Worker` object, opened once; the registry and the replacement of workers are
`WorkerPool`'s and appear here only as `listed`.

| variable | code |
|---|---|
| `db` | the fields of each `Worker`: state, client, `_ready_event`, `_spawn_error`, `_analyzed`, `_analysis_error`, `_analysis_task`, `_last_analysis_result`, and where `_spawn_task` and `_shutdown_worker` are suspended |
| `passes` | the analysis tasks ever created for it |
| `caller` | the requests: what they wait for, the child task per database, the pass each joined, the answer |

| action | code |
|---|---|
| `SpawnStart` … `SpawnRemoved` | `_background_spawn`, `_mark_failed`, `_remove`, a cancellation before the first step included |
| `PassCalls` … `PassCancelled` | `_background_analysis` and `proxy_to_worker` under it |
| `Close` … `CloseEnds` | `_shutdown_worker` with `cancel_analysis` |
| `WorkerDies`, `CallLosesWorker` | the death watcher, `mark_worker_dead` after another call |
| `Wait`, `WaitMulti`, `ChildStarts`, `OpenAwaited` | `wait_for_ready`, `wait_for_ready_multi`, `_await_analysis` |
| `RunAnalysis`, `JoinEnds`, `MultiAnswers`, `CancelCall` | `run_analysis`, the end of a joined pass, the end of `asyncio.wait`, the tool's timeout and the client's cancellation |

A task that was woken runs in a step of its own, however late; asyncio runs it within a
turn or two of its loop, and the behaviours reported below need no more than that.

### Runs

Two requests and one database show every race of two requests for one analysis; three
passes occur, one started by the open, one by a wait and one by the tool, and
`MaxExplicit` bounds only those the tool starts (the code bounds the others).

| run | instance | shows |
|---|---|---|
| `analysis_worker` | 1 database, 2 requests, fairness | `AnalysisInv` (one running analysis, and `_analysis_task` is it); `WaitsForOpening` (nobody is told anything before the ready event, the fix of #5); `OnlyCloseCancelsAnalysis`; `AnalysedOnce`; `CloseTerminates`; `WaitersReleased` |

Fairness (`FairSpec`): the event loop runs ready tasks, and a close ends within its 60
second timeout.  Nothing is assumed of `WorkerAnswers`, because opens and analyses have no
deadline, so `WaitersReleased` excepts a worker that is silent for ever, and an open that a
close cut short, which is the first divergence below.

### Where the code and its documentation differ

No listed run names the following definitions; each is violated when it is added to
`Analysis_worker.cfg` as an invariant (`ReadyIsAnalyzed` as a `PROPERTY`).

* `SpawnAlwaysSignals`: the docstring of `_background_spawn` (worker_provider.py:1586) says the
  task sets `_ready_event` when the database is open, or on failure.  A spawn task cancelled
  before its first step, or while `_mark_failed` cleans up, ends without setting it; a
  request that waits for it waits until it is withdrawn.
* `MultiAnswersReady`, with `Dbs = {d1, d2}`: the docstring of `wait_for_ready_multi`
  (worker_provider.py:1343) says it returns as soon as at least one database is ready, or
  all have failed.  It returns as soon as one database failed, with none ready and the rest
  pending.
* `ReadyIsAnalyzed`: a worker that died before its analysis stays listed; waiting for it
  skips the analysis and answers "ready".
* `FailedPassRaises`: the joiner of a failed pass reads the worker's error after another
  request's new pass cleared it, and returns the failure as a result.
* `CancelledIsToolError`: a close ends the joiner with `CancelledError`; the `ToolError`
  written for that case is not reached.

### Proofs

`AnalysisProofs` proves `AnalysisInvariant` and `OneAnalysisAtATime` for any number of
databases, requests and passes.  `OneAnalysis` needs `JoinsExist`: `cancel_analysis` clears
`_analysis_task` after an await, which is safe only because the task it awaited is over
and is compared with the one stored.

`OnlyCloseCancels` (`OnlyCloseCancelsAnalysis`) follows from what every step keeps: passes
and closes only go on (`Grows`), and the step that cancels a pass is a step of a close
(`CancelledByClose`).  `WaitsForTheOpen` (`WaitsForOpening`) is proved over `Hearing`: a
request's tasks are about databases it asked for, one that is past the open is about a worker
whose ready event is set, and so is an answer; a ready event, once set, stays set.

`WaitingAnalysesOnce` (`AnalysedOnce`) is proved over `Tried`: a worker has no pass before
its open is over; a pass that is past its call has left its outcome with the worker
(`analyzed`, the error, or its death); and where there was a pass, one is running, or an
outcome is there, or the worker is being closed.  A pass that was cancelled leaves no
outcome, so the proof rests on `OnlyCloseCancels` too.

Two theorems are the part of the liveness properties that no fairness is needed for.
`ClosesNeverHang`: a close that awaits the spawn task or the analysis has cancelled it, so
one of the two has a step.  `RequestsNeverHang`: each database a request still waits for
has an open or a pass to end, or the request has its turn; only a close, which cuts an open
short without its signal, leaves it waiting.  They rest on `Holding` (a spawn that is over
has signalled, or a close is under way) and `Waiting` (a request is at a place its operation
has, with no task that is not its own).

Only model-checked: the liveness properties themselves, which need fairness.

## 5. Discovery

### What it models

`Discovery.tla` is how `proxy` and `stop` processes and daemons meet in the state file
`daemon.json` and the lock `daemon.lock`.  Reading the file, probing a pid, sending a
signal and removing the file are separate steps of separate processes.

| variable | code |
|---|---|
| `file` | the daemon that `daemon.json` names |
| `lock` | who holds `daemon.lock` |
| `daemon` | each daemon process: where `serve` is, its version, the proxy it is a child of |
| `proc` | each `proxy` and `stop` process: where it is, its version, the daemon it read or started |
| `killed` | the daemons that got SIGKILL as they shut down |

| action | code |
|---|---|
| `Read`, `Check`, `Lock`, `ReadLocked`, `CheckLocked` | `_ensure_daemon` |
| `CheckStop` | `stop` |
| `Terminate`, `ExitSeen`, `Kill`, `RemoveState` | `_stop_daemon`, `_wait_for_exit`, `remove_state` |
| `Spawn`, `PollFinds`, `PollFails`, `PollDeadline` | `_spawn_daemon` |
| `ProxyDies`, `ProxyLeaves` | the proxy is killed as it waits; its bridge ends |
| `Serve`, `WriteState`, `Serving`, `Stopping`, `RemoveOwnState`, `Dies` | `serve`, its state file and its end |

The processes are those of Unix.  There a daemon is a child of the proxy that started
it, and once it has ended it is a zombie, which signal 0 reaches, until that proxy
ends; `Alive` says so.  On Windows SIGTERM kills at once and there are no zombies.  A
daemon's number stands for its pid and port, and pids are not reused.  The choice of an
idle daemon to stop is nondeterministic (`Stopping`).

### Runs

Three proxies are the least in which one replaces the daemon of a second while a third
starts; three daemons are enough for a first one, its successor and one too many.  A
proxy starts at most one daemon, so `MaxDaemons` (how many a behaviour starts) leaves
one for each proxy and, in `discovery_live`, one for the user (`Manual`, the daemons that
users start by hand).  Processes end, so deadlock is not checked.

| run | instance | shows |
|---|---|---|
| `discovery_proxies` | 3 proxies, 3 versions, 3 daemons | `DiscoveryInv`, `OneDaemonUp`, `Discoverable`, where nobody interferes |
| `discovery_live` | 2 proxies, a stop, a daemon started by hand, interruptions, fairness | `ProcsEnd`: no proxy waits for ever, not for the lock either, so every way out gives it back |

Fairness (`discovery_live`): proxies and stop commands run, and their deadlines pass.
Nothing is assumed of daemons.

### Where the code and its documentation differ

Five definitions of the module state what the code does not keep, each violated in
`Discovery_proxies.cfg` with the constant named here:

* `ReusesRunningDaemon` (as a `PROPERTY`, without the symmetry), with the constants as they
  are: a daemon is a child of the proxy that spawned it, which never waits for it.  Once
  it has crashed, signal 0 still reaches it as long as that proxy runs, and another proxy
  settles on the dead daemon.
* `OneDaemonUp` with `Interrupts = TRUE`: a proxy whose 15 seconds end, or that is killed as
  it polls, frees the lock while the daemon it started has no state file yet.
* `Discoverable` with `Stops = {s1}`: `stop` takes no lock and removes the state file of the
  daemon that a proxy started while it waited.
* `Discoverable` with `Manual = {2, 3}`: `serve` overwrites the file, and its `finally`
  removes it, without asking whose it is.
* `Graceful`, with the constants as they are: SIGKILL follows SIGTERM after five seconds, in
  the middle of a shutdown that gives workers 30.

### Proofs

`DiscoveryProofs` proves `DiscoveryInvariant` with no assumption but `DiscoveryAssumption`, and from
it, assuming `Calm` (no stop command, no daemon started by hand, no interrupted proxy),
`NoSecondDaemon` and `ServingIsNamed`.  The three disturbances are exactly those of the
findings: each of them breaks the property.  `OneDaemonUp` is not inductive: that no second
daemon is started rests on `Knows`, what the one process in the critical section may rely on
(`LockHeld`): a daemon that is up is the one it read under the lock, or started, and it
removes the file and starts another only when none is up.  `FileMatches` is the daemons'
side: the file names whoever wrote it until that daemon leaves it.

Two theorems are the part of `ProcsEnd` that no fairness is needed for, and hold under every
disturbance.  `ProcsGoOneWay`: each step takes its process to a state of higher `Rank`, so it
takes at most twelve.  `ProcsNeverHang`: a process that waits for the lock waits for a holder
that has a step (`LockHeld`: every way out of the critical section, the death of the proxy
included, gives the lock back); any other has a step of its own.  Excepted are the poll of a
daemon that runs but cannot be found, where the deadline is the only way out, and the bound
`MaxDaemons`.  They rest on `Places`: a stop command takes no lock and starts nothing, and a
proxy polls only for a daemon it started.  `ProcsEnd` itself, which needs fairness, is
only model-checked.

## 6. WorkerProcess

### What it models

`WorkerProcess.tla` is one worker process, from the arrival of a call to the exit.  The
MCP server runs on a daemon thread of its own; `MainThreadExecutor` carries the calls to
the main thread, which also takes the signals and saves the database in `main`'s `finally`.

| variable | code |
|---|---|
| `call` | per tool call: what it does, its future, whether an async tool is past `require_open`'s check, whether the supervisor's request for it was cancelled |
| `queue` | `MainThreadExecutor._queue`, with the sentinel |
| `main` | the main thread: in `run_forever`, in `main`'s `finally`, or the process has ended; the job it runs |
| `loop` | the MCP thread: serving, ending its handlers after stdin closed, ended |
| `db` | `session`: no database open, or an open one without or with changes |
| `flag`, `usr1` | the engine's cancellation flag; a SIGUSR1 that was sent and not yet handled |

| action | code |
|---|---|
| `Submit`, `Resume` | `dispatch_to_main` of a call, and of the body of an async tool after its check |
| `CancelFuture`, `StdinCloses`, `LoopEnds` | the MCP thread: a handler is cancelled, stdin ends, `mcp.run` returns or raises and `_run_mcp` queues the sentinel |
| `Take`, `JobEnds`, `Answer` | the steps of `run_forever`: take an item, run it up to the test of the future, `set_result` or `set_exception` |
| `JoinEnds`, `SaveOnExit` | `main`'s `finally` |
| `Withdraw`, `Sigusr1`, `Sigterm`, `Kill` | the supervisor's `_signal_cancel` and the worker's handlers; the death of the process |

The two threads interleave between any two of these steps, so a future may be cancelled
between the test and `set_result`.  A job is one call of an engine: what it returns, and
whether it changed the database, is nondeterministic, and it fails as cancelled only if
the flag is set.  `HandlesUsr1` tells the backends apart: IDA's session installs a handler
for SIGUSR1, Ghidra's does not, and the signal's default action ends the process.  Left
out: SIGINT (the same flag, sent by a terminal), the undo points some tools create, and a
failure of the save on exit, which is logged.

### Runs

Two calls are the least for a cancelled call and another one that suffers for it, and for
a call that waits behind the sentinel or behind a call that left the loop; each call may be
of any kind, and one of them an async tool, which comes back to the queue.  The process
ends, so deadlock is not checked.

| run | instance | shows |
|---|---|---|
| `process_calls` | 2 calls, fairness | `ProcessInv`, the invariant of the proofs; `StopDrains`: the sentinel overtakes no call; `CallsEnd`: every call is answered, cancelled or cut off by the end of the process; `ProcessEnds`: a worker whose stdin closed, or whose main loop was left, ends |

Fairness (`process_calls`): both threads run, and the join has its five seconds.  Nothing is
assumed of an engine call, so `CallsEnd` and `ProcessEnds` except one that never returns, nor
of stdin and signals.

### Where the code and its documentation differ

No listed run names the following definitions.  Each is violated as an invariant of an
instance with two calls and `SPECIFICATION Spec`, otherwise that of `WorkerProcess_calls.cfg`,
with `HandlesUsr1 = TRUE` (the last one with `FALSE`).

* `OnlyWithdrawnInterrupted`: SIGUSR1 names no call.  If the main thread has gone on to
  another call when the signal arrives, that one fails with error type `Cancelled`.
  Clearing the flag before each call (`_check`) covers signals that arrive between two
  calls, not this one; it also clears a flag that was meant for an async tool whose body
  still waits in the queue.
* `TermSaves`: a SIGTERM that arrives in the `finally`, a second one for instance, ends the
  process before the save.
* `LoopSurvives`: a future cancelled between the test and `set_result` raises
  `InvalidStateError`, which leaves `run_forever`; the worker ends, and saves, while clients
  use it.
* `SignalSparesWorker`: a cancelled request of a Ghidra database ends its worker, without a
  save.

### Proofs

`WorkerProcessProofs` proves `ProcessInvariant` for any number of calls, and from it
`SentinelIsLast`, with no assumption but `ProcessAssumption`.  `StopDrains` is not inductive:
that no call is open when the main thread stops at the sentinel rests on `StopIsLast` (only
a thread that has ended queues it, and it ends with no call open unless a job raised
`SystemExit`, in which case the main thread has left already), and that the answer to one
call leaves the queue consistent rests on `QueueOK` (a call is dispatched once at a time).

`NoCallLost` is the converse of `QueueOK`: while the main thread is in `run_forever`, a pending
call is in the queue or at work, and the sentinel of a loop that ended is there too.
`ThreadsNeverDeadlock` follows: a worker that has not ended is idle, or one of its threads
has a step to take with no signal or cancellation to help.  `CallsAnsweredOnce` is an action
property of the futures: one that is settled never changes, though the main thread tests for
a cancellation and answers in two steps and SIGTERM answers from wherever the job is.
Liveness itself, which needs fairness, is only model-checked.

## 7. ToolCalls

### What it models

What the tools of both backends do to the open database and to its undo history.  `ToolSteps` is a vocabulary: a tool is the set of the paths its
code can take, a path the sequence of the steps that matter (a test that may raise, a
value read for the answer before or after, an edit that the engine may refuse, the bounds
of a transaction, an analysis pass).  `IdaEdits`, `IdaTools` and `GhidraTools` describe
each of the 322 tools that edit or read a database in it, in the order of the tool's own
statements; loops make none, one or two rounds.  Contents are abstracted to *parts*
(names, types, bytes, ...).  `ToolCalls` is the machine that runs the paths.

| variable | code |
|---|---|
| `backend` | IDA (undo points) or Ghidra (transactions) |
| `db`, `past`, `future` | the content of the database, the engine's undo and redo steps; a content is named by the call that made it and that call's commits |
| `state`, `tool`, `path`, `before`, `changed`, `commits`, `pointed` | the running call, the steps it has left and what it did so far |
| `tx` | Ghidra's open transaction |
| `rests` | the contents the database had between calls (for the properties) |

| action | code |
|---|---|
| `Call`, `UndoPoint` | `IDABackend._guard`, `_with_undo_point`, `_create_undo_point`, the read-only annotations and `UNDO_POINT_EXEMPT` |
| `Begin`, `End`, `Raise`, `Terminate` | `transaction` of Ghidra's `helpers.py`: a commit, a rollback on an exception, a commit on `SystemExit` |
| `Clear` | `_clear_undo_history` after an analysis pass; the engine's own clear when Ghidra has saved a program |
| `Pass`, `Change`, `Revert` | a tool's own statements |
| `Undo`, `Redo` | `perform_undo`, `perform_redo` |
| `Finish`, `Return` | the end of a job in `MainThreadExecutor` |

`EditHistory` is what the undo and redo tools promise: contents on a line, an edit puts one
in front and cuts the rest off, undo and redo move along it.

Abstractions.  What the engine computes, and whether it accepts an edit, is
nondeterministic.  A tool's statements run on the main thread, one call after the other;
an IDA tool that is async and dispatches several jobs may in the code let another call run
between two of them, which the model does not have.  `Splitting` and `Partial` name the
tools that edit in two transactions or may raise after a commit, which the properties
except.

### Run

| run | instance | shows |
|---|---|---|
| `tool_calls` | both backends with all their tools, 3 calls, `Limit` 2 | `CallsInv` (types, the history's limit, no transaction outlives its call); `FailedCallLeavesNothing`; `UndoLandsBetweenCalls`: undo and redo only return to contents that the database had between two calls; `UndoTakesBackTheCall`: whatever part of its edits a call has made when it ends, the next undo takes back that call and nothing before it, and a pass of the analysis leaves nothing to be undone; `ImplementsHistory` |

Three calls are the least for an edit, an undo and a redo, or an edit, an undo and another
edit that cuts the redo off; two undo steps are the least at which the limit drops one
while an undo is still possible.

### Where the code and its documentation differ

* `set_function_type` of Ghidra parses the type in one transaction and sets it in another
  (function_type.py:152 and 161), so a failure of the second leaves the first, and the call
  is two undo steps, where the undo tool's docstring says that a failed call leaves none.
  `Partial` and `Splitting` except it and the few others of its kind.
* `evaluate_expression` of IDA is annotated `readOnlyHint` and evaluates an arbitrary
  expression of IDA's language, which may assign to the database (utility.py:104); no undo
  point is taken for it.
* `parse_type_declaration` of IDA answers `saved=False`, "Anonymous type parsed but not saved
  to local types", when `parse_decls` counted errors and the fallback succeeded
  (typeinf.py:333-356); the types that `parse_decls` had registered by then stay, and only
  the path that raises discards them.  `ReadsAssumption` excepts the tool by name
  (`Misreporting`); without the exception TLC reports the assumption false.
* Undo on Ghidra works (undo.py, architecture.md:249), but the docstring of
  `delete_local_type` says that it is "not available on Ghidra" (typeinf.py:144-145), and
  architecture.md:427 that the undo tools are "IDA only; not registered on Ghidra".
* On SIGTERM `transaction` commits half an edit: `SystemExit` is no `Exception`.
* Loops of IDA tools that end on the cancellation flag by `break` return what they have as
  if it were all; and `get_call_graph` shares its visited set between branches although
  it limits the depth, so that what it lists depends on the order.  These are outside the
  model (contents of answers are).

### Proofs

`ToolCallsProofs` proves everything `tool_calls` checks, for every table of tools that meets
the assumptions of `ToolCalls`, any limit and any number of calls.  TLC evaluates the assumptions for the tables of the 322 tools, at every start:

* `PathsAssumption`: transactions do not nest, and end.  From it `ToolCallsInvariant`:
  `Bracketed` says that what is left of a path ends the open transaction before it begins
  another, `Covered` that the content to roll back to is the one before the call or one
  the call committed.  It gives `CallsInvariant`, `FailedCallsRollBack` and
  `CallsImplementHistory`.
* `CommitsLastAssumption`: in a tool of Ghidra nothing can raise after a transaction that
  changed something, the `Partial` tools excepted.  `LastCommits` follows the assumption
  along a call: while an open transaction has changed the database, what is left of the
  path is sealed; after a commit it cannot raise.  It gives `FailedCallsLeaveNothing`.
* `OneUndoStepAssumption`: a tool that has changed the database begins no other undo step,
  the `Splitting` tools excepted, unless the history is cleared right after it (the second
  transaction of an analysis).  `Landings` says that the history holds contents from
  between calls only, or is about to be cleared, and that a database in the middle of a
  call can only enter the history through a transaction that a clear forgets.  It gives
  `UndoReturnsBetweenCalls`.
* `AnalysisAssumption` and `UndoPointAssumption`: once a tool of Ghidra has let the engine
  analyze, the history is cleared before anything can raise, and a tool of IDA that runs
  under an undo point leaves the history alone.  `UndoPointKept` follows the second along a
  call.  `Steps` follows the first and `OneUndoStepAssumption`: outside a transaction, what
  differs from the start of the call is in the newest undo step, or the history was dropped
  or is about to be; inside one that began after a change, a clear is next.  They give
  `UndoTakesBackCalls`.

One assumption is about the tables alone and no theorem uses it.  `ReadsAssumption`: a tool
reads the old value of what it changes before the first change and the new value after the
last, and says that it left a part alone only if it did.  Whether an answer is true is
settled by the order of the statements in one tool, so it is checked there, for all paths of
the 322 tools, and not along behaviours.

## 8. DatabaseSession

### What it models

`DatabaseSession.tla` is the `Session` of a worker of either backend with the files it
opens: every engine call of `open`, `save` and `close` is a step of its own that may fail,
and the process may be killed between any two.

| variable | code |
|---|---|
| `disk` | per file (a Ghidra project, an IDA database or snapshot) the program saved in it |
| `current` | `_current_path` |
| `memory`, `filed` | the program that the session (or the running open) refers to, and whether it has a file in its project (`canSave`) |
| `opened`, `held` | what the engine has: the projects or the database that are open, the programs that a consumer of this process holds |
| `call`, `answer`, `failed` | the running call and its next engine call, the last answer, the files a call failed on |
| `work` | the number of edits so far |

The session and the engine are kept apart.  The `finally` of `close` drops the session's
references and nothing in the engine (`Forget`), so after a close that fails at the save the
program stays unreleased and its project open, and after an open that fails the project is
closed or not while the program stays held.  Such leftovers lock their project
(`Locked`) against every later open of this process.

A program is its last edit, whether a full analysis ran over it, and whether it says so
(Ghidra's "analyzed" option, IDA's empty queue).

| action | code |
|---|---|
| `OpenDatabase`, `Start` | `open_database` of either backend; an open closes what is open first |
| `Prepare` … `Commit`, `OpenFails` | `Session.open` of Ghidra: `force_new`, project, program or import, options, analysis, the `except` clause |
| `IdaOpens`, `IdaCloses` | `Session.open` and `close` of IDA |
| `Save`, `Release`, `Shut`, `CloseFails`, `Forget` | `Session.close` of Ghidra with its `finally`; the engine call that raises has had its effect or not (`EngineAsFarAs`) |
| `SavedIn`, `Stale`, `NotSaved` | `Session.save`: the program's own file, or a stale file deleted and a new one created |
| `RestoreSnapshot`, `TakeSnapshot` | IDA's snapshots |
| `AnalyzeDatabase`, `ReanalyzeRange`, `SaveDatabase`, `Edit` | the tools that leave the session open |
| `Exit`, `Killed` | `main`'s `finally`; SIGKILL, a crash, or a SIGTERM in the middle of an open or a close |

Abstractions.  A save that raises or is killed has written the program, has not, or has
deleted the stale file without a new one; a failing `createFile` leaves no file.  IDA saves
to the database it opened, and has at most one open; a partial removal by `force_new`
counts as none; an analysis that is cut short leaves the program as unanalyzed as before.
`Renamed` has the files whose program the loader names otherwise in spite of
`name(binary_name)`: `open` logs it and goes on, and no later open finds the program.
Command line options, fat binaries and language selection are left out.

### Run

| run | instance | shows |
|---|---|---|
| `sessions` | 2 databases, one of them renamed by the loader, a snapshot, 2 edits, both backends | `SessionInv`: a session that is open has its own database open in the engine and its program in use, whatever failed calls on this or another file have left behind; `LocksFollowSession`: what the engine has open or in use outlives its session only if a call failed on it; `AnalyzedMeansAnalyzed`: nothing claims an analysis that it has not had, however it was saved, reopened and partly reanalyzed; `NoWorkDroppedSilently`; `SavedWorkStays` |

Two databases are needed for an open that closes another, and for what one leaves in the
engine to meet an open of the other; two edits for an older program that replaces a newer
one.  The process ends, so deadlock is not checked.

`SessionInv` does not say that a session that is not open has nothing open in the engine:
that is false, and `NoLockLeftBehind` below shows it.

### Where the code and its documentation differ

No listed run names the following definitions; each is violated when it is added to
`DatabaseSession_calls.cfg` (the second as a `PROPERTY`).

* `NoLockLeftBehind`: docs/architecture.md:250 releases the program before the project so that
  no `.lock` file stays.  If the save of a `close` fails, the `finally` forgets the
  session with the program unreleased and the project open; a later close finds nothing
  to do, the lock stays until the process ends, and no open of the file succeeds before.
* `RestoreRevertsDatabase`: after `restore_snapshot` the session is on the snapshot's file,
  and later edits and saves go there, not into the database.  Its docstring also says
  that it destroys unsaved changes; it saves them.

`SavedWorkStays` excepts the `Renamed` files, and is violated without the exception: the
work saved under the loader's name is not found by the next open, which imports the binary
anew, and the save of that import deletes the file as a stale one.

Two observations outside the module: a `SIGTERM` in the middle of `Session.close` runs its
`finally`, so `main` finds nothing open and saves nothing; and a `GhidraError` raised inside
`open`'s `try` is re-raised without the project's close unless it was closed before.

### Proofs

`DatabaseSessionProofs` proves all five properties of the run for any number of files and
edits: `SessionInvariant`, `LocksFollowSessions`, `AnalyzedIsTrue`, `WorkIsSaved`,
`SavedWorkIsKept`.  `SessionHoldsItsProgram` speaks of the state between calls only;
`CallsInOrder` is what makes it inductive: how far a call is tells what the engine has.
`MemoryOK` (the program that is open is no older than its file) and `FiledOK` (if the file
has a program, the one that is open came from it, so that no save takes it for stale)
carry `SavedWorkIsKept`; both speak of `MayFind` files only, which the loader has not renamed.

## 9. Gateway

### What it models

`Gateway.tla` is the daemon's front: who is connected, what the idle monitor makes of it,
and the meta-tools that run several calls for one request.

| variable | code |
|---|---|
| `client` | per client its connection (uvicorn), its registered session (`_registered_sessions`), and how long ago it pinged |
| `tracker` | `ProxyTracker._last_seen` |
| `monitor` | `_idle_monitor`: the time to its next poll, `idle_since` |
| `serving` | `server.should_exit` |
| `busy` | `has_active_work` on account of other requests |
| `req` | one request for `batch`, `execute` or `call`: its results, the operation in a worker, what took effect |

| action | code |
|---|---|
| `Connect`, `Ping`, `Attach`, `Leave`, `Die`, `ConnectionLost` | `_bridge`, `_keepalive`, `_wrap_with_health`, `ensure_session_cleanup`; proxies and clients that talk HTTP themselves |
| `Tick`, `Poll` | time; a round of `_idle_monitor` |
| `Batch`, `Execute`, `Call`, `Refused`, `Dispatched`, `Returns`, `Progressed`, `ProgressFails`, `ExecuteEnds` | the meta-tools, `_check_blocked`, `_safe_call_tool`, `report_progress`, `RestrictedPythonSandbox.run` |
| `Cancel`, `LateEnd` | the client withdraws the request; what it had in a worker ends later |
| `WorkStarts`, `WorkEnds` | opens, analyses and calls of other requests |

Time is discrete and urgent: a tick waits for a poll that is due and for the ping of a live
proxy (`MaxSilence`).  Ages are capped where no comparison tells them apart.

`TimingAssumption`: `PollInterval < KeepaliveTimeout` and `MaxSilence < KeepaliveTimeout +
IdleLimit`.  With the code's values a poll is every 10 s, the keepalive timeout 90 s, the
idle limit 300 s.  A proxy pings every 30 s, but one ping may hang for the client's read
timeout of 300 s, so `MaxSilence` is at most 330, below 390.  With a configured idle timeout
below 240 s a ping that hangs can cost a live proxy its daemon.

Abstractions.  One meta-tool request at a time is followed, and its calls one after another
(the code of an `execute` may also await several with `asyncio.gather`); a client keeps the stream open
while it is alive; after `should_exit` the pool's shutdown takes over (`WorkerPool`); the
heartbeats of `run_with_heartbeat`, whose errors are swallowed, and the hints in answers are
left out, as are `search_tools` and `get_schema`, which only read.

### Run

| run | instance | shows |
|---|---|---|
| `gateway_idle` | 2 clients, 2 operations, `PollInterval` 1, `KeepaliveTimeout` 2, `IdleLimit` 1, `MaxSilence` 2, fairness | `GatewayInv`; `BatchTells`: an answered batch lists what took effect, stops where it should, and ran everything unless it is marked cancelled; `LiveProxyKeepsDaemon`: no daemon ends under a live proxy, however late its pings and whatever other clients do; `DaemonExits`: a daemon that served proxies ends when all clients are gone, also when they left sessions and connections behind |

The intervals are the least that keep the assumption and in which a ping may come after
the keepalive timeout has passed and the idle timer has started.  Two clients are the
least for one that dies while another lives, two operations for a batch with something
before and behind a failure.

Fairness: time passes, the monitor polls, the event loop goes on with a request, and a
worker ends the calls it has (otherwise the daemon has active work for ever).
`DaemonExits` excepts a daemon that no proxy ever pinged: its orphaned sessions count for
ever, and it never ends.

### Where the code and its documentation differ

No listed run names the following definitions; each is violated when it is added to
`Gateway_idle.cfg` (the second and third as invariants, the others as `PROPERTIES`).

* `ExitsOnlyIdle`: docs/architecture.md:67 has the monitor exit when there are no
  connections, sessions, calls or keepalives.  Once one proxy has gone silent, the
  connections and sessions of other clients, which talk HTTP and do not ping, do not count.
* `CancelledMeansStopped`: `BatchResult.cancelled` is described as "Whether batch stopped before
  completing all operations"; with `stop_on_error` it is also set when the last operation
  fails and nothing was left to do.
* `BatchAlwaysAnswers`: docs/tools.md and `batch`'s docstring promise the structured `BatchResult`
  in any case.  `batch` reports progress between two operations outside its inner `try`: an
  error there loses the results of operations that took effect.  `run_with_heartbeat`'s
  docstring says of the same errors that they must never abort the underlying work.
* `CancelledExecuteStops`: the task that runs an `execute`'s code is awaited by `asyncio.wait`,
  which a cancellation does not pass on; a withdrawn execute goes on calling tools.

### Proofs

`GatewayProofs` proves `GatewayInvariant`, `BatchesTell` and `ProxiesKeepTheDaemon` for any number of
clients and operations and any intervals that keep `TimingAssumption`.
`LiveProxyKeepsDaemon` rests on `TimerBehindPings`: while the idle timer runs, the latest ping
is either older than the keepalive timeout and the timer's age together, or will be fresh
at the next poll, which resets the timer; and on `PingsSeen`: the tracker's age is at most
the silence of any live proxy.

`DesertedDaemonEnds` gives `DaemonExits` its time.  A daemon is `Deserted` when its clients are gone,
the latest ping is older than the keepalive timeout and no worker is at work.  `TimeLeft` counts
the ticks that can still lie before the poll that ends it: no step raises it, every tick
lowers it by one, and it is at most two poll intervals and the idle limit (320 s of the
defaults).  What clients left behind, sessions and connections, is in none of these terms.  The only
step out of `Deserted` is the dispatch of a call by the task of an execute, which its client left
behind.  That ticks and polls go on needs fairness: `DaemonExits` is only
model-checked.

## 10. Not modelled

* The RestrictedPython policy of `sandbox.py`: a static rewriting of source text.
* The contents of answers: formatting, pagination, schemas, the rendering of signatures,
  error texts, prompts, resources.  Most of the lines that no module maps are of this kind.
* What the engines compute: the SDKs are not in the repository.
* Command line options, language and loader selection, fat binaries, the capabilities
  probe, environment variables.
* The message bridge of the proxy (two forwarding loops), the bearer token, logging.
* Signals of the supervisor's own process.

Liveness is checked by TLC alone: it needs fairness and ENABLED, which are out of the
prover's reach.  No module uses recursion.
