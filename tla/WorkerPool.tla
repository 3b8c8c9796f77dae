----------------------------- MODULE WorkerPool -----------------------------
(***************************************************************************)
(* The worker pool of the supervisor: re_mcp.worker_provider's             *)
(* WorkerPoolProvider and the part of Worker it shares between requests.   *)
(*                                                                         *)
(* The provider runs on one asyncio event loop, so what interleaves is the *)
(* code BETWEEN two suspension points.  Its _lock is taken only around     *)
(* blocks that never await, so it is never contended, acquiring it never   *)
(* suspends, and a locked block is atomic together with the straight-line  *)
(* code around it.  Every action below is one such stretch of code; the    *)
(* program counters name the await a task is suspended in.                 *)
(*                                                                         *)
(* Worker objects are numbered in the order in which they are created,     *)
(* which is all that their identity means here.  An analysis pass appears  *)
(* as a task that calls the worker; what it records is in Analysis.tla.    *)
(***************************************************************************)
EXTENDS Naturals, FiniteSets

CONSTANTS Paths,       \* canonical database paths, the registry's keys
          Ids,         \* database ids
          Sessions,    \* MCP sessions
          Requests,    \* slots for concurrently running request / analysis tasks
          MaxWorkers,  \* <PREFIX>MAX_WORKERS
          MaxObjects,  \* bound: how many Worker objects a behaviour creates
          Cancels,     \* may a client cancel a request it has in flight?
          Manual,      \* sessions whose exit stack takes no disconnect callback
          NoPath, NoId, NoSession

Workers == 1 .. MaxObjects
NoWorker == 0

\* One slot per request, and one per path for shutdown_all's terminate(path).
Tasks == Requests \cup Paths

ASSUME PoolAssumption ==
  /\ MaxWorkers \in Nat \ {0}
  /\ MaxObjects \in Nat \ {0}
  /\ Cancels \in BOOLEAN
  /\ Manual \subseteq Sessions
  /\ IsFiniteSet(Paths)
  /\ Requests \cap Paths = {}
  /\ NoPath \notin Paths
  /\ NoId \notin Ids
  /\ NoSession \notin Sessions

States == {"NONE", "STARTING", "IDLE", "DEAD"}
Procs == {"none", "up", "closing", "down"}
SpawnPCs == {"none", "created", "closeStale", "opening", "committed",
             "failing", "removing", "done"}
\* "close" and "forceClose" are close_database, the latter when it takes the worker
\* from other sessions; "open" is open_database while it still detaches, "terminate"
\* and "reap" are the two stages of shutdown_all.
CallOps == {"tool", "save", "analysis"}
Ops == {"none", "tool", "save", "analysis", "close", "forceClose", "open",
        "terminate", "reap"}
TaskPCs == {"idle", "queued", "sent", "terminate", "awaitSpawn", "saving",
            "closeClient"}

WorkerRec ==
  [path : Paths \cup {NoPath}, id : Ids \cup {NoId}, state : States,
   sessions : SUBSET Sessions,
   client : BOOLEAN,           \* client and _exit_stack are set
   proc : Procs,               \* the worker's OS process
   watched : BOOLEAN,          \* a death watcher is polling the pid
   spawn : SpawnPCs,           \* where the _spawn_task is suspended
   stale : Workers \cup {NoWorker}]

TaskFields ==
  [op : Ops, pc : TaskPCs, w : Workers \cup {NoWorker},
   s : Sessions \cup {NoSession},
   todo : SUBSET Workers,      \* detach_all's to_terminate, not yet shut down
   path : Paths \cup {NoPath}] \* open_database's path
TaskRec ==
  {r \in TaskFields : r.op = "open" => r.s \in Sessions /\ r.path \in Paths}

VARIABLES workers,     \* _workers: path -> worker object
          idToPath,    \* _id_to_path: database id -> path
          created,     \* how many Worker objects exist
          wk,          \* the Worker objects
          task,        \* the suspended requests and analysis tasks
          registered,  \* _registered_sessions
          ended,       \* sessions that are over and still counted or registered
          phase        \* "serving", "stopping" (in shutdown_all), "stopped"

vars == <<workers, idToPath, created, wk, task, registered, ended, phase>>

NewWorker == [path |-> NoPath, id |-> NoId, state |-> "NONE", sessions |-> {},
              client |-> FALSE, proc |-> "none", watched |-> FALSE,
              spawn |-> "none", stale |-> NoWorker]

Idle == [op |-> "none", pc |-> "idle", w |-> NoWorker, s |-> NoSession,
         todo |-> {}, path |-> NoPath]

Job(op, pc, w, s) == [Idle EXCEPT !.op = op, !.pc = pc, !.w = w, !.s = s]

Init ==
  /\ workers = [p \in Paths |-> NoWorker]
  /\ idToPath = [i \in Ids |-> NoPath]
  /\ created = 0
  /\ wk = [w \in Workers |-> NewWorker]
  /\ task = [t \in Tasks |-> Idle]
  /\ registered = {}
  /\ ended = {}
  /\ phase = "serving"

-----------------------------------------------------------------------------
(* Reading the state *)

Registered == {workers[p] : p \in Paths} \ {NoWorker}

\* _active_count: registered workers that are not DEAD.
Active == {w \in Registered : wk[w].state # "DEAD"}

\* Mutant of Resolves: a lookup that goes on finding workers already popped.
ResolvesStale(p, w) == wk[w].path = p /\ wk[w].state = "IDLE"

\* resolve_worker: a database id maps to a path, so every way to name a
\* database ends in _workers.get(path); STARTING and DEAD are rejected.
Resolves(p, w) == w = workers[p] /\ w # NoWorker /\ wk[w].state = "IDLE"

\* Mutant of HasRoom: the check is off by one.
HasRoomOffByOne == Cardinality(Active) <= MaxWorkers

\* The MAX_WORKERS check of spawn_worker.
HasRoom == Cardinality(Active) < MaxWorkers

Analyzing(w) == \E t \in Tasks : task[t].op = "analysis" /\ task[t].w = w

SpawnDone(w) == wk[w].spawn \in {"none", "done"}

Unused(t) == task[t] = Idle

Counted(s) == \E w \in Active : s \in wk[w].sessions

\* A name of a session that nothing in the pool refers to.
Free(s) ==
  /\ s \notin registered /\ ~Counted(s)
  /\ \A t \in Tasks : task[t].s # s

Connected == Sessions \ ended

-----------------------------------------------------------------------------
(* Changing parts of it.  W stands for a value of wk. *)

\* _workers.pop(worker.file_path); _id_to_path.pop(worker.database_id): neither
\* looks at whether the entry still belongs to this worker.
Pop(V) ==
  /\ workers' = [p \in Paths |-> IF \E v \in V : wk[v].path = p
                                   THEN NoWorker ELSE workers[p]]
  /\ idToPath' = [i \in Ids |-> IF \E v \in V : wk[v].id = i
                                  THEN NoPath ELSE idToPath[i]]

\* Mutant of Ended: the exit stack is not closed, the process is left running.
EndedKeepsProcess(r) == [r EXCEPT !.state = "DEAD", !.watched = FALSE]

\* _close_client up to its await: DEAD, watcher cancelled, exit stack closing.
\* A worker that never got a client has no exit stack and no pid to kill.
Ended(r) ==
  [r EXCEPT !.state = "DEAD", !.watched = FALSE,
            !.proc = IF r.client /\ r.proc = "up" THEN "closing" ELSE r.proc]
Dying(W, w) == [W EXCEPT ![w] = Ended(@)]

\* _background_spawn's _cleanup_stack, at its await.
Unwind(p) == IF p = "up" THEN "closing" ELSE p

\* Mutants of Cancelled: the task is not cancelled; cancelling it leaves it in
\* a state of its own that nothing recognises as done.
CancelledNever(r) == r
CancelledLimbo(r) == [r EXCEPT !.spawn = "cancelled"]

\* spawn_task.cancel().  A task that has not run yet ends without running its
\* body; one suspended in the try block enters its CancelledError handler; one
\* suspended in the cleanup of _mark_failed or _remove ends there (the exit stack,
\* which is shielded, closes all the same).
Cancelled(r) ==
  CASE r.spawn \in {"created", "failing", "removing"} ->
         [r EXCEPT !.spawn = "done"]
    [] r.spawn \in {"closeStale", "opening", "committed"} ->
         [r EXCEPT !.spawn = "removing", !.proc = Unwind(@)]
    [] OTHER -> r
CancelSpawn(W, w) == [W EXCEPT ![w] = Cancelled(@)]

\* Worker.attach, and Worker.detach for every worker in V.
Attached(r, s) == [r EXCEPT !.sessions = @ \cup {s}]
Detach(W, V, s) ==
  [w \in Workers |-> IF w \in V THEN [W[w] EXCEPT !.sessions = @ \ {s}] ELSE W[w]]

\* ensure_session_cleanup, called with every attach: it pushes the disconnect
\* callback on the session's exit stack.  If that raises, "session cleanup becomes
\* manual-only": the session attaches all the same.
Registering(s) == IF s \in Manual THEN registered ELSE registered \cup {s}

\* cancel_analysis: the task ends at whatever it awaits.
WithoutAnalysis(T, w) ==
  [t \in Tasks |-> IF T[t].op = "analysis" /\ T[t].w = w THEN Idle ELSE T[t]]

-----------------------------------------------------------------------------
(* open_database and spawn_worker *)

\* A new Worker object, its spawn task created but not yet run.
Opening(p, i, s, stale) ==
  [NewWorker EXCEPT !.path = p, !.id = i, !.state = "STARTING", !.sessions = {s},
                    !.spawn = "created", !.stale = stale]

\* spawn_worker for session s and path p, the last thing task t does; W is the
\* value of wk it starts from.  Opening a path that is open or opening attaches.
\* A DEAD entry is dropped first, also when a check then rejects the call (the
\* pool is full, the custom id is taken or malformed).
SpawnWorker(t, s, p, W) ==
  LET old == workers[p]
      alive == old # NoWorker /\ W[old].state # "DEAD"
      stale == IF alive THEN NoWorker ELSE old
      freed == [i \in Ids |-> IF stale # NoWorker /\ W[stale].id = i
                                THEN NoPath ELSE idToPath[i]]
      new == created + 1
  IN  /\ task' = [task EXCEPT ![t] = Idle]
      /\ UNCHANGED <<ended, phase>>
      /\ \/ /\ alive
            /\ wk' = [W EXCEPT ![old] = Attached(@, s)]
            /\ UNCHANGED <<workers, idToPath, created>>
         \/ /\ ~alive
            /\ workers' = [workers EXCEPT ![p] = NoWorker]
            /\ idToPath' = freed
            /\ wk' = W
            /\ UNCHANGED created
         \/ /\ ~alive
            /\ HasRoom
            /\ created < MaxObjects
            /\ \E i \in Ids :
                 /\ freed[i] = NoPath
                 /\ idToPath' = [freed EXCEPT ![i] = p]
                 /\ wk' = [W EXCEPT ![new] = Opening(p, i, s, stale)]
            /\ workers' = [workers EXCEPT ![p] = new]
            /\ created' = new

\* open_database(keep_open=True)
OpenDatabase(t, s, p) ==
  /\ phase = "serving" /\ Unused(t)
  /\ registered' = Registering(s)
  /\ SpawnWorker(t, s, p, wk)

\* Mutant of OpenDetaching: the workers to shut down stay registered meanwhile.
OpenDetachingKeepsEntries(t, s, p) ==
  LET held == {w \in Active : s \in wk[w].sessions}
      last == {w \in held : wk[w].sessions = {s}}
      detached == Detach(wk, held, s)
  IN  /\ phase = "serving" /\ Unused(t)
      /\ registered' = Registering(s)
      /\ \/ last = {} /\ SpawnWorker(t, s, p, detached)
         \/ \E w \in last :
              /\ wk' = CancelSpawn(detached, w)
              /\ task' = [task EXCEPT ![t] =
                            [Job("open", "awaitSpawn", w, s)
                               EXCEPT !.todo = last \ {w}, !.path = p]]
              /\ UNCHANGED <<workers, idToPath, created, ended, phase>>

\* open_database(keep_open=False): detach_all first.  The workers this session
\* was the last to use leave the registry at once and are then shut down one
\* after the other; the new database is opened when the last one is closed.
OpenDetaching(t, s, p) ==
  LET held == {w \in Active : s \in wk[w].sessions}
      last == {w \in held : wk[w].sessions = {s}}
      detached == Detach(wk, held, s)
  IN  /\ phase = "serving" /\ Unused(t)
      /\ registered' = Registering(s)
      /\ \/ last = {} /\ SpawnWorker(t, s, p, detached)
         \/ \E w \in last :
              /\ Pop(last)
              /\ wk' = CancelSpawn(detached, w)
              /\ task' = [task EXCEPT ![t] =
                            [Job("open", "awaitSpawn", w, s)
                               EXCEPT !.todo = last \ {w}, !.path = p]]
              /\ UNCHANGED <<created, ended, phase>>

-----------------------------------------------------------------------------
(* _background_spawn of worker w *)

\* Mutant of Published: IDLE is published before the client is.
PublishedStateFirst(r) == [r EXCEPT !.state = "IDLE", !.spawn = "committed"]

\* A worker whose subprocess is started and sent open_database; that is open and
\* has its client; whose death watcher runs and ready event is set; whose failed
\* open is being cleaned up; that failed, and keeps its entry for the error.
Launched(r) == [r EXCEPT !.spawn = "opening", !.proc = "up"]
Published(r) == [r EXCEPT !.client = TRUE, !.state = "IDLE", !.spawn = "committed"]
Watched(r) == [r EXCEPT !.watched = TRUE, !.spawn = "done"]
Failing(r) == [r EXCEPT !.spawn = "failing", !.proc = Unwind(@)]
Failed(r) == [r EXCEPT !.state = "DEAD", !.spawn = "done"]

\* First step: force-stop the stale worker this one replaces, if there is one,
\* then start the subprocess and send open_database.
SpawnStart(w) ==
  LET v == wk[w].stale
  IN  /\ wk[w].spawn = "created"
      /\ wk' = IF v = NoWorker THEN [wk EXCEPT ![w] = Launched(@)]
                 ELSE [Dying(wk, v) EXCEPT ![w].spawn = "closeStale"]
      /\ UNCHANGED <<workers, idToPath, created, task, registered, ended, phase>>

SpawnStaleClosed(w) ==
  LET v == wk[w].stale
  IN  /\ wk[w].spawn = "closeStale"
      /\ wk[v].client => wk[v].proc # "closing"
      /\ wk' = [wk EXCEPT ![v].client = FALSE, ![w] = Launched(@)]
      /\ UNCHANGED <<workers, idToPath, created, task, registered, ended, phase>>

\* The open succeeded: publish the client and become IDLE.  The task then
\* awaits a client log message.
SpawnCommit(w) ==
  /\ wk[w].spawn = "opening"
  /\ wk' = [wk EXCEPT ![w] = Published(@)]
  /\ UNCHANGED <<workers, idToPath, created, task, registered, ended, phase>>

\* Death watcher, ready event, and with run_auto_analysis the analysis task.
SpawnReady(w) ==
  /\ wk[w].spawn = "committed"
  /\ wk' = [wk EXCEPT ![w] = Watched(@)]
  /\ \/ UNCHANGED task
     \/ ~Analyzing(w) /\ \E t \in Requests :
          Unused(t) /\ task' = [task EXCEPT ![t] = Job("analysis", "queued", w, NoSession)]
  /\ UNCHANGED <<workers, idToPath, created, registered, ended, phase>>

\* Process start, handshake or open_database failed: _mark_failed.
SpawnFails(w) ==
  /\ wk[w].spawn = "opening"
  /\ wk' = [wk EXCEPT ![w] = Failing(@)]
  /\ UNCHANGED <<workers, idToPath, created, task, registered, ended, phase>>

\* The entry stays registered, as DEAD, so that callers see the error.
SpawnMarkFailed(w) ==
  /\ wk[w].spawn = "failing" /\ wk[w].proc # "closing"
  /\ wk' = [wk EXCEPT ![w] = Failed(@)]
  /\ UNCHANGED <<workers, idToPath, created, task, registered, ended, phase>>

\* The CancelledError handler: _remove pops the entry after its cleanup.
SpawnRemove(w) ==
  /\ wk[w].spawn = "removing" /\ wk[w].proc # "closing"
  /\ Pop({w})
  /\ wk' = [wk EXCEPT ![w].spawn = "done"]
  /\ UNCHANGED <<created, task, registered, ended, phase>>

-----------------------------------------------------------------------------
(* Calls to a worker: RoutingTool.run, RoutingTemplate._read, save_database *)
(* and the analysis task, all through proxy_to_worker                       *)

\* Attach the caller and call worker w.
Dispatch(t, s, w) ==
  /\ wk' = [wk EXCEPT ![w] = Attached(@, s)]
  /\ task' = [task EXCEPT ![t] = Job("tool", "sent", w, s)]
  /\ registered' = Registering(s)
  /\ UNCHANGED <<workers, idToPath, created, ended, phase>>

\* RoutingTool.run: resolve, attach and dispatch are one stretch.
ToolCall(t, s, p) ==
  /\ phase = "serving" /\ Unused(t)
  /\ \E w \in Workers : Resolves(p, w) /\ ~Analyzing(w) /\ Dispatch(t, s, w)

\* RoutingTemplate._read, which an analysis does not hold up.
ReadResource(t, s, p) ==
  /\ phase = "serving" /\ Unused(t)
  /\ \E w \in Workers : Resolves(p, w) /\ Dispatch(t, s, w)

\* A cancelled execute leaves behind the calls its code made (Gateway.tla); one
\* of them may reach the pool when its session is over.  It attaches the session
\* all the same, and the callback goes on an exit stack that has unwound.
\* Which tool it calls makes no difference to the pool.
LateCall(t, s, p) ==
  /\ Cancels /\ Unused(t)
  /\ s \in ended \/ Free(s)
  /\ \E w \in Workers :
       /\ Resolves(p, w) /\ ~Analyzing(w)
       /\ wk' = [wk EXCEPT ![w] = Attached(@, s)]
       /\ task' = [task EXCEPT ![t] = Job("tool", "sent", w, NoSession)]
  /\ ended' = ended \cup {s}
  /\ registered' = Registering(s)
  /\ UNCHANGED <<workers, idToPath, created, phase>>

\* check_attached, unless force: a session that does not hold the worker is
\* rejected, except when no session does.
MayUse(s, w, force) ==
  force \/ wk[w].sessions = {} \/ s \in wk[w].sessions

\* save_database makes its call from a task of its own, which has yet to run.
SaveDatabase(t, s, p, force) ==
  /\ phase = "serving" /\ Unused(t)
  /\ \E w \in Workers :
       /\ Resolves(p, w) /\ MayUse(s, w, force)
       /\ task' = [task EXCEPT ![t] = Job("save", "queued", w, s)]
  /\ UNCHANGED <<workers, idToPath, created, wk, registered, ended, phase>>

\* analyze_database (which attaches) or wait_for_analysis (which does not)
\* starts the analysis task of a worker that has none.  The task first awaits a
\* client log message.
StartAnalysis(t, s, p) ==
  /\ phase = "serving" /\ Unused(t)
  /\ \E w \in Workers :
       /\ Resolves(p, w) /\ ~Analyzing(w)
       /\ task' = [task EXCEPT ![t] = Job("analysis", "queued", w, NoSession)]
       /\ \/ /\ wk' = [wk EXCEPT ![w] = Attached(@, s)]
             /\ registered' = Registering(s)
          \/ SpawnDone(w) /\ UNCHANGED <<wk, registered>>
  /\ UNCHANGED <<workers, idToPath, created, ended, phase>>

\* analyze_database while an analysis runs: attach, and wait for its result.
JoinAnalysis(s, p) ==
  /\ phase = "serving"
  /\ \E w \in Workers :
       /\ Resolves(p, w) /\ Analyzing(w)
       /\ wk' = [wk EXCEPT ![w] = Attached(@, s)]
  /\ registered' = Registering(s)
  /\ UNCHANGED <<workers, idToPath, created, task, ended, phase>>

\* mark_worker_dead(w), called by task t: the entries at the worker's path and
\* id are dropped, then its client is closed.
MarkDead(t, w) ==
  /\ Pop({w})
  /\ wk' = Dying(wk, w)
  /\ task' = [task EXCEPT ![t].pc = "closeClient"]

\* The analysis or save task gets to call the worker, if it still has a client.
QueuedDispatch(t) ==
  LET w == task[t].w
  IN  /\ task[t].pc = "queued"
      /\ \/ /\ wk[w].client
            /\ task' = [task EXCEPT ![t].pc = "sent"]
            /\ UNCHANGED <<workers, idToPath, wk>>
         \/ ~wk[w].client /\ MarkDead(t, w)
      /\ UNCHANGED <<created, registered, ended, phase>>

\* The worker answered, with a result or with an error of its own.
CallReturns(t) ==
  /\ task[t].pc = "sent"
  /\ task' = [task EXCEPT ![t] = Idle]
  /\ UNCHANGED <<workers, idToPath, created, wk, registered, ended, phase>>

\* Connection lost, request timed out, or an unexpected exception.
CallFails(t) ==
  /\ task[t].pc = "sent"
  /\ MarkDead(t, task[t].w)
  /\ UNCHANGED <<created, registered, ended, phase>>

-----------------------------------------------------------------------------
(* Closing: close_for_session, detach_all, terminate_worker; _shutdown_worker *)

\* close_database of a worker other sessions hold: detach only.
CloseDetaches(t, s, p) ==
  /\ phase = "serving" /\ Unused(t)
  /\ \E w \in Workers :
       /\ Resolves(p, w) /\ MayUse(s, w, FALSE)
       /\ wk[w].sessions \ {s} # {}
       /\ wk' = Detach(wk, {w}, s)
  /\ UNCHANGED <<workers, idToPath, created, task, registered, ended, phase>>

\* What a close is for the worker: forced, if it takes it from other sessions.
CloseOp(s, w, force) ==
  IF force /\ wk[w].sessions \ {s} # {} THEN "forceClose" ELSE "close"

\* Mutants of CloseTerminates: it does not ask whether other sessions remain; it
\* leaves the worker registered while it shuts it down.
CloseIgnoresOthers(t, s, p, force) ==
  /\ phase = "serving" /\ Unused(t)
  /\ \E w \in Workers :
       /\ Resolves(p, w) /\ MayUse(s, w, force)
       /\ Pop({w})
       /\ wk' = CancelSpawn(Detach(wk, {w}, s), w)
       /\ task' = [task EXCEPT ![t] =
                     Job(CloseOp(s, w, force), "awaitSpawn", w, s)]
  /\ UNCHANGED <<created, registered, ended, phase>>
CloseKeepsEntry(t, s, p, force) ==
  /\ phase = "serving" /\ Unused(t)
  /\ \E w \in Workers :
       /\ Resolves(p, w) /\ MayUse(s, w, force)
       /\ force \/ wk[w].sessions \ {s} = {}
       /\ wk' = CancelSpawn(Detach(wk, {w}, s), w)
       /\ task' = [task EXCEPT ![t] =
                     Job(CloseOp(s, w, force), "awaitSpawn", w, s)]
  /\ UNCHANGED <<workers, idToPath, created, registered, ended, phase>>

\* close_database by the last session, or forced: leave the registry, then
\* _shutdown_worker, which starts by cancelling the spawn task.
CloseTerminates(t, s, p, force) ==
  /\ phase = "serving" /\ Unused(t)
  /\ \E w \in Workers :
       /\ Resolves(p, w) /\ MayUse(s, w, force)
       /\ force \/ wk[w].sessions \ {s} = {}
       /\ Pop({w})
       /\ wk' = CancelSpawn(Detach(wk, {w}, s), w)
       /\ task' = [task EXCEPT ![t] =
                     Job(CloseOp(s, w, force), "awaitSpawn", w, s)]
  /\ UNCHANGED <<created, registered, ended, phase>>

\* The spawn task is done; cancel the analysis; send close_database if there is
\* a client to send it to, else go straight to _close_client.
SpawnAwaited(t) ==
  LET w == task[t].w
      rest == WithoutAnalysis(task, w)
  IN  /\ task[t].pc = "awaitSpawn" /\ task[t].op # "reap" /\ SpawnDone(w)
      /\ \/ /\ wk[w].client /\ wk[w].state # "DEAD"
            /\ task' = [rest EXCEPT ![t].pc = "saving"]
            /\ UNCHANGED wk
         \/ /\ ~(wk[w].client /\ wk[w].state # "DEAD")
            /\ task' = [rest EXCEPT ![t].pc = "closeClient"]
            /\ wk' = Dying(wk, w)
      /\ UNCHANGED <<workers, idToPath, created, registered, ended, phase>>

\* close_database answered, failed, or hit its 60 second timeout.
SaveEnds(t) ==
  /\ task[t].pc = "saving"
  /\ wk' = Dying(wk, task[t].w)
  /\ task' = [task EXCEPT ![t].pc = "closeClient"]
  /\ UNCHANGED <<workers, idToPath, created, registered, ended, phase>>

\* detach_all's loop goes on to v.
NowClosing(r, v) ==
  [r EXCEPT !.pc = "awaitSpawn", !.w = v, !.todo = r.todo \ {v}]

\* _close_client is over (the exit stack is closed, the pid is gone): the task
\* ends, or detach_all goes on to its next worker, or open_database to its open.
ClientClosed(t) ==
  LET w == task[t].w
      closed == [wk EXCEPT ![w].client = FALSE]
  IN  /\ task[t].pc = "closeClient"
      /\ wk[w].client => wk[w].proc # "closing"
      /\ \/ /\ task[t].op # "open"
            /\ wk' = closed
            /\ task' = [task EXCEPT ![t] = Idle]
            /\ UNCHANGED <<workers, idToPath, created, ended, phase>>
         \/ /\ task[t].op = "open" /\ task[t].todo = {}
            /\ SpawnWorker(t, task[t].s, task[t].path, closed)
         \/ /\ task[t].op = "open"
            /\ \E v \in task[t].todo :
                 /\ wk' = CancelSpawn(closed, v)
                 /\ task' = [task EXCEPT ![t] = NowClosing(@, v)]
            /\ UNCHANGED <<workers, idToPath, created, ended, phase>>
      /\ UNCHANGED registered

\* Task t is cancelled in _shutdown_worker(w): the cancellation reaches the
\* spawn and analysis tasks it awaits, the save is given up, and the finally
\* clause still closes the client.  The suppress(CancelledError) around the
\* awaited spawn task changes nothing: a cancelled anyio scope raises again at
\* the next await, the one of the analysis or of the save.
CutShort(W, w) == Dying(CancelSpawn(W, w), w)

\* A save's call to the worker is a task of its own, which the cancellation of
\* the request does not reach.  (Nor does that of an execute reach the calls its
\* code makes: see LateCall.)
LeftBehind(r) == IF r.op = "save" THEN [r EXCEPT !.s = NoSession] ELSE Idle

\* The client cancels the request it has in flight.  detach_all's remaining
\* workers, and the open that was to follow, are not looked at again.
CancelRequest(t) ==
  LET w == task[t].w
      shutting == task[t].pc \in {"awaitSpawn", "saving"}
  IN  /\ Cancels
      /\ task[t].s # NoSession
      /\ wk' = IF shutting THEN CutShort(wk, w) ELSE wk
      /\ task' = [(IF shutting THEN WithoutAnalysis(task, w) ELSE task)
                    EXCEPT ![t] = LeftBehind(@)]
      /\ UNCHANGED <<workers, idToPath, created, registered, ended, phase>>

-----------------------------------------------------------------------------
(* Sessions that end, workers that die, shutdown of the server *)

\* Mutant of DetachAll: workers that are still opening are skipped.
DetachAllSkipsOpening(s) == Detach(wk, {w \in Active : wk[w].state = "IDLE"}, s)

\* detach_all(terminate=False), which skips DEAD workers.
DetachAll(s) == Detach(wk, Active, s)

\* A session ends when its requests have ended: its disconnect callback runs.
Disconnect(s) ==
  /\ s \in registered \ ended
  /\ \A t \in Tasks : task[t].s # s
  /\ registered' = registered \ {s}
  /\ wk' = DetachAll(s)
  /\ UNCHANGED <<workers, idToPath, created, task, ended, phase>>

\* One that has no callback ends: the workers go on counting it.
DisconnectUnnoticed(s) ==
  /\ s \notin registered \cup ended /\ Counted(s)
  /\ \A t \in Tasks : task[t].s # s
  /\ ended' = ended \cup {s}
  /\ UNCHANGED <<workers, idToPath, created, wk, task, registered, phase>>

\* The name of a session that is over and that nothing counts any more stands
\* for the next one to connect.
Connect(s) ==
  /\ s \in ended /\ Free(s)
  /\ ended' = ended \ {s}
  /\ UNCHANGED <<workers, idToPath, created, wk, task, registered, phase>>

\* The worker process exits by itself (a crash, an exit(1) in native code).
ProcessDies(w) ==
  /\ wk[w].proc = "up"
  /\ wk' = [wk EXCEPT ![w].proc = "down"]
  /\ UNCHANGED <<workers, idToPath, created, task, registered, ended, phase>>

\* The closing transport, then SIGTERM and SIGKILL, end the process.
ProcessReaped(w) ==
  /\ wk[w].proc = "closing"
  /\ wk' = [wk EXCEPT ![w].proc = "down"]
  /\ UNCHANGED <<workers, idToPath, created, task, registered, ended, phase>>

\* A poll of the death watcher finds the process gone.
DeathWatch(w) ==
  /\ wk[w].watched /\ wk[w].proc = "down"
  /\ wk' = [wk EXCEPT ![w] = [@ EXCEPT !.state = "DEAD", !.watched = FALSE]]
  /\ UNCHANGED <<workers, idToPath, created, task, registered, ended, phase>>

\* lifespan() exits once the requests have ended: shutdown_all starts one
\* terminate(path) task for each path it finds.
Shutdown ==
  /\ phase = "serving"
  /\ \A t \in Requests : task[t].s = NoSession
  /\ phase' = "stopping"
  /\ task' = [t \in Tasks |->
                IF t \in Paths /\ workers[t] # NoWorker
                  THEN Job("terminate", "terminate", NoWorker, NoSession)
                  ELSE task[t]]
  /\ UNCHANGED <<workers, idToPath, created, wk, registered, ended>>

TerminateWorker(p) ==
  /\ task[p].pc = "terminate" /\ workers[p] # NoWorker
  /\ Pop({workers[p]})
  /\ wk' = CancelSpawn(wk, workers[p])
  /\ task' = [task EXCEPT ![p] = Job("terminate", "awaitSpawn", workers[p], NoSession)]
  /\ UNCHANGED <<created, registered, ended, phase>>

\* shutdown_all's except branches: the terminations are cancelled where they are
\* and _force_close_remaining closes, without saving, what is still registered.
AbortShutdown ==
  LET cut == {task[p].w : p \in {q \in Paths : task[q].pc \in {"awaitSpawn", "saving"}}}
  IN  /\ phase = "stopping"
      /\ \E p \in Paths : task[p].op = "terminate"
      /\ \A p \in Paths : task[p].op \in {"none", "terminate"}
      /\ workers' = [p \in Paths |-> NoWorker]
      /\ idToPath' = [i \in Ids |-> NoPath]
      /\ wk' = [w \in Workers |->
                  IF w \in cut THEN CutShort(wk, w)[w]
                  ELSE IF w \in Registered THEN CancelSpawn(wk, w)[w] ELSE wk[w]]
      /\ task' = [t \in Tasks |->
                    IF t \in Requests
                      THEN IF task[t].op = "analysis" /\ task[t].w \in cut
                             THEN Idle ELSE task[t]
                      ELSE IF workers[t] = NoWorker THEN Idle
                      ELSE Job("reap", "awaitSpawn", workers[t], NoSession)]
      /\ UNCHANGED <<created, registered, ended, phase>>

\* A terminate_worker raises NotFound, its entry having gone since Shutdown.
TerminateMissing(p) ==
  /\ task[p].pc = "terminate" /\ workers[p] = NoWorker
  /\ AbortShutdown

\* The 30 second deadline expires.
ShutdownDeadline == AbortShutdown

\* _force_close_remaining's body for one worker.
ForceClose(p) ==
  LET w == task[p].w
  IN  /\ task[p].op = "reap" /\ task[p].pc = "awaitSpawn" /\ SpawnDone(w)
      /\ wk' = Dying(wk, w)
      /\ task' = [WithoutAnalysis(task, w) EXCEPT ![p].pc = "closeClient"]
      /\ UNCHANGED <<workers, idToPath, created, registered, ended, phase>>

ShutdownDone ==
  /\ phase = "stopping"
  /\ \A p \in Paths : Unused(p)
  /\ phase' = "stopped"
  /\ UNCHANGED <<workers, idToPath, created, wk, task, registered, ended>>

-----------------------------------------------------------------------------

\* What clients, and the server's own end, ask of the pool.
Client ==
  \/ \E t \in Requests, s \in Connected, p \in Paths :
       \/ OpenDatabase(t, s, p)
       \/ OpenDetaching(t, s, p)
       \/ ToolCall(t, s, p)
       \/ ReadResource(t, s, p)
       \/ StartAnalysis(t, s, p)
       \/ JoinAnalysis(s, p)
       \/ CloseDetaches(t, s, p)
       \/ \E force \in BOOLEAN :
            SaveDatabase(t, s, p, force) \/ CloseTerminates(t, s, p, force)
  \/ \E t \in Requests, s \in Sessions, p \in Paths : LateCall(t, s, p)
  \/ \E t \in Requests : CancelRequest(t)
  \/ \E s \in Sessions : Disconnect(s) \/ DisconnectUnnoticed(s) \/ Connect(s)
  \/ Shutdown

\* What the event loop does for a spawn task.
Spawning(w) ==
  \/ SpawnStart(w) \/ SpawnStaleClosed(w) \/ SpawnCommit(w) \/ SpawnReady(w)
  \/ SpawnFails(w) \/ SpawnMarkFailed(w) \/ SpawnRemove(w)

Calling(t) == QueuedDispatch(t) \/ CallReturns(t) \/ CallFails(t)

Closing(t) == SpawnAwaited(t) \/ SaveEnds(t) \/ ClientClosed(t)

Stopping ==
  \/ \E p \in Paths : TerminateWorker(p) \/ TerminateMissing(p) \/ ForceClose(p)
  \/ ShutdownDeadline
  \/ ShutdownDone

Next ==
  \/ Client
  \/ \E w \in Workers : Spawning(w)
  \/ \E t \in Tasks : Calling(t) \/ Closing(t)
  \/ \E w \in Workers : ProcessDies(w) \/ ProcessReaped(w) \/ DeathWatch(w)
  \/ Stopping

Spec == Init /\ [][Next]_vars

\* The event loop runs every task that is ready; the closing transport, SIGTERM
\* and SIGKILL end a process; close_database has a 60 second timeout.  An open,
\* a tool call and an analysis have no deadline: nothing is assumed of them.
Fairness ==
  /\ \A w \in Workers :
       WF_vars(SpawnStart(w) \/ SpawnStaleClosed(w) \/ SpawnReady(w)
               \/ SpawnMarkFailed(w) \/ SpawnRemove(w) \/ ProcessReaped(w))
  /\ \A t \in Tasks : WF_vars(Closing(t))
  /\ \A p \in Paths : WF_vars(TerminateWorker(p) \/ TerminateMissing(p) \/ ForceClose(p))
  /\ WF_vars(ShutdownDone)

FairSpec == Spec /\ Fairness

-----------------------------------------------------------------------------
(* What the pool promises of one worker, whatever becomes of the others:   *)
(* WorkerLease, under the mapping from the worker's fields.                *)

Life(w) ==
  CASE wk[w].state = "NONE" -> "none"
    [] wk[w].state = "STARTING" -> "opening"
    [] wk[w].state = "IDLE" -> "open"
    [] OTHER -> "closed"

Lease == INSTANCE WorkerLease WITH
  life <- [w \in Workers |-> Life(w)],
  listed <- [w \in Workers |-> w \in Registered],
  holders <- [w \in Workers |-> wk[w].sessions]

\* The pool implements the lease: it grants a session a worker only while the
\* worker is listed and not closed, lists a worker once, and never reopens one.
ImplementsLease == Lease!Spec

-----------------------------------------------------------------------------
(* Properties *)

\* Every variable has the shape its declaration says.
TypeOK ==
  /\ workers \in [Paths -> Workers \cup {NoWorker}]
  /\ idToPath \in [Ids -> Paths \cup {NoPath}]
  /\ created \in 0 .. MaxObjects
  /\ wk \in [Workers -> WorkerRec]
  /\ task \in [Tasks -> TaskRec]
  /\ registered \in SUBSET Sessions
  /\ ended \in SUBSET Sessions
  /\ phase \in {"serving", "stopping", "stopped"}

ShutdownOps == {"close", "forceClose", "open", "terminate", "reap"}

\* Task t is in _shutdown_worker, or in the client-closing half of it, for w, or
\* holds w in detach_all's list of workers still to shut down.
ShutsDown(t, w) ==
  \/ w \in task[t].todo
  \/ task[t].w = w /\ task[t].op \in ShutdownOps

\* Some task still has to do with w, so that w is not forgotten.
InCharge(w) ==
  \/ ~SpawnDone(w)
  \/ \E t \in Tasks : ShutsDown(t, w)

\* A live worker process that no registry entry and no task leads to.
Orphan(w) ==
  wk[w].proc = "up" /\ w \notin Registered /\ ~InCharge(w)

\* A worker is shut down once: no two tasks send it close_database or tear down
\* its client as their own (the pop under the lock is what claims a worker).
OneShutdown ==
  \A w \in Workers, t \in Tasks :
    ShutsDown(t, w) => \A u \in Tasks \ {t} : ~ShutsDown(u, w)

\* close_for_session and detach_all terminate a worker only while nobody else
\* uses it, and no request can attach between the decision and the end of the
\* shutdown: a worker on its way out without force has no session.
NoAttachedSessionLosesItsWorker ==
  \A w \in Workers, t \in Requests :
    ShutsDown(t, w) /\ task[t].op # "forceClose" => wk[w].sessions = {}

\* MAX_WORKERS bounds the databases that are open or opening.
CapRespected == Cardinality(Active) <= MaxWorkers

\* session_count counts a session until its disconnect callback detaches it: a
\* worker is kept from closing by a session that is gone only if the callback
\* could not be registered, or a call of a cancelled execute came late.
AttachedSessionsWillDetach ==
  \A w \in Active : \A s \in wk[w].sessions :
    \/ s \in registered \ ended
    \/ s \in Manual
    \/ Cancels /\ s \in ended

\* ensure_session_cleanup: sessions are detached when they disconnect "so
\* check_attached and session_count stay accurate".  In the two excepted cases
\* above they do not: no run has this as an invariant.
CountedSessionsAreConnected ==
  \A w \in Active : wk[w].sessions \cap ended = {}

\* A process is left behind only where the path had been opened before: the
\* first worker of a database is always registered or in some task's hands.
OrphansReplaceAnother ==
  \A w \in Workers : Orphan(w) =>
    \E v \in Workers : v < w /\ wk[v].path = wk[w].path

\* An entry tells what its process can do: a worker that resolve_worker hands
\* out has its client open and nothing tears its process down, and a dead one
\* stands for no process, so that reopening its path cannot run two.
EntriesMatchProcesses ==
  \A w \in Registered :
    /\ wk[w].state = "IDLE" => wk[w].client /\ wk[w].proc # "closing"
    /\ wk[w].state = "DEAD" => wk[w].proc \notin {"up", "closing"}

\* DEAD is final: no late answer of an open revives a worker whose client was
\* closed meanwhile.
DeadIsFinal ==
  [][\A w \in Workers : wk[w].state = "DEAD" => wk'[w].state = "DEAD"]_vars

\* Every shutdown of a worker, and every cleanup after a failed call, comes to
\* its end: no await in these paths waits for something that never happens.
ShutdownsEnd ==
  \A t \in Tasks :
    task[t].pc \in {"awaitSpawn", "saving", "closeClient"} ~> Unused(t)

\* The server's lifespan exit comes to an end.
StoppingEnds == phase = "stopping" ~> phase = "stopped"

\* The inductive strengthening behind the proofs.  A registry entry names an
\* existing worker by its own path.
Keyed ==
  \A p \in Paths : workers[p] # NoWorker =>
    workers[p] <= created /\ wk[workers[p]].path = p

\* The open of a worker that is under way finds it STARTING (so SpawnCommit never
\* revives a DEAD one); a watched worker has finished opening.
OpenOK(r) ==
  /\ r.spawn \in {"created", "closeStale", "opening"} => r.state = "STARTING"
  /\ r.spawn = "committed" => r.state \in {"IDLE", "DEAD"}
  /\ r.watched => r.spawn \in {"none", "done"}

\* A worker that does not exist yet is untouched; only a DEAD one is replaced.
WorkerOK(w) ==
  /\ IF w <= created THEN wk[w].state # "NONE" ELSE wk[w] = NewWorker
  /\ OpenOK(wk[w])
  /\ wk[w].stale # NoWorker => wk[wk[w].stale].state = "DEAD"

\* A task's worker exists; one that is called has been open; the spawn task of
\* one whose shutdown got past awaiting it is done.
TaskOK(t) ==
  /\ task[t].w <= created
  /\ \A w \in task[t].todo : w <= created /\ w # task[t].w
  /\ task[t].todo # {} => task[t].op = "open"
  /\ task[t].op \in CallOps =>
       task[t].w # NoWorker /\ wk[task[t].w].state \in {"IDLE", "DEAD"}
  /\ task[t].op \in ShutdownOps /\ task[t].w # NoWorker
       /\ task[t].pc \in {"saving", "closeClient"} => SpawnDone(task[t].w)
  /\ task[t].pc \in {"queued", "sent"} <=>
       task[t].op \in CallOps /\ task[t].pc # "closeClient"
  /\ task[t].op = "none" => task[t] = Idle

\* A worker being shut down has left the registry.
Claimed == \A t \in Tasks, w \in Workers : ShutsDown(t, w) => w \notin Registered

PoolInv ==
  /\ Keyed
  /\ \A w \in Workers : WorkerOK(w)
  /\ \A t \in Tasks : TaskOK(t)
  /\ Claimed

\* docs/architecture.md: "lifespan() shuts down all workers on exit."
LifespanShutsDownAllWorkers ==
  phase = "stopped" => \A w \in Workers : wk[w].proc # "up"

\* docs/architecture.md: the canonical path is "a dedup key ... to prevent
\* duplicate workers for the same database".
NoDuplicateWorkers ==
  \A v, w \in Workers :
    v # w /\ wk[v].proc = "up" /\ wk[w].proc = "up" => wk[v].path # wk[w].path

\* A registered worker can be addressed by the id open_database returned for it.
AddressableById ==
  \A p \in Paths : workers[p] # NoWorker => idToPath[wk[workers[p]].id] = p

\* detach_all: "workers whose session set becomes empty after the detach are
\* shut down" - so none of them is dropped by all tasks while its process runs.
DetachedAreShutDown == \A w \in Workers : ~Orphan(w)
=============================================================================
