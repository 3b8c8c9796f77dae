-------------------------- MODULE WorkerPoolProofs --------------------------
(* Theorems about WorkerPool, for every value of its constants. *)
EXTENDS WorkerPool, TLAPS

WkType == [Workers -> WorkerRec]
TaskType == [Tasks -> TaskRec]

-----------------------------------------------------------------------------
(* The helpers preserve the shape of wk and task. *)

LEMMA EndedType ==
  ASSUME NEW r \in WorkerRec
  PROVE  Ended(r) \in WorkerRec
BY DEF WorkerRec, Ended, States, Procs

LEMMA CancelledType ==
  ASSUME NEW r \in WorkerRec
  PROVE  Cancelled(r) \in WorkerRec
BY DEF WorkerRec, Cancelled, Unwind, SpawnPCs, Procs

LEMMA DyingType ==
  ASSUME NEW W \in WkType, NEW w
  PROVE  Dying(W, w) \in WkType
BY EndedType DEF WkType, Dying

LEMMA CancelSpawnType ==
  ASSUME NEW W \in WkType, NEW w
  PROVE  CancelSpawn(W, w) \in WkType
BY CancelledType DEF WkType, CancelSpawn

LEMMA UpdateType ==
  ASSUME NEW W \in WkType, NEW w, NEW r \in WorkerRec
  PROVE  [W EXCEPT ![w] = r] \in WkType
BY DEF WkType

LEMMA LaunchedType ==
  ASSUME NEW r \in WorkerRec PROVE Launched(r) \in WorkerRec
BY DEF WorkerRec, Launched, SpawnPCs, Procs

LEMMA PublishedType ==
  ASSUME NEW r \in WorkerRec PROVE Published(r) \in WorkerRec
BY DEF WorkerRec, Published, SpawnPCs, States

LEMMA WatchedType ==
  ASSUME NEW r \in WorkerRec PROVE Watched(r) \in WorkerRec
BY DEF WorkerRec, Watched, SpawnPCs

LEMMA FailingType ==
  ASSUME NEW r \in WorkerRec PROVE Failing(r) \in WorkerRec
BY DEF WorkerRec, Failing, Unwind, SpawnPCs, Procs

LEMMA FailedType ==
  ASSUME NEW r \in WorkerRec PROVE Failed(r) \in WorkerRec
BY DEF WorkerRec, Failed, SpawnPCs, States

LEMMA RetireType ==
  ASSUME NEW r \in WorkerRec, NEW b \in BOOLEAN
  PROVE  [r EXCEPT !.client = b] \in WorkerRec
BY DEF WorkerRec

LEMMA AtType ==
  ASSUME NEW r \in WorkerRec, NEW pc \in SpawnPCs
  PROVE  [r EXCEPT !.spawn = pc] \in WorkerRec
BY DEF WorkerRec

LEMMA AttachedType ==
  ASSUME NEW r \in WorkerRec, NEW s \in Sessions
  PROVE  Attached(r, s) \in WorkerRec
BY DEF WorkerRec, Attached

LEMMA DetachType ==
  ASSUME NEW W \in WkType, NEW V, NEW s
  PROVE  Detach(W, V, s) \in WkType
BY DEF WkType, WorkerRec, Detach

LEMMA IdleType == Idle \in TaskRec
BY DEF Idle, TaskRec, TaskFields, Ops, TaskPCs

LEMMA LeftBehindType ==
  ASSUME NEW r \in TaskRec PROVE LeftBehind(r) \in TaskRec
BY IdleType DEF LeftBehind, TaskRec, TaskFields

LEMMA JobType ==
  ASSUME NEW op \in Ops, NEW pc \in TaskPCs,
         NEW w \in Workers \cup {NoWorker}, NEW s \in Sessions \cup {NoSession},
         op # "open"
  PROVE  Job(op, pc, w, s) \in TaskRec
BY DEF Job, Idle, TaskRec, TaskFields

LEMMA WithoutAnalysisType ==
  ASSUME NEW T \in TaskType, NEW w
  PROVE  WithoutAnalysis(T, w) \in TaskType
BY IdleType DEF WithoutAnalysis, TaskType

LEMMA PcType ==
  ASSUME NEW T \in TaskType, NEW t, NEW pc \in TaskPCs
  PROVE  [T EXCEPT ![t].pc = pc] \in TaskType
BY DEF TaskType, TaskRec, TaskFields

LEMMA RegisteredWorkers == TypeOK => Registered \subseteq Workers
BY DEF TypeOK, Registered

\* Pop leaves both dictionaries with entries of the same kind.
LEMMA PopType ==
  ASSUME TypeOK, NEW V, Pop(V)
  PROVE  /\ workers' \in [Paths -> Workers \cup {NoWorker}]
         /\ idToPath' \in [Ids -> Paths \cup {NoPath}]
BY DEF TypeOK, Pop

-----------------------------------------------------------------------------
(* Type correctness *)

LEMMA SpawnWorkerType ==
  ASSUME TypeOK, NEW t \in Tasks, NEW s \in Sessions, NEW p \in Paths,
         NEW W \in WkType, SpawnWorker(t, s, p, W),
         registered' \in SUBSET Sessions
  PROVE  TypeOK'
<1> DEFINE old == workers[p]
<1>1. old \in Workers \cup {NoWorker}
  BY DEF TypeOK
<1>2. task' \in TaskType
  BY IdleType DEF SpawnWorker, TypeOK, TaskType
<1>3. created' \in 0 .. MaxObjects
  BY PoolAssumption DEF SpawnWorker, TypeOK, Workers
<1>6. workers' \in [Paths -> Workers \cup {NoWorker}]
  BY PoolAssumption DEF SpawnWorker, TypeOK, Workers
<1>4. idToPath' \in [Ids -> Paths \cup {NoPath}]
  BY DEF SpawnWorker, TypeOK
<1>5. wk' \in WkType
<2>1. \A i \in Ids, v \in Workers \cup {NoWorker} : Opening(p, i, s, v) \in WorkerRec
    BY DEF Opening, NewWorker, WorkerRec, States, Procs, SpawnPCs
<2>2. CASE wk' = W
    BY <2>2
<2>3. CASE wk' = [W EXCEPT ![old] = Attached(@, s)]
    BY <2>3, AttachedType DEF WkType
<2>4. CASE \E i \in Ids, v \in Workers \cup {NoWorker} :
             wk' = [W EXCEPT ![created + 1] = Opening(p, i, s, v)]
    <3> PICK i \in Ids, v \in Workers \cup {NoWorker} :
            wk' = [W EXCEPT ![created + 1] = Opening(p, i, s, v)]
      BY <2>4
    <3> QED
      BY <2>1, UpdateType
<2> QED
    BY <1>1, <2>2, <2>3, <2>4 DEF SpawnWorker
<1> QED
  BY <1>2, <1>3, <1>4, <1>5, <1>6 DEF SpawnWorker, TypeOK, WkType, TaskType

LEMMA TypeOKInit == Init => TypeOK
BY PoolAssumption DEF Init, TypeOK, NewWorker, Idle, WorkerRec, TaskRec, TaskFields, States, Procs,
   SpawnPCs, Ops, TaskPCs

LEMMA TypeOKSpawning ==
  ASSUME TypeOK, NEW w \in Workers, Spawning(w)
  PROVE  TypeOK'
<1>0. wk \in WkType /\ wk[w] \in WorkerRec
  BY DEF TypeOK, WkType
<1>1. CASE SpawnStart(w)
  <2>1. [wk EXCEPT ![w] = Launched(wk[w])] \in WkType
    BY <1>0, LaunchedType, UpdateType
  <2>2. \A v : [Dying(wk, v) EXCEPT ![w].spawn = "closeStale"] \in WkType
    BY <1>0, DyingType, AtType DEF WkType, SpawnPCs
  <2> QED
    BY <1>1, <2>1, <2>2 DEF SpawnStart, TypeOK, WkType
<1>2. CASE SpawnStaleClosed(w)
  <2>1. \A v : [wk EXCEPT ![v].client = FALSE] \in WkType
    BY <1>0, RetireType DEF WkType
  <2>2. wk' \in WkType
    BY <1>2, <2>1, LaunchedType DEF SpawnStaleClosed, WkType
  <2> QED
    BY <1>2, <2>2 DEF SpawnStaleClosed, TypeOK, WkType
<1>3. CASE SpawnCommit(w)
  BY <1>0, <1>3, PublishedType, UpdateType DEF SpawnCommit, TypeOK, WkType
<1>4. CASE SpawnReady(w)
  <2>1. wk' \in WkType
    BY <1>0, <1>4, WatchedType, UpdateType DEF SpawnReady
  <2>2. task' \in TaskType
    BY <1>4, JobType DEF SpawnReady, TypeOK, TaskType, Ops, TaskPCs, Tasks
  <2> QED
    BY <1>4, <2>1, <2>2 DEF SpawnReady, TypeOK, WkType, TaskType
<1>5. CASE SpawnFails(w)
  BY <1>0, <1>5, FailingType, UpdateType DEF SpawnFails, TypeOK, WkType
<1>6. CASE SpawnMarkFailed(w)
  BY <1>0, <1>6, FailedType, UpdateType DEF SpawnMarkFailed, TypeOK, WkType
<1>7. CASE SpawnRemove(w)
  <2>1. wk' \in WkType
    BY <1>0, <1>7, AtType DEF SpawnRemove, WkType, SpawnPCs
  <2> QED
    BY <1>7, <2>1, PopType DEF SpawnRemove, TypeOK, WkType
<1> QED
  BY <1>1, <1>2, <1>3, <1>4, <1>5, <1>6, <1>7 DEF Spawning

LEMMA TypeOKClient ==
  ASSUME TypeOK, NEW t \in Requests, NEW s \in Sessions, NEW p \in Paths,
         \/ OpenDatabase(t, s, p) \/ OpenDetaching(t, s, p)
         \/ ToolCall(t, s, p) \/ ReadResource(t, s, p) \/ StartAnalysis(t, s, p)
         \/ JoinAnalysis(s, p) \/ CloseDetaches(t, s, p) \/ LateCall(t, s, p)
         \/ \E force \in BOOLEAN : SaveDatabase(t, s, p, force) \/ CloseTerminates(t, s, p, force)
  PROVE  TypeOK'
<1>0. /\ wk \in WkType /\ task \in TaskType /\ t \in Tasks
      /\ Registering(s) \in SUBSET Sessions /\ ended \cup {s} \in SUBSET Sessions
  BY DEF TypeOK, WkType, TaskType, Tasks, Registering
<1>1. CASE OpenDatabase(t, s, p)
  BY <1>0, <1>1, SpawnWorkerType DEF OpenDatabase
<1>2. CASE OpenDetaching(t, s, p)
  <2> DEFINE held == {w \in Active : s \in wk[w].sessions}
             last == {w \in held : wk[w].sessions = {s}}
             detached == Detach(wk, held, s)
  <2>1. detached \in WkType
    BY <1>0, DetachType
  <2>2. last \subseteq Workers
    BY RegisteredWorkers DEF Active
  <2>3. registered' \in SUBSET Sessions
    BY <1>0, <1>2 DEF OpenDetaching
  <2>4. CASE SpawnWorker(t, s, p, detached)
    BY <1>0, <2>1, <2>3, <2>4, SpawnWorkerType
  <2>5. ASSUME NEW w \in last, Pop(last), wk' = CancelSpawn(detached, w),
               task' = [task EXCEPT ![t] =
                          [Job("open", "awaitSpawn", w, s)
                             EXCEPT !.todo = last \ {w}, !.path = p]],
               UNCHANGED <<created, ended, phase>>
        PROVE  TypeOK'
    <3>1. wk' \in WkType
      BY <2>1, <2>5, CancelSpawnType
    <3>2. [Job("open", "awaitSpawn", w, s) EXCEPT !.todo = last \ {w}, !.path = p] \in TaskRec
      BY <2>2 DEF Job, Idle, TaskRec, TaskFields, Ops, TaskPCs
    <3>3. task' \in TaskType
      BY <1>0, <2>5, <3>2 DEF TaskType
    <3> QED
      BY <2>3, <2>5, <3>1, <3>3, PopType DEF TypeOK, WkType, TaskType
  <2> HIDE DEF held, last, detached
  <2> QED
    BY <1>2, <2>4, <2>5 DEF OpenDetaching, held, last, detached
<1>3. ASSUME NEW w \in Workers, Dispatch(t, s, w) PROVE TypeOK'
  <2>1. wk' \in WkType /\ task' \in TaskType
    BY <1>0, <1>3, AttachedType, JobType DEF Dispatch, WkType, TaskType, Ops, TaskPCs
  <2> QED
    BY <1>0, <1>3, <2>1 DEF Dispatch, TypeOK, WkType, TaskType
<1>4. CASE StartAnalysis(t, s, p)
  <2>1. wk' \in WkType /\ task' \in TaskType
    BY <1>0, <1>4, AttachedType, JobType DEF StartAnalysis, WkType, TaskType, Ops, TaskPCs
  <2> QED
    BY <1>0, <1>4, <2>1 DEF StartAnalysis, TypeOK, WkType, TaskType
<1>5. CASE CloseDetaches(t, s, p)
  BY <1>0, <1>5, DetachType DEF CloseDetaches, TypeOK, WkType
<1>6. ASSUME NEW force \in BOOLEAN, SaveDatabase(t, s, p, force) PROVE TypeOK'
  <2>1. task' \in TaskType
    BY <1>0, <1>6, JobType DEF SaveDatabase, TaskType, Ops, TaskPCs
  <2> QED
    BY <1>6, <2>1 DEF SaveDatabase, TypeOK, TaskType
<1>7. ASSUME NEW force \in BOOLEAN, CloseTerminates(t, s, p, force) PROVE TypeOK'
  <2> PICK w \in Workers :
         /\ Pop({w})
         /\ wk' = CancelSpawn(Detach(wk, {w}, s), w)
         /\ task' = [task EXCEPT ![t] =
                       Job(CloseOp(s, w, force), "awaitSpawn", w, s)]
    BY <1>7 DEF CloseTerminates
  <2>1. wk' \in WkType
    BY <1>0, DetachType, CancelSpawnType
  <2>2. task' \in TaskType
    BY <1>0, JobType DEF TaskType, Ops, TaskPCs, CloseOp
  <2> QED
    BY <1>7, <2>1, <2>2, PopType DEF CloseTerminates, TypeOK, WkType, TaskType
<1>8. CASE JoinAnalysis(s, p)
  <2>1. wk' \in WkType
    BY <1>0, <1>8, AttachedType DEF JoinAnalysis, WkType
  <2> QED
    BY <1>0, <1>8, <2>1 DEF JoinAnalysis, TypeOK, WkType
<1>9. CASE LateCall(t, s, p)
  <2>1. wk' \in WkType /\ task' \in TaskType
    BY <1>0, <1>9, AttachedType, JobType DEF LateCall, WkType, TaskType, Ops, TaskPCs
  <2> QED
    BY <1>0, <1>9, <2>1 DEF LateCall, TypeOK, WkType, TaskType
<1> QED
  BY <1>1, <1>2, <1>3, <1>4, <1>5, <1>6, <1>7, <1>8, <1>9 DEF ToolCall, ReadResource

LEMMA TypeOKTask ==
  ASSUME TypeOK, NEW t \in Tasks,
         Calling(t) \/ Closing(t) \/ (t \in Requests /\ CancelRequest(t))
  PROVE  TypeOK'
<1>0. /\ wk \in WkType /\ task \in TaskType /\ task[t] \in TaskRec
      /\ task[t].w \in Workers \cup {NoWorker}
  BY DEF TypeOK, WkType, TaskType, TaskRec, TaskFields
<1>a. [task EXCEPT ![t] = Idle] \in TaskType
  BY <1>0, IdleType DEF TaskType
<1>b. Dying(wk, task[t].w) \in WkType /\ WithoutAnalysis(task, task[t].w) \in TaskType
  BY <1>0, DyingType, WithoutAnalysisType
<1>c. ASSUME MarkDead(t, task[t].w), UNCHANGED <<created, registered, ended, phase>>
      PROVE  TypeOK'
  <2>1. wk' \in WkType /\ task' \in TaskType
    BY <1>0, <1>b, <1>c, PcType DEF MarkDead, TaskPCs
  <2> QED
    BY <1>c, <2>1, PopType DEF MarkDead, TypeOK, WkType, TaskType
<1>1. CASE QueuedDispatch(t)
  <2>1. CASE UNCHANGED <<workers, idToPath, wk>> /\ task' = [task EXCEPT ![t].pc = "sent"]
    <3>1. task' \in TaskType
      BY <1>0, <2>1, PcType DEF TaskPCs
    <3> QED
      BY <1>1, <2>1, <3>1 DEF QueuedDispatch, TypeOK, TaskType
  <2> QED
    BY <1>1, <1>c, <2>1 DEF QueuedDispatch
<1>2. CASE CallReturns(t)
  BY <1>2, <1>a DEF CallReturns, TypeOK, TaskType
<1>3. CASE CallFails(t)
  BY <1>3, <1>c DEF CallFails
<1>4. CASE SpawnAwaited(t)
  <2>1. wk' \in WkType
    BY <1>0, <1>4, <1>b DEF SpawnAwaited
  <2>2. \A pc \in TaskPCs :
          [WithoutAnalysis(task, task[t].w) EXCEPT ![t].pc = pc] \in TaskType
    BY <1>b, PcType
  <2>3. task' \in TaskType
    BY <1>4, <2>2 DEF SpawnAwaited, TaskPCs
  <2> QED
    BY <1>4, <2>1, <2>3 DEF SpawnAwaited, TypeOK, WkType, TaskType
<1>5. CASE SaveEnds(t)
  <2>1. wk' \in WkType /\ task' \in TaskType
    BY <1>0, <1>5, <1>b, PcType DEF SaveEnds, TaskPCs
  <2> QED
    BY <1>5, <2>1 DEF SaveEnds, TypeOK, WkType, TaskType
<1>6. CASE ClientClosed(t)
  <2> DEFINE closed == [wk EXCEPT ![task[t].w].client = FALSE]
  <2>1. closed \in WkType
    BY <1>0, RetireType DEF WkType
  <2>2. registered' \in SUBSET Sessions
    BY <1>6 DEF ClientClosed, TypeOK
  <2>3. CASE /\ wk' = closed /\ task' = [task EXCEPT ![t] = Idle]
             /\ UNCHANGED <<workers, idToPath, created, ended, phase>>
    BY <1>a, <2>1, <2>2, <2>3 DEF TypeOK, WkType, TaskType
  <2>4. CASE task[t].op = "open" /\ SpawnWorker(t, task[t].s, task[t].path, closed)
    BY <1>0, <2>1, <2>2, <2>4, SpawnWorkerType DEF TaskRec
  <2>5. ASSUME NEW v \in task[t].todo, wk' = CancelSpawn(closed, v),
               task' = [task EXCEPT ![t] = NowClosing(@, v)],
               UNCHANGED <<workers, idToPath, created, ended, phase>>
        PROVE  TypeOK'
    <3>1. wk' \in WkType
      BY <2>1, <2>5, CancelSpawnType
    <3>2. NowClosing(task[t], v) \in TaskRec
      BY <1>0 DEF NowClosing, TaskRec, TaskFields, TaskPCs
    <3>3. task' \in TaskType
      BY <1>0, <2>5, <3>2 DEF TaskType
    <3> QED
      BY <2>2, <2>5, <3>1, <3>3 DEF TypeOK, WkType, TaskType
  <2> HIDE DEF closed
  <2> QED
    BY <1>6, <2>3, <2>4, <2>5 DEF ClientClosed, closed
<1>7. CASE CancelRequest(t)
  <2>1. wk' \in WkType
    BY <1>0, <1>7, CancelSpawnType, DyingType DEF CancelRequest, CutShort
  <2>2. task' \in TaskType
    BY <1>0, <1>7, <1>b, IdleType, LeftBehindType DEF CancelRequest, TaskType
  <2> QED
    BY <1>7, <2>1, <2>2 DEF CancelRequest, TypeOK, WkType, TaskType
<1> QED
  BY <1>1, <1>2, <1>3, <1>4, <1>5, <1>6, <1>7 DEF Calling, Closing

LEMMA TypeOKRest ==
  ASSUME TypeOK,
         \/ \E s \in Sessions : Disconnect(s) \/ DisconnectUnnoticed(s) \/ Connect(s)
         \/ \E w \in Workers : ProcessDies(w) \/ ProcessReaped(w) \/ DeathWatch(w)
         \/ Shutdown \/ Stopping
  PROVE  TypeOK'
<1>0. wk \in WkType /\ task \in TaskType /\ Registered \subseteq Workers
  BY RegisteredWorkers DEF TypeOK, WkType, TaskType
<1>1. ASSUME NEW s \in Sessions, Disconnect(s) PROVE TypeOK'
  BY <1>0, <1>1, DetachType DEF Disconnect, DetachAll, TypeOK, WkType
<1>2. ASSUME NEW w \in Workers, ProcessDies(w) \/ ProcessReaped(w) PROVE TypeOK'
  <2>1. [wk[w] EXCEPT !.proc = "down"] \in WorkerRec
    BY <1>0 DEF WkType, WorkerRec, Procs
  <2>2. wk' \in WkType
    BY <1>0, <1>2, <2>1 DEF ProcessDies, ProcessReaped, WkType
  <2> QED
    BY <1>2, <2>2 DEF ProcessDies, ProcessReaped, TypeOK, WkType
<1>3. ASSUME NEW w \in Workers, DeathWatch(w) PROVE TypeOK'
  <2>1. [wk[w] EXCEPT !.state = "DEAD", !.watched = FALSE] \in WorkerRec
    BY <1>0 DEF WkType, WorkerRec, States
  <2>2. wk' \in WkType
    BY <1>0, <1>3, <2>1 DEF DeathWatch, WkType
  <2> QED
    BY <1>3, <2>2 DEF DeathWatch, TypeOK, WkType
<1>4. CASE Shutdown
  <2>1. task' \in TaskType
    BY <1>0, <1>4, JobType DEF Shutdown, TaskType, Ops, TaskPCs
  <2> QED
    BY <1>4, <2>1 DEF Shutdown, TypeOK, TaskType
<1>5. ASSUME NEW p \in Paths, TerminateWorker(p) PROVE TypeOK'
  <2>0. workers[p] \in Workers \cup {NoWorker} /\ p \in Tasks
    BY DEF TypeOK, Tasks
  <2>1. wk' \in WkType
    BY <1>0, <1>5, CancelSpawnType DEF TerminateWorker
  <2>2. task' \in TaskType
    BY <1>0, <1>5, <2>0, JobType DEF TerminateWorker, TaskType, Ops, TaskPCs
  <2> QED
    BY <1>5, <2>1, <2>2, PopType DEF TerminateWorker, TypeOK, WkType, TaskType
<1>6. CASE AbortShutdown
  <2>1. wk' \in WkType
    <3>1. \A w \in Workers : CutShort(wk, w)[w] \in WorkerRec /\ CancelSpawn(wk, w)[w] \in WorkerRec
      BY <1>0, CancelSpawnType, DyingType DEF CutShort, WkType
    <3> QED
      BY <1>0, <1>6, <3>1 DEF AbortShutdown, WkType
  <2>2. task' \in TaskType
    <3>1. \A p \in Paths : Job("reap", "awaitSpawn", workers[p], NoSession) \in TaskRec
      BY JobType DEF TypeOK, Ops, TaskPCs
    <3> QED
      BY <1>0, <1>6, <3>1, IdleType DEF AbortShutdown, TaskType, Tasks
  <2> QED
    BY <1>6, <2>1, <2>2 DEF AbortShutdown, TypeOK, WkType, TaskType
<1>7. ASSUME NEW p \in Paths, ForceClose(p) PROVE TypeOK'
  <2>1. wk' \in WkType
    BY <1>0, <1>7, DyingType DEF ForceClose
  <2>2. WithoutAnalysis(task, task[p].w) \in TaskType
    BY <1>0, WithoutAnalysisType
  <2>3. [WithoutAnalysis(task, task[p].w) EXCEPT ![p].pc = "closeClient"] \in TaskType
    BY <2>2, PcType DEF TaskPCs
  <2> QED
    BY <1>7, <2>1, <2>3 DEF ForceClose, TypeOK, WkType, TaskType
<1>8. CASE ShutdownDone
  BY <1>8 DEF ShutdownDone, TypeOK
<1>9. ASSUME NEW s \in Sessions, DisconnectUnnoticed(s) \/ Connect(s) PROVE TypeOK'
  BY <1>9 DEF DisconnectUnnoticed, Connect, TypeOK
<1> QED
  BY <1>1, <1>2, <1>3, <1>4, <1>5, <1>6, <1>7, <1>8, <1>9
     DEF Stopping, TerminateMissing, ShutdownDeadline

LEMMA TypeOKNext == TypeOK /\ [Next]_vars => TypeOK'
<1> SUFFICES ASSUME TypeOK, [Next]_vars PROVE TypeOK'
  OBVIOUS
<1>1. CASE UNCHANGED vars
  BY <1>1 DEF vars, TypeOK
<1>2. CASE Client
  <2>1. Requests \subseteq Tasks
    BY DEF Tasks
  <2> QED
    BY <1>2, <2>1, TypeOKClient, TypeOKTask, TypeOKRest DEF Client, Connected
<1>3. CASE \E w \in Workers : Spawning(w)
  BY <1>3, TypeOKSpawning
<1>4. CASE \E t \in Tasks : Calling(t) \/ Closing(t)
  BY <1>4, TypeOKTask
<1>5. CASE (\E w \in Workers : ProcessDies(w) \/ ProcessReaped(w) \/ DeathWatch(w)) \/ Stopping
  BY <1>5, TypeOKRest
<1> QED
  BY <1>1, <1>2, <1>3, <1>4, <1>5 DEF Next

\* Every reachable state is well typed: in particular task.w, todo and the
\* registry only ever hold workers that exist, whatever dies or is cancelled.
THEOREM TypeCorrect == Spec => []TypeOK
BY TypeOKInit, TypeOKNext, PTL DEF Spec
=============================================================================
